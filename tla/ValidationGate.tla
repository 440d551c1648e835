--------------------------- MODULE ValidationGate ---------------------------
(***************************************************************************)
(* The way from a historical replay to the approval for live trading       *)
(* (engine/validation/): a scorecard of the run, a ledger of the           *)
(* confidence its evidence deserves, and one human decision.  Each is      *)
(* written once for a run; a call that finds it on record has to say       *)
(* the same or is refused (migrations 0024 to 0026).                       *)
(*                                                                         *)
(* A call reads, computes its row, and inserts it in the transaction of    *)
(* its caller: insert and commit are one step here.  A second insert of    *)
(* the same key waits for that commit and is refused.  A refused call      *)
(* changes nothing: its action is not enabled, or it gives up its row.     *)
(***************************************************************************)
EXTENDS Scorecard

CONSTANTS
  Callers,
  Runs,          \* runs: cell, dataset, scope and multi-year manifest
  Datasets,      \* of each run: [fidelity, manifest, artifacts, bound]
  FactSets,      \* the sequences of session facts a run may be scored from
  Evidences,     \* the evidence a ledger may be made of
  Times,         \* executed_at, evaluated_at and decided_at
  MinSessions, MinTrades, MinDays, MinOosSessions   \* 500, 150, 5 years, 250

Decisions == {"ACCEPTED_FOR_LIVE", "REJECTED", "CONDITIONAL_REVIEW"}
Kinds == {"scorecard", "confidence", "decision"}
Hundredths == 0..10000
Fidelities == {"TIER_1_QUOTE_DEPTH", "TIER_2_TRADE_HISTORY", "TIER_3_BAR_ONLY"}

ASSUME ValidationAssumption ==
  /\ \A n \in {MinSessions, MinTrades, MinDays, MinOosSessions, MINIMUM_BENCHMARK} : n \in Nat \ {0}
  /\ Absent \notin Int
  /\ FactSets \subseteq Seq(SessionFacts)
  /\ \A e \in Evidences :
       /\ {e.expected, e.observed, e.gaps, e.lookahead, e.executions, e.oos_sessions,
           e.largest_profit, e.context, e.aligned} \subseteq Nat
       /\ {e.rth_adherence, e.execution_quality} \subseteq Hundredths
       /\ {e.in_sample, e.oos} \subseteq Int \cup {Absent}
  /\ \A r \in Runs : Datasets[r].fidelity \in Fidelities

VARIABLES
  rows,      \* of each kind and run: what is on record, NoRow before
  work,      \* of each caller: the row it is about to insert
  answers    \* what the calls have returned

validationVars == <<rows, work, answers>>

Idle == [kind |-> "none"]
NoRow == [row |-> "none"]

ValidationInit ==
  /\ rows = [k \in Kinds |-> [r \in Runs |-> NoRow]]
  /\ work = [c \in Callers |-> Idle]
  /\ answers = {}

\* With the row computed: what is on record is confirmed or contradicted, else
\* the row is to be inserted.
Submit(c, kind, r, row) ==
  /\ work[c] = Idle
  /\ \/ /\ rows[kind][r] = NoRow
        /\ work' = [work EXCEPT ![c] = [kind |-> kind, run |-> r, row |-> row]]
        /\ UNCHANGED answers
     \/ /\ rows[kind][r] = row
        /\ answers' = answers \cup {[kind |-> kind, run |-> r, row |-> row]}
        /\ UNCHANGED work
  /\ UNCHANGED rows

\* The primary key of the row is not taken.
Free(w) == rows[w.kind][w.run] = NoRow

\* flush, and the caller's commit
Insert(c) ==
  /\ work[c] # Idle /\ Free(work[c])
  /\ rows' = [rows EXCEPT ![work[c].kind][work[c].run] = work[c].row]
  /\ answers' = answers \cup {work[c]}
  /\ work' = [work EXCEPT ![c] = Idle]

\* The insert is refused, or the caller rolls back.
GiveUp(c) ==
  /\ work[c] # Idle
  /\ work' = [work EXCEPT ![c] = Idle]
  /\ UNCHANGED <<rows, answers>>

\* ValidationScorecardEngine.evaluate
EvaluateScorecard(c, r, facts, at) ==
  /\ Chronicle(facts)
  /\ Submit(c, "scorecard", r, ScorecardOf(facts, at))

----------------------------------------------------------------------------
(* Confidence: seven factors, from 0 to 100 percent, and six gates.        *)

Least(x, y) == IF x <= y THEN x ELSE y

\* _q of num / den in percent: within 0 and 100, rounded half up to hundredths.
Percent(num, den) == IF num <= 0 THEN 0 ELSE Least(10000, (20000 * num + den) \div (2 * den))

Factor(score, sufficient) == [score |-> score, sufficient |-> sufficient]

Ceiling(fidelity) ==
  CASE fidelity = "TIER_1_QUOTE_DEPTH" -> 10000
    [] fidelity = "TIER_2_TRADE_HISTORY" -> 7500
    [] fidelity = "TIER_3_BAR_ONLY" -> 4000

\* From the midnight before the first session to the one after the last.
Days(card) == card.last - card.first + 1

SampleSize(card) ==
  LET sessions == Least(card.summary.total_sessions, MinSessions)
      trades == Least(card.summary.total_trades, MinTrades)
      days == Least(Days(card), MinDays)
  IN Factor(Percent(sessions * MinTrades * MinDays + trades * MinSessions * MinDays
                      + days * MinSessions * MinTrades,
                    3 * MinSessions * MinTrades * MinDays), TRUE)

RegimeCoverage(card) ==
  LET count == Cardinality(DOMAIN card.slices) IN Factor(Percent(count, 7), count > 0)

DataCompleteness(e) ==
  IF e.expected = 0 THEN Factor(Absent, FALSE)
  ELSE Factor(Percent(e.expected - e.gaps, e.expected), TRUE)

ExecutionRealism(e, fidelity) ==
  IF e.executions = 0 THEN Factor(Absent, FALSE)
  ELSE Factor(Least(e.execution_quality, Ceiling(fidelity)), TRUE)

PositiveBaseline(e) == e.in_sample # Absent /\ e.in_sample > 0

OosStability(e) ==
  IF ~PositiveBaseline(e) THEN Factor(0, FALSE)
  ELSE IF e.oos = Absent \/ e.oos_sessions = 0 THEN Factor(Absent, FALSE)
  ELSE Factor(Percent(e.oos, e.in_sample), TRUE)

ProfitDistribution(card, e) ==
  LET gross == card.summary.gross_profit IN
  IF gross <= 0 THEN Factor(0, TRUE) ELSE Factor(Percent(gross - e.largest_profit, gross), TRUE)

ContextAlignment(e) ==
  IF e.context = 0 THEN Factor(Absent, FALSE) ELSE Factor(Percent(e.aligned, e.context), TRUE)

\* _factors, in the order of the weights
Factors(card, fidelity, e) ==
  <<SampleSize(card), RegimeCoverage(card), DataCompleteness(e), ExecutionRealism(e, fidelity),
    OosStability(e), ProfitDistribution(card, e), ContextAlignment(e)>>

\* Six weights of 15 percent and one of 10; what is missing counts nothing.
Composite(factors) ==
  LET Score(i) == IF factors[i].score = Absent THEN 0 ELSE factors[i].score
  IN (15 * (Score(1) + Score(2) + Score(3) + Score(4) + Score(5) + Score(6)) + 10 * Score(7) + 50)
       \div 100

\* _verify_lineage: the hashes the evidence claims are those on record.
LineageVerified(r, card, e) ==
  /\ e.dataset = Datasets[r].manifest
  /\ e.scorecard = card.manifest
  /\ Datasets[r].bound
  /\ Datasets[r].artifacts # {} /\ e.artifacts = Datasets[r].artifacts

Causal_Fault(e) == e.lookahead = 0

Causal(e) == e.lookahead = 0 /\ e.rth_adherence = 10000

\* _hard_gates
HardGates(r, card, e, factors) ==
  [minimum_sample_breadth |->
     /\ card.summary.total_sessions >= MinSessions
     /\ card.summary.total_trades >= MinTrades
     /\ Days(card) >= MinDays,
   causal_integrity |-> Causal(e),
   cryptographic_lineage |-> LineageVerified(r, card, e),
   execution_fidelity_tier |-> Datasets[r].fidelity # "TIER_3_BAR_ONLY",
   oos_evidence_sufficiency |-> e.oos_sessions >= MinOosSessions /\ PositiveBaseline(e),
   required_factor_sufficiency |-> \A i \in DOMAIN factors : factors[i].sufficient]

Tier(score) ==
  IF score >= 8000 THEN "HIGH_CONFIDENCE"
  ELSE IF score >= 6500 THEN "MODERATE_CONFIDENCE" ELSE "LOW_CONFIDENCE"

\* The ledger of a run with the scorecard, made of evidence at a time.
Ledger(r, card, e, at) ==
  LET factors == Factors(card, Datasets[r].fidelity, e)
      gates == HardGates(r, card, e, factors)
      passed == \A g \in DOMAIN gates : gates[g]
      score == Composite(factors)
  IN [factors |-> factors, gates |-> gates, hard_gate_passed |-> passed, score |-> score,
      tier |-> Tier(score), eligible |-> score >= 8000 /\ passed, evidence |-> e,
      evaluated_at |-> at]

\* EvidenceConfidenceEngine.evaluate
EvaluateConfidence(c, r, e, at) ==
  /\ rows["scorecard"][r] # NoRow
  /\ e.observed + e.gaps <= e.expected /\ e.aligned <= e.context
  /\ Submit(c, "confidence", r, Ledger(r, rows["scorecard"][r], e, at))

\* HumanValidationGateService.record_human_decision
RecordDecision(c, r, decision, at) ==
  LET ledger == rows["confidence"][r]
      card == rows["scorecard"][r]
  IN /\ ledger # NoRow /\ card # NoRow
     /\ decision = "ACCEPTED_FOR_LIVE" =>
          ledger.eligible /\ ledger.hard_gate_passed /\ ledger.score >= 8000
     /\ Submit(c, "decision", r,
          [decision |-> decision, score |-> ledger.score, gates |-> ledger.hard_gate_passed,
           eligible |-> ledger.eligible, confidence |-> ledger, scorecard |-> card.manifest,
           decided_at |-> at])

ValidationNext ==
  \E c \in Callers :
    \/ Insert(c) \/ GiveUp(c)
    \/ \E r \in Runs, at \in Times :
         \/ \E facts \in FactSets : EvaluateScorecard(c, r, facts, at)
         \/ \E e \in Evidences : EvaluateConfidence(c, r, e, at)
         \/ \E decision \in Decisions : RecordDecision(c, r, decision, at)

ValidationSpec == ValidationInit /\ [][ValidationNext]_validationVars

----------------------------------------------------------------------------
(* Properties                                                              *)

Card(r) == rows["scorecard"][r]
Confidence(r) == rows["confidence"][r]
Decided(r) == rows["decision"][r]

\* The rows satisfy the CHECK constraints of their tables: a score is a
\* percentage, its tier agrees with it, and a run is eligible by its score and
\* its gates together (migration 0025).
ValidationTypeOK ==
  /\ \A c \in Callers : work[c] = Idle \/ (work[c].kind \in Kinds /\ work[c].run \in Runs)
  /\ \A r \in Runs :
       /\ Confidence(r) # NoRow =>
            LET l == Confidence(r) IN
            /\ l.score \in Hundredths
            /\ (l.tier = "HIGH_CONFIDENCE") <=> (l.score >= 8000)
            /\ (l.tier = "LOW_CONFIDENCE") <=> (l.score < 6500)
            /\ l.eligible <=> (l.score >= 8000 /\ l.hard_gate_passed)
       /\ Decided(r) # NoRow => Decided(r).decision \in Decisions

\* A session's standing as of its day is the same in every scorecard that has
\* the same sessions up to it, whatever came after (scorecard_engine.py, AS_OF).
AsOfIgnoresTheFuture ==
  \A q, r \in Runs :
    Card(q) # NoRow /\ Card(r) # NoRow =>
      LET x == Card(q).manifest.facts
          y == Card(r).manifest.facts
      IN \A i \in (DOMAIN x) \cap (DOMAIN y) :
           SubSeq(x, 1, i) = SubSeq(y, 1, i) =>
             /\ Card(q).bands[i].as_of = Card(r).bands[i].as_of
             /\ Card(q).bands[i].as_of_percentile = Card(r).bands[i].as_of_percentile
             /\ Card(q).distributions[i + 1] = Card(r).distributions[i + 1]

\* The percentiles of a distribution rise, as its table demands, and lie within
\* the results they are of (dist_sufficiency_and_monotonicity): all of them for
\* the first, those before its session for one as of a session.
DistributionsRise ==
  \A r \in Runs :
    Card(r) # NoRow =>
      \A i \in DOMAIN Card(r).distributions :
        LET p == Card(r).distributions[i].percentiles
            all == Results(Card(r).manifest.facts)
            pnls == Range(IF i = 1 THEN all ELSE AsOf(all, i - 1))
        IN /\ \A j \in 1..(Len(p) - 1) : p[j] <= p[j + 1]
           /\ \A j \in DOMAIN p : 100 * Min(pnls) <= p[j] /\ p[j] <= 100 * Max(pnls)

\* What a caller was told is what is on record ever after, though calls with
\* other facts, evidence, decisions or clocks run at the same time.
AnswersAreOnRecord == \A a \in answers : rows[a.kind][a.run] = a.row

\* Sessions enough, over days enough, with trades enough.
BroadEnough(facts) ==
  /\ Len(facts) >= MinSessions
  /\ facts[Len(facts)].day - facts[1].day + 1 >= MinDays
  /\ Sum(LAMBDA f : f.winning + f.losing + f.breakeven, facts) >= MinTrades

\* A run accepted for live trading has evidence that saw no bar before its time,
\* is of the scorecard on record, of long enough a replay and enough trades,
\* on data better than bars; and the decision binds the ledger and the
\* scorecard that are on record.
AcceptanceRestsOnEvidence ==
  \A r \in Runs :
    (Decided(r) # NoRow /\ Decided(r).decision = "ACCEPTED_FOR_LIVE") =>
      /\ Decided(r).confidence = Confidence(r) /\ Decided(r).scorecard = Card(r).manifest
      /\ BroadEnough(Card(r).manifest.facts)
      /\ LET e == Confidence(r).evidence
         IN /\ e.scorecard = Card(r).manifest
            /\ e.lookahead = 0 /\ e.rth_adherence = 10000
            /\ Datasets[r].fidelity # "TIER_3_BAR_ONLY"
            /\ e.oos_sessions >= MinOosSessions /\ e.executions > 0 /\ e.context > 0
            /\ e.oos # Absent /\ e.in_sample > 0

\* What was answered and what was accepted stands on what is on record, and the
\* standings of the sessions are of their time and in their order.
AnswersHold ==
  /\ ValidationTypeOK /\ AsOfIgnoresTheFuture /\ DistributionsRise
  /\ AnswersAreOnRecord /\ AcceptanceRestsOnEvidence
=============================================================================
