---------------------------- MODULE MCAssessment ----------------------------
(***************************************************************************)
(* One instance of TrustEvaluator, ValidationGate, TradeRemoval,           *)
(* StatefulReplay and CorpusQualification for TLC, explored along seven    *)
(* scenarios:                                                              *)
(*   trust       a cell with two good trades, of which other facts come to *)
(*               be recorded while it is evaluated twice                   *)
(*   scorecards  two callers score two runs from sessions that agree at    *)
(*               first                                                     *)
(*   approval    two callers take one run from its scorecard to a decision *)
(*   removal     two sessions study the vetoes while trades come to close  *)
(*               and opinions to be formed                                 *)
(*   tracks      a sample is lived through with and without its vetoes,    *)
(*               while another session trades on the cell                  *)
(*   enrollment  two calls enroll two contracts beside other writers       *)
(*   corpus      a corpus of two decision times is qualified twice, as     *)
(*               contracts are enrolled and retired and evidence comes in  *)
(***************************************************************************)
EXTENDS TrustEvaluator, ValidationGate, TradeRemoval, StatefulReplay, CorpusQualification

CONSTANTS ann, ben, first, second, alpha_cell, beta_cell, SPY

VARIABLE scenario

\* Trust: times from 1 on; two trades of the full evidence are on record.
Trade(id, at, pnl, mfe, settled) ==
  [id |-> id, at |-> at, trade |-> 10 - id, pnl |-> pnl, risk |-> 1, mfe |-> mfe, mae |-> 1,
   regime |-> "TREND", compliant |-> pnl >= 0, settled |-> settled]
EquityPoint(at, equity) == [id |-> at, at |-> at, equity |-> equity]
Fill(id, at, side, price) == [id |-> id, at |-> at, side |-> side, price |-> price, quantity |-> 1]
Audit(id, at, what, clean) == [id |-> id, at |-> at, what |-> what, clean |-> clean]
Decision(intent, verdict, at) == [intent |-> intent, verdict |-> verdict, session |-> 1, at |-> at]

GoodHistory ==
  [trades |-> {Trade(1, 1, 4, 3, TRUE), Trade(2, 2, 2, 3, TRUE)},
   equity |-> {EquityPoint(1, 100), EquityPoint(2, 98)},
   audits |-> {Audit(1, 1, "reconciliation", TRUE), Audit(2, 1, "post_halt", TRUE),
               Audit(3, 1, "parameter", TRUE)},
   breaches |-> {},
   fills |-> {Fill(1, 2, "BUY", 100)}, references |-> {[fill |-> 1, price |-> 100]},
   decisions |-> {Decision(1, "AUTHORIZED", 1)}, orders |-> {[intent |-> 1, at |-> 2]},
   halts |-> {}]
\* The equity falls further and an execution costs more.
PoorHistory ==
  [GoodHistory EXCEPT !.equity = {EquityPoint(1, 100), [EquityPoint(2, 60) EXCEPT !.id = 4]},
                      !.fills = {Fill(1, 2, "BUY", 160)}]
MC_Histories == {GoodHistory, PoorHistory}

MC_Possible ==
  [trades |-> {Trade(3, 3, -4, 1, TRUE), Trade(4, 4, 6, 3, TRUE), Trade(5, 4, 1, 1, None)},
   equity |-> {EquityPoint(3, 80)},
   audits |-> {Audit(4, 3, "parameter", FALSE), Audit(5, 4, "parameter", TRUE)},
   breaches |-> {[type |-> "PARAMETER_BYPASS", id |-> 1, at |-> 1],
                 [type |-> "UNKNOWN", id |-> 2, at |-> 3]},
   fills |-> {Fill(2, 2, "SELL", 900)}, references |-> {[fill |-> 2, price |-> 100]},
   decisions |-> {Decision(2, "AUTHORIZED", 2), Decision(2, "REJECTED", 3)},
   orders |-> {[intent |-> 2, at |-> 3]},
   halts |-> {[session |-> 1, at |-> 2]}]

MC_Promotion == [t \in {"GUARDED", "CAPITAL_BUILDER"} |-> IF t = "GUARDED" THEN 7000 ELSE 8500]
MC_Demotion == [t \in {"GUARDED", "CAPITAL_BUILDER"} |-> IF t = "GUARDED" THEN 5500 ELSE 7000]

\* Validation: the facts agree on two days and go on differently.
Session(day, pnl, market) ==
  [day |-> day, pnl |-> pnl, drawdown |-> 10, trades |-> 2, winning |-> 1, losing |-> 1,
   breakeven |-> 0, market_return |-> market, vix |-> IF day = 1 THEN 2600 ELSE 1400,
   rate_change |-> IF day = 2 THEN -2500 ELSE Absent, event_count |-> day]
Start == <<Session(1, 50, 120), Session(2, -20, -100), Session(3, 70, 0)>>
MC_FactSets == {Start \o <<Session(4, 90, 10)>>, Start \o <<Session(4, 30, 10)>>,
                SubSeq(Start, 1, 2), <<Session(2, 5, 0), Session(1, 5, 0)>>}
MC_Runs == {first, second}
MC_Datasets ==
  [r \in MC_Runs |->
     [fidelity |-> "TIER_1_QUOTE_DEPTH", manifest |-> "sha", artifacts |-> {"raw", "normalized"},
      bound |-> TRUE]]
Claimed == {Start \o <<Session(4, 90, 10)>>, SubSeq(Start, 1, 2)}
Claims == [facts : Claimed, executed_at : {1}]
Sound ==
  {[expected |-> 10, observed |-> 9, gaps |-> 1, lookahead |-> 0, rth_adherence |-> 10000,
    executions |-> 5, execution_quality |-> 9000, oos_sessions |-> 2, in_sample |-> 10, oos |-> 9,
    largest_profit |-> 90, context |-> 4, aligned |-> 4, dataset |-> "sha", scorecard |-> claim,
    artifacts |-> {"raw", "normalized"}] : claim \in Claims}
MC_Evidences ==
  Sound \cup {[e EXCEPT !.rth_adherence = 9900] : e \in Sound}
        \cup {[e EXCEPT !.oos = Absent] : e \in Sound}
        \cup {[e EXCEPT !.oos = 2, !.largest_profit = 200] : e \in Sound}
        \cup {[e EXCEPT !.oos = 100] : e \in Sound}
MC_Times == {1, 2}
MC_Callers == {ann, ben}

\* Removal: two closes of one intent, half cents, and a fill that is booked on
\* another cell than its intent's.
MC_Closing ==
  <<[intent |-> 1, cell |-> alpha_cell, booked |-> alpha_cell, pnl |-> 9, at |-> 2],
    [intent |-> 2, cell |-> alpha_cell, booked |-> alpha_cell, pnl |-> -3, at |-> 3],
    [intent |-> 1, cell |-> alpha_cell, booked |-> alpha_cell, pnl |-> 8, at |-> 3],
    [intent |-> 3, cell |-> beta_cell, booked |-> alpha_cell, pnl |-> 5, at |-> 3]>>
MC_CreatedAt == <<1, 2, 3>>
Thought(intent, opinion, reason, at) ==
  [intent |-> intent, opinion |-> opinion, reason |-> reason, at |-> at]
MC_Thoughts ==
  {Thought(1, "WOULD_HAVE_VETOED", "MACRO", 1), Thought(1, "WOULD_HAVE_VETOED", "MACRO", 2),
   Thought(2, "WOULD_HAVE_VETOED", "DILUTION", 2), Thought(2, "ALIGNED", "", 3)}
MC_Samples ==
  {[cell |-> alpha_cell, from |-> 1, to |-> 4], [cell |-> AnyCell, from |-> 2, to |-> 3]}

\* Tracks: a loss halts the first day before a profit that pays a genesis,
\* and the opinions on some of the trades are of any kind.
MC_Opportunity ==
  <<[day |-> 1, pnl |-> -6], [day |-> 1, pnl |-> 10], [day |-> 2, pnl |-> -3],
    [day |-> 2, pnl |-> 5], [day |-> 2, pnl |-> -4], [day |-> 3, pnl |-> 11],
    [day |-> 4, pnl |-> -2]>>
MC_Objections == SUBSET {1, 3, 4, 5, 7}
MC_Windows == {[from |-> 1, to |-> 4], [from |-> 0, to |-> 4], [from |-> 1, to |-> 3],
               [from |-> 2, to |-> 1]}

\* Corpus: of contract 2, two spellings and one that does not parse; others
\* list contract 1 under a name of theirs, or take the symbol of contract 2.
Discovery(key, contract, at, fault) == [key |-> key, contract |-> contract, at |-> at, fault |-> fault]
MC_Batches ==
  {{Discovery("a", 1, 2, ""), Discovery("b", 2, 1, "")},
   {Discovery("b", 2, 3, ""), Discovery("B", 2, 2, ""), Discovery("x", 2, 1, "expiration")}}
MC_ForeignRows ==
  {[id |-> -1, symbol |-> -1, contract |-> 1], [id |-> -2, symbol |-> 2, contract |-> 2]}
MC_Block == <<99, 1>>
MC_Points == {[symbol |-> SPY, at |-> at] : at \in {1, 2}}
Quote(contract, firm) == [contract |-> contract, firm |-> firm, traded |-> ~firm]
MC_Chains ==
  {[symbol |-> SPY, at |-> 1, quotes |-> {Quote(1, TRUE), Quote(2, TRUE)}],
   [symbol |-> SPY, at |-> 2, quotes |-> {Quote(1, TRUE), Quote(2, TRUE)}],
   [symbol |-> SPY, at |-> 2, quotes |-> {Quote(2, FALSE)}]}

MCInit ==
  /\ TrustInit /\ ValidationInit /\ RemovalInit /\ StatefulInit
  /\ EnrollmentInit /\ QualificationInit
  /\ scenario \in
       {"trust", "scorecards", "approval", "removal", "tracks", "enrollment", "corpus"}
  /\ scenario # "tracks" => objected = {}
  /\ scenario # "trust" => facts = GoodHistory /\ tier = "GUARDED"

corpusVars == <<enrollmentVars, qualificationVars>>

Trust ==
  /\ Len(evaluations) < MaxEvaluations /\ TrustNext
  /\ UNCHANGED <<validationVars, removalVars, statefulVars, corpusVars>>

Scorecards ==
  /\ \E c \in Callers :
       \/ Insert(c) \/ GiveUp(c)
       \/ \E r \in Runs, sessions \in FactSets : EvaluateScorecard(c, r, sessions, 1)
  /\ UNCHANGED <<trustVars, removalVars, statefulVars, corpusVars>>

Approval ==
  /\ \E c \in Callers :
       \/ Insert(c) \/ GiveUp(c)
       \/ \E sessions \in Claimed, at \in Times : EvaluateScorecard(c, first, sessions, at)
       \/ \E e \in Evidences : EvaluateConfidence(c, first, e, 1)
       \/ \E decision \in Decisions, at \in Times : RecordDecision(c, first, decision, at)
  /\ UNCHANGED <<trustVars, removalVars, statefulVars, corpusVars>>

\* Nothing is studied before three of the closes are on record.
Removal ==
  /\ RemovalNext
  /\ drafts' = drafts \/ Cardinality(closed) >= 3
  /\ UNCHANGED <<trustVars, validationVars, statefulVars, corpusVars>>

Lived ==
  /\ StatefulNext
  /\ UNCHANGED <<trustVars, validationVars, removalVars, corpusVars>>

Enrollment ==
  /\ EnrollmentNext
  /\ UNCHANGED <<trustVars, validationVars, removalVars, statefulVars, qualificationVars>>

\* One call at a time, and no other writers but for the retirement of contract 1.
Corpus ==
  /\ QualificationNext
  /\ calls'[ben] = Resting /\ underlying'
  /\ \A r \in instruments' : r.id > 0 /\ (r.retired => r.id = 1)
  /\ UNCHANGED <<trustVars, validationVars, removalVars, statefulVars>>

MCNext ==
  /\ \/ scenario = "trust" /\ Trust
     \/ scenario = "scorecards" /\ Scorecards
     \/ scenario = "approval" /\ Approval
     \/ scenario = "removal" /\ Removal
     \/ scenario = "tracks" /\ Lived
     \/ scenario = "enrollment" /\ Enrollment
     \/ scenario = "corpus" /\ Corpus
  /\ UNCHANGED scenario

MCSpec == MCInit /\ [][MCNext]_<<trustVars, validationVars, removalVars, statefulVars, corpusVars, scenario>>
=============================================================================
