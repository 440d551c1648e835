------------------------ MODULE CorpusQualification -------------------------
(***************************************************************************)
(* CorpusQualificationEngine (engine/data/corpus_qualifier.py): is what a  *)
(* provider has of a pilot window good enough to replay?  The evidence is  *)
(* what the normalizer let through: the minutes of the underlyings, and    *)
(* the option chains at the times decisions were made.                     *)
(*                                                                         *)
(* Evidence comes in over days, while contracts are enrolled and retired.  *)
(* A qualification counts the contracts in the registry, or is given the   *)
(* accounting of their enrollment.  The evidence is listed in the order in *)
(* which it came in: the normalizer wants the rows of one call in their    *)
(* order, of several calls nobody does.  Bars come in blocks of minutes;   *)
(* of the 21 strikes around spot, on both sides and at five expirations,   *)
(* the module knows that they are a set of contracts.                      *)
(***************************************************************************)
EXTENDS OptionEnrollment

CONSTANTS
  Symbols,        \* the underlyings of the pilot
  Block,          \* the minutes of each block of bars, the earliest first
  ExpectedMinutes,
  DecisionPoints, \* [symbol, at]
  Chains,         \* the chains that may be observed: [symbol, at, quotes]
  Envelope,       \* the contracts at the target DTEs
  Neighborhood,   \* those of them a complete chain has
  MaxManifests

ASSUME QualificationAssumption ==
  /\ Symbols # {} /\ ExpectedMinutes \in Nat \ {0} /\ MaxManifests \in Nat
  /\ \A i \in DOMAIN Block : Block[i] \in Nat
  /\ Neighborhood \subseteq Envelope /\ Envelope \subseteq Contracts
  /\ IsFiniteSet(DecisionPoints) /\ IsFiniteSet(Chains)
  /\ \A s \in Chains : /\ s.symbol \in Symbols /\ IsFiniteSet(s.quotes)
                       /\ \A q \in s.quotes : q.contract \in Contracts

VARIABLES
  listed,    \* the blocks of bars, [symbol, block], as they came in
  arrived, \* the normalized chains as they came in, at most one of a symbol and a time
  manifests  \* the CorpusQualificationManifests

qualificationVars == <<listed, arrived, manifests>>

QualificationInit == listed = << >> /\ arrived = << >> /\ manifests = {}

bars == {listed[i] : i \in DOMAIN listed}
chains == {arrived[i] : i \in DOMAIN arrived}

-----------------------------------------------------------------------------
(* The evidence. *)

ObserveBars(symbol, i) ==
  /\ [symbol |-> symbol, block |-> i] \notin bars
  /\ listed' = Append(listed, [symbol |-> symbol, block |-> i])
  /\ UNCHANGED <<enrollmentVars, arrived, manifests>>

Active(c) == \E r \in instruments : Canonical(r, c)

\* normalize_typed_option_chains: all its instruments are canonical and active.
ObserveChain(s) ==
  /\ underlying /\ \A q \in s.quotes : Active(q.contract)
  /\ \A t \in chains : t.symbol = s.symbol => t.at # s.at
  /\ arrived' = Append(arrived, s)
  /\ UNCHANGED <<enrollmentVars, listed, manifests>>

-----------------------------------------------------------------------------
(* qualify *)

\* ROUND_HALF_UP, in hundredths of a percent (the resolution is rounded to
\* the even, which is the same next to 100 percent)
Percentage(n, d) == IF d <= 0 THEN 0 ELSE (20000 * n + d) \div (2 * d)

Threshold(value, passing, review) ==
  IF value >= passing THEN "PASS" ELSE IF value >= review THEN "REVIEW" ELSE "FAIL"

BarCompleteness ==
  LET minutes(symbol) == MapThenSumSet(LAMBDA b : IF b.symbol = symbol THEN Block[b.block] ELSE 0, bars)
  IN Min({Percentage(Min({minutes(x), ExpectedMinutes}), ExpectedMinutes) : x \in Symbols})

\* The next chain, if there is none of the moment.
At_Fault(d) ==
  {s \in chains : s.symbol = d.symbol /\ s.at >= d.at
                    /\ \A t \in chains : t.symbol = d.symbol /\ t.at >= d.at => s.at <= t.at}

\* The chain of the moment of the decision, and no other.
At(d) == {s \in chains : s.symbol = d.symbol /\ s.at = d.at}

\* The rows, by their moments, that do not come after the one before them.
Unordered(moments) ==
  Cardinality({i \in DOMAIN moments : i > 1 /\ moments[i] <= moments[i - 1]})

\* Bars and chains of a symbol out of their order, and decisions that have no
\* chain of their moment but a later one.  (No bar ends before it starts: a
\* CanonicalMarketBar refuses to be one.)
CausalViolations(decisions) ==
  LET of(rows, symbol) == SelectSeq(rows, LAMBDA r : r.symbol = symbol)
      blocks(q) == [i \in DOMAIN q |-> q[i].block]
      times(q) == [i \in DOMAIN q |-> q[i].at]
  IN MapThenSumSet(LAMBDA x : Unordered(blocks(of(listed, x))) + Unordered(times(of(arrived, x))),
                   Symbols)
       + Cardinality({d \in decisions :
                        At(d) = {} /\ \E s \in chains : s.symbol = d.symbol /\ s.at > d.at})

\* One quote of the envelope that is not firm spoils the chain.
FullNeighborhood(s) ==
  /\ \A q \in s.quotes : q.contract \in Envelope => q.firm
  /\ Neighborhood \subseteq {q.contract : q \in s.quotes}

Complete(d) == \E s \in At(d) : FullNeighborhood(s)

Quotes == {<<s, q>> : s \in chains, q \in UNION {s.quotes : s \in chains}}
            \cap UNION {{s} \X s.quotes : s \in chains}

\* Of the quotes, when no accounting is given.
ResolutionAccounting ==
  LET resolved == Cardinality({x \in Quotes : Active(x[2].contract)})
  IN [discovered |-> Cardinality(Quotes), resolved |-> resolved]

FidelityTier ==
  LET quotes == UNION {s.quotes : s \in chains}
  IN IF quotes # {} /\ \A q \in quotes : q.firm THEN "TIER_1_QUOTE_DEPTH"
     ELSE IF \E q \in quotes : q.traded THEN "TIER_2_TRADE_HISTORY" ELSE "TIER_3_BAR_ONLY"

FidelityStatus ==
  [TIER_1_QUOTE_DEPTH |-> "PASS", TIER_2_TRADE_HISTORY |-> "REVIEW", TIER_3_BAR_ONLY |-> "FAIL"]

Overall(values) ==
  IF "FAIL" \in values THEN "FAIL" ELSE IF "REVIEW" \in values THEN "REVIEW" ELSE "PASS"

\* A corpus of no contracts has resolved none of them.
Manifest(decisions, accounting) ==
  LET complete == Cardinality({d \in decisions : Complete(d)})
      resolution == Percentage(accounting.resolved, accounting.discovered)
      statuses == {Threshold(BarCompleteness, 9980, 9900),
                   Threshold(Percentage(complete, Cardinality(decisions)), 9500, 9000),
                   IF CausalViolations(decisions) = 0 THEN "PASS" ELSE "FAIL",
                   IF resolution = 10000 THEN "PASS" ELSE "FAIL",
                   FidelityStatus[FidelityTier]}
  IN [decisions |-> decisions, chains |-> chains, complete |-> complete,
      accounting |-> accounting, verdict |-> Overall(statuses)]

\* persist_manifest keeps it by its content.
Qualify(decisions, given) ==
  LET accounting == IF given THEN [discovered |-> Combined.discovered, resolved |-> Combined.resolved]
                    ELSE ResolutionAccounting
      manifest == Manifest(decisions, accounting)
  IN /\ manifest \in manifests \/ Cardinality(manifests) < MaxManifests
     /\ manifests' = manifests \cup {manifest}
     /\ UNCHANGED <<enrollmentVars, listed, arrived>>

QualificationNext ==
  \/ EnrollmentNext /\ UNCHANGED qualificationVars
  \/ \E symbol \in Symbols, i \in DOMAIN Block : ObserveBars(symbol, i)
  \/ \E s \in Chains : ObserveChain(s)
  \/ \E decisions \in SUBSET DecisionPoints, given \in BOOLEAN : Qualify(decisions, given)

QualificationSpec ==
  EnrollmentInit /\ QualificationInit
    /\ [][QualificationNext]_<<enrollmentVars, qualificationVars>>

-----------------------------------------------------------------------------
(* Properties. *)

\* A decision is judged by what there was to see at its moment: whatever
\* comes to be known of other moments leaves its count as it was, in every
\* manifest on record.
NoLookAhead ==
  \A m, n \in manifests :
    LET seen(x) == {s \in x.chains : \E d \in x.decisions : s.symbol = d.symbol /\ s.at = d.at}
    IN m.decisions = n.decisions /\ seen(m) = seen(n) => m.complete = n.complete

\* A corpus that passes stands on its registry and on the chains of its
\* decisions: it was asked about some, a chain of the moment of each of them is
\* there (five in a hundred may go without where there are as many), nothing
\* the accounting speaks of was rejected, and each quoted contract is firm and
\* was enrolled.
PassIsEarned ==
  \A m \in manifests :
    m.verdict = "PASS" =>
      /\ m.decisions # {}
      /\ m.accounting.resolved = m.accounting.discovered /\ m.accounting.discovered > 0
      /\ \A d \in m.decisions : \E s \in m.chains : s.symbol = d.symbol /\ s.at = d.at
      /\ \A s \in m.chains : \A q \in s.quotes : q.firm /\ \E r \in instruments : r.id = q.contract

\* A corpus passes by what was known at the moments of its decisions.
QualificationHolds == NoLookAhead /\ PassIsEarned
=============================================================================
