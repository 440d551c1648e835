--------------------------- MODULE TrustEvaluator ---------------------------
(***************************************************************************)
(* Trust evaluation (engine/trust/): what a cell's ledger shows of its     *)
(* last trades, its equity, its executions and its safety is scored under  *)
(* policy TRUST-v0.1, and a tier of autonomy recommended.  The evaluator   *)
(* changes nothing but the list of its evaluations; the facts it reads are *)
(* recorded by others, at any time and in any order, while it runs from    *)
(* time to time.  One cell and one version of the policy.                  *)
(*                                                                         *)
(* Scores count hundredths of a percent, rounded down factor by factor;    *)
(* the code's are decimals.                                                *)
(***************************************************************************)
EXTENDS Integers, Sequences, FiniteSets, FiniteSetsExt

CONSTANTS
  None,
  WINDOWS,        \* the sizes a window may have: 20 and 50 in the code
  Promotion,      \* promotion_thresholds of the policy, tier to score
  Demotion,       \* demotion_thresholds of the policy, tier to score
  Possible,       \* the facts that may come to be recorded, by family
  Histories,      \* the facts on record at first
  MaxFacts, MaxEvaluations

TIER_ORDER == <<"APPRENTICE", "GUARDED", "CAPITAL_BUILDER">>
Tiers == {"APPRENTICE", "GUARDED", "CAPITAL_BUILDER"}
Rank(t) == CASE t = "APPRENTICE" -> 1 [] t = "GUARDED" -> 2 [] t = "CAPITAL_BUILDER" -> 3

Audits == {"reconciliation", "post_halt", "parameter"}
Families ==
  {"trades", "equity", "audits", "breaches", "fills", "references", "decisions", "orders", "halts"}

\* A tier, once earned, is not lost at the score that earned it.
ASSUME TrustAssumption ==
  /\ WINDOWS \subseteq Nat \ {0} /\ None \notin Int \cup BOOLEAN
  /\ Promotion \in [{"GUARDED", "CAPITAL_BUILDER"} -> Int]
  /\ Demotion \in [{"GUARDED", "CAPITAL_BUILDER"} -> Int]
  /\ \A t \in {"GUARDED", "CAPITAL_BUILDER"} : Demotion[t] <= Promotion[t]
  /\ DOMAIN Possible = Families
  /\ \A h \in Histories : DOMAIN h = Families

\* The facts a family may ever have on record.
Recordable(family) == Possible[family] \cup UNION {h[family] : h \in Histories}

\* The events of the ledger bear ids of their own; amounts are within
\* the bounds of models.py:30-52.
ASSUME FactsAssumption ==
  /\ \A h \in Histories, family \in Families : IsFiniteSet(h[family])
  /\ \A family \in {"trades", "equity", "audits"} : \A x, y \in Recordable(family) :
       x.at \in Int /\ x.id \in Int /\ (x.id = y.id => x = y)
  /\ \A t \in Recordable("trades") :
       t.pnl \in Int \cup {None} /\ {t.mfe, t.mae} \subseteq Nat \cup {None}
  /\ \A p \in Recordable("equity") : p.equity \in Nat \ {0}
  /\ \A f \in Recordable("fills") : {f.price, f.quantity} \subseteq Nat \ {0}
  /\ \A r \in Recordable("references") : r.price \in Nat \ {0}
  /\ \A a \in Recordable("audits") : a.clean \in BOOLEAN
  /\ \A x \in Recordable("orders") \cup Recordable("halts") : x.at \in Int

VARIABLES
  facts,        \* what is on record of the cell, by family
  tier,         \* the autonomy_tier of the cell
  retired,      \* whether the policy's version is retired
  evaluations   \* trust_evaluations, oldest first

trustVars == <<facts, tier, retired, evaluations>>

TrustInit ==
  /\ facts \in Histories
  /\ tier \in Tiers
  /\ retired = FALSE
  /\ evaluations = << >>

\* Rows are told apart by their id where they bear the same time.
Before(x, y) == x.at < y.at \/ (x.at = y.at /\ x.id < y.id)

\* Rows of the ledger, oldest first: a row stands behind all that are before it.
InOrder(rows) ==
  [k \in 1..Cardinality(rows) |->
     CHOOSE x \in rows : Cardinality({y \in rows : Before(y, x)}) = k - 1]

\* TrustEvidenceCollector.collect: the closed trades of the window.
latest_window(trades, size) ==
  LET all == InOrder(trades) IN
  IF Len(all) > size THEN SubSeq(all, Len(all) - size + 1, Len(all)) ELSE all

\* Rows from the first trade of the window to its last; all while there is no trade.
Within(rows, window) ==
  {x \in rows : window = << >> \/ (window[1].at <= x.at /\ x.at <= window[Len(window)].at)}

\* The reference on record for a fill, None without one.
ReferencePrice(f) ==
  LET known == {r \in facts.references : r.fill = f.id} IN
  IF known = {} THEN None ELSE (CHOOSE r \in known : TRUE).price

\* _execution_evidence
ExecutionEvidence(window) ==
  {[side |-> f.side, price |-> f.price, quantity |-> f.quantity, reference |-> ReferencePrice(f),
    id |-> f.id] : f \in Within(facts.fills, window)}

\* _governor_evidence: how often the governor gave the verdict in the window.
Verdicts(verdict, window) ==
  Cardinality({d \in Within(facts.decisions, window) : d.verdict = verdict})

\* The value of the latest audit of a kind, None without one.
LatestAudit(what) ==
  LET all == {a \in facts.audits : a.what = what} IN
  IF all = {} THEN None ELSE (CHOOSE a \in all : \A b \in all : b = a \/ Before(b, a)).clean

Confirmed_Fault ==
  {b.type : b \in Within(facts.breaches, latest_window(facts.trades, Max(WINDOWS)))}

Confirmed == {b.type : b \in facts.breaches}

\* An order of which no decision on its intent says AUTHORIZED.
UnauthorizedOrder ==
  \E o \in facts.orders :
    ~\E d \in facts.decisions : d.intent = o.intent /\ d.verdict = "AUTHORIZED"

PostHaltOrder_Fault ==
  \E o \in facts.orders, d \in facts.decisions, h \in facts.halts :
    d.intent = o.intent /\ h.session = d.session /\ h.at < o.at

\* An order submitted once a session that decided on its intent was halted.
PostHaltOrder ==
  \E o \in facts.orders, d \in facts.decisions, h \in facts.halts :
    d.intent = o.intent /\ h.session = d.session /\ h.at <= o.at

\* _safety_evidence
SafetyEvidence ==
  [audits |-> [what \in Audits |-> LatestAudit(what)],
   bypasses |->
     {x \in {"UNAUTHORIZED_EXECUTION", "POST_HALT_EXECUTION", "PARAMETER_BYPASS"} :
        \/ x \in Confirmed
        \/ (x = "UNAUTHORIZED_EXECUTION" /\ UnauthorizedOrder)
        \/ (x = "POST_HALT_EXECUTION" /\ PostHaltOrder)}]

\* collect and _window: the evidence the manifest of an evaluation commits.
Evidence(size) ==
  LET window == latest_window(facts.trades, size) IN
  [trades |-> window,
   equity |-> InOrder(Within(facts.equity, window)),
   executions |-> ExecutionEvidence(window),
   authorized |-> Verdicts("AUTHORIZED", window), rejected |-> Verdicts("REJECTED", window),
   safety |-> SafetyEvidence]

\* chronological_facts: trades of one time have to be in the order of their
\* trade ids, though they are read in the order of the events' ids.
Chronological(e) ==
  \A i \in 1..(Len(e.trades) - 1) :
    e.trades[i].at = e.trades[i + 1].at => e.trades[i].trade <= e.trades[i + 1].trade

----------------------------------------------------------------------------
(* The six factors: a score from 0 to 100 each, None without the evidence. *)

Points == 0..10000

Larger(x, y) == IF x >= y THEN x ELSE y

\* The sum of a number over the trades of the evidence.
Total(number(_), trades) == MapThenSumSet(LAMBDA i : number(trades[i]), DOMAIN trades)

HasNone(trades, field) == trades = << >> \/ \E i \in DOMAIN trades : trades[i][field] = None

\* What is left of the highest equity so far where the loss was largest.
score_capital_preservation(e) ==
  LET points == e.equity
      Peak(j) == Max({points[i].equity : i \in 1..j})
  IN IF Len(points) < 2 THEN None
     ELSE Min({(100 * points[j].equity) \div Peak(j) : j \in DOMAIN points})

score_strategy_discipline(e) ==
  LET compliant == Cardinality({i \in DOMAIN e.trades : e.trades[i].compliant = TRUE})
      all == Len(e.trades) + e.authorized + e.rejected
  IN IF HasNone(e.trades, "compliant") THEN None
     ELSE (100 * (compliant + e.authorized)) \div all

AdverseSlippage(x) ==
  x.quantity * (IF x.side = "BUY" THEN Larger(0, x.price - x.reference)
                                  ELSE Larger(0, x.reference - x.price))

score_execution_fidelity(e) ==
  LET notional == MapThenSumSet(LAMBDA x : x.reference * x.quantity, e.executions)
      adverse == MapThenSumSet(AdverseSlippage, e.executions)
  IN IF e.executions = {} \/ \E x \in e.executions : x.reference = None THEN None
     ELSE Larger(0, (100 * (notional - adverse)) \div notional)

score_context_regime_quality(e) ==
  IF HasNone(e.trades, "regime") \/ HasNone(e.trades, "pnl") THEN None
  ELSE (100 * Cardinality({i \in DOMAIN e.trades : e.trades[i].pnl >= 0})) \div Len(e.trades)

score_risk_efficiency(e) ==
  IF \E field \in {"risk", "mfe", "mae"} : HasNone(e.trades, field) THEN None
  ELSE LET mfe == Total(LAMBDA t : t.mfe, e.trades)
           mae == Total(LAMBDA t : t.mae, e.trades)
       IN IF mfe + mae = 0 THEN None ELSE (100 * mfe) \div (mfe + mae)

score_qualified_capital_production(e) ==
  IF HasNone(e.trades, "pnl") \/ \E i \in DOMAIN e.trades : e.trades[i].settled # TRUE THEN None
  ELSE LET gross == Total(LAMBDA t : IF t.pnl < 0 THEN 0 - t.pnl ELSE t.pnl, e.trades)
           net == Total(LAMBDA t : t.pnl, e.trades)
       IN IF gross = 0 THEN 0 ELSE (100 * Larger(0, net)) \div gross

\* weighted_score, all six factors being required.
WeightedScore(e) ==
  LET s == <<score_capital_preservation(e), score_strategy_discipline(e),
             score_execution_fidelity(e), score_context_regime_quality(e),
             score_risk_efficiency(e), score_qualified_capital_production(e)>>
  IN IF \E i \in 1..6 : s[i] = None THEN None
     ELSE 25 * s[1] + 20 * s[2] + 20 * s[3] + 15 * s[4] + 10 * s[5] + 10 * s[6]

----------------------------------------------------------------------------
(* The evaluation                                                          *)

\* _safety_eligibility
SafetyEligibility(safety) ==
  IF safety.bypasses # {} THEN "DISQUALIFIED"
  ELSE IF \A what \in Audits : safety.audits[what] = TRUE THEN "ELIGIBLE"
  ELSE "INSUFFICIENT_EVIDENCE"

recommend_autonomy_tier(current, eligibility, score, count, size) ==
  IF eligibility = "DISQUALIFIED" THEN "APPRENTICE"
  ELSE IF eligibility # "ELIGIBLE" \/ score = None THEN current
  ELSE IF current # "APPRENTICE" /\ score < Demotion[current] THEN TIER_ORDER[Rank(current) - 1]
  ELSE IF count < size \/ current = "CAPITAL_BUILDER" THEN current
  ELSE LET next == TIER_ORDER[Rank(current) + 1]
       IN IF score >= Promotion[next] THEN next ELSE current

Outcome(eligibility, score) ==
  IF eligibility = "DISQUALIFIED" THEN "DEMOTE"
  ELSE IF eligibility = "ELIGIBLE" /\ score # None THEN "PASS" ELSE "FAIL"

\* The row an evaluation adds, of evidence e for a cell of the tier.
Row(current, size, e) ==
  LET eligibility == SafetyEligibility(e.safety)
      score == WeightedScore(e)
      recommended ==
        recommend_autonomy_tier(current, eligibility, score, Len(e.trades), size)
  IN [tier |-> current, size |-> size, evidence |-> e, eligibility |-> eligibility,
      score |-> score, recommended |-> recommended, outcome |-> Outcome(eligibility, score),
      eligible_for_promotion |->
        /\ eligibility = "ELIGIBLE" /\ score # None
        /\ Len(e.trades) >= size /\ Rank(recommended) > Rank(current)]

\* TrustEvaluator.evaluate, without evidence supplied by its caller.
Evaluate(size) ==
  /\ Len(evaluations) < MaxEvaluations
  /\ ~retired /\ size \in WINDOWS
  /\ LET e == Evidence(size) IN
       /\ Chronological(e)
       /\ evaluations' = Append(evaluations, Row(tier, size, e))
  /\ UNCHANGED <<facts, tier, retired>>

\* Other parts of the system record a fact.
Record(family, x) ==
  /\ x \in Possible[family] \ facts[family]
  /\ MapThenSumSet(LAMBDA f : Cardinality(facts[f]), Families) < MaxFacts
  /\ facts' = [facts EXCEPT ![family] = @ \cup {x}]
  /\ UNCHANGED <<tier, retired, evaluations>>

\* An operator gives the cell the tier of the last evaluation.
Apply ==
  /\ evaluations # << >>
  /\ tier # evaluations[Len(evaluations)].recommended
  /\ tier' = evaluations[Len(evaluations)].recommended
  /\ UNCHANGED <<facts, retired, evaluations>>

Retire ==
  /\ ~retired /\ retired' = TRUE
  /\ UNCHANGED <<facts, tier, evaluations>>

TrustNext ==
  \/ \E size \in WINDOWS : Evaluate(size)
  \/ \E family \in Families : \E x \in Possible[family] : Record(family, x)
  \/ Apply \/ Retire

TrustSpec == TrustInit /\ [][TrustNext]_trustVars

----------------------------------------------------------------------------
(* Properties                                                              *)

\* What an evaluation records is of its type; a score is a percentage.
TrustTypeOK ==
  /\ tier \in Tiers
  /\ retired \in BOOLEAN
  /\ \A i \in DOMAIN evaluations :
       /\ evaluations[i].tier \in Tiers /\ evaluations[i].recommended \in Tiers
       /\ evaluations[i].score \in Points \cup {None}
       /\ evaluations[i].outcome \in {"PASS", "FAIL", "DEMOTE"}
       /\ evaluations[i].eligible_for_promotion \in BOOLEAN

Latest == evaluations[Len(evaluations)]

\* No bypass of the controls is on record, every order was authorized, and none
\* was submitted once a session that decided on it was halted.
ControlsWereKept ==
  /\ \A b \in facts.breaches : b.type \notin
       {"UNAUTHORIZED_EXECUTION", "POST_HALT_EXECUTION", "PARAMETER_BYPASS"}
  /\ \A o \in facts.orders :
       /\ \E d \in facts.decisions : d.intent = o.intent /\ d.verdict = "AUTHORIZED"
       /\ \A d \in facts.decisions, h \in facts.halts :
            d.intent = o.intent /\ h.session = d.session => o.at < h.at

\* Every kind of audit was held, and none failed without a clean one after it.
AuditsAreClean ==
  \A what \in Audits :
    /\ \E a \in facts.audits : a.what = what
    /\ \A a \in facts.audits :
         a.what = what /\ ~a.clean =>
           \E b \in facts.audits : b.what = what /\ b.clean /\ Before(a, b)

\* As many different trades as asked for, and no other trade is later.
IsFullWindow(trades, size) ==
  LET seen == {trades[i] : i \in DOMAIN trades} IN
  /\ Cardinality(seen) >= size
  /\ \A t \in facts.trades \ seen : \A s \in seen : t.at <= s.at

\* A cell is found eligible for promotion only on the latest full window of its
\* trades, while no bypass of the controls is on record, every order was
\* authorized and preceded any hard halt of the session that decided on it, and
\* the last audit of each kind was clean (evaluator.py, evidence_collector.py).
PromotionNeedsCleanRecord ==
  [][(evaluations' # evaluations /\ Latest'.eligible_for_promotion) =>
       /\ ControlsWereKept /\ AuditsAreClean
       /\ IsFullWindow(Latest'.evidence.trades, Latest'.size)]_trustVars

\* A cell once disqualified stays so whatever is recorded later and however far
\* the window moves on (the bypasses are not looked for in the window only).
\* An order without an authorization is the exception: a later decision on its
\* intent may supply one.
BreachIsForever ==
  \A i, j \in DOMAIN evaluations :
    (/\ i < j
     /\ evaluations[i].evidence.safety.bypasses \ {"UNAUTHORIZED_EXECUTION"} # {}) =>
        evaluations[j].eligibility = "DISQUALIFIED" /\ evaluations[j].outcome = "DEMOTE"

\* The same evidence, judged again once the tier it led to was applied, does not
\* send the cell back where it came from (hysteresis.py: demotion floors lie
\* below the promotion thresholds).
TiersDoNotFlap ==
  \A i, j \in DOMAIN evaluations :
    (/\ i < j /\ evaluations[i].evidence = evaluations[j].evidence
     /\ evaluations[j].tier = evaluations[i].recommended
     /\ evaluations[i].recommended # evaluations[i].tier) =>
        evaluations[j].recommended # evaluations[i].tier

\* Neither do later facts wash off a breach, nor does a tier swing back.
TrustIsSteady == TrustTypeOK /\ BreachIsForever /\ TiersDoNotFlap
=============================================================================
