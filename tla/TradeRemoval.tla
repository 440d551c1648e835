---------------------------- MODULE TradeRemoval ----------------------------
(***************************************************************************)
(* EffectivenessEngine (engine/intelligence/research/): what the vetoes    *)
(* of the context gate would have been worth, had the trades they object   *)
(* to been taken out of the record.  A run reads the closing fills of a    *)
(* sample with the opinions on their intents, and stores its figures under *)
(* an identity that is a hash of all of them.                              *)
(*                                                                         *)
(* The fills and the opinions are one statement's snapshot; the look for   *)
(* an earlier run and the insert of this one are two more.  Two runs of    *)
(* one identity exclude each other by the primary key.                     *)
(*                                                                         *)
(* Realized profits are counted in units of which Unit make a cent.        *)
(***************************************************************************)
EXTENDS Integers, FiniteSets, FiniteSetsExt, Folds

CONSTANTS
  Researchers,  \* database sessions that run analyses
  Closings,     \* the closing fills there may be, 1..n by (filled_at, fill_id, intent_id)
  Closing,      \* of each: [intent, cell, booked, pnl, at]
  CreatedAt,    \* of each intent
  Thoughts,     \* the opinions that may be recorded: [intent, opinion, reason, at]
  Samples,      \* what may be analysed: [cell, from, to]
  AnyCell,
  Unit,
  MaxStudies    \* bound on the stored runs

ASSUME RemovalAssumption ==
  /\ Closings \subseteq Nat /\ Unit \in Nat \ {0} /\ MaxStudies \in Nat
  /\ \A t \in Closings : Closing[t].pnl \in Int /\ Closing[t].at \in Nat
  /\ \A t, u \in Closings : t < u => Closing[t].at <= Closing[u].at
  /\ \A s \in Samples : s.from <= s.to
  /\ \A o \in Thoughts : (o.opinion = "WOULD_HAVE_VETOED" => o.reason # "") /\ o.at \in Nat

VARIABLES
  closed,    \* closing fills whose realized P&L is on record
  opinions,  \* order_context_evaluations (one to an intent)
  studies,   \* intelligence_research_runs with their category slices
  drafts     \* of each session: the run it is about to insert, in a set

removalVars == <<closed, opinions, studies, drafts>>

RemovalInit ==
  /\ closed = {} /\ opinions = {} /\ studies = {}
  /\ drafts = [r \in Researchers |-> {}]

RecordClosing(t) ==
  /\ t \notin closed /\ closed' = closed \cup {t}
  /\ UNCHANGED <<opinions, studies, drafts>>

RecordOpinion(o) ==
  /\ \A p \in opinions : p.intent # o.intent
  /\ opinions' = opinions \cup {o}
  /\ UNCHANGED <<closed, studies, drafts>>

-----------------------------------------------------------------------------
(* run_trade_removal_analysis *)

Population(s) ==
  {t \in closed : /\ s.from <= Closing[t].at /\ Closing[t].at <= s.to
                  /\ s.cell \in {AnyCell, Closing[t].cell}}

LineageAgrees(pop) == \A t \in pop : Closing[t].cell = Closing[t].booked

\* ROUND_HALF_EVEN to cents
Cents(x) ==
  LET whole == x \div Unit
      rest == 2 * (x % Unit)
  IN IF rest > Unit \/ (rest = Unit /\ whole % 2 = 1) THEN whole + 1 ELSE whole

Opinion(t) == {o \in opinions : o.intent = Closing[t].intent}

\* Opinions are given the time one unit of the clock takes.
CausalValid_Fault(o) == o.at <= CreatedAt[o.intent] + 1

\* An opinion formed after its intent was created is hindsight.
CausalValid(o) == o.at <= CreatedAt[o.intent]

Attributed(t) == {o \in Opinion(t) : CausalValid(o)}

Vetoed(t) == {o \in Attributed(t) : o.opinion = "WOULD_HAVE_VETOED"}

Realized(pnl, S) == MapThenSumSet(LAMBDA t : pnl[t], S)

\* compute_max_drawdown of the equity curve, whose last point is that of the
\* last close.
MaxDrawdown(pnl, S) ==
  LET fall(change, curve) ==
        LET equity == curve.equity + change
            peak == Max({curve.peak, equity})
        IN [equity |-> equity, peak |-> peak, worst |-> Max({curve.worst, peak - equity})]
  IN MapThenFoldSet(fall, [equity |-> 0, peak |-> 0, worst |-> 0], LAMBDA t : pnl[t], Max, S).worst

\* The losses and the profits that are taken out with the trades of S.
Avoided(pnl, S) == -Realized(pnl, {t \in S : pnl[t] < 0})
Forfeited(pnl, S) == Realized(pnl, {t \in S : pnl[t] > 0})

\* In hundredths of a percent, the half to the even.
Precision(pnl, S) ==
  LET losing == 10000 * Cardinality({t \in S : pnl[t] < 0})
      n == Cardinality(S)
      rest == 2 * (losing % n)
  IN IF n = 0 THEN 0
     ELSE IF rest > n \/ (rest = n /\ (losing \div n) % 2 = 1) THEN losing \div n + 1
     ELSE losing \div n

Slice(pnl, S) ==
  [count |-> Cardinality(S), avoided |-> Avoided(pnl, S), forfeited |-> Forfeited(pnl, S),
   alpha |-> Avoided(pnl, S) - Forfeited(pnl, S), precision |-> Precision(pnl, S)]

\* By veto_reason_code, which every stored veto has.
CategorySlices(pnl, removed) ==
  LET codes == {o.reason : o \in UNION {Vetoed(t) : t \in removed}}
  IN [c \in codes |-> Slice(pnl, {t \in removed : \E o \in Vetoed(t) : o.reason = c})]

\* The manifest of the run: its figures and the facts they were made of.
Study(s) ==
  LET pop == Population(s)
      pnl == [t \in pop |-> Cents(Closing[t].pnl)]
      evaluated == {t \in pop : Attributed(t) # {}}
      removed == {t \in pop : Vetoed(t) # {}}
      kept == pop \ removed
  IN [sample |-> s, pnl |-> pnl, opinions |-> [t \in pop |-> Opinion(t)],
      trades |-> Cardinality(pop), evaluated |-> Cardinality(evaluated),
      excluded |-> Cardinality({t \in pop : Opinion(t) # Attributed(t)}),
      vetoes |-> Cardinality(removed),
      losing |-> Cardinality({t \in removed : pnl[t] < 0}),
      winning |-> Cardinality({t \in removed : pnl[t] > 0}),
      breakeven |-> Cardinality({t \in removed : pnl[t] = 0}),
      baseline |-> Realized(pnl, pop), counterfactual |-> Realized(pnl, kept),
      avoided |-> Avoided(pnl, removed), forfeited |-> Forfeited(pnl, removed),
      alpha |-> Avoided(pnl, removed) - Forfeited(pnl, removed),
      precision |-> Precision(pnl, removed),
      drawdown |-> MaxDrawdown(pnl, pop), counterfactual_drawdown |-> MaxDrawdown(pnl, kept),
      slices |-> CategorySlices(pnl, removed)]

\* A run that is on record is returned as it stands: nothing changes.
Analyse(r, s) ==
  /\ drafts[r] = {} /\ LineageAgrees(Population(s))
  /\ Study(s) \notin studies
  /\ drafts' = [drafts EXCEPT ![r] = {Study(s)}]
  /\ UNCHANGED <<closed, opinions, studies>>

\* The run and its slices are committed together.
StoreStudy(r) ==
  /\ Cardinality(studies) < MaxStudies
  /\ drafts[r] # {} /\ drafts[r] \cap studies = {}
  /\ studies' = studies \cup drafts[r]
  /\ drafts' = [drafts EXCEPT ![r] = {}]
  /\ UNCHANGED <<closed, opinions>>

\* The identity is taken, or the caller rolls back.
DropStudy(r) ==
  /\ drafts[r] # {} /\ drafts' = [drafts EXCEPT ![r] = {}]
  /\ UNCHANGED <<closed, opinions, studies>>

RemovalNext ==
  \/ \E t \in Closings : RecordClosing(t)
  \/ \E o \in Thoughts : RecordOpinion(o)
  \/ \E r \in Researchers : StoreStudy(r) \/ DropStudy(r) \/ \E s \in Samples : Analyse(r, s)

RemovalSpec == RemovalInit /\ [][RemovalNext]_removalVars

-----------------------------------------------------------------------------
(* Properties. *)

SliceTotal(s, field) == MapThenSumSet(LAMBDA c : s.slices[c][field], DOMAIN s.slices)

\* What the CHECKs of migration 0020 ask of every stored run.
RemovalTypeOK ==
  /\ closed \subseteq Closings /\ opinions \subseteq Thoughts
  /\ \A s \in studies :
       /\ s.evaluated + s.excluded <= s.trades /\ s.vetoes <= s.evaluated
       /\ s.losing + s.winning + s.breakeven = s.vetoes
       /\ s.avoided >= 0 /\ s.forfeited >= 0
       /\ s.drawdown >= 0 /\ s.counterfactual_drawdown >= 0
       /\ s.precision \in 0..10000
       /\ \A c \in DOMAIN s.slices : s.slices[c].precision \in 0..10000

\* The run reconciles with its slices, which no CHECK can compare: every
\* removed trade is in one slice, and what the removal is worth is what
\* separates the two tracks, to the cent.
SlicesReconcile ==
  \A s \in studies :
    /\ SliceTotal(s, "count") = s.vetoes
    /\ SliceTotal(s, "avoided") = s.avoided /\ SliceTotal(s, "forfeited") = s.forfeited
    /\ s.counterfactual - s.baseline = SliceTotal(s, "alpha")

Timely(s) == [t \in DOMAIN s.opinions |-> {o \in s.opinions[t] : o.at <= CreatedAt[o.intent]}]

\* Hindsight is worth nothing: two runs over one sample and the same closes
\* show the same money if the opinions that were formed in time agree.
HindsightWorthNothing ==
  \A s, u \in studies :
    s.sample = u.sample /\ s.pnl = u.pnl /\ Timely(s) = Timely(u) =>
      s.alpha = u.alpha /\ s.precision = u.precision
        /\ s.counterfactual_drawdown = u.counterfactual_drawdown

\* Taking out losses alone never deepens the drawdown, and taking out
\* profits alone never makes it shallower: the two curves are of one order.
DrawdownsCompare ==
  \A s \in studies :
    /\ s.winning = 0 => s.counterfactual_drawdown <= s.drawdown
    /\ s.losing = 0 => s.counterfactual_drawdown >= s.drawdown

\* The figures of a study agree with each other and owe nothing to hindsight.
StudiesAreSound == RemovalTypeOK /\ SlicesReconcile /\ HindsightWorthNothing /\ DrawdownsCompare
=============================================================================
