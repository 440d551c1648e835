--------------------------- MODULE StatefulReplay ---------------------------
(***************************************************************************)
(* StatefulCounterfactualRunner (engine/intelligence/research/): the       *)
(* opportunities of a sample are lived through twice, once as they are and *)
(* once with those suppressed that the context gate objected to, and the   *)
(* two worlds are compared.  Each track is executed by the engine itself   *)
(* inside a savepoint, which is rolled back when its figures are taken.    *)
(*                                                                         *)
(* The scenario adapter is the caller's; it is modelled as the tests write *)
(* it: an opportunity is routed while the day is not halted, a loss that   *)
(* reaches the limit halts its session, the profit of the cell that is not *)
(* siphoned yet goes into the three buckets, and a full replication pool   *)
(* pays a genesis.  Another session may commit a loss on the cell          *)
(* meanwhile, which READ COMMITTED shows to what comes after.              *)
(***************************************************************************)
EXTENDS Integers, Sequences, FiniteSets, FiniteSetsExt

CONSTANTS
  Opportunities,  \* 1..n, in the order they arise
  Opportunity,    \* of each: [day, pnl]
  Objections,     \* the sets of them the context gate may have objected to
  Windows,        \* the samples that may be asked for: [from, to]
  Losses,         \* what another session may lose
  LossLimit,      \* the day's loss at which the governor halts
  SeedPrice,      \* what a genesis takes from the pool
  NoGenesis,      \* NULL
  MaxReplays      \* bound on the stored runs

SessionDays == {Opportunity[o].day : o \in Opportunities}

ASSUME StatefulAssumption ==
  /\ IsFiniteSet(Opportunities) /\ Opportunities = 1..Cardinality(Opportunities)
  /\ \A o \in Opportunities : Opportunity[o].pnl \in Int /\ Opportunity[o].day \in Nat
  /\ \A o, p \in Opportunities : o < p => Opportunity[o].day <= Opportunity[p].day
  /\ Losses \subseteq Int /\ LossLimit \in Nat \ {0} /\ SeedPrice \in Nat \ {0} /\ MaxReplays \in Nat

VARIABLES
  objected,    \* the opportunities whose opinion is WOULD_HAVE_VETOED
  step,        \* IDLE, BASELINE, COUNTERFACTUAL or RECONCILE
  window,      \* the sample of the run
  ledger,      \* what this session's transaction holds of the cell
  saved,       \* the ledger as it was at begin_nested
  next,        \* the opportunity the adapter comes to
  suppressed,  \* the suppressions of the track's harness
  snapshots,   \* of the tracks that are through
  elsewhere,   \* the loss another session has committed on the cell
  disturbed,   \* whether it did so since the run began (not kept by the code)
  replays      \* intelligence_stateful_replay_runs with their session deltas

statefulVars ==
  <<objected, step, window, ledger, saved, next, suppressed, snapshots, elsewhere, disturbed, replays>>

Tracks == {"BASELINE", "COUNTERFACTUAL"}
Untouched == [trades |-> {}, halted |-> {}, siphons |-> {}, births |-> {}]

StatefulInit ==
  /\ objected \in Objections
  /\ step = "IDLE" /\ window = [from |-> 0, to |-> 0]
  /\ ledger = Untouched /\ saved = Untouched
  /\ next = 1 /\ suppressed = {} /\ snapshots = << >>
  /\ elsewhere = 0 /\ disturbed = FALSE /\ replays = {}

CommitElsewhere ==
  /\ elsewhere = 0 /\ elsewhere' \in Losses
  /\ disturbed' = TRUE
  /\ UNCHANGED <<objected, step, window, ledger, saved, next, suppressed, snapshots, replays>>

-----------------------------------------------------------------------------
(* The tracks. *)

BeginTrack(track) ==
  /\ step' = track /\ saved' = ledger
  /\ next' = 1 /\ suppressed' = {}

\* run: a window in order, a root cell on record
Run(w) ==
  /\ step = "IDLE" /\ w.from <= w.to
  /\ window' = w /\ snapshots' = << >> /\ disturbed' = FALSE
  /\ BeginTrack("BASELINE")
  /\ UNCHANGED <<objected, ledger, elsewhere, replays>>

Profit(S) == MapThenSumSet(LAMBDA o : Opportunity[o].pnl, S)
OfDay(S, d) == {o \in S : Opportunity[o].day = d}

\* The facts of a track are told apart by the keys its adapter derives.
Own(facts) == {f.of : f \in {g \in facts : g.track = step}}
Fact(of) == [track |-> step, of |-> of]

\* 40 and 40 percent, and the rest
Buckets == {"SAFETY_RESERVE", "TARGET_TREASURY", "REPLICATION_POOL"}
Share(amount, b) ==
  LET fourTenths == (4 * amount) \div 10
  IN IF b = "REPLICATION_POOL" THEN amount - 2 * fourTenths ELSE fourTenths
Allocated(siphons, b) == MapThenSumSet(LAMBDA f : Share(f.of, b), siphons)

WithHalt(l, d) ==
  IF Profit(OfDay(Own(l.trades), d)) <= -LossLimit
  THEN [l EXCEPT !.halted = @ \cup {Fact(d)}] ELSE l

\* The siphon sees whatever is booked on the cell.
WithSiphon(l, o) ==
  LET booked == MapThenSumSet(LAMBDA f : Opportunity[f.of].pnl, l.trades)
      qualified == booked - elsewhere - MapThenSumSet(LAMBDA f : f.of, l.siphons)
  IN IF Opportunity[o].pnl > 0 /\ qualified > 0
     THEN [l EXCEPT !.siphons = @ \cup {[track |-> step, of |-> qualified, after |-> o]}] ELSE l

WithBirth(l, o) ==
  IF Allocated(l.siphons, "REPLICATION_POOL") >= SeedPrice * (Cardinality(l.births) + 1)
  THEN [l EXCEPT !.births = @ \cup {Fact(o)}] ELSE l

Traded(l, o) ==
  LET booked == [l EXCEPT !.trades = @ \cup {Fact(o)}]
  IN WithBirth(WithSiphon(WithHalt(booked, Opportunity[o].day), o), o)

\* ResearchRoutingHarness.should_route
ShouldRoute(o) == ~(step = "COUNTERFACTUAL" /\ o \in objected)

Visit ==
  /\ step \in Tracks /\ next \in Opportunities
  /\ next' = next + 1
  /\ \/ Opportunity[next].day \in Own(ledger.halted) /\ UNCHANGED <<ledger, suppressed>>
     \/ /\ Opportunity[next].day \notin Own(ledger.halted) /\ ShouldRoute(next)
        /\ ledger' = Traded(ledger, next)
        /\ UNCHANGED suppressed
     \/ /\ Opportunity[next].day \notin Own(ledger.halted) /\ ~ShouldRoute(next)
        /\ suppressed' = suppressed \cup {next}
        /\ UNCHANGED ledger
  /\ UNCHANGED <<objected, step, window, saved, snapshots, elsewhere, disturbed, replays>>

InWindow(o) == window.from <= Opportunity[o].day /\ Opportunity[o].day <= window.to

\* The number of the first session of the track on or after the first birth.
GenesisIndex(births) ==
  LET index(o) == 1 + Cardinality({d \in SessionDays : d < Opportunity[o].day})
  IN IF births = {} THEN NoGenesis ELSE Min({index(o) : o \in births})

SnapshotOf(l) ==
  [trades |-> Own(l.trades), halt_dates |-> Own(l.halted),
   buckets |-> [b \in Buckets |-> Allocated({f \in l.siphons : f.track = step}, b)],
   cells |-> 1 + Cardinality(Own(l.births)), genesis |-> GenesisIndex(Own(l.births)),
   suppressions |-> suppressed]

\* The second track finds what the first has left.
Rollback_Kept_Fault(failed) == IF failed THEN saved ELSE ledger

\* savepoint.rollback() in the finally clause
Rollback(failed) == saved

Snapshot ==
  /\ step \in Tracks /\ next \notin Opportunities
  /\ \A o \in Own(ledger.trades) : InWindow(o)
  /\ snapshots' = Append(snapshots, SnapshotOf(ledger))
  /\ ledger' = Rollback(FALSE)
  /\ IF step = "BASELINE"
     THEN step' = "COUNTERFACTUAL" /\ saved' = ledger' /\ next' = 1 /\ suppressed' = {}
     ELSE step' = "RECONCILE" /\ UNCHANGED <<saved, next, suppressed>>
  /\ UNCHANGED <<objected, window, elsewhere, disturbed, replays>>

\* The adapter raises, at any point, or its evidence is refused.
FailTrack ==
  /\ step \in Tracks /\ step' = "IDLE" /\ ledger' = Rollback(TRUE)
  /\ UNCHANGED <<objected, window, saved, next, suppressed, snapshots, elsewhere, disturbed, replays>>

-----------------------------------------------------------------------------
(* _reconcile_and_persist *)

\* _max_drawdown: the worst a stretch of the trades has lost
\* (the trades are sorted by time and then by the ids of their fills, which
\* depend on the track: an adapter closes no two of them at one instant)
Drawdown(S) ==
  Max({0} \cup {-Profit({u \in S : o <= u /\ u <= p}) : o, p \in S})

Dates(b, c) ==
  {Opportunity[o].day : o \in b.trades \cup c.trades \cup c.suppressions}
    \cup b.halt_dates \cup c.halt_dates

InducedTaken(b, c) == c.trades \ b.trades
InducedMissed(b, c) == (b.trades \ c.trades) \ c.suppressions

SessionPayload(b, c) ==
  [d \in Dates(b, c) |->
     [baseline |-> Profit(OfDay(b.trades, d)), counterfactual |-> Profit(OfDay(c.trades, d)),
      alpha |-> Profit(OfDay(c.trades, d)) - Profit(OfDay(b.trades, d)),
      baseline_halted |-> d \in b.halt_dates, counterfactual_halted |-> d \in c.halt_dates,
      vetoed |-> Cardinality(OfDay(c.suppressions, d)),
      induced |-> Cardinality(OfDay(InducedTaken(b, c), d))]]

RunRow(b, c) ==
  [window |-> window, tracks |-> <<b, c>>,
   baseline_trades |-> Cardinality(b.trades), counterfactual_trades |-> Cardinality(c.trades),
   direct_vetoed |-> Cardinality(c.suppressions),
   induced_taken |-> Cardinality(InducedTaken(b, c)),
   induced_missed |-> Cardinality(InducedMissed(b, c)),
   alpha |-> Profit(c.trades) - Profit(b.trades),
   baseline_drawdown |-> Drawdown(b.trades), counterfactual_drawdown |-> Drawdown(c.trades),
   drawdown_reduction |-> Drawdown(b.trades) - Drawdown(c.trades),
   baseline_halts |-> Cardinality(b.halt_dates),
   counterfactual_halts |-> Cardinality(c.halt_dates),
   siphon_delta |-> [k \in Buckets |-> c.buckets[k] - b.buckets[k]],
   baseline_cells |-> b.cells, counterfactual_cells |-> c.cells,
   genesis_delta |-> IF NoGenesis \in {b.genesis, c.genesis} THEN NoGenesis
                     ELSE c.genesis - b.genesis,
   deltas |-> SessionPayload(b, c)]

\* The identity is a hash of the manifest: the same run is found, not stored.
Reconcile ==
  LET row == RunRow(snapshots[1], snapshots[2])
  IN /\ step = "RECONCILE" /\ step' = "IDLE"
     /\ row \in replays \/ Cardinality(replays) < MaxReplays
     /\ replays' = replays \cup {row}
     /\ UNCHANGED <<objected, window, ledger, saved, next, suppressed, snapshots, elsewhere, disturbed>>

StatefulNext ==
  \/ \E w \in Windows : Run(w)
  \/ CommitElsewhere \/ Visit \/ Snapshot \/ FailTrack \/ Reconcile

StatefulSpec == StatefulInit /\ [][StatefulNext]_statefulVars

-----------------------------------------------------------------------------
(* Properties. *)

\* Types, and the CHECKs of migration 0021 on every stored run.
StatefulTypeOK ==
  /\ step \in Tracks \cup {"IDLE", "RECONCILE"} /\ disturbed \in BOOLEAN
  /\ Own(ledger.trades) \subseteq Opportunities /\ suppressed \subseteq Opportunities
  /\ \A r \in replays :
       /\ r.baseline_drawdown >= 0 /\ r.counterfactual_drawdown >= 0
       /\ r.baseline_cells >= 1 /\ r.counterfactual_cells >= 1

\* Whatever a track did to the cell is undone, also when its adapter failed
\* half way or its evidence was refused: the caller's transaction can commit
\* afterwards without a trade, a halt or a child that nobody lived through.
TracksLeaveNothing == step \notin Tracks => ledger = Untouched

Parted(r) ==
  LET b == r.tracks[1]
      c == r.tracks[2]
      apart == (b.trades \ c.trades) \cup (c.trades \ b.trades)
  IN /\ apart # {} => Min(apart) \in c.suppressions
     /\ apart = {} =>
          /\ r.alpha = 0 /\ r.drawdown_reduction = 0 /\ b.halt_dates = c.halt_dates
          /\ r.genesis_delta \in {0, NoGenesis}
          /\ \A k \in Buckets : r.siphon_delta[k] = 0

\* The two worlds part at a veto and nowhere else: if nobody committed while
\* a run was on, the first opportunity that was taken in one track and not in
\* the other is one the harness suppressed, and without one every delta of
\* the run is nothing.
PartAtAVeto == [][~disturbed => \A r \in replays' \ replays : Parted(r)]_statefulVars

Holds(r, field) == Cardinality({d \in DOMAIN r.deltas : r.deltas[d][field]})
Adds(r, field) == MapThenSumSet(LAMBDA d : r.deltas[d][field], DOMAIN r.deltas)

\* The days of a run add up to it: their alphas to its alpha, their vetoes,
\* induced trades and halts to its counts, whichever track they are of.
SessionDeltasAddUp ==
  \A r \in replays :
    /\ Adds(r, "alpha") = r.alpha
    /\ Adds(r, "vetoed") = r.direct_vetoed /\ Adds(r, "induced") = r.induced_taken
    /\ Holds(r, "baseline_halted") = r.baseline_halts
    /\ Holds(r, "counterfactual_halted") = r.counterfactual_halts

\* Two worlds that part at a veto alone, whose differences add up, and of which
\* nothing is left.
WorldsPartAtVetoes ==
  [](StatefulTypeOK /\ TracksLeaveNothing /\ SessionDeltasAddUp) /\ PartAtAVeto
=============================================================================
