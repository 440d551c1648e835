-------------------------- MODULE TapeAndOrderProofs --------------------------
(***************************************************************************)
(* Proofs about what goes into a replay, and about what becomes of its     *)
(* orders: about PaperBroker, for every set of orders, intents, snapshots  *)
(* and quotes, and every order of submissions, matches and cancels; and    *)
(* about ReplayTape, for every calendar and every tape.                    *)
(*                                                                         *)
(* A decision on a tape is kept in the invariant as what the whole session *)
(* makes of its event; that it is also what the tape up to the event makes *)
(* of it is then a fact about the operators.                               *)
(***************************************************************************)
EXTENDS PaperBroker, ReplayTape, FiniteSetTheorems, TLAPS

-------------------------------------------------------------------------------
(* The orders. *)

\* Everything a match computes from an order and a snapshot is a number of the
\* right kind.
LEMMA QuantityTypes ==
  ASSUME NEW o \in Orders, NEW s \in Snapshots, filled \in [Orders -> Nat]
  PROVE  /\ ExecutionPrice(o, s) \in Nat \ {0}
         /\ TargetQuantity(o, s) \in Nat
         /\ Remaining(o, s) \in Nat
         /\ FillQuantity(o, s) \in Nat
         /\ FillQuantity(o, s) <= Remaining(o, s)
<1> DEFINE i == Intent[o]
           q == Quote[s]
<1>1. i \in IntentType /\ q \in QuoteType
  BY InputAssumption
<1>2. /\ i.side \in Sides /\ i.limit \in Nat \ {0} /\ i.size \in Nat \ {0}
      /\ q.ref["BUY"] \in Nat \ {0} /\ q.ref["SELL"] \in Nat \ {0}
      /\ q.size[i.side] \in Nat
  BY <1>1 DEF IntentType, QuoteType, Sides
<1>3. ExecutionPrice(o, s) \in Nat \ {0}
  BY <1>2, InputAssumption DEF ExecutionPrice, Least, Greatest
<1>4. TargetQuantity(o, s) \in Nat
  BY <1>2, <1>3 DEF TargetQuantity
<1>5. Remaining(o, s) \in Nat
  BY <1>4 DEF Remaining, Greatest
<1>6. FillQuantity(o, s) \in Nat /\ FillQuantity(o, s) <= Remaining(o, s)
  BY <1>2, <1>5 DEF FillQuantity, Least
<1> QED
  BY <1>3, <1>4, <1>5, <1>6

\* The only steps that match, and what every other step leaves alone.
LEMMA StepKinds ==
  ASSUME [Next]_vars
  PROVE  \/ \E o \in Orders, s \in Snapshots : \E acked :
              /\ Match(o, s, acked)
              /\ \A b \in acked : b.order = o
              /\ submitted' \in {submitted, submitted \cup {o}}
              /\ UNCHANGED brokerActive
         \/ \E o \in Orders : RequestCancel(o) \/ ResolveCancel(o)
         \/ /\ UNCHANGED <<status, submitted, observations, fills, filled>>
            /\ brokerActive' \in {brokerActive, FALSE}
<1>1. ASSUME NEW o \in Orders, NEW s \in Snapshots, SubmitOrder(o, s)
      PROVE  \E acked : /\ Match(o, s, acked)
                        /\ \A b \in acked : b.order = o
                        /\ submitted' \in {submitted, submitted \cup {o}}
                        /\ UNCHANGED brokerActive
  <2> DEFINE acked == IF Observed(o, Key("SUBMITTED")) THEN {}
                      ELSE {Observation(o, Key("SUBMITTED"), "SUBMITTED"),
                            Observation(o, Key("ACCEPTED"), "ACCEPTED")}
  <2>1. \A b \in acked : b.order = o
    BY DEF Observation
  <2>2. Match(o, s, acked) /\ submitted' = submitted \cup {o} /\ UNCHANGED brokerActive
    BY <1>1 DEF SubmitOrder
  <2> QED
    BY <2>1, <2>2
<1>2. ASSUME NEW o \in Orders, NEW s \in Snapshots, ProcessQuote(o, s)
      PROVE  \E acked : /\ Match(o, s, acked)
                        /\ \A b \in acked : b.order = o
                        /\ submitted' \in {submitted, submitted \cup {o}}
                        /\ UNCHANGED brokerActive
  BY <1>1, <1>2 DEF ProcessQuote
<1> QED
  BY <1>1, <1>2 DEF Next, vars, RetireBroker

-------------------------------------------------------------------------------

\* Every reachable state is well typed.
THEOREM TypeCorrect == Spec => []TypeOK
<1>1. Init => TypeOK
  BY DEF Init, TypeOK, Statuses
<1>2. TypeOK /\ [Next]_vars => TypeOK'
  <2> SUFFICES ASSUME TypeOK, [Next]_vars PROVE TypeOK'
    OBVIOUS
  <2>1. ASSUME NEW o \in Orders, NEW s \in Snapshots, NEW acked, Match(o, s, acked),
               \A b \in acked : b.order = o,
               submitted' \in {submitted, submitted \cup {o}}, UNCHANGED brokerActive
        PROVE  TypeOK'
    <3>1. /\ ExecutionPrice(o, s) \in Nat \ {0}
          /\ FillQuantity(o, s) \in Nat
      BY QuantityTypes DEF TypeOK
    <3>2. status' \in [Orders -> Statuses]
      BY <2>1 DEF Match, MatchStatus, Statuses, TypeOK
    <3>3. /\ filled' \in [Orders -> Nat]
          /\ fills' \subseteq [order : Orders, snapshot : Snapshots, quantity : Nat \ {0},
                               price : Nat \ {0}]
      <4>1. CASE Executes(o, s)
        <5>1. FillQuantity(o, s) \in Nat \ {0}
          BY <3>1, <4>1 DEF Executes
        <5> QED
          BY <2>1, <3>1, <4>1, <5>1 DEF Match, TypeOK
      <4>2. CASE ~Executes(o, s)
        BY <2>1, <4>2 DEF Match, TypeOK
      <4> QED
        BY <4>1, <4>2
    <3>4. \A b \in observations' : b.order \in Orders
      BY <2>1 DEF Match, Observation, TypeOK
    <3> QED
      BY <2>1, <3>2, <3>3, <3>4 DEF TypeOK
  <2>2. ASSUME NEW o \in Orders, RequestCancel(o) PROVE TypeOK'
    BY <2>2 DEF RequestCancel, Observation, TypeOK, Statuses
  <2>3. ASSUME NEW o \in Orders, ResolveCancel(o) PROVE TypeOK'
    BY <2>3 DEF ResolveCancel, Observation, TypeOK, Statuses
  <2>4. CASE UNCHANGED <<status, submitted, observations, fills, filled>>
             /\ brokerActive' \in {brokerActive, FALSE}
    BY <2>4 DEF TypeOK
  <2> QED
    BY <2>1, <2>2, <2>3, <2>4, StepKinds
<1> QED
  BY <1>1, <1>2, PTL DEF Spec

-------------------------------------------------------------------------------

\* What a match adds keeps an order of fixed quantity within its size.
LEMMA MatchStaysWithin ==
  ASSUME TypeOK, NeverOverfilled, NEW o \in Orders, NEW s \in Snapshots, NEW acked,
         Match(o, s, acked), NEW p \in Orders, Intent[p].sizing = "QUANTITY"
  PROVE  /\ filled'[p] <= Intent[p].size
         /\ filled'[p] >= filled[p]
         /\ p # o => filled'[p] = filled[p] /\ status'[p] = status[p]
         /\ p = o => filled'[p] = IF Executes(o, s) THEN filled[o] + FillQuantity(o, s)
                                  ELSE filled[o]
<1>1. /\ FillQuantity(o, s) \in Nat /\ FillQuantity(o, s) <= Remaining(o, s)
      /\ filled[p] \in Nat /\ filled[o] \in Nat
  BY QuantityTypes DEF TypeOK
<1>2. Intent[p].size \in Nat /\ filled[p] <= Intent[p].size
  BY InputAssumption DEF IntentType, NeverOverfilled
<1>3. /\ p # o => filled'[p] = filled[p] /\ status'[p] = status[p]
      /\ p = o => filled'[p] = IF Executes(o, s) THEN filled[o] + FillQuantity(o, s)
                               ELSE filled[o]
  BY DEF Match, TypeOK
<1>4. p = o => Remaining(o, s) = Intent[o].size - filled[o]
  BY <1>1, <1>2 DEF Remaining, Greatest, TargetQuantity
<1> QED
  BY <1>1, <1>2, <1>3, <1>4

\* No order of fixed quantity is ever filled for more than its size.
THEOREM NoOverfill == Spec => []NeverOverfilled
<1>1. Init => NeverOverfilled
  BY InputAssumption DEF Init, NeverOverfilled, IntentType
<1>2. TypeOK /\ NeverOverfilled /\ [Next]_vars => NeverOverfilled'
  <2> SUFFICES ASSUME TypeOK, NeverOverfilled, [Next]_vars PROVE NeverOverfilled'
    OBVIOUS
  <2>1. ASSUME NEW o \in Orders, NEW s \in Snapshots, NEW acked, Match(o, s, acked)
        PROVE  NeverOverfilled'
    BY <2>1, MatchStaysWithin DEF NeverOverfilled
  <2>2. CASE UNCHANGED filled
    BY <2>2 DEF NeverOverfilled
  <2> QED
    BY <2>1, <2>2, StepKinds DEF RequestCancel, ResolveCancel
<1> QED
  BY <1>1, <1>2, TypeCorrect, PTL DEF Spec

\* A match only adds to what an order has, and touches no other order.
LEMMA MatchOnlyAdds ==
  ASSUME TypeOK, NEW o \in Orders, NEW s \in Snapshots, NEW acked, Match(o, s, acked),
         NEW p \in Orders
  PROVE  /\ filled'[p] \in Nat /\ filled'[p] >= filled[p]
         /\ p # o \/ Replayed(o, s) => status'[p] = status[p]
         /\ p = o /\ ~Replayed(o, s) => status'[p] = MatchStatus(o, s)
         /\ p = o => filled'[p] = IF Executes(o, s) THEN filled[o] + FillQuantity(o, s)
                                  ELSE filled[o]
<1>1. FillQuantity(o, s) \in Nat /\ filled[p] \in Nat /\ filled[o] \in Nat
  BY QuantityTypes DEF TypeOK
<1> QED
  BY <1>1 DEF Match, TypeOK

\* An order a match leaves FILLED has the target the match was made against.
LEMMA FilledMeansTarget ==
  ASSUME TypeOK, NEW o \in Orders, NEW s \in Snapshots, NEW acked, Match(o, s, acked),
         ~Replayed(o, s), MatchStatus(o, s) \in {"FILLED", "TOO_LATE_ALREADY_FILLED"}
  PROVE  filled'[o] >= TargetQuantity(o, s)
<1>1. /\ FillQuantity(o, s) \in Nat /\ filled[o] \in Nat
      /\ TargetQuantity(o, s) \in Nat /\ Remaining(o, s) \in Nat
  BY QuantityTypes DEF TypeOK
<1>2. CASE Remaining(o, s) = 0
  <2>1. filled[o] >= TargetQuantity(o, s)
    BY <1>1, <1>2 DEF Remaining, Greatest
  <2> QED
    BY <1>1, <2>1, MatchOnlyAdds
<1>3. CASE Remaining(o, s) # 0
  <2>1. /\ Marketable(o, s) /\ FillQuantity(o, s) # 0
        /\ filled[o] + FillQuantity(o, s) >= TargetQuantity(o, s)
    BY <1>3 DEF MatchStatus
  <2>2. Executes(o, s)
    BY <1>1, <1>3, <2>1 DEF Executes
  <2> QED
    BY <2>1, <2>2, MatchOnlyAdds
<1> QED
  BY <1>2, <1>3

\* FILLED and TOO_LATE are said of an order of fixed quantity only when it has
\* it all, and of a notional order only when it has what some quote made of its
\* size or some quote does not reach its limit.
THEOREM FilledAlwaysTrue == Spec => []FilledIsTrue
<1> DEFINE Told(p) == status[p] \in {"FILLED", "TOO_LATE_ALREADY_FILLED"}
<1>1. Init => FilledIsTrue
  BY DEF Init, FilledIsTrue
<1>2. TypeOK /\ NeverOverfilled /\ FilledIsTrue /\ [Next]_vars => FilledIsTrue'
  <2> SUFFICES ASSUME TypeOK, NeverOverfilled, FilledIsTrue, [Next]_vars
               PROVE  FilledIsTrue'
    OBVIOUS
  <2>1. ASSUME NEW o \in Orders, NEW s \in Snapshots, NEW acked, Match(o, s, acked)
        PROVE  FilledIsTrue'
    <3>1. ASSUME NEW p \in Orders, Told(p)', Intent[p].sizing = "QUANTITY"
          PROVE  filled'[p] = Intent[p].size
      <4>1. /\ filled'[p] <= Intent[p].size /\ filled'[p] >= filled[p]
            /\ filled'[p] \in Nat /\ Intent[p].size \in Nat /\ filled[p] \in Nat
        BY <2>1, <3>1, MatchStaysWithin, MatchOnlyAdds, InputAssumption DEF IntentType, TypeOK
      <4>2. CASE p # o \/ Replayed(o, s)
        <5>1. filled[p] = Intent[p].size
          BY <2>1, <3>1, <4>2, MatchOnlyAdds DEF FilledIsTrue
        <5> QED
          BY <4>1, <5>1
      <4>3. CASE p = o /\ ~Replayed(o, s)
        <5>1. filled'[p] >= TargetQuantity(o, s)
          BY <2>1, <3>1, <4>3, MatchOnlyAdds, FilledMeansTarget
        <5> QED
          BY <3>1, <4>1, <4>3, <5>1 DEF TargetQuantity
      <4> QED
        BY <4>2, <4>3
    <3>2. ASSUME NEW p \in Orders, Told(p)', Intent[p].sizing # "QUANTITY"
          PROVE  \E t \in Snapshots : ~Marketable(p, t) \/ filled'[p] >= TargetQuantity(p, t)
      <4>1. CASE p # o \/ Replayed(o, s)
        <5>1. PICK t \in Snapshots : ~Marketable(p, t) \/ filled[p] >= TargetQuantity(p, t)
          BY <2>1, <3>2, <4>1, MatchOnlyAdds DEF FilledIsTrue
        <5>2. /\ TargetQuantity(p, t) \in Nat /\ filled[p] \in Nat
              /\ filled'[p] \in Nat /\ filled'[p] >= filled[p]
          BY <2>1, QuantityTypes, MatchOnlyAdds DEF TypeOK
        <5> QED
          BY <5>1, <5>2
      <4>2. CASE p = o /\ ~Replayed(o, s)
        BY <2>1, <3>2, <4>2, MatchOnlyAdds, FilledMeansTarget
      <4> QED
        BY <4>1, <4>2
    <3> QED
      BY <3>1, <3>2 DEF FilledIsTrue, Marketable, TargetQuantity, ExecutionPrice
  <2>2. ASSUME NEW o \in Orders, RequestCancel(o) PROVE FilledIsTrue'
    BY <2>2 DEF RequestCancel, FilledIsTrue, TypeOK, Marketable, TargetQuantity, ExecutionPrice
  <2>3. ASSUME NEW o \in Orders, ResolveCancel(o) PROVE FilledIsTrue'
    BY <2>3 DEF ResolveCancel, FilledIsTrue, TypeOK, Marketable, TargetQuantity, ExecutionPrice
  <2>4. CASE UNCHANGED <<status, filled>>
    BY <2>4 DEF FilledIsTrue, Marketable, TargetQuantity, ExecutionPrice
  <2> QED
    BY <2>1, <2>2, <2>3, <2>4, StepKinds
<1> QED
  BY <1>1, <1>2, TypeCorrect, NoOverfill, PTL DEF Spec

\* The price of a fill stays on the order's side of its limit, though it is
\* slipped.
LEMMA PriceWithinLimit ==
  ASSUME NEW o \in Orders, NEW s \in Snapshots, Intent[o].type = "LIMIT"
  PROVE  IF Intent[o].side = "BUY" THEN ExecutionPrice(o, s) <= Intent[o].limit
         ELSE ExecutionPrice(o, s) >= Intent[o].limit
<1>1. /\ Intent[o].limit \in Nat /\ Slippage \in Nat
      /\ Quote[s].ref["BUY"] \in Nat /\ Quote[s].ref["SELL"] \in Nat
  BY InputAssumption DEF IntentType, QuoteType, Sides
<1> QED
  BY <1>1 DEF ExecutionPrice, Least, Greatest

\* No fill trades through its order's limit.
THEOREM LimitsAlwaysRespected == Spec => []LimitRespected
<1>1. Init => LimitRespected
  BY DEF Init, LimitRespected
<1>2. LimitRespected /\ [Next]_vars => LimitRespected'
  <2> SUFFICES ASSUME LimitRespected, [Next]_vars PROVE LimitRespected'
    OBVIOUS
  <2>1. ASSUME NEW o \in Orders, NEW s \in Snapshots, NEW acked, Match(o, s, acked)
        PROVE  LimitRespected'
    <3>1. ASSUME NEW f \in fills', f \notin fills
          PROVE  f.order = o /\ f.price = ExecutionPrice(o, s)
      BY <2>1, <3>1 DEF Match
    <3> QED
      BY <3>1, PriceWithinLimit DEF LimitRespected
  <2>2. CASE UNCHANGED fills
    BY <2>2 DEF LimitRespected
  <2> QED
    BY <2>1, <2>2, StepKinds DEF RequestCancel, ResolveCancel
<1> QED
  BY <1>1, <1>2, PTL DEF Spec

-------------------------------------------------------------------------------

\* Strengthening for the refinement: a fill always has its match observation,
\* the idempotency key that stops the same evidence from filling again.
FillsObserved == \A f \in fills : Observed(f.order, MatchKey(f.snapshot))

LEMMA FillsAlwaysObserved == Spec => []FillsObserved
<1>1. Init => FillsObserved
  BY DEF Init, FillsObserved
<1>2. TypeOK /\ FillsObserved /\ [Next]_vars => FillsObserved'
  <2> SUFFICES ASSUME TypeOK, FillsObserved, [Next]_vars PROVE FillsObserved'
    OBVIOUS
  <2>0. observations \subseteq observations'
    BY StepKinds DEF Match, RequestCancel, ResolveCancel
  <2>1. ASSUME NEW o \in Orders, NEW s \in Snapshots, NEW acked, Match(o, s, acked)
        PROVE  FillsObserved'
    <3> SUFFICES ASSUME NEW f \in fills' PROVE Observed(f.order, MatchKey(f.snapshot))'
      BY DEF FillsObserved
    <3>1. CASE f \in fills
      BY <2>0, <3>1 DEF FillsObserved, Observed, MatchKey
    <3>2. CASE f \notin fills
      <4>1. Executes(o, s) /\ f.order = o /\ f.snapshot = s
        BY <2>1, <3>2 DEF Match
      <4>2. Observation(o, MatchKey(s), MatchStatus(o, s)) \in observations'
        BY <2>1, <4>1 DEF Match, Executes
      <4>3. /\ Observation(o, MatchKey(s), MatchStatus(o, s)).order = o
            /\ Observation(o, MatchKey(s), MatchStatus(o, s)).key = MatchKey(s)
        BY DEF Observation
      <4> QED
        BY <4>1, <4>2, <4>3 DEF Observed, MatchKey
    <3> QED
      BY <3>1, <3>2
  <2>2. CASE UNCHANGED fills
    BY <2>0, <2>2 DEF FillsObserved, Observed, MatchKey
  <2> QED
    BY <2>1, <2>2, StepKinds DEF RequestCancel, ResolveCancel
<1> QED
  BY <1>1, <1>2, TypeCorrect, PTL DEF Spec

\* The engine implements the abstract venue.
THEOREM EngineImplementsVenue == Spec => ImplementsVenue
<1>1. Init => Venue!Init
  BY DEF Init, Venue!Init, UsedEvidence
<1>2. TypeOK /\ FillsObserved /\ [Next]_vars => [Venue!Next]_(Venue!vars)
  <2> SUFFICES ASSUME TypeOK, FillsObserved, [Next]_vars
               PROVE  Venue!Next \/ UNCHANGED Venue!vars
    OBVIOUS
  <2>1. ASSUME NEW o \in Orders, NEW s \in Snapshots, NEW acked, Match(o, s, acked),
               Executes(o, s)
        PROVE  Venue!Fill(o, s)
    <3> DEFINE q == FillQuantity(o, s)
               new == [order |-> o, snapshot |-> s, quantity |-> q,
                       price |-> ExecutionPrice(o, s)]
    <3>1. fills' = fills \cup {new} /\ new.order = o /\ new.snapshot = s
      BY <2>1 DEF Match
    <3>2. s \notin UsedEvidence[o]
      BY <2>1 DEF UsedEvidence, FillsObserved, Executes, Replayed
    <3>3. UsedEvidence' = [UsedEvidence EXCEPT ![o] = @ \cup {s}]
      BY <3>1 DEF UsedEvidence
    <3>4. q \in Nat /\ q > 0 /\ q <= Remaining(o, s)
      BY <2>1, QuantityTypes DEF Executes, TypeOK
    <3>5. Remaining(o, s) = TargetQuantity(o, s) - filled[o]
      BY <2>1, QuantityTypes DEF Executes, Remaining, Greatest, TypeOK
    <3>6. q \in 1 .. TargetQuantity(o, s) - filled[o]
      BY <3>4, <3>5, QuantityTypes DEF TypeOK
    <3>7. filled' = [filled EXCEPT ![o] = @ + q]
      BY <2>1 DEF Match
    <3> HIDE DEF q
    <3> QED
      BY <3>2, <3>3, <3>6, <3>7 DEF Venue!Fill
  <2>2. CASE UNCHANGED <<fills, filled>>
    BY <2>2 DEF Venue!vars, UsedEvidence
  <2> QED
    BY <2>1, <2>2, StepKinds DEF Venue!Next, Match, RequestCancel, ResolveCancel
<1> QED
  BY <1>1, <1>2, TypeCorrect, FillsAlwaysObserved, PTL
  DEF Spec, ImplementsVenue, Venue!Spec

\* An order of fixed quantity leaves FILLED only through TOO_LATE.
THEOREM CancelsNeverHideFills == Spec => CancelNeverHidesFill
<1> DEFINE Step == \A o \in Orders :
      (Intent[o].sizing = "QUANTITY" /\ status[o] = "FILLED") =>
        status'[o] \in {"FILLED", "TOO_LATE_ALREADY_FILLED"}
<1>1. TypeOK /\ FilledIsTrue /\ [Next]_vars => [Step]_status
  <2> SUFFICES ASSUME TypeOK, FilledIsTrue, [Next]_vars,
                      NEW p \in Orders, Intent[p].sizing = "QUANTITY", status[p] = "FILLED"
               PROVE  status'[p] \in {"FILLED", "TOO_LATE_ALREADY_FILLED"}
    OBVIOUS
  <2>1. ASSUME NEW o \in Orders, NEW s \in Snapshots, NEW acked, Match(o, s, acked)
        PROVE  status'[p] = "FILLED"
    <3>1. CASE p # o \/ Replayed(o, s)
      BY <2>1, <3>1 DEF Match, TypeOK
    <3>2. CASE p = o /\ ~Replayed(o, s)
      <4>1. filled[o] = Intent[o].size /\ Intent[o].size \in Nat
        BY <3>2, InputAssumption DEF FilledIsTrue, IntentType
      <4>2. Remaining(o, s) = 0
        BY <3>2, <4>1 DEF Remaining, Greatest, TargetQuantity
      <4> QED
        BY <2>1, <3>2, <4>2 DEF Match, MatchStatus, TypeOK
    <3> QED
      BY <3>1, <3>2
  <2>2. ASSUME NEW o \in Orders, RequestCancel(o)
        PROVE  status'[p] = "FILLED"
    BY <2>2 DEF RequestCancel, TypeOK
  <2>3. ASSUME NEW o \in Orders, ResolveCancel(o)
        PROVE  status'[p] \in {"FILLED", "TOO_LATE_ALREADY_FILLED"}
    BY <2>3 DEF ResolveCancel, TypeOK
  <2> QED
    BY <2>1, <2>2, <2>3, StepKinds
<1> QED
  BY <1>1, TypeCorrect, FilledAlwaysTrue, PTL DEF Spec, CancelNeverHidesFill

\* No retry, cancel or snapshot fills an order beyond its size or its limit.
THEOREM FillsAlwaysDue == Spec => []FillsAreDue
  BY TypeCorrect, NoOverfill, LimitsAlwaysRespected, PTL DEF FillsAreDue

\* FILLED is said of an order of fixed quantity only when it is filled, of a
\* notional order only as FilledIsTrue has it, and a cancel does not hide it.
THEOREM StatusesStayTrue == Spec => StatusesAreTrue
  BY FilledAlwaysTrue, CancelsNeverHideFills DEF StatusesAreTrue

-------------------------------------------------------------------------------
(* The tape. *)

\* What a session is of, whole or up to a time.
IsCut(c) ==
  \A s \in 1..Streams :
    /\ DOMAIN c.events[s] \subseteq Int
    /\ \A i \in DOMAIN c.events[s] :
         c.events[s][i].at \in Int /\ (c.events[s][i].kind = "SAMPLE") = (c.mode = "LEGACY")
    /\ \A i \in DOMAIN c.chains[s] :
         /\ c.chains[s][i].at \in Int /\ DOMAIN c.chains[s][i].rows \subseteq Int
         /\ \A j \in DOMAIN c.chains[s][i].rows : c.chains[s][i].rows[j].expiration \in Int

\* What is made sure of before a session starts.
Sound(c) == \A s \in 1..Streams : Chronological(c.events[s]) /\ Indexed(c.chains[s])

Day(k) == Calendar[k].day

\* What is decided at an event of a session.
Decided(c, k, d) == \E e \in Events(c) : d = Decision(c, k, Primed(c, Day(k)), e)

TapeInv ==
  /\ tape \in Tapes /\ session \in DOMAIN Calendar
  /\ phase \in {"READY", "RUNNING", "DONE", "FAILED"}
  /\ left \subseteq Events(Session) /\ (left # {} => phase \in {"RUNNING", "FAILED"})
  /\ \/ frozen = [s \in 1..Streams |-> {}] /\ phase # "RUNNING"
     \/ Sound(Session) /\ frozen = Primed(Session, Day(session)) /\ phase # "READY"
  /\ \A d \in trace :
       /\ d.session \in DOMAIN Calendar /\ d.session <= session
       /\ Sound(Cut(tape, d.session)) /\ Decided(Cut(tape, d.session), d.session, d)
       /\ phase = "READY" => d.session < session /\ tape.mode # "LEGACY"
       /\ tape.mode = "LEGACY" => d.session = session
  /\ phase = "RUNNING" => \A d \in trace : \A e \in left :
       d.session = session => d.at <= Event(Session, e).at

LEMMA CalendarIs ==
  /\ DOMAIN Calendar = 1..Len(Calendar) /\ Len(Calendar) \in Nat /\ 1 \in DOMAIN Calendar
  /\ \A k \in DOMAIN Calendar : Day(k) \in Int
<1>1. Calendar \in Seq([day : Int, opened : Int, closed : Int]) /\ Calendar # << >>
  BY TapeAssumption
<1>. DEFINE S == [day : Int, opened : Int, closed : Int]
<1>2. \A x \in S : x.day \in Int
  OBVIOUS
<1>. HIDE DEF S
<1>3. Calendar \in Seq(S)
  BY <1>1 DEF S
<1>4. DOMAIN Calendar = 1..Len(Calendar) /\ Len(Calendar) \in Nat /\ Len(Calendar) # 0
  BY <1>1, <1>3
<1>5. \A k \in DOMAIN Calendar : Calendar[k] \in S
  BY <1>3, <1>4
<1>. QED  BY <1>2, <1>4, <1>5 DEF Day

LEMMA EventIs ==
  ASSUME NEW c
  PROVE  /\ \A e \in Events(c) : /\ e = <<e[1], e[2]>> /\ e[1] \in 1..Streams
                                 /\ e[2] \in DOMAIN c.events[e[1]]
         /\ \A s \in 1..Streams : \A i \in DOMAIN c.events[s] : <<s, i>> \in Events(c)
BY DEF Events

LEMMA TapeIsCut == ASSUME NEW t \in Tapes PROVE IsCut(t)
<1>1. IsTape(t)
  BY TapeAssumption
<1>. QED  BY <1>1 DEF IsTape, IsCut, Range

LEMMA CutIsCut ==
  ASSUME NEW t \in Tapes, NEW k PROVE IsCut(Cut(t, k)) /\ Cut(t, k).mode = t.mode
<1>1. IsCut(t) /\ t.mode \in {"LEGACY", "RESEARCH"}
  BY TapeIsCut, TapeAssumption DEF IsTape
<1>2. CASE t.mode = "LEGACY"
  BY <1>1, <1>2 DEF Cut
<1>3. CASE t.mode = "RESEARCH"
  <2>. DEFINE c == Cut(t, k)
  <2>1. c.mode = t.mode
    BY <1>3 DEF Cut
  <2>2. \A s \in 1..Streams :
          /\ DOMAIN c.events[s] \subseteq DOMAIN t.events[s]
          /\ \A i \in DOMAIN c.events[s] : c.events[s][i] = t.events[s][i]
          /\ DOMAIN c.chains[s] \subseteq DOMAIN t.chains[s]
          /\ \A i \in DOMAIN c.chains[s] : c.chains[s][i] = t.chains[s][i]
    BY <1>3 DEF Cut, RestrictValues, Restrict
  <2>. HIDE DEF c
  <2>3. IsCut(c)
    BY <1>1, <2>1, <2>2 DEF IsCut
  <2>. QED  BY <2>1, <2>3 DEF c
<1>. QED  BY <1>1, <1>2, <1>3

LEMMA KnownIs ==
  ASSUME NEW c, NEW t, NEW s \in 1..Streams
  PROVE  LET n == Known(c, t) IN
         /\ DOMAIN n.events[s] = {i \in DOMAIN c.events[s] : c.events[s][i].at <= t}
         /\ \A i \in DOMAIN n.events[s] : n.events[s][i] = c.events[s][i]
         /\ DOMAIN n.chains[s] = {i \in DOMAIN c.chains[s] : c.chains[s][i].at <= t}
         /\ \A i \in DOMAIN n.chains[s] : n.chains[s][i] = c.chains[s][i]
BY DEF Known, RestrictValues, Restrict

-------------------------------------------------------------------------------
(* Nothing from the future. *)

\* The first chain on offer, when it is known.
LEMMA PrimedIsKnown ==
  ASSUME NEW c, IsCut(c), NEW t \in Int, NEW day, NEW s \in 1..Streams,
         NEW x \in Range(c.chains[s]), x.rows # << >>, x.at <= t
  PROVE  Primed(Known(c, t), day)[s] = Primed(c, day)[s]
<1>. DEFINE n == Known(c, t)
            O(b) == {y \in Range(b.chains[s]) : y.rows # << >>}
            F(b) == {y \in O(b) : \A z \in O(b) : y.at <= z.at}
            P(b) == UNION {select_expiration({r.expiration : r \in Range(y.rows)}, day) : y \in F(b)}
<1>1. \A y \in Range(c.chains[s]) : y.at \in Int
  BY DEF IsCut, Range
<1>2. Range(n.chains[s]) = {y \in Range(c.chains[s]) : y.at <= t}
  BY KnownIs DEF Range
<1>. HIDE DEF n
<1>3. O(n) = {y \in O(c) : y.at <= t} /\ x \in O(c)
  BY <1>2
<1>4. F(n) = F(c)
  <2>1. \A y \in O(c) : y.at \in Int
    BY <1>1
  <2>. HIDE DEF O
  <2>. QED  BY <1>3, <2>1
<1>5. Primed(n, day)[s] = P(n) /\ Primed(c, day)[s] = P(c)
  BY DEF Primed
<1>6. P(n) = P(c)
  BY <1>4
<1>. QED  BY <1>5, <1>6 DEF n

\* A decision at an event is that of the tape up to it.
LEMMA DecisionIsKnown ==
  ASSUME NEW c, IsCut(c), Sound(c), NEW k, NEW day, NEW e \in Events(c)
  PROVE  LET n == Known(c, Event(c, e).at)
         IN e \in Events(n) /\ Decision(n, k, Primed(n, day), e) = Decision(c, k, Primed(c, day), e)
<1>. DEFINE t == Event(c, e).at
            n == Known(c, t)
            s == e[1]
            i == e[2]
<1>1. e = <<s, i>> /\ s \in 1..Streams /\ i \in DOMAIN c.events[s]
  BY EventIs
<1>2. t = c.events[s][i].at /\ t \in Int /\ i \in Int /\ DOMAIN c.events[s] \subseteq Int
  BY <1>1 DEF Event, IsCut
<1>3. /\ DOMAIN n.events[s] = {j \in DOMAIN c.events[s] : c.events[s][j].at <= t}
      /\ \A j \in DOMAIN n.events[s] : n.events[s][j] = c.events[s][j]
      /\ DOMAIN n.chains[s] = {j \in DOMAIN c.chains[s] : c.chains[s][j].at <= t}
      /\ \A j \in DOMAIN n.chains[s] : n.chains[s][j] = c.chains[s][j]
  BY <1>1, KnownIs
<1>. HIDE DEF n
<1>4. i \in DOMAIN n.events[s]
  BY <1>1, <1>2, <1>3
<1>5. e \in Events(n) /\ Event(n, e) = Event(c, e)
  <2>1. <<s, i>> \in Events(n)
    BY <1>1, <1>4, EventIs
  <2>. QED  BY <1>1, <1>3, <1>4, <2>1 DEF Event
<1>6. Completed(n, e) = Completed(c, e)
  <2>1. i - 1 \in DOMAIN c.events[s] => c.events[s][i - 1].at < t
    BY <1>1, <1>2 DEF Sound, Chronological
  <2>2. i - 1 \in DOMAIN c.events[s] => c.events[s][i - 1].at \in Int
    BY <1>1 DEF IsCut
  <2>3. {i - 1} \cap DOMAIN n.events[s] = {i - 1} \cap DOMAIN c.events[s]
    BY <1>2, <1>3, <2>1, <2>2
  <2>4. {n.events[s][j] : j \in {i - 1} \cap DOMAIN n.events[s]}
          = {c.events[s][j] : j \in {i - 1} \cap DOMAIN c.events[s]}
    BY <1>3, <2>3
  <2>. QED  BY <1>5, <2>4 DEF Completed
<1>7. RowsAt(n, e) = RowsAt(c, e)
  <2>1. {x \in Range(n.chains[s]) : x.at = t} = {x \in Range(c.chains[s]) : x.at = t}
    BY <1>2, <1>3 DEF Range
  <2>. QED  BY <1>5, <2>1 DEF RowsAt
<1>8. \A E, F, r, p : (RowsAt(c, e) = {} \/ E = F) =>
        Resolved(RowsAt(n, e), E, r, p) = Resolved(RowsAt(c, e), F, r, p)
  <2>1. \A E, r, p : Resolved({}, E, r, p) = {}
    BY DEF Resolved
  <2>. QED  BY <1>7, <2>1
<1>9. RowsAt(c, e) = {} \/ Primed(n, day)[s] = Primed(c, day)[s]
  <2>1. SUFFICES ASSUME RowsAt(c, e) # {} PROVE Primed(n, day)[s] = Primed(c, day)[s]
    OBVIOUS
  <2>2. PICK x \in Range(c.chains[s]) : x.at = t /\ DOMAIN x.rows # {}
    BY <2>1 DEF RowsAt
  <2>3. x.rows # << >> /\ x.at <= t
    BY <1>2, <2>2
  <2>. QED  BY <1>1, <1>2, <2>3, PrimedIsKnown DEF n
<1>10. \A r, p : Resolved(RowsAt(n, e), Primed(n, day)[s], r, p)
                  = Resolved(RowsAt(c, e), Primed(c, day)[s], r, p)
  BY <1>8, <1>9
<1>11. Decision(n, k, Primed(n, day), e) = Decision(c, k, Primed(c, day), e)
  BY <1>5, <1>6, <1>10 DEF Decision
<1>. QED  BY <1>5, <1>11 DEF n

-------------------------------------------------------------------------------
(* What is chosen. *)

LEMMA AtMostOne ==
  ASSUME NEW S, \A x, y \in S : x = y PROVE IsFiniteSet(S) /\ Cardinality(S) <= 1
<1>1. CASE S = {}
  BY <1>1, FS_EmptySet
<1>2. CASE S # {}
  <2>1. PICK x \in S : TRUE
    BY <1>2
  <2>2. S = {x}
    BY <2>1
  <2>3. IsFiniteSet({x}) /\ Cardinality({x}) = 1
    BY FS_Singleton
  <2>. QED  BY <2>2, <2>3
<1>. QED  BY <1>1, <1>2

LEMMA AtMostTwo ==
  ASSUME NEW S, NEW T, \A x, y \in S : x = y, \A x, y \in T : x = y
  PROVE  Cardinality(S \cup T) <= 2
<1>1. /\ IsFiniteSet(S) /\ IsFiniteSet(T) /\ Cardinality(S) <= 1 /\ Cardinality(T) <= 1
      /\ Cardinality(S) \in Nat /\ Cardinality(T) \in Nat
  BY AtMostOne, FS_CardinalityType
<1>2. IsFiniteSet(S \cap T) /\ Cardinality(S \cap T) \in Nat
  BY <1>1, FS_Subset, FS_CardinalityType
<1>3. Cardinality(S \cup T) = Cardinality(S) + Cardinality(T) - Cardinality(S \cap T)
  BY <1>1, FS_Union
<1>. QED  BY <1>1, <1>2, <1>3

\* A stream has one expiration, which is not past.
LEMMA PrimedIsOne ==
  ASSUME NEW c, IsCut(c), Sound(c), NEW day, NEW s \in 1..Streams
  PROVE  /\ \A x, y \in Primed(c, day)[s] : x = y
         /\ \A x \in Primed(c, day)[s] : x >= day
<1>. DEFINE O == {x \in Range(c.chains[s]) : x.rows # << >>}
            F == {x \in O : \A y \in O : x.at <= y.at}
            E(x) == {r.expiration : r \in Range(x.rows)}
<1>1. \A x \in O : x.at \in Int /\ E(x) \subseteq Int
  BY DEF IsCut, Range
<1>2. \A x, y \in O : x.at = y.at => x = y
  BY DEF Sound, Indexed, Range
<1>3. Primed(c, day)[s] = UNION {select_expiration(E(x), day) : x \in F}
  BY DEF Primed
<1>. HIDE DEF O, E
<1>4. \A x, y \in F : x = y
  BY <1>1, <1>2
<1>5. ASSUME NEW x \in F, NEW p \in select_expiration(E(x), day),
             NEW q \in select_expiration(E(x), day)
      PROVE  p = q /\ p >= day
  BY <1>1 DEF select_expiration
<1>. QED  BY <1>3, <1>4, <1>5

\* A bar closes one contract of a right at most.
LEMMA ResolvedIsOne ==
  ASSUME NEW c, IsCut(c), Sound(c), NEW e \in Events(c), NEW E, NEW right, NEW spot
  PROVE  /\ \A x, y \in Resolved(RowsAt(c, e), E, right, spot) : x = y
         /\ \A x \in Resolved(RowsAt(c, e), E, right, spot) : x.expiration \in E
<1>. DEFINE s == e[1]
            A == {x \in Range(c.chains[s]) : x.at = Event(c, e).at}
<1>1. s \in 1..Streams
  BY EventIs
<1>2. \A x, y \in A : x = y
  BY <1>1 DEF Sound, Indexed, Range
<1>3. \A x \in A : DOMAIN x.rows \subseteq Int
  BY <1>1 DEF IsCut, Range
<1>4. \A x \in RowsAt(c, e) : \E y \in A : \E j \in DOMAIN y.rows : x = <<j, y.rows[j]>>
  BY DEF RowsAt
<1>. HIDE DEF A
<1>5. \A x, y \in RowsAt(c, e) : x[1] \in Int /\ (x[1] = y[1] => x[2] = y[2])
  BY <1>2, <1>3, <1>4
<1>. QED  BY <1>5 DEF Resolved

LEMMA BarsAreOne ==
  ASSUME NEW c, NEW e \in Events(c)
  PROVE  \A x, y \in Completed(c, e) : x = y
BY DEF Completed

LEMMA DecisionFields ==
  ASSUME NEW c, NEW k, NEW exps, NEW e
  PROVE  LET d == Decision(c, k, exps, e) IN
         /\ d.session = k /\ d.stream = e[1] /\ d.at = Event(c, e).at /\ d.bars = Completed(c, e)
         /\ d.contracts = UNION {Resolved(RowsAt(c, e), exps[e[1]], r, bar.price) :
                                   r \in Rights, bar \in Completed(c, e)}
BY DEF Decision

LEMMA DecisionIsSmall ==
  ASSUME NEW c, IsCut(c), Sound(c), NEW k, NEW exps, NEW e \in Events(c), NEW d,
         d = Decision(c, k, exps, e)
  PROVE  /\ Cardinality(d.bars) <= 1 /\ Cardinality(d.contracts) <= Cardinality(Rights)
         /\ \A x \in d.contracts : x.expiration \in exps[d.stream]
<1>. DEFINE B == Completed(c, e)
            R(r, bar) == Resolved(RowsAt(c, e), exps[e[1]], r, bar.price)
            Of(r) == UNION {R(r, bar) : bar \in B}
<1>1. \A x, y \in B : x = y
  BY BarsAreOne
<1>2. \A r, bar : /\ \A x, y \in R(r, bar) : x = y
                  /\ \A x \in R(r, bar) : x.expiration \in exps[e[1]]
  BY ResolvedIsOne
<1>3. /\ d.bars = B /\ d.stream = e[1]
      /\ d.contracts = UNION {R(r, bar) : r \in Rights, bar \in B}
  BY DecisionFields
<1>. HIDE DEF B, R
<1>4. d.contracts = Of("CALL") \cup Of("PUT")
  BY <1>3 DEF Rights
<1>5. \A r : \A x, y \in Of(r) : x = y
  BY <1>1, <1>2
<1>6. Cardinality(d.contracts) <= 2
  <2>. HIDE DEF Of
  <2>. QED  BY <1>4, <1>5, AtMostTwo
<1>7. Cardinality(Rights) = 2
  <2>1. IsFiniteSet({"CALL"}) /\ Cardinality({"CALL"}) = 1
    BY FS_Singleton
  <2>2. "PUT" \notin {"CALL"}
    OBVIOUS
  <2>3. Cardinality({"CALL"} \cup {"PUT"}) = 2
    BY <2>1, <2>2, FS_AddElement
  <2>4. Rights = {"CALL"} \cup {"PUT"}
    BY DEF Rights
  <2>. QED  BY <2>3, <2>4
<1>8. Cardinality(d.bars) <= 1
  BY <1>1, <1>3, AtMostOne
<1>. QED  BY <1>2, <1>3, <1>6, <1>7, <1>8

-------------------------------------------------------------------------------
(* Minutes. *)

LEMMA MinutesRise ==
  ASSUME NEW a \in Int, NEW b \in Int, a <= b PROVE Minute(a) \in Int /\ Minute(a) <= Minute(b)
<1>0. PICK n \in Nat \ {0} : n = PerMinute
  BY TapeAssumption
<1>1. ASSUME NEW x \in Int
      PROVE  x \div n \in Int /\ n * (x \div n) <= x /\ x < n * (x \div n) + n
  BY <1>0
<1>2. PICK p \in Int, q \in Int : p = a \div n /\ q = b \div n
  BY <1>1
<1>3. n * p <= b /\ b < n * q + n
  BY <1>1, <1>2
<1>4. n * p < n * (q + 1)
  BY <1>3
<1>5. p <= q
  <2>1. ASSUME p >= q + 1 PROVE n * p >= n * (q + 1)
    BY <2>1
  <2>. QED  BY <1>4, <2>1
<1>. QED  BY <1>0, <1>2, <1>5 DEF Minute

\* A bar of samples is the sample before its event, which is of a later minute.
LEMMA BarIsPrevious ==
  ASSUME NEW c, IsCut(c), Sound(c), c.mode = "LEGACY", NEW e \in Events(c),
         NEW bar \in Completed(c, e)
  PROVE  /\ e[2] - 1 \in DOMAIN c.events[e[1]] /\ bar = c.events[e[1]][e[2] - 1]
         /\ Minute(bar.at) < Minute(Event(c, e).at)
<1>. DEFINE s == e[1]
            i == e[2]
            x == c.events[s][i]
<1>1. s \in 1..Streams /\ i \in DOMAIN c.events[s] /\ i \in Int
  BY EventIs DEF IsCut
<1>2. Event(c, e) = x /\ x.kind = "SAMPLE" /\ x.at \in Int
  BY <1>1 DEF Event, IsCut
<1>3. i - 1 \in DOMAIN c.events[s] /\ bar = c.events[s][i - 1] /\ Minute(bar.at) # Minute(x.at)
  BY <1>2 DEF Completed
<1>4. bar.at \in Int /\ bar.at < x.at
  BY <1>1, <1>3 DEF IsCut, Sound, Chronological
<1>5. Minute(bar.at) \in Int /\ Minute(x.at) \in Int /\ Minute(bar.at) <= Minute(x.at)
  BY <1>2, <1>4, MinutesRise
<1>. QED  BY <1>2, <1>3, <1>5

LEMMA MinuteIsOver ==
  ASSUME NEW c, IsCut(c), Sound(c), c.mode = "LEGACY", NEW e \in Events(c),
         NEW bar \in Completed(c, e), NEW y \in Range(c.events[e[1]]),
         Minute(y.at) = Minute(bar.at)
  PROVE  y.at <= bar.at
<1>. DEFINE s == e[1]
            i == e[2]
<1>1. s \in 1..Streams /\ i \in DOMAIN c.events[s] /\ DOMAIN c.events[s] \subseteq Int
  BY EventIs DEF IsCut
<1>2. PICK j \in DOMAIN c.events[s] : y = c.events[s][j]
  BY DEF Range
<1>3. \A n \in DOMAIN c.events[s] : c.events[s][n].at \in Int
  BY <1>1 DEF IsCut
<1>4. \A m, n \in DOMAIN c.events[s] : m < n => c.events[s][m].at < c.events[s][n].at
  BY <1>1 DEF Sound, Chronological
<1>5. /\ i - 1 \in DOMAIN c.events[s] /\ bar = c.events[s][i - 1]
      /\ Minute(bar.at) < Minute(c.events[s][i].at)
  BY BarIsPrevious DEF Event
<1>6. CASE j <= i - 1
  <2>1. j = i - 1 \/ j < i - 1
    BY <1>1, <1>6
  <2>. QED  BY <1>2, <1>3, <1>4, <1>5, <2>1
<1>7. CASE ~(j <= i - 1)
  <2>1. j = i \/ i < j
    BY <1>1, <1>7
  <2>2. c.events[s][i].at <= y.at /\ y.at \in Int /\ c.events[s][i].at \in Int
    BY <1>1, <1>2, <1>3, <1>4, <2>1
  <2>3. Minute(c.events[s][i].at) \in Int /\ Minute(c.events[s][i].at) <= Minute(y.at)
    BY <2>2, MinutesRise
  <2>4. Minute(bar.at) \in Int
    BY <1>3, <1>5, MinutesRise
  <2>. QED  BY <1>5, <2>3, <2>4
<1>. QED  BY <1>6, <1>7

\* No two events of a stream close the same bar.
LEMMA BarsPart ==
  ASSUME NEW c, IsCut(c), Sound(c), c.mode = "LEGACY", NEW e \in Events(c), NEW f \in Events(c),
         e[1] = f[1], NEW bar \in Completed(c, e), bar \in Completed(c, f)
  PROVE  e = f
<1>. DEFINE s == e[1]
<1>1. /\ s \in 1..Streams /\ DOMAIN c.events[s] \subseteq Int
      /\ e[2] \in DOMAIN c.events[s] /\ f[2] \in DOMAIN c.events[s]
      /\ e = <<s, e[2]>> /\ f = <<s, f[2]>>
  BY EventIs DEF IsCut
<1>2. /\ e[2] - 1 \in DOMAIN c.events[s] /\ f[2] - 1 \in DOMAIN c.events[s]
      /\ c.events[s][e[2] - 1] = c.events[s][f[2] - 1]
  BY BarIsPrevious
<1>3. \A m, n \in DOMAIN c.events[s] : m < n => c.events[s][m] # c.events[s][n]
  BY <1>1 DEF IsCut, Sound, Chronological
<1>4. e[2] - 1 = f[2] - 1
  <2>1. ~(e[2] - 1 < f[2] - 1) /\ ~(f[2] - 1 < e[2] - 1)
    BY <1>2, <1>3
  <2>. QED  BY <1>1, <2>1
<1>. QED  BY <1>1, <1>4

-------------------------------------------------------------------------------
(* What follows. *)

LEMMA FrozenIsOne ==
  ASSUME TapeInv, NEW s \in 1..Streams PROVE Cardinality(frozen[s]) <= 1
<1>1. CASE frozen = [r \in 1..Streams |-> {}]
  BY <1>1, FS_EmptySet
<1>2. CASE Sound(Session) /\ frozen = Primed(Session, Day(session))
  <2>1. IsCut(Session)
    BY CutIsCut DEF TapeInv, Session
  <2>. QED  BY <1>2, <2>1, PrimedIsOne, AtMostOne
<1>. QED  BY <1>1, <1>2 DEF TapeInv

\* What holds of a decision of a session.
LEMMA DecidedIs ==
  ASSUME TapeInv, NEW d \in trace
  PROVE  LET c == Cut(tape, d.session) IN
         /\ IsCut(c) /\ Sound(c) /\ c.mode = tape.mode /\ d.session \in DOMAIN Calendar
         /\ \E e \in Events(c) :
              d = Decision(c, d.session, Primed(c, Day(d.session)), e)
BY CutIsCut DEF TapeInv, Decided

LEMMA FutureImplied == ASSUME TapeInv PROVE NothingFromTheFuture
<1>. SUFFICES ASSUME NEW d \in trace
              PROVE  LET c == Known(Cut(tape, d.session), d.at) IN \E e \in Events(c) :
                       d = Decision(c, d.session, Primed(c, Calendar[d.session].day), e)
  BY DEF NothingFromTheFuture
<1>. DEFINE c == Cut(tape, d.session)
            k == d.session
            n == Known(c, d.at)
<1>1. IsCut(c) /\ Sound(c)
  BY DecidedIs
<1>2. PICK e \in Events(c) : d = Decision(c, k, Primed(c, Day(k)), e)
  BY DecidedIs
<1>3. d.at = Event(c, e).at
  BY <1>2, DecisionFields
<1>. HIDE DEF c
<1>4. e \in Events(n) /\ Decision(n, k, Primed(n, Day(k)), e) = Decision(c, k, Primed(c, Day(k)), e)
  BY <1>1, <1>3, DecisionIsKnown
<1>. QED  BY <1>2, <1>4 DEF Day, c

LEMMA TypesImplied == ASSUME TapeInv PROVE TapeTypeOK
<1>1. tape.mode \in {"LEGACY", "RESEARCH"}
  BY TapeAssumption DEF TapeInv, IsTape
<1>2. ASSUME NEW d \in trace
      PROVE  Cardinality(d.bars) <= 1 /\ Cardinality(d.contracts) <= Cardinality(Rights)
  <2>. DEFINE c == Cut(tape, d.session)
  <2>1. IsCut(c) /\ Sound(c)
    BY DecidedIs
  <2>2. PICK e \in Events(c) : d = Decision(c, d.session, Primed(c, Day(d.session)), e)
    BY DecidedIs
  <2>. HIDE DEF c
  <2>. QED  BY <2>1, <2>2, DecisionIsSmall
<1>. QED  BY <1>1, <1>2, FrozenIsOne DEF TapeInv, TapeTypeOK

LEMMA MinutesImplied == ASSUME TapeInv PROVE MinutesAreOver
<1>. SUFFICES ASSUME tape.mode = "LEGACY", NEW d \in trace, NEW bar \in d.bars
              PROVE  /\ Minute(bar.at) < Minute(d.at)
                     /\ \A y \in Range(tape.events[d.stream]) :
                          Minute(y.at) = Minute(bar.at) => y.at <= bar.at
                     /\ \A x \in trace : x.stream = d.stream /\ bar \in x.bars => x = d
  BY DEF MinutesAreOver
<1>1. \A k : Cut(tape, k) = tape
  BY DEF Cut
<1>2. IsCut(tape) /\ Sound(tape)
  BY <1>1, DecidedIs
<1>3. PICK e \in Events(tape) : d = Decision(tape, session, Primed(tape, Day(session)), e)
  BY <1>1, DecidedIs DEF TapeInv
<1>4. d.stream = e[1] /\ d.at = Event(tape, e).at /\ bar \in Completed(tape, e)
  BY <1>3, DecisionFields
<1>5. Minute(bar.at) < Minute(d.at)
  BY <1>2, <1>4, BarIsPrevious
<1>6. ASSUME NEW y \in Range(tape.events[d.stream]), Minute(y.at) = Minute(bar.at)
      PROVE  y.at <= bar.at
  BY <1>2, <1>4, <1>6, MinuteIsOver
<1>7. ASSUME NEW x \in trace, x.stream = d.stream, bar \in x.bars PROVE x = d
  <2>1. PICK f \in Events(tape) : x = Decision(tape, session, Primed(tape, Day(session)), f)
    BY <1>1, DecidedIs DEF TapeInv
  <2>2. f[1] = e[1] /\ bar \in Completed(tape, f)
    BY <1>4, <1>7, <2>1, DecisionFields
  <2>3. e = f
    BY <1>2, <1>4, <2>2, BarsPart
  <2>. QED  BY <1>3, <2>1, <2>3
<1>. QED  BY <1>5, <1>6, <1>7

LEMMA SessionsImplied == ASSUME TapeInv PROVE SessionsAreWhole
<1>1. ASSUME NEW d \in trace, NEW r \in d.contracts
      PROVE  /\ r.expiration \in Primed(Cut(tape, d.session), Day(d.session))[d.stream]
             /\ d.stream \in 1..Streams
  <2>. DEFINE c == Cut(tape, d.session)
  <2>1. IsCut(c) /\ Sound(c)
    BY DecidedIs
  <2>2. PICK e \in Events(c) : d = Decision(c, d.session, Primed(c, Day(d.session)), e)
    BY DecidedIs
  <2>. HIDE DEF c
  <2>3. d.stream \in 1..Streams
    BY <2>2, DecisionFields, EventIs
  <2>4. r.expiration \in Primed(c, Day(d.session))[d.stream]
    BY <2>1, <2>2, DecisionIsSmall
  <2>. QED  BY <2>3, <2>4 DEF c
<1>2. ASSUME NEW d \in trace, NEW s \in 1..Streams
      PROVE  /\ \A x, y \in Primed(Cut(tape, d.session), Day(d.session))[s] : x = y
             /\ \A x \in Primed(Cut(tape, d.session), Day(d.session))[s] : x >= Day(d.session)
  BY DecidedIs, PrimedIsOne
<1>3. ASSUME NEW d \in trace, NEW x \in trace, d.session = x.session, d.stream = x.stream,
             NEW r \in d.contracts, NEW q \in x.contracts
      PROVE  r.expiration = q.expiration
  <2>. DEFINE P == Primed(Cut(tape, d.session), Day(d.session))[d.stream]
  <2>1. r.expiration \in P /\ q.expiration \in P /\ d.stream \in 1..Streams
    BY <1>1, <1>3
  <2>2. \A u, v \in P : u = v
    BY <1>2, <2>1
  <2>. HIDE DEF P
  <2>. QED  BY <2>1, <2>2
<1>4. \A d \in trace : \A r \in d.contracts : r.expiration >= Calendar[d.session].day
  BY <1>1, <1>2 DEF Day
<1>5. phase = "RUNNING" => \A d \in trace : \A e \in left :
         d.session = session => d.at <= Event(Session, e).at
  BY DEF TapeInv
<1>. QED  BY <1>3, <1>4, <1>5 DEF SessionsAreWhole

LEMMA CausalImplied == TapeInv => TapeIsCausal
BY TypesImplied, FutureImplied, MinutesImplied, SessionsImplied DEF TapeIsCausal

-------------------------------------------------------------------------------
(* The steps. *)

LEMMA TapeStarts == TapeInit => TapeInv
BY CalendarIs DEF TapeInit, TapeInv

LEMMA SkipKeeps == ASSUME TapeInv, Skip PROVE TapeInv'
<1>1. /\ phase = "READY" /\ left = {} /\ UNCHANGED <<tape, left, frozen, trace>>
      /\ frozen = [s \in 1..Streams |-> {}]
  BY DEF TapeInv, Skip
<1>2. \/ session' = session /\ phase' = "DONE"
      \/ session # Len(Calendar) /\ session' = session + 1 /\ phase' = "READY"
  BY <1>1 DEF Skip
<1>3. session' \in DOMAIN Calendar /\ session <= session' /\ session \in Int
  BY <1>2, CalendarIs DEF TapeInv
<1>4. \A d \in trace : /\ d.session \in DOMAIN Calendar /\ d.session \in Int /\ d.session < session
                       /\ tape.mode # "LEGACY"
                       /\ Sound(Cut(tape, d.session)) /\ Decided(Cut(tape, d.session), d.session, d)
  BY <1>1, CalendarIs DEF TapeInv
<1>. QED  BY <1>1, <1>2, <1>3, <1>4 DEF TapeInv

LEMMA StartKeeps == ASSUME TapeInv, Start PROVE TapeInv'
<1>1. /\ phase = "READY" /\ left = {} /\ UNCHANGED <<tape, session, trace>>
      /\ frozen = [s \in 1..Streams |-> {}]
  BY DEF TapeInv, Start
<1>2. Session' = Session /\ session \in Int
  BY <1>1, CalendarIs DEF Session, TapeInv
<1>3. \A d \in trace : /\ d.session \in DOMAIN Calendar /\ d.session \in Int /\ d.session < session
                       /\ tape.mode # "LEGACY"
                       /\ Sound(Cut(tape, d.session)) /\ Decided(Cut(tape, d.session), d.session, d)
  BY <1>1, CalendarIs DEF TapeInv
<1>4. CASE phase' = "RUNNING" /\ left' = Events(Session) /\ Sound(Session)
           /\ frozen' = Primed(Session, Day(session))
  BY <1>1, <1>2, <1>3, <1>4 DEF TapeInv
<1>5. CASE phase' = "FAILED" /\ UNCHANGED <<left, frozen>>
  BY <1>1, <1>2, <1>3, <1>5 DEF TapeInv
<1>. QED  BY <1>4, <1>5 DEF Start, Sound, Day

LEMMA EventKeeps == ASSUME TapeInv, NEW e \in Events(Session), ProcessEvent(e) PROVE TapeInv'
<1>. DEFINE decision == Decision(Session, session, frozen, e)
<1>1. /\ phase = "RUNNING" /\ e \in left /\ UNCHANGED <<tape, session, frozen>>
      /\ Sound(Session) /\ frozen = Primed(Session, Day(session))
      /\ session \in DOMAIN Calendar /\ session \in Int
  BY CalendarIs DEF TapeInv, ProcessEvent
<1>2. Session' = Session /\ Session = Cut(tape, session)
  BY <1>1 DEF Session
<1>3. \A d \in trace : /\ d.session \in DOMAIN Calendar /\ d.session <= session
                       /\ tape.mode = "LEGACY" => d.session = session
                       /\ Sound(Cut(tape, d.session)) /\ Decided(Cut(tape, d.session), d.session, d)
  BY DEF TapeInv
<1>4. \A d \in trace : \A f \in left : d.session = session => d.at <= Event(Session, f).at
  BY <1>1 DEF TapeInv
<1>5. \A f \in left : decision.at <= Event(Session, f).at
  <2>1. \A f \in Events(Session) : Event(Session, f).at \in Int
    BY CutIsCut, EventIs DEF TapeInv, Session, Event, IsCut
  <2>2. \A f \in left : Event(Session, e).at <= Event(Session, f).at
    BY <2>1 DEF ProcessEvent, Sooner, TapeInv
  <2>. QED  BY <2>2, DecisionFields
<1>6. /\ decision.session = session /\ Sound(Cut(tape, session))
      /\ Decided(Cut(tape, session), session, decision)
  BY <1>1, <1>2, DecisionFields DEF Decided
<1>. HIDE DEF decision
<1>7. CASE trace' = trace \cup {decision} /\ left' = left \ {e} /\ phase' = phase
  BY <1>1, <1>2, <1>3, <1>4, <1>5, <1>6, <1>7 DEF TapeInv
<1>8. CASE phase' = "FAILED" /\ UNCHANGED <<left, trace>>
  BY <1>1, <1>2, <1>3, <1>8 DEF TapeInv
<1>. QED  BY <1>7, <1>8 DEF ProcessEvent, decision

LEMMA FinishKeeps == ASSUME TapeInv, Finish PROVE TapeInv'
<1>1. phase = "RUNNING" /\ left = {} /\ UNCHANGED <<tape, left, trace>>
  BY DEF Finish
<1>2. session \in DOMAIN Calendar /\ session \in Int
  BY CalendarIs DEF TapeInv
<1>3. \A d \in trace : /\ d.session \in DOMAIN Calendar /\ d.session <= session /\ d.session \in Int
                       /\ tape.mode = "LEGACY" => d.session = session
                       /\ Sound(Cut(tape, d.session)) /\ Decided(Cut(tape, d.session), d.session, d)
  BY CalendarIs DEF TapeInv
<1>4. CASE phase' = "DONE" /\ UNCHANGED <<session, frozen>>
  <2>1. Session' = Session
    BY <1>1, <1>4 DEF Session
  <2>. QED  BY <1>1, <1>2, <1>3, <1>4, <2>1 DEF TapeInv
<1>5. CASE tape.mode # "LEGACY" /\ session # Len(Calendar) /\ session' = session + 1
           /\ phase' = "READY" /\ frozen' = [s \in 1..Streams |-> {}]
  <2>1. session' \in DOMAIN Calendar
    BY <1>2, <1>5, CalendarIs
  <2>. QED  BY <1>1, <1>2, <1>3, <1>5, <2>1 DEF TapeInv
<1>. QED  BY <1>4, <1>5 DEF Finish

LEMMA TapeSteps == TapeInv /\ [TapeNext]_tapeVars => TapeInv'
<1>1. CASE UNCHANGED tapeVars
  BY <1>1 DEF tapeVars, TapeInv, Session
<1>. QED  BY <1>1, SkipKeeps, StartKeeps, EventKeeps, FinishKeeps DEF TapeNext

\* What is decided at an event of a replay is what its tape up to that event
\* makes of it, on every tape: the choice of the expirations, which looks at the
\* whole session, owes nothing to what comes later.
THEOREM TapeStaysCausal == TapeSpec => []TapeIsCausal
  BY TapeStarts, TapeSteps, CausalImplied, PTL DEF TapeSpec
===============================================================================
