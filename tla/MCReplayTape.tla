--------------------------- MODULE MCReplayTape ---------------------------
(***************************************************************************)
(* Tapes for TLC, beside the orders of MCPaperBroker: what goes into a     *)
(* replay, and what becomes of the orders that come out of it: the market  *)
(* order and the others.  They share no state and are scenarios of one     *)
(* run.  A tape has two streams                                            *)
(* over six samples, of three minutes or two sessions.  The first has two  *)
(* or four samples and two chains, the second shares instants with it.     *)
(***************************************************************************)
EXTENDS MCPaperBroker, ReplayTape

CONSTANTS near, far, later, thin, put, unknown

MC_Calendar == <<[day |-> 1, opened |-> 0, closed |-> 2], [day |-> 2, opened |-> 3, closed |-> 5]>>

Row(id, expiration, strike, right, oi) ==
  [id |-> id, expiration |-> expiration, strike |-> strike, right |-> right, bid |-> 40, ask |-> 43,
   volume |-> None, open_interest |-> oi]

Identity(expiration, strike, right) ==
  [expiration |-> expiration, strike |-> strike, right |-> right]

MC_Registry ==
  [i \in {near, far, later, thin, put} |->
     CASE i = near -> Identity(1, 12, "CALL") [] i = far -> Identity(1, 14, "CALL")
       [] i = later -> Identity(2, 12, "CALL") [] i = thin -> Identity(2, 13, "CALL")
       [] i = put -> Identity(2, 13, "PUT")]

Near == Row(near, 1, 12, "CALL", 50)
Later == Row(later, 2, 12, "CALL", 50)
Offer == <<Later, Row(thin, 2, 13, "CALL", 49), Row(put, 2, 13, "PUT", 50)>>

\* Two strikes with a spot between them; a later day, with a nearer strike too
\* thin; both days; no row; a contract nobody has enrolled.
MC_Rows ==
  {<<Near, Row(far, 1, 14, "CALL", 50)>>, Offer, <<Later, Near>>, << >>,
   <<Row(unknown, 1, 13, "CALL", 50)>>}

Times == 0..5
Sample(kind, t) == [at |-> t, kind |-> kind, price |-> 10 + t]
Chain(t, rows) == [at |-> t, rows |-> rows]

\* The samples at some times, in order, or two out of order.
FirstEvents(kinds) ==
  {[i \in 1..Len(ts) |-> Sample(k, ts[i])] :
     k \in kinds, ts \in {ts \in UNION {[1..n -> Times] : n \in {2, 4}} :
                            \A i \in 2..Len(ts) : ts[i - 1] < ts[i]} \cup {<<2, 1>>}}
SecondEvents(kinds) ==
  {<< >>} \cup {<<Sample(k, 0), Sample(k, 2), Sample(k, 3)>> : k \in kinds}

FirstChains ==
  {<< >>} \cup {<<Chain(p[1], r), Chain(p[2], q)>> : p \in {<<1, 3>>, <<4, 2>>, <<3, 3>>},
                                               r \in MC_Rows, q \in MC_Rows}
SecondChains == {<< >>, <<Chain(2, << >>), Chain(3, Offer)>>}

TapesOf(mode, kinds) ==
  {[mode |-> mode, events |-> <<a, b>>, chains |-> <<c, d>>] :
     a \in FirstEvents(kinds), b \in SecondEvents(kinds), c \in FirstChains, d \in SecondChains}

MC_Tapes == TapesOf("LEGACY", {"SAMPLE"}) \cup TapesOf("RESEARCH", {"BAR", "QUOTE"})

VARIABLE scenario

Blank == [mode |-> "LEGACY", events |-> <<<< >>, << >>>>, chains |-> <<<< >>, << >>>>]

MCInit ==
  /\ Init /\ scenario \in {"limits", "market", "input"}
  /\ \/ scenario = "input" /\ TapeInit
     \/ /\ scenario # "input" /\ tape = Blank /\ session = 1 /\ phase = "DONE" /\ left = {}
        /\ trace = {} /\ frozen = [s \in 1..Streams |-> {}]

\* Next with the orders of a scenario.
Trade(orders) ==
  \/ \E o \in orders, s \in Snapshots : SubmitOrder(o, s) \/ ProcessQuote(o, s)
  \/ \E o \in orders : RequestCancel(o) \/ ResolveCancel(o)
  \/ RetireBroker

MCNext ==
  /\ \/ scenario = "limits" /\ Trade(Orders \ {market}) /\ UNCHANGED tapeVars
     \/ scenario = "market" /\ Trade({market}) /\ UNCHANGED tapeVars
     \/ scenario = "input" /\ TapeNext /\ UNCHANGED vars
  /\ UNCHANGED scenario

MCSpec == MCInit /\ [][MCNext]_<<vars, tapeVars, scenario>>
===========================================================================
