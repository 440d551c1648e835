---------------------------- MODULE TradingSwitch ----------------------------
(***************************************************************************)
(* What the risk governor promises the rest of the system, without P&L,    *)
(* marks or positions: a switch per trading session.  Requests to take new *)
(* risk are answered at any time, but granted only while the switch is     *)
(* open; once stopped it stays stopped until another session begins; and a *)
(* session begins closed, so that opening it is an act of its own.         *)
(***************************************************************************)
CONSTANTS Sessions, None
VARIABLES current, mode, answer

vars == <<current, mode, answer>>

Init ==
  /\ current = None
  /\ mode = "CLOSED"
  /\ answer = {}

Begin(s) ==
  /\ current # s
  /\ current' = s
  /\ mode' = "CLOSED"
  /\ UNCHANGED answer

Open ==
  /\ current # None
  /\ mode = "CLOSED" /\ mode' = "OPEN"
  /\ UNCHANGED <<current, answer>>

Close ==
  /\ mode = "OPEN" /\ mode' = "CLOSED"
  /\ UNCHANGED <<current, answer>>

Stop ==
  /\ current # None
  /\ mode # "STOPPED" /\ mode' = "STOPPED"
  /\ UNCHANGED <<current, answer>>

\* The answer carries the mode it was given in.
Answer(granted) ==
  /\ current # None
  /\ granted => mode = "OPEN"
  /\ answer' = {[granted |-> granted, mode |-> mode]}
  /\ UNCHANGED <<current, mode>>

Next ==
  \/ \E s \in Sessions : Begin(s)
  \/ Open \/ Close \/ Stop
  \/ \E granted \in BOOLEAN : Answer(granted)

Spec == Init /\ [][Next]_vars

===============================================================================
