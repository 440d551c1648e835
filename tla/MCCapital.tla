------------------------------ MODULE MCCapital ------------------------------
(***************************************************************************)
(* An instance of Siphon and Treasury for TLC, with the audit of them: two *)
(* accounts, the first with a loss between two profits.  Beside it, chosen *)
(* at the start, one of FlywheelSessions: two cells and three sessions.    *)
(***************************************************************************)
EXTENDS FlywheelAudit, FlywheelSessions
LOCAL INSTANCE TLC

CONSTANTS acc1, acc2, c1, s1, s2, i1

\* The first account wins, loses and wins again; the second wins once.
MC_Account == <<acc1, acc2, acc1, acc1>>
MC_Profit == <<12, 8, -4, 9>>
MC_Fee == <<1, 0, 0, 1>>
Ev(accounts, upto, cash, committed) ==
  [accounts |-> accounts, upto |-> upto, cash |-> cash, committed |-> committed]
\* An early snapshot of the first, that may be brought late; a later one,
\* whose cash binds; one of the second.
MC_Evidence == {Ev({acc1}, 1, 17, 2), Ev({acc1}, 4, 19, 0), Ev({acc2}, 4, 30, 0)}

MC_InstrumentOf == [c \in Configs |-> i1]
MC_Quotes == {[passes |-> TRUE, ask |-> 2], [passes |-> FALSE, ask |-> 2]}
MC_Fees == {[estimated |-> 0, actual |-> 1]}
\* Replications of one or both of the first pools, two of them overcommitted.
MC_Reports ==
  [held : {<<0, 0, 0>>, <<2, 0, 0>>, <<1, 1, 0>>, <<9, 0, 0>>}, spent : {<<0, 0, 0>>, <<1, 1, 0>>},
   zeroOrphans : {TRUE}]
MC_Opens == <<1, 2, 4>>
MC_Closes == <<1, 3, 4>>
MC_ArmLists == {{}, {1, 2}}

VARIABLE scenario

MCInit == Init /\ FlywheelInit /\ scenario \in {"flow", "replay"}

MCNext ==
  /\ \/ scenario = "flow" /\ Next /\ UNCHANGED flywheelVars
     \/ scenario = "replay" /\ FlywheelNext /\ UNCHANGED vars
  /\ UNCHANGED scenario

MCSpec == MCInit /\ [][MCNext]_<<vars, flywheelVars, scenario>>

\* The sessions differ in name alone.
MC_Symmetry == Permutations(Sessions)

\* The types of both scenarios.
CapitalTypeOK == TypeOK /\ FlywheelTypeOK
=============================================================================
