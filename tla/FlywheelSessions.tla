-------------------------- MODULE FlywheelSessions --------------------------
(***************************************************************************)
(* FlywheelRunner.run_replay (engine/replay/flywheel_runner.py): one       *)
(* thread takes the cells of the synthetic domain through a feed of market *)
(* slices.  The first slice of a session initializes the risk session of   *)
(* every cell that may take part in it; each slice then steps the engine   *)
(* of every cell of the session's line-up, in the order of their codes.    *)
(*                                                                         *)
(* A feed may repeat sessions that an earlier run has been through, which  *)
(* audits them.  The engines are the caller's: in its step a cell may be   *)
(* halted, or pay the genesis of a child.  A run that raises leaves what   *)
(* it has flushed to its caller.                                           *)
(*                                                                         *)
(* Sessions and times are numbers; the windows of the sessions are given.  *)
(***************************************************************************)
EXTENDS Integers, FiniteSets

CONSTANTS
  Cells,         \* numbers, in the order of their codes; 1 is A001
  ReplayDays,    \* the sessions of the feeds, numbers
  Opens, Closes, \* the window of each
  Children,      \* the cells that are born by genesis
  ArmLists,      \* the arm_cells of a slice
  MaxRuns        \* bound on the runs

Times == UNION {Opens[s]..Closes[s] : s \in ReplayDays}

ASSUME FlywheelAssumption ==
  /\ Cells \subseteq Nat /\ 1 \in Cells \ Children /\ Children \subseteq Cells
  /\ ArmLists \subseteq SUBSET Cells
  /\ ReplayDays \subseteq Nat /\ MaxRuns \in Nat
  /\ \A s \in ReplayDays : Opens[s] \in Nat /\ Closes[s] \in Nat /\ Opens[s] <= Closes[s]

VARIABLES
  status,    \* of each cell, NONE before its genesis
  born,      \* the occurred_at of each child's genesis event, in a set
  known,     \* risk_sessions: pairs of a session and a cell
  risk,      \* risk_governor_state: [session, state] of each cell, in a set
  running,   \* a run is on
  previous,  \* its previous_timestamp
  session,   \* the session of its slice
  arm,       \* the arm_cells of the slice, while its session is initialized
  begun,     \* the sessions it has met
  lineup,    \* _session_cells: pairs of a session and a cell
  todo,      \* the cells _initialize_session has yet to look at
  steps,     \* the cells of the line-up the slice has yet to step
  trace,     \* processing_trace: the cells it shows, with their session
  runs       \* how many runs began

cellVars == <<status, born, known, risk>>
replayVars == <<previous, session, arm, begun, lineup>>
flywheelVars == <<cellVars, replayVars, running, todo, steps, trace, runs>>

FlywheelInit ==
  /\ status = [c \in Cells |-> IF c \in Children THEN "NONE" ELSE "ACTIVE"]
  /\ born = [c \in Cells |-> {}]
  /\ known = {} /\ risk = [c \in Cells |-> {}]
  /\ running = FALSE /\ previous = 0 /\ session \in ReplayDays /\ arm = {}
  /\ begun = {} /\ lineup = {} /\ todo = {} /\ steps = {}
  /\ trace = {} /\ runs = 0

-----------------------------------------------------------------------------
(* The cells. *)

Canonical == {"INITIALIZING", "ACTIVE", "PAUSED", "HALTED_FOR_DAY"}
CanonicalCells == {c \in Cells : status[c] \in Canonical}

\* The cells are taken in the order of their codes.
First(S) == {c \in S : \A d \in S : c <= d}

\* GenesisFactory, which also writes the capital authorization of the child.
Genesis(c, at) ==
  /\ status[c] = "NONE"
  /\ status' = [status EXCEPT ![c] = "INITIALIZING"]
  /\ born' = [born EXCEPT ![c] = {at}]

\* A genesis that no engine of the run has paid.
GenesisElsewhere(c, at) ==
  /\ ~running /\ Genesis(c, at)
  /\ UNCHANGED <<known, risk, replayVars, running, todo, steps, trace, runs>>

\* An operator pauses a cell, or takes it out for good.
Operate(c, to) ==
  /\ ~running /\ status[c] \in Canonical \ {to, "INITIALIZING"}
  /\ status' = [status EXCEPT ![c] = to]
  /\ UNCHANGED <<born, known, risk, replayVars, running, todo, steps, trace, runs>>

-----------------------------------------------------------------------------
(* run_replay *)

StartRun ==
  /\ ~running /\ runs < MaxRuns
  /\ running' = TRUE /\ runs' = runs + 1
  /\ previous' = 0 /\ begun' = {} /\ lineup' = {} /\ trace' = {}
  /\ UNCHANGED <<cellVars, session, arm, todo, steps>>

Ready == running /\ todo = {} /\ steps = {}

\* A slice inside its window and not before the last; a session that is new
\* to the run is initialized, the others keep the line-up they began with.
TakeSlice(s, time, cells) ==
  /\ Ready /\ Opens[s] <= time /\ time <= Closes[s] /\ previous <= time
  /\ previous' = time /\ session' = s
  /\ begun' = begun \cup {s}
  /\ IF s \in begun
     THEN /\ steps' = {c \in Cells : <<s, c>> \in lineup}
          /\ UNCHANGED <<todo, arm>>
     ELSE todo' = CanonicalCells /\ arm' = cells /\ UNCHANGED steps
  /\ UNCHANGED <<cellVars, lineup, running, trace, runs>>

Quarantined_Fault(c) == \E at \in born[c] : at > Opens[session]

\* A child sits out the whole session it is born in.
Quarantined(c) == \E at \in born[c] : at >= Opens[session]

Audited_Fault(c) == FALSE

\* The cell has been through this session, and is in a later one.
Audited(c) ==
  /\ <<session, c>> \in known
  /\ \E r \in risk[c] : r.session # session /\ Opens[r.session] > Opens[session]

\* initialize_session: the state is reset unless the session is its current one.
Initialized(c) ==
  LET current == {r \in risk[c] : r.session = session}
  IN IF current # {} THEN current ELSE {[session |-> session, state |-> "DISARMED"]}

Armed(c) ==
  IF c \notin arm THEN Initialized(c)
  ELSE {IF r.state = "DISARMED" THEN [r EXCEPT !.state = "ARMED"] ELSE r : r \in Initialized(c)}

\* The last cell's turn begins the steps.
Turn(c, joined) ==
  /\ todo' = todo \ {c}
  /\ lineup' = lineup \cup joined
  /\ IF todo' = {} THEN steps' = {d \in Cells : <<session, d>> \in lineup'} /\ arm' = {}
     ELSE UNCHANGED <<steps, arm>>

\* One turn of the loop of _initialize_session.
InitializeCell(c) ==
  /\ c \in First(todo)
  /\ \/ Quarantined(c) /\ Turn(c, {}) /\ UNCHANGED <<status, known, risk>>
     \/ /\ ~Quarantined(c) /\ Audited(c)
        /\ Turn(c, {<<session, c>>}) /\ UNCHANGED <<status, known, risk>>
     \/ /\ ~Quarantined(c) /\ ~Audited(c) /\ Turn(c, {<<session, c>>})
        /\ known' = known \cup {<<session, c>>}
        /\ risk' = [risk EXCEPT ![c] = Armed(c)]
        /\ status' = [status EXCEPT ![c] = IF @ = "INITIALIZING" THEN "ACTIVE" ELSE @]
  /\ UNCHANGED <<born, previous, session, begun, running, trace, runs>>

Halted(r) == [r EXCEPT !.state = "HALTED_HARD"]
CanTrade(c) == \E r \in risk[c] : r.state = "ARMED"

\* engine.step of the next cell of the line-up
StepCell(c) ==
  /\ c \in First(steps) /\ steps' = steps \ {c}
  /\ trace' = trace \cup {[session |-> session, cell |-> c]}
  /\ \/ UNCHANGED <<status, born, risk>>
     \/ /\ CanTrade(c) /\ UNCHANGED <<status, born>>
        /\ risk' = [risk EXCEPT ![c] = {Halted(r) : r \in @}]
     \/ CanTrade(c) /\ UNCHANGED risk /\ \E d \in Children : Genesis(d, previous)
  /\ UNCHANGED <<known, replayVars, running, todo, runs>>

Ends ==
  /\ running' = FALSE /\ previous' = 0 /\ arm' = {} /\ begun' = {} /\ lineup' = {}
  /\ todo' = {} /\ steps' = {}
  /\ UNCHANGED <<cellVars, session, trace, runs>>

\* The feed is at its end.
Finish == Ready /\ begun # {} /\ Ends

\* A slice that is refused, a cell without capital authorization, an engine
\* that raises.
FailRun == running /\ Ends

FlywheelNext ==
  \/ StartRun \/ Finish \/ FailRun
  \/ \E c \in Cells : InitializeCell(c) \/ StepCell(c)
  \/ \E s \in ReplayDays, time \in Times, cells \in ArmLists : TakeSlice(s, time, cells)
  \/ \E c \in Children, at \in Times : GenesisElsewhere(c, at)
  \/ \E c \in Cells : Operate(c, "PAUSED") \/ Operate(c, "RETIRED")

FlywheelSpec == FlywheelInit /\ [][FlywheelNext]_flywheelVars

-----------------------------------------------------------------------------
(* Properties. *)

\* Types, and the foreign key of risk_governor_state to risk_sessions.
FlywheelTypeOK ==
  /\ status \in [Cells -> Canonical \cup {"NONE", "RETIRED"}]
  /\ \A c \in Cells : Cardinality(risk[c]) <= 1 /\ Cardinality(born[c]) <= 1
  /\ \A c \in Cells : \A r \in risk[c] :
       <<r.session, c>> \in known /\ r.state \in {"DISARMED", "ARMED", "HALTED_HARD"}
  /\ known \subseteq ReplayDays \X Cells
  /\ todo \subseteq Cells /\ steps \subseteq Cells /\ previous \in Nat

\* A child has no part in the session it was born in: not in the slices that
\* follow its genesis, and not in those of a later run that goes through the
\* session again, when the child has been there all along.
BirthSessionQuarantined ==
  \A e \in trace : \A at \in born[e.cell] : at < Opens[e.session]

\* An audit of sessions that a cell has been through never rewinds it: it is
\* taken back only to a session it had never been in, and that one it begins
\* disarmed or by the order to arm it.
AuditsNeverRewind ==
  [][\A c \in Cells : \A r \in risk[c], q \in risk'[c] :
       Opens[q.session] < Opens[r.session] =>
         <<q.session, c>> \notin known /\ (q.state = "ARMED" => c \in arm)]_flywheelVars
=============================================================================
