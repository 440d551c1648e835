----------------------------- MODULE ReplayTape -----------------------------
(***************************************************************************)
(* What a replay is made of: ReplayOrchestrator.replay_legacy and          *)
(* replay_research turn the streams of a tape into one sequence of market  *)
(* events, with closed bars and option chains, and resolve for each closed *)
(* bar the contracts the strategy may buy (engine/strategy/market_data.py, *)
(* option_resolver.py).  MultiYearReplayRunner does so for one session of  *)
(* a calendar after the other.  What comes of an event is ReplaySession.   *)
(*                                                                         *)
(* All of a session's tape is at hand before its first event, and the      *)
(* expirations are chosen then; a decision must owe nothing to what comes  *)
(* after its event all the same.  Times are sample numbers, prices cents.  *)
(***************************************************************************)
EXTENDS Integers, Sequences, FiniteSets, Functions

CONSTANTS
  Tapes,      \* what may be on the tape
  Streams,    \* how many streams it has, in their stable order
  Calendar,   \* the sessions: [day, opened, closed]
  PerMinute,  \* samples in a minute
  Registry,   \* identity of the instruments that exist and are not retired
  None        \* a volume or open interest nobody reported

Rights == {"CALL", "PUT"}

\* A sample of a legacy stream, or an event of a research stream.
Kinds == {"SAMPLE", "BAR", "TICK", "TRADE", "QUOTE"}

\* A stream is a sequence of events, beside one of option chains.
IsTape(t) ==
  /\ t.mode \in {"LEGACY", "RESEARCH"}
  /\ DOMAIN t.events = 1..Streams /\ DOMAIN t.chains = 1..Streams
  /\ \A s \in 1..Streams :
       /\ DOMAIN t.events[s] = 1..Len(t.events[s]) /\ DOMAIN t.chains[s] = 1..Len(t.chains[s])
       /\ \A x \in Range(t.events[s]) :
            x.at \in Int /\ x.kind \in Kinds /\ (x.kind = "SAMPLE") = (t.mode = "LEGACY")
       /\ \A x \in Range(t.chains[s]) :
            /\ x.at \in Int /\ DOMAIN x.rows = 1..Len(x.rows)
            /\ \A r \in Range(x.rows) : r.expiration \in Int

ASSUME TapeAssumption ==
  /\ Streams \in Nat \ {0} /\ PerMinute \in Nat \ {0}
  /\ Calendar \in Seq([day : Int, opened : Int, closed : Int]) /\ Calendar # << >>
  /\ \A k \in 2..Len(Calendar) : Calendar[k - 1].closed < Calendar[k].opened
  /\ \A t \in Tapes : IsTape(t)

VARIABLES
  tape,
  session,  \* number of the session in the calendar
  phase,    \* READY for a session, RUNNING in it, DONE, FAILED
  left,     \* events of the session to be processed: <<stream, position>>
  frozen,   \* LegacySessionExpirationResolver._resolved: no or one expiration per stream
  trace     \* what was decided at each event

tapeVars == <<tape, session, phase, left, frozen, trace>>

TapeInit ==
  /\ tape \in Tapes
  /\ session = 1 /\ phase = "READY" /\ left = {} /\ trace = {}
  /\ frozen = [s \in 1..Streams |-> {}]

-----------------------------------------------------------------------------
(* The streams *)

\* MultiYearReplayRunner._session_streams; a legacy replay is of one session.  What
\* is left of a stream keeps its place.
Cut(t, k) ==
  LET within(x) == Calendar[k].opened <= x.at /\ x.at <= Calendar[k].closed
      events == [s \in 1..Streams |-> RestrictValues(t.events[s], within)]
      chains == [s \in 1..Streams |->
                   RestrictValues(t.chains[s], LAMBDA x : within(x) /\ DOMAIN events[s] # {})]
  IN IF t.mode = "LEGACY" THEN t ELSE [mode |-> t.mode, events |-> events, chains |-> chains]

\* _require_strict_chronology
Chronological(events) == \A i, j \in DOMAIN events : i < j => events[i].at < events[j].at

\* _chain_index
Indexed(chains) == \A i, j \in DOMAIN chains : chains[i].at = chains[j].at => i = j

Events(c) == UNION {{s} \X DOMAIN c.events[s] : s \in 1..Streams}
Event(c, e) == c.events[e[1]][e[2]]

Minute(t) == t \div PerMinute

\* The bar an event closes, if any: in a legacy stream that of the minute before,
\* whose close is its last sample.
Completed(c, e) ==
  LET x == Event(c, e)
  IN IF x.kind = "BAR" THEN {x}
     ELSE {y \in {c.events[e[1]][i] : i \in {e[2] - 1} \cap DOMAIN c.events[e[1]]} :
             x.kind = "SAMPLE" /\ Minute(y.at) # Minute(x.at)}

\* The rows of the chain of the event's instant, none without one.
RowsAt(c, e) ==
  UNION {{<<i, chain.rows[i]>> : i \in DOMAIN chain.rows} :
         chain \in {x \in Range(c.chains[e[1]]) : x.at = Event(c, e).at}}

-----------------------------------------------------------------------------
(* The contracts *)

\* The session's own day, if it has one, or the first day after it.
select_expiration(expirations, day) ==
  {x \in expirations : x >= day /\ \A y \in expirations : y >= day => x <= y}

\* _prime_expirations: by the first chain of the stream that has a row.
Primed_Fault(c, day) ==
  [s \in 1..Streams |->
     LET offered == {i \in DOMAIN c.chains[s] : c.chains[s][i].rows # << >>}
         first == {i \in offered : \A j \in offered : i <= j}
     IN UNION {select_expiration({r.expiration : r \in Range(c.chains[s][i].rows)}, day) :
               i \in first}]

Primed(c, day) ==
  [s \in 1..Streams |->
     LET offered == {x \in Range(c.chains[s]) : x.rows # << >>}
         first == {x \in offered : \A y \in offered : x.at <= y.at}
     IN UNION {select_expiration({r.expiration : r \in Range(x.rows)}, day) : x \in first}]

\* No upcoming expiration is on offer.
Expired(c, day) ==
  \E s \in 1..Streams : Primed(c, day)[s] = {} /\ \E x \in Range(c.chains[s]) : x.rows # << >>

is_legacy_eligible(r) ==
  /\ r.bid > 0 /\ r.ask > 0 /\ r.ask <= 50 /\ r.ask - r.bid <= 3
  /\ \/ r.volume # None /\ r.volume >= 10
     \/ r.open_interest # None /\ r.open_interest >= 50

Distance(r, spot) == IF r.strike > spot THEN r.strike - spot ELSE spot - r.strike

\* resolve_legacy_option: the nearest strike, the first of the chain in a tie.
Resolved(rows, expiration, right, spot) ==
  LET eligible == {x \in rows : /\ x[2].expiration \in expiration /\ x[2].right = right
                                /\ is_legacy_eligible(x[2])}
      nearest == {x \in eligible : \A y \in eligible : Distance(x[2], spot) <= Distance(y[2], spot)}
  IN {x[2] : x \in {x \in nearest : \A y \in nearest : x[1] <= y[1]}}

\* validate_candidate_identity, of an instrument that is there.
Canonical(r) ==
  /\ r.id \in DOMAIN Registry
  /\ Registry[r.id] = [expiration |-> r.expiration, strike |-> r.strike, right |-> r.right]

\* _process_event up to the strategy: nothing is decided without a closed bar.
Decision(c, k, exps, e) ==
  LET bars == Completed(c, e)
  IN [session |-> k, stream |-> e[1], at |-> Event(c, e).at, bars |-> bars,
      contracts |-> UNION {Resolved(RowsAt(c, e), exps[e[1]], r, bar.price) :
                             r \in Rights, bar \in bars}]

-----------------------------------------------------------------------------

Session == Cut(tape, session)

\* A session without an event is passed over.
Skip ==
  /\ phase = "READY" /\ Events(Session) = {}
  /\ IF session = Len(Calendar) THEN phase' = "DONE" /\ UNCHANGED session
     ELSE session' = session + 1 /\ UNCHANGED phase
  /\ UNCHANGED <<tape, left, frozen, trace>>

\* Streams and chains are indexed and the expirations chosen before any event.
Start ==
  /\ phase = "READY" /\ Events(Session) # {}
  /\ IF /\ \A s \in 1..Streams : Chronological(Session.events[s]) /\ Indexed(Session.chains[s])
        /\ ~Expired(Session, Calendar[session].day)
     THEN /\ phase' = "RUNNING"
          /\ left' = Events(Session)
          /\ frozen' = Primed(Session, Calendar[session].day)
     ELSE phase' = "FAILED" /\ UNCHANGED <<left, frozen>>
  /\ UNCHANGED <<tape, session, trace>>

\* By time, and by the order of the streams in an instant.
Sooner(e, f) ==
  \/ Event(Session, e).at < Event(Session, f).at
  \/ Event(Session, e).at = Event(Session, f).at /\ e[1] <= f[1]

\* A contract that would be chosen must be the one on record.
ProcessEvent(e) ==
  LET decision == Decision(Session, session, frozen, e) IN
  /\ phase = "RUNNING" /\ e \in left /\ \A f \in left : Sooner(e, f)
  /\ IF \A r \in decision.contracts : Canonical(r)
     THEN trace' = trace \cup {decision} /\ left' = left \ {e} /\ UNCHANGED phase
     ELSE phase' = "FAILED" /\ UNCHANGED <<left, trace>>
  /\ UNCHANGED <<tape, session, frozen>>

Finish ==
  /\ phase = "RUNNING" /\ left = {}
  /\ IF tape.mode = "LEGACY" \/ session = Len(Calendar)
     THEN phase' = "DONE" /\ UNCHANGED <<session, frozen>>
     ELSE /\ session' = session + 1 /\ phase' = "READY"
          /\ frozen' = [s \in 1..Streams |-> {}]
  /\ UNCHANGED <<tape, left, trace>>

TapeNext == Skip \/ Start \/ Finish \/ \E e \in Events(Session) : ProcessEvent(e)

TapeSpec == TapeInit /\ [][TapeNext]_tapeVars

-----------------------------------------------------------------------------
(* Properties *)

TapeTypeOK ==
  /\ tape.mode \in {"LEGACY", "RESEARCH"} /\ session \in DOMAIN Calendar
  /\ phase \in {"READY", "RUNNING", "DONE", "FAILED"}
  /\ left \subseteq Events(Session) /\ (left # {} => phase \in {"RUNNING", "FAILED"})
  /\ \A s \in 1..Streams : Cardinality(frozen[s]) <= 1
  /\ \A d \in trace : Cardinality(d.bars) <= 1 /\ Cardinality(d.contracts) <= Cardinality(Rights)

\* What was known at time t.
Known(c, t) ==
  LET until(x) == x.at <= t
  IN [mode |-> c.mode,
      events |-> [s \in 1..Streams |-> RestrictValues(c.events[s], until)],
      chains |-> [s \in 1..Streams |-> RestrictValues(c.chains[s], until)]]

\* What is decided at an event is what would be decided of a tape that ends with
\* it, the choice of the expirations included.
NothingFromTheFuture ==
  \A d \in trace :
    LET c == Known(Cut(tape, d.session), d.at)
    IN \E e \in Events(c) :
         d = Decision(c, d.session, Primed(c, Calendar[d.session].day), e)

\* A bar of samples is of a minute that is over, by its last sample, and of one
\* that has not closed a bar before.
MinutesAreOver ==
  tape.mode = "LEGACY" =>
    \A d \in trace : \A bar \in d.bars :
      /\ Minute(bar.at) < Minute(d.at)
      /\ \A y \in Range(tape.events[d.stream]) : Minute(y.at) = Minute(bar.at) => y.at <= bar.at
      /\ \A x \in trace : x.stream = d.stream /\ bar \in x.bars => x = d

\* In a session the contracts of an underlying have one expiration, which is not
\* past, and every event is dealt with in its turn.
SessionsAreWhole ==
  /\ \A d, x \in trace : d.session = x.session /\ d.stream = x.stream =>
       \A r \in d.contracts, q \in x.contracts : r.expiration = q.expiration
  /\ \A d \in trace : \A r \in d.contracts : r.expiration >= Calendar[d.session].day
  /\ phase = "RUNNING" => \A d \in trace, e \in left :
       d.session = session => d.at <= Event(Session, e).at

\* A replay is of its tape, and of no more of it than has been played.
TapeIsCausal == TapeTypeOK /\ NothingFromTheFuture /\ MinutesAreOver /\ SessionsAreWhole
=============================================================================
