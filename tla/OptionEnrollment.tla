-------------------------- MODULE OptionEnrollment --------------------------
(***************************************************************************)
(* HistoricalOptionEnrollmentGate (engine/data/option_enrollment.py): the  *)
(* option contracts a provider's quotes speak of are given instruments of  *)
(* their own.  A call parses its discoveries, then looks up and inserts    *)
(* one contract after the other; its caller commits, and the accountings   *)
(* of the calls are added up (CanonicalResolutionAccounting.combine).      *)
(*                                                                         *)
(* One call to a transaction, READ COMMITTED.  An insert whose identity    *)
(* another transaction has inserted and not committed waits for it.        *)
(* Contracts are numbers, in the order of expiration, strike and right;    *)
(* the derived identity and the OCC symbol of a contract are its number,   *)
(* those that anybody else gave it its negative.                           *)
(***************************************************************************)
EXTENDS Integers, Sequences, FiniteSets, FiniteSetsExt, SequencesExt

CONSTANTS
  Enrollers,   \* database sessions
  Contracts,   \* numbers from 1
  Batches,     \* what a call may be given: sets of [key, contract, at, fault]
  ForeignRows, \* what others may register: [id, symbol, contract]
  MaxOutcomes  \* bound on the committed calls

ASSUME EnrollmentAssumption ==
  /\ IsFiniteSet(Enrollers)
  /\ Contracts \subseteq Nat \ {0} /\ MaxOutcomes \in Nat
  /\ \A b \in Batches : /\ IsFiniteSet(b)
                       /\ \A d \in b : d.fault = "" => d.contract \in Contracts /\ d.at \in Nat
  /\ ForeignRows \subseteq [id : Int, symbol : Int, contract : Contracts]
  /\ \A r \in ForeignRows : r.id < 0 \/ r.symbol < 0

VARIABLES
  instruments, \* committed option rows: [id, symbol, contract, from, retired]
  underlying,  \* whether the underlying is an active instrument
  calls,       \* of each session
  outcomes     \* the OptionEnrollmentOutcomes of the committed calls

enrollmentVars == <<instruments, underlying, calls, outcomes>>

Resting == [phase |-> "NONE", valid |-> << >>, todo |-> {}, now |-> 0, fresh |-> {},
            existing |-> 0, rejected |-> {}, accepted |-> {}]

EnrollmentInit ==
  /\ instruments = {} /\ underlying = TRUE
  /\ calls = [e \in Enrollers |-> Resting] /\ outcomes = << >>

-----------------------------------------------------------------------------
(* Everybody else. *)

\* The registry's other writers: the symbol is unique, the contract is not.
RegisterForeign(row) ==
  /\ \A r \in instruments \cup UNION {calls[e].fresh : e \in Enrollers} :
       r.id # row.id /\ r.symbol # row.symbol
  /\ instruments' = instruments \cup
       {[id |-> row.id, symbol |-> row.symbol, contract |-> row.contract, from |-> 0,
         retired |-> FALSE]}
  /\ UNCHANGED <<underlying, calls, outcomes>>

\* InstrumentRepository.retire
RetireInstrument(row) ==
  /\ row \in instruments /\ ~row.retired
  /\ instruments' = (instruments \ {row}) \cup {[row EXCEPT !.retired = TRUE]}
  /\ UNCHANGED <<underlying, calls, outcomes>>

RetireUnderlying ==
  underlying /\ underlying' = FALSE /\ UNCHANGED <<instruments, calls, outcomes>>

-----------------------------------------------------------------------------
(* enroll *)

\* Of every contract that parses, the earliest observation.
Valid(batch) ==
  LET good == {d \in batch : d.fault = ""}
  IN [c \in {d.contract : d \in good} |-> Min({d.at : d \in {x \in good : x.contract = c}})]

\* By discovery key, so that one spelling of a contract counts once.
Rejected(batch) == {d.key : d \in {x \in batch : x.fault # ""}}

\* research_replay_mode, and the underlying is on record
BeginEnrollment(e, batch) ==
  /\ calls[e] = Resting /\ underlying /\ Len(outcomes) < MaxOutcomes
  /\ calls' = [calls EXCEPT ![e] =
       [Resting EXCEPT !.phase = "LOOK", !.valid = Valid(batch), !.todo = DOMAIN Valid(batch),
                       !.rejected = Rejected(batch)]]
  /\ UNCHANGED <<instruments, underlying, outcomes>>

\* As the provider happened to list them.
Turns_Fault(todo) == todo

\* The contracts are taken in their order.
Turns(todo) == {c \in todo : \A d \in todo : c <= d}

\* By the derived identity or by the contract, in what is committed.
Matches(e, c) == {r \in instruments \cup calls[e].fresh : r.id = c \/ r.contract = c}

\* _validate_existing
Canonical(r, c) == r.id = c /\ r.symbol = c /\ r.contract = c /\ ~r.retired

Done(call, c) ==
  [call EXCEPT !.phase = "LOOK", !.now = 0, !.todo = @ \ {c}, !.accepted = @ \cup {c}]

LookUp(e, c) ==
  /\ calls[e].phase = "LOOK" /\ c \in Turns(calls[e].todo)
  /\ LET matches == Matches(e, c)
         call == calls[e]
     IN calls' = [calls EXCEPT ![e] =
          IF matches = {} THEN [call EXCEPT !.phase = "INSERT", !.now = c]
          ELSE IF \E r \in matches : matches = {r} /\ Canonical(r, c)
          THEN [Done(call, c) EXCEPT !.existing = @ + 1]
          ELSE Resting]
  /\ UNCHANGED <<instruments, underlying, outcomes>>

\* The row another transaction holds back, of the contract e is to insert.
Held(e, f, c) == f # e /\ \E r \in calls[f].fresh : r.id = c \/ r.symbol = c

\* The primary key, and the unique symbol
Taken(c) == \E r \in instruments : r.id = c \/ r.symbol = c

InsertContract(e, c) ==
  /\ calls[e].phase = "INSERT" /\ c = calls[e].now
  /\ \A f \in Enrollers : ~Held(e, f, c)
  /\ LET call == calls[e]
         row == [id |-> c, symbol |-> c, contract |-> c, from |-> call.valid[c], retired |-> FALSE]
     IN calls' = [calls EXCEPT ![e] =
          IF Taken(c) THEN Resting ELSE [Done(call, c) EXCEPT !.fresh = @ \cup {row}]]
  /\ UNCHANGED <<instruments, underlying, outcomes>>

\* The accounting; its three equations hold as it is made of these counts.
Accounting(call) ==
  [discovered |-> Cardinality(DOMAIN call.valid) + Cardinality(call.rejected),
   existing |-> call.existing, enrolled |-> Cardinality(call.fresh),
   rejected |-> Cardinality(call.rejected), accepted |-> call.accepted]

\* The call returns, and its caller commits.
CommitEnrollment(e) ==
  /\ calls[e].phase = "LOOK" /\ calls[e].todo = {} /\ Len(outcomes) < MaxOutcomes
  /\ instruments' = instruments \cup calls[e].fresh
  /\ outcomes' = Append(outcomes, Accounting(calls[e]))
  /\ calls' = [calls EXCEPT ![e] = Resting]
  /\ UNCHANGED underlying

AbortEnrollment(e) ==
  /\ calls[e] # Resting /\ calls' = [calls EXCEPT ![e] = Resting]
  /\ UNCHANGED <<instruments, underlying, outcomes>>

EnrollmentNext ==
  \/ \E e \in Enrollers : CommitEnrollment(e) \/ AbortEnrollment(e)
  \/ \E e \in Enrollers, b \in Batches : BeginEnrollment(e, b)
  \/ \E e \in Enrollers, c \in Contracts : LookUp(e, c) \/ InsertContract(e, c)
  \/ \E row \in ForeignRows : RegisterForeign(row)
  \/ \E row \in instruments : RetireInstrument(row)
  \/ RetireUnderlying

EnrollmentSpec == EnrollmentInit /\ [][EnrollmentNext]_enrollmentVars

-----------------------------------------------------------------------------
(* Properties. *)

Counted(field) == MapThenSumSet(LAMBDA i : outcomes[i][field], DOMAIN outcomes)

\* combine: what several calls have found adds up.
Combined ==
  [discovered |-> Counted("discovered"), existing |-> Counted("existing"),
   enrolled |-> Counted("enrolled"), resolved |-> Counted("existing") + Counted("enrolled"),
   rejected |-> Counted("rejected")]

\* The equations of CanonicalResolutionAccounting, also of what is combined,
\* and the unique identities and symbols of the registry.
EnrollmentTypeOK ==
  /\ Combined.discovered = Combined.resolved + Combined.rejected
  /\ \A r, s \in instruments : r.id = s.id \/ r.symbol = s.symbol => r = s
  /\ \A e \in Enrollers : calls[e].accepted \subseteq DOMAIN calls[e].valid

\* However the calls run beside each other and beside the other writers of
\* the registry, no contract is counted as newly enrolled twice: what the
\* accountings add up to is what the gate has put on record.
NewlyEnrolledOnce ==
  Combined.enrolled = Cardinality({r \in instruments : r.id > 0 /\ r.symbol = r.id})

\* A contract that a committed call accepted has its canonical instrument on
\* record, whatever others registered of it in between; it may be retired.
AcceptedIsEnrolled ==
  \A i \in DOMAIN outcomes : \A c \in outcomes[i].accepted :
    \E r \in instruments : r.id = c /\ r.symbol = c /\ r.contract = c

Waits(e, f) == calls[e].phase = "INSERT" /\ Held(e, f, calls[e].now)

\* Calls never wait for each other's inserts in a circle, of any length: among
\* any of them there is one that waits for none of the others.  They come to
\* the contracts they share in one order.  (One call to a transaction: of the
\* inserts of two calls in one transaction nothing is said.)
CallsNeverCross ==
  \A W \in SUBSET Enrollers : W # {} => \E e \in W : \A f \in W : ~Waits(e, f)

\* The registry and the accountings agree, and no calls block each other for good.
EnrollmentHolds ==
  EnrollmentTypeOK /\ NewlyEnrolledOnce /\ AcceptedIsEnrolled /\ CallsNeverCross
=============================================================================
