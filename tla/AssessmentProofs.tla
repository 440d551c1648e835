--------------------------- MODULE AssessmentProofs ---------------------------
(***************************************************************************)
(* Proofs about the modules that assess: option contracts that are         *)
(* enrolled, corpora that qualify, the trust a cell has earned, what is    *)
(* answered and accepted of its replays, and what studies show of vetoes.  *)
(***************************************************************************)
EXTENDS CorpusQualification, TrustEvaluator, ValidationGate, TradeRemoval,
        StatefulReplay, SumTheorems, SequenceTheorems

-----------------------------------------------------------------------------
(* Enrollment: the rows. *)

IsRow(r) ==
  /\ r = [id |-> r.id, symbol |-> r.symbol, contract |-> r.contract, from |-> r.from,
          retired |-> r.retired]
  /\ r.id \in Int /\ r.symbol \in Int

\* The row the gate inserts, though it may have been retired since.
Named(r, c) == r.id = c /\ r.symbol = c /\ r.contract = c

Enrolled(R) == {r \in R : r.id > 0 /\ r.symbol = r.id}

\* The registry, with the row it has no more than once.
Registry(R) ==
  /\ IsFiniteSet(R)
  /\ \A r \in R : IsRow(r)
  /\ \A r, s \in R : r.id = s.id \/ r.symbol = s.symbol => r = s

IsCall(k) ==
  k = [phase |-> k.phase, valid |-> k.valid, todo |-> k.todo, now |-> k.now, fresh |-> k.fresh,
       existing |-> k.existing, rejected |-> k.rejected, accepted |-> k.accepted]

\* What a call has done so far, and has still to do.
CallSound(k) ==
  /\ IsCall(k)
  /\ DOMAIN k.valid \subseteq Contracts
  /\ IsFiniteSet(DOMAIN k.valid) /\ IsFiniteSet(k.rejected) /\ IsFiniteSet(k.fresh)
  /\ k.todo \cup k.accepted = DOMAIN k.valid
  /\ \A c \in k.accepted, d \in k.todo : c < d
  /\ k.phase = "INSERT" => k.now \in Turns(k.todo)
  /\ \A r \in k.fresh : IsRow(r) /\ Named(r, r.id) /\ r.id \in k.accepted
  /\ \A r, s \in k.fresh : r.id = s.id => r = s
  /\ k.existing \in Nat /\ k.existing + Cardinality(k.fresh) = Cardinality(k.accepted)

Outcomes ==
  [discovered : Nat, existing : Nat, enrolled : Nat, rejected : Nat, accepted : SUBSET Contracts]

Accounted(o) == o.discovered = o.existing + o.enrolled + o.rejected

\* Each contract a call accepted is on record, or the call is to commit it.
AcceptedIn(R, k) == \A c \in k.accepted : \E r \in R \cup k.fresh : Named(r, c)

\* What is not committed collides with nothing.
Apart(R, k) == \A r \in k.fresh, s \in R : r.id # s.id /\ r.symbol # s.symbol

Field(s, field) == [i \in DOMAIN s |-> s[i][field]]

EnrollmentInv ==
  /\ Registry(instruments)
  /\ calls = [e \in Enrollers |-> calls[e]]
  /\ \A e \in Enrollers :
       CallSound(calls[e]) /\ AcceptedIn(instruments, calls[e]) /\ Apart(instruments, calls[e])
  /\ \A e, f \in Enrollers : e # f =>
       \A r \in calls[e].fresh, s \in calls[f].fresh : r.id # s.id
  /\ outcomes \in Seq(Outcomes)
  /\ \A i \in DOMAIN outcomes :
       /\ Accounted(outcomes[i])
       /\ \A c \in outcomes[i].accepted : \E r \in instruments : Named(r, c)
  /\ Counted("enrolled") = Cardinality(Enrolled(instruments))

-----------------------------------------------------------------------------
(* Enrollment: what the operators return. *)

LEMMA EmptyIsFinite == IsFiniteSet({}) /\ Cardinality({}) = 0
BY FS_EmptySet

LEMMA ContractsAreNumbers == \A c \in Contracts : c \in Nat /\ c > 0
<1>1. Contracts \subseteq Nat \ {0}
  BY EnrollmentAssumption
<1>. QED  BY <1>1

LEMMA RestingSound == CallSound(Resting) /\ Resting.fresh = {} /\ Resting.accepted = {}
<1>1. /\ IsCall(Resting) /\ Resting.phase = "NONE" /\ DOMAIN Resting.valid = {}
      /\ Resting.todo = {} /\ Resting.fresh = {} /\ Resting.existing = 0
      /\ Resting.rejected = {} /\ Resting.accepted = {}
  BY DEF IsCall, Resting
<1>. QED  BY <1>1, EmptyIsFinite DEF CallSound

LEMMA ValidSound ==
  ASSUME NEW b \in Batches
  PROVE  /\ DOMAIN Valid(b) \subseteq Contracts
         /\ IsFiniteSet(DOMAIN Valid(b)) /\ IsFiniteSet(Rejected(b))
<1>. DEFINE good == {d \in b : d.fault = ""}
            bad == {d \in b : d.fault # ""}
            contract == [d \in good |-> d.contract]
            key == [d \in bad |-> d.key]
<1>1. IsFiniteSet(good) /\ IsFiniteSet(bad)
  <2>1. IsFiniteSet(b) /\ good \in SUBSET b /\ bad \in SUBSET b
    BY EnrollmentAssumption
  <2>. QED  BY <2>1, FS_Subset
<1>2. DOMAIN Valid(b) = {contract[d] : d \in good} /\ Rejected(b) = {key[d] : d \in bad}
  BY DEF Valid, Rejected
<1>3. \A d \in good : contract[d] \in Contracts
  BY EnrollmentAssumption
<1>. HIDE DEF good, bad, contract, key
<1>. QED  BY <1>1, <1>2, <1>3, ImageIsFinite

LEMMA BeginSound ==
  ASSUME NEW b \in Batches, NEW k,
         k = [Resting EXCEPT !.phase = "LOOK", !.valid = Valid(b), !.todo = DOMAIN Valid(b),
                             !.rejected = Rejected(b)]
  PROVE  CallSound(k) /\ k.fresh = {} /\ k.accepted = {}
<1>1. /\ IsCall(k) /\ k.phase = "LOOK" /\ k.valid = Valid(b) /\ k.todo = DOMAIN Valid(b)
      /\ k.fresh = {} /\ k.existing = 0 /\ k.rejected = Rejected(b) /\ k.accepted = {}
  BY DEF IsCall, Resting
<1>2. k.existing \in Nat /\ k.existing + Cardinality(k.fresh) = Cardinality(k.accepted)
  BY <1>1, EmptyIsFinite
<1>. QED  BY <1>1, <1>2, ValidSound, EmptyIsFinite DEF CallSound

\* A contract dealt with is the first of what is left.
LEMMA DoneFields ==
  ASSUME NEW k, IsCall(k), NEW c
  PROVE  LET d == Done(k, c)
         IN  /\ IsCall(d)
             /\ d.phase = "LOOK" /\ d.valid = k.valid /\ d.todo = k.todo \ {c}
             /\ d.accepted = k.accepted \cup {c} /\ d.fresh = k.fresh
             /\ d.existing = k.existing /\ d.rejected = k.rejected
<1>1. PICK d : d = Done(k, c)
  OBVIOUS
<1>2. /\ IsCall(d)
      /\ d.phase = "LOOK" /\ d.valid = k.valid /\ d.todo = k.todo \ {c}
      /\ d.accepted = k.accepted \cup {c} /\ d.fresh = k.fresh
      /\ d.existing = k.existing /\ d.rejected = k.rejected
  BY <1>1 DEF Done, IsCall
<1>. QED  BY <1>1, <1>2

LEMMA DoneSound ==
  ASSUME NEW k, CallSound(k), NEW c, c \in Turns(k.todo)
  PROVE  LET d == Done(k, c)
         IN  /\ CallSound([d EXCEPT !.existing = @ + 1])
             /\ \A r : (IsRow(r) /\ Named(r, c)) => CallSound([d EXCEPT !.fresh = @ \cup {r}])
<1>0. IsCall(k)
  BY DEF CallSound
<1>1. /\ c \in k.todo /\ \A x \in k.todo : x \in Int /\ c <= x
      /\ \A x \in k.accepted : x < c /\ x \in Int
  <2>1. \A x \in k.todo \cup k.accepted : x \in Contracts /\ x \in Int
    BY ContractsAreNumbers DEF CallSound
  <2>2. \A x \in k.accepted, y \in k.todo : x < y
    BY DEF CallSound
  <2>. QED  BY <2>1, <2>2 DEF Turns
<1>2. c \notin k.accepted /\ \A x \in k.todo \ {c} : c < x
  BY <1>1
<1>3. PICK d : /\ d = Done(k, c) /\ IsCall(d)
               /\ d.phase = "LOOK" /\ d.valid = k.valid /\ d.todo = k.todo \ {c}
               /\ d.accepted = k.accepted \cup {c} /\ d.fresh = k.fresh
               /\ d.existing = k.existing /\ d.rejected = k.rejected
  BY <1>0, DoneFields
<1>4. d.todo \cup d.accepted = DOMAIN d.valid
  BY <1>1, <1>3 DEF CallSound
<1>5. \A x \in d.accepted, y \in d.todo : x < y
  BY <1>2, <1>3 DEF CallSound
<1>6. Cardinality(d.accepted) = Cardinality(k.accepted) + 1 /\ Cardinality(k.fresh) \in Nat
  <2>1. k.accepted \in SUBSET DOMAIN k.valid /\ IsFiniteSet(DOMAIN k.valid) /\ IsFiniteSet(k.fresh)
    BY DEF CallSound
  <2>2. IsFiniteSet(k.accepted)
    BY <2>1, FS_Subset
  <2>3. Cardinality(k.fresh) \in Nat
    BY <2>1, FS_CardinalityType
  <2>4. Cardinality(k.accepted \cup {c}) = Cardinality(k.accepted) + 1
    BY <1>2, <2>2, FS_AddElement
  <2>. QED  BY <1>3, <2>3, <2>4
<1>7. CallSound([d EXCEPT !.existing = @ + 1])
  <2>1. PICK x : x = [d EXCEPT !.existing = @ + 1]
    OBVIOUS
  <2>2. /\ IsCall(x)
        /\ x.phase = "LOOK" /\ x.valid = d.valid /\ x.todo = d.todo /\ x.fresh = d.fresh
        /\ x.existing = d.existing + 1 /\ x.rejected = d.rejected /\ x.accepted = d.accepted
    BY <1>3, <2>1 DEF IsCall
  <2>3. x.existing \in Nat /\ x.existing + Cardinality(x.fresh) = Cardinality(x.accepted)
    BY <1>3, <1>6, <2>2 DEF CallSound
  <2>4. CallSound(x)
    BY <1>3, <1>4, <1>5, <2>2, <2>3 DEF CallSound
  <2>. QED  BY <2>1, <2>4
<1>8. ASSUME NEW r, IsRow(r), Named(r, c) PROVE CallSound([d EXCEPT !.fresh = @ \cup {r}])
  <2>1. PICK x : x = [d EXCEPT !.fresh = @ \cup {r}]
    OBVIOUS
  <2>2. /\ IsCall(x)
        /\ x.phase = "LOOK" /\ x.valid = d.valid /\ x.todo = d.todo
        /\ x.fresh = d.fresh \cup {r}
        /\ x.existing = d.existing /\ x.rejected = d.rejected /\ x.accepted = d.accepted
    BY <1>3, <2>1 DEF IsCall
  <2>3. \A s \in k.fresh : s.id \in k.accepted
    BY DEF CallSound
  <2>4. r \notin k.fresh /\ r.id = c /\ \A s \in k.fresh : s.id # c
    BY <1>2, <1>8, <2>3 DEF Named
  <2>5. Cardinality(x.fresh) = Cardinality(k.fresh) + 1 /\ IsFiniteSet(x.fresh)
    <3>1. IsFiniteSet(k.fresh)
      BY DEF CallSound
    <3>2. x.fresh = k.fresh \cup {r}
      BY <1>3, <2>2
    <3>3. IsFiniteSet(k.fresh \cup {r}) /\ Cardinality(k.fresh \cup {r}) = Cardinality(k.fresh) + 1
      BY <2>4, <3>1, FS_AddElement
    <3>. QED  BY <3>2, <3>3
  <2>6. x.existing \in Nat /\ x.existing + Cardinality(x.fresh) = Cardinality(x.accepted)
    BY <1>3, <1>6, <2>2, <2>5 DEF CallSound
  <2>7. \A s \in x.fresh : IsRow(s) /\ Named(s, s.id) /\ s.id \in x.accepted
    BY <1>3, <1>8, <2>2, <2>4 DEF CallSound, Named
  <2>8. \A s, t \in x.fresh : s.id = t.id => s = t
    BY <1>3, <2>2, <2>4 DEF CallSound
  <2>9. CallSound(x)
    BY <1>3, <1>4, <1>5, <2>2, <2>5, <2>6, <2>7, <2>8 DEF CallSound
  <2>. QED  BY <2>1, <2>9
<1>. QED  BY <1>3, <1>7, <1>8

-----------------------------------------------------------------------------
(* Enrollment: the counts. *)

LEMMA CountIsSum ==
  ASSUME NEW field PROVE Counted(field) = SumOf(Field(outcomes, field), DOMAIN outcomes)
BY DEF Counted, SumOf, MapThenSumSet, MapThenFoldSet, Field

\* One more accounting, of one more call.
LEMMA CountOneMore ==
  ASSUME NEW s \in Seq(Outcomes), NEW o \in Outcomes,
         NEW field \in {"discovered", "existing", "enrolled", "rejected"}
  PROVE  SumOf(Field(Append(s, o), field), DOMAIN Append(s, o))
           = SumOf(Field(s, field), DOMAIN s) + o[field]
<1>1. PICK n \in Nat : n = Len(s) /\ DOMAIN s = 1..n /\ DOMAIN Append(s, o) = 1..(n + 1)
  OBVIOUS
<1>2. \A i \in 1..n : s[i] \in Outcomes /\ Append(s, o)[i] = s[i]
  BY <1>1
<1>3. Append(s, o)[n + 1] = o
  BY <1>1
<1>4. \A x \in Outcomes : x[field] \in Int
  BY DEF Outcomes
<1>. DEFINE v == Field(s, field)
            w == Field(Append(s, o), field)
<1>5. \A i \in 1..n : v[i] = w[i] /\ w[i] \in Int
  BY <1>1, <1>2, <1>4 DEF Field
<1>6. w[n + 1] = o[field] /\ w[n + 1] \in Int
  BY <1>1, <1>3, <1>4 DEF Field
<1>. HIDE DEF v, w
<1>7. SumOf(w, 1..(n + 1)) = SumOf(v, 1..n) + w[n + 1]
  BY <1>5, <1>6, SumNext
<1>. QED  BY <1>1, <1>6, <1>7 DEF v, w

\* A row that is retired counts as it did.
LEMMA RetiredCounts ==
  ASSUME NEW R, Registry(R), NEW row \in R, NEW new, IsRow(new),
         new.id = row.id, new.symbol = row.symbol, new.contract = row.contract
  PROVE  LET S == (R \ {row}) \cup {new}
         IN  /\ Registry(S)
             /\ Cardinality(Enrolled(S)) = Cardinality(Enrolled(R))
<1>. DEFINE S == (R \ {row}) \cup {new}
<1>1. new \notin R \ {row}
  BY DEF Registry
<1>2. Registry(S)
  <2>1. IsFiniteSet(R \ {row})
    BY FS_RemoveElement DEF Registry
  <2>2. IsFiniteSet(S)
    BY <2>1, FS_AddElement
  <2>. QED  BY <2>2 DEF Registry
<1>3. CASE new.id > 0 /\ new.symbol = new.id
  <2>1. row \in Enrolled(R) /\ Enrolled(S) = (Enrolled(R) \ {row}) \cup {new}
    BY <1>3 DEF Enrolled
  <2>2. IsFiniteSet(Enrolled(R)) /\ new \notin Enrolled(R) \ {row}
    <3>1. Enrolled(R) \in SUBSET R
      BY DEF Enrolled
    <3>. QED  BY <1>1, <3>1, FS_Subset DEF Registry
  <2>3. PICK D : D = Enrolled(R) \ {row}
    OBVIOUS
  <2>4. IsFiniteSet(D) /\ Cardinality(D) = Cardinality(Enrolled(R)) - 1 /\ new \notin D
        /\ Cardinality(Enrolled(R)) \in Nat
    BY <2>1, <2>2, <2>3, FS_RemoveElement, FS_CardinalityType
  <2>5. Cardinality(D \cup {new}) = Cardinality(D) + 1
    BY <2>4, FS_AddElement
  <2>6. Cardinality(D \cup {new}) = Cardinality(Enrolled(R))
    BY <2>4, <2>5
  <2>7. Cardinality(Enrolled(S)) = Cardinality(Enrolled(R))
    BY <2>1, <2>3, <2>6, Zenon
  <2>. QED  BY <1>2, <2>7
<1>4. CASE ~(new.id > 0 /\ new.symbol = new.id)
  <2>1. Enrolled(S) = Enrolled(R)
    BY <1>4 DEF Enrolled
  <2>. QED  BY <1>2, <2>1
<1>. QED  BY <1>3, <1>4

\* The rows a call commits are all new, and all counted.
LEMMA CommitCounts ==
  ASSUME NEW R, Registry(R), NEW k, CallSound(k), Apart(R, k)
  PROVE  /\ Registry(R \cup k.fresh)
         /\ Cardinality(Enrolled(R \cup k.fresh)) = Cardinality(Enrolled(R)) + Cardinality(k.fresh)
<1>1. \A r \in k.fresh : IsRow(r) /\ r.id = r.symbol /\ r.id > 0
  BY ContractsAreNumbers DEF CallSound, Named
<1>2. Enrolled(R \cup k.fresh) = Enrolled(R) \cup k.fresh
  BY <1>1 DEF Enrolled
<1>3. Enrolled(R) \cap k.fresh = {}
  BY DEF Apart, Enrolled
<1>4. IsFiniteSet(Enrolled(R)) /\ IsFiniteSet(k.fresh) /\ IsFiniteSet(R)
  <2>1. Enrolled(R) \in SUBSET R
    BY DEF Enrolled
  <2>. QED  BY <2>1, FS_Subset DEF Registry, CallSound
<1>5. Registry(R \cup k.fresh)
  <2>1. IsFiniteSet(R \cup k.fresh)
    BY <1>4, FS_Union
  <2>2. \A r, s \in R \cup k.fresh : r.id = s.id \/ r.symbol = s.symbol => r = s
    BY <1>1 DEF Registry, CallSound, Apart
  <2>. QED  BY <1>1, <2>1, <2>2 DEF Registry
<1>6. Cardinality(Enrolled(R) \cup k.fresh) = Cardinality(Enrolled(R)) + Cardinality(k.fresh)
  <2>1. Cardinality(Enrolled(R) \cup k.fresh)
          = Cardinality(Enrolled(R)) + Cardinality(k.fresh) - Cardinality(Enrolled(R) \cap k.fresh)
    BY <1>4, FS_Union
  <2>2. Cardinality(Enrolled(R)) \in Nat /\ Cardinality(k.fresh) \in Nat
    BY <1>4, FS_CardinalityType
  <2>3. Cardinality(Enrolled(R) \cap k.fresh) = 0
    BY <1>3, EmptyIsFinite, Zenon
  <2>. QED  BY <2>1, <2>2, <2>3
<1>. QED  BY <1>2, <1>5, <1>6

\* The accounting of a call that has dealt with all its contracts.
LEMMA AccountingSound ==
  ASSUME NEW k, CallSound(k), k.todo = {}
  PROVE  /\ Accounting(k) \in Outcomes /\ Accounted(Accounting(k))
         /\ Accounting(k).accepted = k.accepted
         /\ Accounting(k).enrolled = Cardinality(k.fresh)
<1>1. k.accepted = DOMAIN k.valid /\ k.accepted \subseteq Contracts
  BY DEF CallSound
<1>2. /\ Cardinality(k.accepted) \in Nat /\ Cardinality(k.rejected) \in Nat
      /\ Cardinality(k.fresh) \in Nat
  BY <1>1, FS_CardinalityType DEF CallSound
<1>3. k.existing \in Nat /\ k.existing + Cardinality(k.fresh) = Cardinality(k.accepted)
  BY DEF CallSound
<1>. QED  BY <1>1, <1>2, <1>3 DEF Accounting, Outcomes, Accounted

-----------------------------------------------------------------------------
(* Enrollment: the invariant. *)

LEMMA EnrollmentStarts == EnrollmentInit => EnrollmentInv
<1>. SUFFICES ASSUME EnrollmentInit PROVE EnrollmentInv
  OBVIOUS
<1>1. instruments = {} /\ outcomes = << >> /\ calls = [e \in Enrollers |-> Resting]
  BY DEF EnrollmentInit
<1>2. Registry(instruments) /\ Cardinality(Enrolled(instruments)) = 0
  BY <1>1, EmptyIsFinite DEF Registry, Enrolled
<1>3. \A e \in Enrollers :
        CallSound(calls[e]) /\ calls[e].fresh = {} /\ calls[e].accepted = {}
  BY <1>1, RestingSound
<1>4. outcomes \in Seq(Outcomes) /\ DOMAIN outcomes = {}
  BY <1>1
<1>5. Counted("enrolled") = 0
  BY <1>4, CountIsSum, SumEmpty
<1>. QED  BY <1>1, <1>2, <1>3, <1>4, <1>5 DEF EnrollmentInv, AcceptedIn, Apart

\* A session goes on with its call; what is committed stays.
LEMMA CallMoves ==
  ASSUME EnrollmentInv, NEW e \in Enrollers, NEW k, calls' = [calls EXCEPT ![e] = k],
         UNCHANGED <<instruments, outcomes>>,
         CallSound(k), AcceptedIn(instruments, k), Apart(instruments, k),
         \A f \in Enrollers \ {e} : \A r \in k.fresh, s \in calls[f].fresh : r.id # s.id
  PROVE  EnrollmentInv'
<1>1. calls' = [f \in Enrollers |-> calls'[f]]
      /\ \A f \in Enrollers : calls'[f] = IF f = e THEN k ELSE calls[f]
  BY DEF EnrollmentInv
<1>2. \A f \in Enrollers : CallSound(calls'[f]) /\ AcceptedIn(instruments', calls'[f])
                             /\ Apart(instruments', calls'[f])
  BY <1>1 DEF EnrollmentInv
<1>3. \A f, g \in Enrollers : f # g =>
        \A r \in calls'[f].fresh, s \in calls'[g].fresh : r.id # s.id
  BY <1>1 DEF EnrollmentInv
<1>4. Counted("enrolled")' = Counted("enrolled")
  BY DEF Counted, MapThenSumSet, MapThenFoldSet
<1>. QED  BY <1>1, <1>2, <1>3, <1>4 DEF EnrollmentInv

\* One more row of others, or one that is retired.
LEMMA RegistryMoves ==
  ASSUME EnrollmentInv, UNCHANGED <<calls, outcomes>>, Registry(instruments'),
         Cardinality(Enrolled(instruments')) = Cardinality(Enrolled(instruments)),
         \A e \in Enrollers : Apart(instruments', calls[e]),
         \A c : (\E r \in instruments : Named(r, c)) => \E r \in instruments' : Named(r, c)
  PROVE  EnrollmentInv'
<1>1. \A e \in Enrollers : AcceptedIn(instruments', calls[e])
  BY DEF EnrollmentInv, AcceptedIn
<1>2. Counted("enrolled")' = Counted("enrolled")
  BY DEF Counted, MapThenSumSet, MapThenFoldSet
<1>. QED  BY <1>1, <1>2 DEF EnrollmentInv

LEMMA EnrollmentStep == EnrollmentInv /\ [EnrollmentNext]_enrollmentVars => EnrollmentInv'
<1>. SUFFICES ASSUME EnrollmentInv, [EnrollmentNext]_enrollmentVars PROVE EnrollmentInv'
  OBVIOUS
<1>1. ASSUME NEW e \in Enrollers, CommitEnrollment(e) PROVE EnrollmentInv'
  <2>. DEFINE k == calls[e]
              o == Accounting(k)
  <2>1. /\ k.todo = {} /\ instruments' = instruments \cup k.fresh
        /\ outcomes' = Append(outcomes, o) /\ calls' = [calls EXCEPT ![e] = Resting]
    BY <1>1 DEF CommitEnrollment
  <2>2. CallSound(k) /\ AcceptedIn(instruments, k) /\ Apart(instruments, k)
        /\ Registry(instruments)
    BY DEF EnrollmentInv
  <2>3. /\ Registry(instruments')
        /\ Cardinality(Enrolled(instruments')) = Cardinality(Enrolled(instruments))
                                                   + Cardinality(k.fresh)
    BY <2>1, <2>2, CommitCounts
  <2>4. /\ o \in Outcomes /\ Accounted(o)
        /\ o.accepted = k.accepted /\ o.enrolled = Cardinality(k.fresh)
    BY <2>1, <2>2, AccountingSound
  <2>5. outcomes \in Seq(Outcomes)
    BY DEF EnrollmentInv
  <2>6. outcomes' \in Seq(Outcomes)
        /\ \A i \in DOMAIN outcomes' : outcomes'[i] = o
             \/ (i \in DOMAIN outcomes /\ outcomes'[i] = outcomes[i])
    BY <2>1, <2>4, <2>5
  <2>7. Counted("enrolled")' = Counted("enrolled") + o.enrolled
    <3>1. Counted("enrolled")' = SumOf(Field(outcomes', "enrolled"), DOMAIN outcomes')
      BY DEF Counted, SumOf, MapThenSumSet, MapThenFoldSet, Field
    <3>2. SumOf(Field(Append(outcomes, o), "enrolled"), DOMAIN Append(outcomes, o))
            = SumOf(Field(outcomes, "enrolled"), DOMAIN outcomes) + o["enrolled"]
      BY <2>4, <2>5, CountOneMore
    <3>. QED  BY <2>1, <3>1, <3>2, CountIsSum
  <2>8. \A i \in DOMAIN outcomes' :
          Accounted(outcomes'[i])
            /\ \A c \in outcomes'[i].accepted : \E r \in instruments' : Named(r, c)
    <3>1. \A c \in k.accepted : \E r \in instruments' : Named(r, c)
      BY <2>1, <2>2 DEF AcceptedIn
    <3>. QED  BY <2>1, <2>4, <2>6, <3>1 DEF EnrollmentInv
  <2>9. /\ calls' = [f \in Enrollers |-> calls'[f]]
        /\ \A f \in Enrollers : calls'[f] = IF f = e THEN Resting ELSE calls[f]
    BY <2>1 DEF EnrollmentInv
  <2>10. \A f \in Enrollers : CallSound(calls'[f]) /\ AcceptedIn(instruments', calls'[f])
                                /\ Apart(instruments', calls'[f])
    <3>1. ASSUME NEW f \in Enrollers, f # e
          PROVE  CallSound(calls[f]) /\ AcceptedIn(instruments', calls[f])
                   /\ Apart(instruments', calls[f])
      <4>1. \A r \in calls[f].fresh, s \in k.fresh : r.id # s.id
        BY <3>1 DEF EnrollmentInv
      <4>2. \A r \in calls[f].fresh, s \in k.fresh : r.symbol # s.symbol
        BY <4>1 DEF EnrollmentInv, CallSound, Named
      <4>. QED  BY <2>1, <4>1, <4>2 DEF EnrollmentInv, AcceptedIn, Apart
    <3>. QED  BY <2>9, <3>1, RestingSound DEF AcceptedIn, Apart
  <2>11. \A f, g \in Enrollers : f # g =>
           \A r \in calls'[f].fresh, s \in calls'[g].fresh : r.id # s.id
    BY <2>9, RestingSound DEF EnrollmentInv
  <2>12. Counted("enrolled")' = Cardinality(Enrolled(instruments'))
    BY <2>3, <2>4, <2>7 DEF EnrollmentInv
  <2>. QED  BY <2>3, <2>6, <2>8, <2>9, <2>10, <2>11, <2>12 DEF EnrollmentInv
<1>2. ASSUME NEW e \in Enrollers, calls' = [calls EXCEPT ![e] = Resting],
             UNCHANGED <<instruments, outcomes>>
      PROVE  EnrollmentInv'
  BY <1>2, RestingSound, CallMoves DEF AcceptedIn, Apart
<1>3. ASSUME NEW e \in Enrollers, NEW b \in Batches, BeginEnrollment(e, b) PROVE EnrollmentInv'
  <2>1. PICK k : k = [Resting EXCEPT !.phase = "LOOK", !.valid = Valid(b),
                                     !.todo = DOMAIN Valid(b), !.rejected = Rejected(b)]
    OBVIOUS
  <2>2. CallSound(k) /\ k.fresh = {} /\ k.accepted = {}
    BY <2>1, BeginSound
  <2>3. calls' = [calls EXCEPT ![e] = k] /\ UNCHANGED <<instruments, outcomes>>
    BY <1>3, <2>1 DEF BeginEnrollment
  <2>. QED  BY <2>2, <2>3, CallMoves DEF AcceptedIn, Apart
<1>4. ASSUME NEW e \in Enrollers, NEW c \in Contracts, LookUp(e, c) PROVE EnrollmentInv'
  <2>. DEFINE k == calls[e]
              M == Matches(e, c)
  <2>1. /\ c \in Turns(k.todo) /\ UNCHANGED <<instruments, outcomes>>
        /\ CallSound(k) /\ AcceptedIn(instruments, k) /\ Apart(instruments, k)
    BY <1>4 DEF LookUp, EnrollmentInv
  <2>2. CASE M = {}
    <3>1. PICK x : x = [k EXCEPT !.phase = "INSERT", !.now = c]
      OBVIOUS
    <3>2. calls' = [calls EXCEPT ![e] = x]
      BY <1>4, <2>2, <3>1 DEF LookUp
    <3>3. /\ IsCall(x) /\ x.phase = "INSERT" /\ x.now = c /\ x.valid = k.valid /\ x.todo = k.todo
          /\ x.fresh = k.fresh /\ x.existing = k.existing /\ x.rejected = k.rejected
          /\ x.accepted = k.accepted
      <4>1. IsCall(k)
        BY <2>1 DEF CallSound
      <4>. QED  BY <3>1, <4>1 DEF IsCall
    <3>4. CallSound(x)
      BY <2>1, <3>3 DEF CallSound, Turns
    <3>. QED  BY <2>1, <3>2, <3>3, <3>4, CallMoves DEF AcceptedIn, Apart, EnrollmentInv
  <2>3. CASE M # {} /\ \E r \in M : M = {r} /\ Canonical(r, c)
    <3>1. PICK x : x = [Done(k, c) EXCEPT !.existing = @ + 1]
      OBVIOUS
    <3>2. calls' = [calls EXCEPT ![e] = x]
      BY <1>4, <2>3, <3>1 DEF LookUp
    <3>3. CallSound(x)
      BY <2>1, <3>1, DoneSound
    <3>4. x.fresh = k.fresh /\ x.accepted = k.accepted \cup {c}
      <4>1. IsCall(k)
        BY <2>1 DEF CallSound
      <4>2. PICK d : d = Done(k, c) /\ IsCall(d) /\ d.fresh = k.fresh
                     /\ d.accepted = k.accepted \cup {c}
        BY <4>1, DoneFields
      <4>. QED  BY <3>1, <4>2 DEF IsCall
    <3>5. \E r \in instruments \cup k.fresh : Named(r, c)
      BY <2>3 DEF Matches, Canonical, Named
    <3>6. AcceptedIn(instruments, x) /\ Apart(instruments, x)
      BY <2>1, <3>4, <3>5 DEF AcceptedIn, Apart
    <3>. QED  BY <2>1, <3>2, <3>3, <3>4, <3>6, CallMoves DEF EnrollmentInv
  <2>4. CASE M # {} /\ ~\E r \in M : M = {r} /\ Canonical(r, c)
    BY <1>2, <1>4, <2>4 DEF LookUp
  <2>. QED  BY <2>2, <2>3, <2>4
<1>5. ASSUME NEW e \in Enrollers, NEW c \in Contracts, InsertContract(e, c) PROVE EnrollmentInv'
  <2>. DEFINE k == calls[e]
  <2>1. /\ k.phase = "INSERT" /\ c = k.now /\ UNCHANGED <<instruments, outcomes>>
        /\ CallSound(k) /\ AcceptedIn(instruments, k) /\ Apart(instruments, k)
        /\ \A f \in Enrollers : ~Held(e, f, c)
    BY <1>5 DEF InsertContract, EnrollmentInv
  <2>2. CASE Taken(c)
    BY <1>2, <1>5, <2>2 DEF InsertContract
  <2>3. CASE ~Taken(c)
    <3>1. PICK row : row = [id |-> c, symbol |-> c, contract |-> c, from |-> k.valid[c],
                            retired |-> FALSE]
      OBVIOUS
    <3>2. IsRow(row) /\ Named(row, c)
      BY <3>1, ContractsAreNumbers DEF IsRow, Named
    <3>3. PICK x : x = [Done(k, c) EXCEPT !.fresh = @ \cup {row}]
      OBVIOUS
    <3>4. calls' = [calls EXCEPT ![e] = x]
      BY <1>5, <2>3, <3>1, <3>3 DEF InsertContract
    <3>5. CallSound(x)
      <4>1. c \in Turns(k.todo)
        BY <2>1 DEF CallSound
      <4>. QED  BY <2>1, <3>2, <3>3, <4>1, DoneSound
    <3>6. x.fresh = k.fresh \cup {row} /\ x.accepted = k.accepted \cup {c}
      <4>1. IsCall(k)
        BY <2>1 DEF CallSound
      <4>2. PICK d : d = Done(k, c) /\ IsCall(d) /\ d.fresh = k.fresh
                     /\ d.accepted = k.accepted \cup {c}
        BY <4>1, DoneFields
      <4>. QED  BY <3>3, <4>2 DEF IsCall
    <3>7. AcceptedIn(instruments, x) /\ Apart(instruments, x)
      BY <2>1, <2>3, <3>2, <3>6 DEF AcceptedIn, Apart, Named, Taken
    <3>8. \A f \in Enrollers \ {e} : \A r \in x.fresh, s \in calls[f].fresh : r.id # s.id
      BY <2>1, <3>2, <3>6 DEF EnrollmentInv, Held, Named
    <3>. QED  BY <2>1, <3>4, <3>5, <3>7, <3>8, CallMoves
  <2>. QED  BY <2>2, <2>3
<1>6. ASSUME NEW row \in ForeignRows, RegisterForeign(row) PROVE EnrollmentInv'
  <2>1. PICK new : new = [id |-> row.id, symbol |-> row.symbol, contract |-> row.contract,
                          from |-> 0, retired |-> FALSE]
    OBVIOUS
  <2>2. IsRow(new) /\ ~(new.id > 0 /\ new.symbol = new.id)
    <3>1. row.id \in Int /\ row.symbol \in Int /\ (row.id < 0 \/ row.symbol < 0)
      BY EnrollmentAssumption
    <3>. QED  BY <2>1, <3>1 DEF IsRow
  <2>3. /\ instruments' = instruments \cup {new} /\ UNCHANGED <<calls, outcomes>>
        /\ \A r \in instruments \cup UNION {calls[e].fresh : e \in Enrollers} :
             r.id # new.id /\ r.symbol # new.symbol
    BY <1>6, <2>1 DEF RegisterForeign
  <2>4. Registry(instruments')
    <3>1. IsFiniteSet(instruments')
      BY <2>3, FS_AddElement DEF EnrollmentInv, Registry
    <3>. QED  BY <2>2, <2>3, <3>1 DEF EnrollmentInv, Registry
  <2>5. Enrolled(instruments') = Enrolled(instruments)
    BY <2>2, <2>3 DEF Enrolled
  <2>6. \A e \in Enrollers : Apart(instruments', calls[e])
    BY <2>3 DEF EnrollmentInv, Apart
  <2>. QED  BY <2>3, <2>4, <2>5, <2>6, RegistryMoves
<1>7. ASSUME NEW row \in instruments, RetireInstrument(row) PROVE EnrollmentInv'
  <2>1. PICK new : new = [row EXCEPT !.retired = TRUE]
    OBVIOUS
  <2>2. /\ IsRow(new) /\ new.id = row.id /\ new.symbol = row.symbol
        /\ new.contract = row.contract
    <3>1. IsRow(row)
      BY DEF EnrollmentInv, Registry
    <3>. QED  BY <2>1, <3>1 DEF IsRow
  <2>3. instruments' = (instruments \ {row}) \cup {new} /\ UNCHANGED <<calls, outcomes>>
    BY <1>7, <2>1 DEF RetireInstrument
  <2>4. Registry(instruments')
        /\ Cardinality(Enrolled(instruments')) = Cardinality(Enrolled(instruments))
    BY <2>2, <2>3, RetiredCounts DEF EnrollmentInv
  <2>5. \A e \in Enrollers : Apart(instruments', calls[e])
    BY <2>2, <2>3 DEF EnrollmentInv, Apart
  <2>6. \A c : (\E r \in instruments : Named(r, c)) => \E r \in instruments' : Named(r, c)
    BY <2>2, <2>3 DEF Named
  <2>. QED  BY <2>3, <2>4, <2>5, <2>6, RegistryMoves
<1>8. CASE UNCHANGED <<instruments, calls, outcomes>>
  <2>1. Counted("enrolled")' = Counted("enrolled")
    BY <1>8 DEF Counted, MapThenSumSet, MapThenFoldSet
  <2>. QED  BY <1>8, <2>1 DEF EnrollmentInv
<1>9. CASE RetireUnderlying
  BY <1>8, <1>9 DEF RetireUnderlying
<1>10. ASSUME NEW e \in Enrollers, AbortEnrollment(e) PROVE EnrollmentInv'
  BY <1>2, <1>10 DEF AbortEnrollment
<1>. QED
  BY <1>1, <1>3, <1>4, <1>5, <1>6, <1>7, <1>8, <1>9, <1>10 DEF EnrollmentNext, enrollmentVars

\* The accountings reconcile, and no two calls wait for each other.
LEMMA EnrollmentImplies == EnrollmentInv => EnrollmentHolds
<1>. SUFFICES ASSUME EnrollmentInv PROVE EnrollmentHolds
  OBVIOUS
<1>1. EnrollmentTypeOK
  <2>. DEFINE D == DOMAIN outcomes
              d == Field(outcomes, "discovered")
              x == Field(outcomes, "existing")
              n == Field(outcomes, "enrolled")
              r == Field(outcomes, "rejected")
              xn == [i \in D |-> x[i] + n[i]]
  <2>1. \A i \in D : /\ x[i] \in Int /\ n[i] \in Int /\ r[i] \in Int /\ xn[i] \in Int
                     /\ xn[i] = x[i] + n[i] /\ d[i] = xn[i] + r[i]
    <3>1. \A i \in D : outcomes[i] \in Outcomes /\ Accounted(outcomes[i])
      BY DEF EnrollmentInv
    <3>. QED  BY <3>1 DEF Outcomes, Accounted, Field
  <2>2. IsFiniteSet(D)
    <3>1. PICK m \in Nat : D = 1..m
      BY DEF EnrollmentInv
    <3>. QED  BY <3>1, FS_Interval
  <2>. HIDE DEF D, d, x, n, r, xn
  <2>3. SumOf(d, D) = SumOf(xn, D) + SumOf(r, D)
    BY <2>1, <2>2, SumPlus
  <2>4. SumOf(xn, D) = SumOf(x, D) + SumOf(n, D)
    BY <2>1, <2>2, SumPlus
  <2>5. Combined.discovered = Combined.resolved + Combined.rejected
    BY <2>3, <2>4, CountIsSum DEF Combined, D, d, x, n, r
  <2>6. \A e \in Enrollers : calls[e].accepted \subseteq DOMAIN calls[e].valid
    BY DEF EnrollmentInv, CallSound
  <2>. QED  BY <2>5, <2>6 DEF EnrollmentTypeOK, EnrollmentInv, Registry
<1>2. NewlyEnrolledOnce
  BY DEF EnrollmentInv, NewlyEnrolledOnce, Combined, Enrolled
<1>3. AcceptedIsEnrolled
  BY DEF EnrollmentInv, AcceptedIsEnrolled, Named
<1>4. CallsNeverCross
  \* Of calls that all wait, one waits to insert the last contract; the one it
  \* waits for has that contract behind it.
  <2>. SUFFICES ASSUME NEW W \in SUBSET Enrollers, W # {},
                       \A e \in W : \E f \in W : Waits(e, f)
                PROVE  FALSE
    BY DEF CallsNeverCross
  <2>1. ASSUME NEW e \in Enrollers, NEW f \in Enrollers, Waits(e, f)
        PROVE  calls[e].now \in calls[f].accepted /\ calls[e].now \in calls[e].todo
    BY <2>1 DEF Waits, Held, EnrollmentInv, CallSound, Named, Turns
  <2>2. \A e \in Enrollers : \A c \in calls[e].accepted, d \in calls[e].todo :
          c < d /\ c \in Int /\ d \in Int
    BY ContractsAreNumbers DEF EnrollmentInv, CallSound
  <2>3. \A e \in W : calls[e].now \in Int
    <3>1. \A e \in W : calls[e].now \in calls[e].todo
      BY <2>1
    <3>2. \A e \in W : calls[e].todo \subseteq Contracts
      BY DEF EnrollmentInv, CallSound
    <3>. QED  BY <3>1, <3>2, ContractsAreNumbers
  <2>. DEFINE now == [e \in W |-> calls[e].now]
              S == {now[e] : e \in W}
  <2>4. IsFiniteSet(S)
    <3>0. IsFiniteSet(Enrollers)
      BY EnrollmentAssumption, Zenon
    <3>1. IsFiniteSet(W)
      BY <3>0, FS_Subset
    <3>. HIDE DEF now
    <3>. QED  BY <3>1, ImageIsFinite
  <2>5. S \in SUBSET Int /\ S # {}
    BY <2>3
  <2>6. PICK m \in S : \A y \in S : y <= m
    <3>. HIDE DEF S
    <3>. QED  BY <2>4, <2>5, HasLargest
  <2>7. PICK e \in W : m = calls[e].now
    BY <2>6
  <2>8. PICK f \in W : Waits(e, f)
    OBVIOUS
  <2>9. PICK g \in W : Waits(f, g)
    OBVIOUS
  <2>10. calls[e].now < calls[f].now
    BY <2>1, <2>2, <2>8, <2>9
  <2>11. calls[f].now <= calls[e].now
    BY <2>6, <2>7
  <2>. QED  BY <2>3, <2>10, <2>11
<1>. QED  BY <1>1, <1>2, <1>3, <1>4 DEF EnrollmentHolds

\* However calls and other writers interleave, the accountings of the calls add
\* up to what the gate has put on record, what a call accepted is on record,
\* and no calls, as many as there are, wait for each other's inserts in a circle.
THEOREM EnrollmentAlwaysHolds == EnrollmentSpec => []EnrollmentHolds
<1>1. EnrollmentSpec => []EnrollmentInv
  BY EnrollmentStarts, EnrollmentStep, PTL DEF EnrollmentSpec
<1>. QED  BY <1>1, EnrollmentImplies, PTL

-----------------------------------------------------------------------------
(* Qualification: percentages. *)

LEMMA Division ==
  ASSUME NEW a \in Nat, NEW b \in Nat, b > 0
  PROVE  /\ a \div b \in Nat
         /\ b * (a \div b) <= a /\ a < b * (a \div b) + b
OBVIOUS

\* At 95 percent none of a few is missing, and at 100 none of some more.
LEMMA NoneMissing ==
  ASSUME NEW n \in Nat, NEW d \in Nat, n <= d
  PROVE  /\ d < 20 /\ Percentage(n, d) >= 9500 => n = d /\ d > 0
         /\ d < 20000 /\ Percentage(n, d) = 10000 => n = d /\ d > 0
<1>1. CASE d = 0
  BY <1>1 DEF Percentage
<1>2. CASE d > 0
  <2>1. PICK q \in Nat : q = Percentage(n, d) /\ (2 * d) * q <= 20000 * n + d
    <3>1. 20000 * n + d \in Nat /\ 2 * d \in Nat /\ 2 * d > 0
      BY <1>2
    <3>. QED  BY <1>2, <3>1, Division DEF Percentage
  <2>2. ASSUME d < 20, q >= 9500 PROVE n = d
    <3>1. (2 * d) * q >= (2 * d) * 9500
      BY <2>2
    <3>. QED  BY <2>1, <2>2, <3>1
  <2>3. ASSUME d < 20000, q = 10000 PROVE n = d
    BY <2>1, <2>3
  <2>. QED  BY <1>2, <2>1, <2>2, <2>3
<1>. QED  BY <1>1, <1>2

-----------------------------------------------------------------------------
(* Qualification: the manifests. *)

Seen(m, d) == {s \in m.chains : s.symbol = d.symbol /\ s.at = d.at}
CompleteIn(m) == {d \in m.decisions : \E s \in Seen(m, d) : FullNeighborhood(s)}
Quoted(s) == \A q \in s.quotes : \E r \in instruments : r.id = q.contract

\* What a manifest was made of, and what a verdict of PASS means.
ManifestSound(m) ==
  /\ m.decisions \subseteq DecisionPoints /\ m.chains \subseteq Chains
  /\ m.complete = Cardinality(CompleteIn(m))
  /\ m.accounting.resolved \in Nat /\ m.accounting.discovered \in Nat
  /\ m.accounting.resolved <= m.accounting.discovered
  /\ m.verdict = "PASS" =>
       /\ Percentage(m.complete, Cardinality(m.decisions)) >= 9500
       /\ Percentage(m.accounting.resolved, m.accounting.discovered) = 10000
       /\ \A s \in m.chains : \A q \in s.quotes : q.firm

\* No manifest speaks of so many contracts or decisions that one of them is
\* lost when the percentage is rounded.
Moderate ==
  \A m \in manifests : m.accounting.discovered < 20000 /\ Cardinality(m.decisions) < 20

QualificationInv ==
  /\ EnrollmentInv
  /\ arrived \in Seq(Chains)
  /\ chains \subseteq Chains /\ \A s \in chains : Quoted(s)
  /\ \A m \in manifests : ManifestSound(m) /\ \A s \in m.chains : Quoted(s)

\* Every status of a corpus that passes is PASS.
LEMMA PassingStatuses ==
  ASSUME NEW S, Overall(S) = "PASS", NEW x \in S PROVE x # "FAIL" /\ x # "REVIEW"
BY DEF Overall

LEMMA QuotesAreFinite ==
  ASSUME NEW C \in SUBSET Chains
  PROVE  IsFiniteSet({<<s, q>> : s \in C, q \in UNION {s.quotes : s \in C}}
                       \cap UNION {{s} \X s.quotes : s \in C})
<1>1. IsFiniteSet(C) /\ \A s \in C : IsFiniteSet(s.quotes)
  BY QualificationAssumption, FS_Subset
<1>. DEFINE all == [s \in C |-> s.quotes]
            Q == UNION {s.quotes : s \in C}
<1>2. Q = UNION {all[s] : s \in C} /\ \A s \in C : IsFiniteSet(all[s])
  BY <1>1
<1>3. IsFiniteSet({all[s] : s \in C})
  <2>. HIDE DEF all
  <2>. QED  BY <1>1, ImageIsFinite
<1>4. IsFiniteSet(Q)
  <2>1. \A x \in {all[s] : s \in C} : IsFiniteSet(x)
    BY <1>2
  <2>2. IsFiniteSet(UNION {all[s] : s \in C})
    BY <1>3, <2>1, FS_UNION
  <2>. QED  BY <1>2, <2>2
<1>5. IsFiniteSet(C \X Q)
  BY <1>1, <1>4, FS_Product
<1>6. ({<<s, q>> : s \in C, q \in UNION {s.quotes : s \in C}}
         \cap UNION {{s} \X s.quotes : s \in C}) \in SUBSET (C \X Q)
  OBVIOUS
<1>. QED  BY <1>5, <1>6, FS_Subset

LEMMA AccountingsAreNumbers ==
  ASSUME EnrollmentInv, chains \subseteq Chains
  PROVE  /\ Combined.resolved \in Nat /\ Combined.discovered \in Nat
         /\ Combined.resolved <= Combined.discovered
         /\ ResolutionAccounting.resolved \in Nat /\ ResolutionAccounting.discovered \in Nat
         /\ ResolutionAccounting.resolved <= ResolutionAccounting.discovered
<1>1. \A field \in {"discovered", "existing", "enrolled", "rejected"} : Counted(field) \in Nat
  <2>. SUFFICES ASSUME NEW field \in {"discovered", "existing", "enrolled", "rejected"}
                PROVE  Counted(field) \in Nat
    OBVIOUS
  <2>. DEFINE w == Field(outcomes, field)
              D == DOMAIN outcomes
  <2>1. IsFiniteSet(D)
    <3>1. PICK m \in Nat : D = 1..m
      BY DEF EnrollmentInv
    <3>. QED  BY <3>1, FS_Interval
  <2>2. \A i \in D : w[i] \in Nat
    <3>1. \A i \in D : outcomes[i] \in Outcomes
      BY DEF EnrollmentInv
    <3>. QED  BY <3>1 DEF Outcomes, Field
  <2>. HIDE DEF w, D
  <2>3. SumOf(w, D) \in Nat
    BY <2>1, <2>2, SumIsNat
  <2>. QED  BY <2>3, CountIsSum DEF w, D
<1>2. Combined.discovered = Combined.resolved + Combined.rejected
  BY EnrollmentImplies DEF EnrollmentHolds, EnrollmentTypeOK
<1>3. /\ Combined.resolved \in Nat /\ Combined.discovered \in Nat /\ Combined.rejected \in Nat
  BY <1>1 DEF Combined
<1>4. Combined.resolved <= Combined.discovered
  <2>. HIDE DEF Combined
  <2>. QED  BY <1>2, <1>3
<1>. DEFINE part == {x \in Quotes : Active(x[2].contract)}
<1>5. IsFiniteSet(Quotes) /\ part \in SUBSET Quotes
  BY QuotesAreFinite DEF Quotes
<1>6. Cardinality(Quotes) \in Nat /\ Cardinality(part) \in Nat
      /\ Cardinality(part) <= Cardinality(Quotes)
  BY <1>5, FS_Subset, FS_CardinalityType
<1>7. ResolutionAccounting = [discovered |-> Cardinality(Quotes), resolved |-> Cardinality(part)]
  BY DEF ResolutionAccounting
<1>. QED  BY <1>3, <1>4, <1>6, <1>7

LEMMA QualifySound ==
  ASSUME QualificationInv, NEW decisions \in SUBSET DecisionPoints, NEW a, NEW m,
         m = Manifest(decisions, a), a.resolved \in Nat, a.discovered \in Nat,
         a.resolved <= a.discovered
  PROVE  ManifestSound(m) /\ m.chains = chains
<1>1. /\ m.decisions = decisions /\ m.chains = chains /\ m.accounting = a
      /\ m.complete = Cardinality({d \in decisions : Complete(d)})
  BY DEF Manifest
<1>2. {d \in decisions : Complete(d)} = CompleteIn(m)
  BY <1>1 DEF Complete, At, CompleteIn, Seen
<1>3. ASSUME m.verdict = "PASS"
      PROVE  /\ Percentage(m.complete, Cardinality(m.decisions)) >= 9500
             /\ Percentage(a.resolved, a.discovered) = 10000
             /\ \A s \in chains : \A q \in s.quotes : q.firm
  <2>1. PICK S : /\ Overall(S) = "PASS"
                 /\ Threshold(Percentage(m.complete, Cardinality(decisions)), 9500, 9000) \in S
                 /\ (IF Percentage(a.resolved, a.discovered) = 10000 THEN "PASS" ELSE "FAIL") \in S
                 /\ FidelityStatus[FidelityTier] \in S
    BY <1>1, <1>3 DEF Manifest
  <2>2. Percentage(m.complete, Cardinality(decisions)) >= 9500
    BY <2>1, PassingStatuses DEF Threshold
  <2>3. Percentage(a.resolved, a.discovered) = 10000
    BY <2>1, PassingStatuses
  <2>4. FidelityTier = "TIER_1_QUOTE_DEPTH"
    <3>1. FidelityStatus[FidelityTier] # "FAIL" /\ FidelityStatus[FidelityTier] # "REVIEW"
      BY <2>1, PassingStatuses
    <3>2. FidelityTier \in {"TIER_1_QUOTE_DEPTH", "TIER_2_TRADE_HISTORY", "TIER_3_BAR_ONLY"}
      BY DEF FidelityTier
    <3>. QED  BY <3>1, <3>2 DEF FidelityStatus
  <2>5. \A q \in UNION {s.quotes : s \in chains} : q.firm
    BY <2>4 DEF FidelityTier
  <2>. QED  BY <1>1, <2>2, <2>3, <2>5
<1>4. chains \subseteq Chains
  BY DEF QualificationInv
<1>. QED  BY <1>1, <1>2, <1>3, <1>4 DEF ManifestSound

\* Contracts stay on record.
LEMMA QuotedStays ==
  ASSUME EnrollmentInv, EnrollmentNext, NEW s, Quoted(s) PROVE Quoted(s)'
<1>1. \A r \in instruments : \E n \in instruments' : n.id = r.id
  <2>1. CASE instruments \subseteq instruments'
    BY <2>1
  <2>2. ASSUME NEW row \in instruments, RetireInstrument(row)
        PROVE  \A r \in instruments : \E n \in instruments' : n.id = r.id
    <3>1. [row EXCEPT !.retired = TRUE].id = row.id
      <4>1. IsRow(row)
        BY DEF EnrollmentInv, Registry
      <4>. QED  BY <4>1 DEF IsRow
    <3>. QED  BY <2>2, <3>1 DEF RetireInstrument
  <2>. QED
    BY <2>1, <2>2 DEF EnrollmentNext, CommitEnrollment, AbortEnrollment, BeginEnrollment,
       LookUp, InsertContract, RegisterForeign, RetireUnderlying
<1>. QED  BY <1>1 DEF Quoted

LEMMA QualificationStep ==
  QualificationInv /\ [QualificationNext]_<<enrollmentVars, qualificationVars>>
    => QualificationInv'
<1>. SUFFICES ASSUME QualificationInv,
                     [QualificationNext]_<<enrollmentVars, qualificationVars>>
              PROVE  QualificationInv'
  OBVIOUS
<1>0. EnrollmentInv'
  <2>1. [EnrollmentNext]_enrollmentVars
    BY DEF QualificationNext, ObserveBars, ObserveChain, Qualify
  <2>. QED  BY <2>1, EnrollmentStep DEF QualificationInv
<1>1. CASE EnrollmentNext /\ UNCHANGED qualificationVars
  <2>1. UNCHANGED <<arrived, manifests>> /\ chains' = chains
    BY <1>1 DEF qualificationVars, chains
  <2>2. EnrollmentInv /\ EnrollmentNext
    BY <1>1 DEF QualificationInv
  <2>3. \A s : Quoted(s) => Quoted(s)'
    BY <2>2, QuotedStays
  <2>. QED  BY <1>0, <2>1, <2>3 DEF QualificationInv
<1>2. CASE UNCHANGED <<instruments, arrived, manifests>>
  <2>1. chains' = chains
    BY <1>2 DEF chains
  <2>. QED  BY <1>0, <1>2, <2>1 DEF QualificationInv, Quoted
<1>3. ASSUME NEW s \in Chains, ObserveChain(s) PROVE QualificationInv'
  <2>1. Quoted(s)
    BY <1>3 DEF ObserveChain, Active, Canonical, Quoted
  <2>2. UNCHANGED <<instruments, manifests>> /\ arrived' = Append(arrived, s)
    BY <1>3 DEF ObserveChain, enrollmentVars
  <2>3. arrived' \in Seq(Chains) /\ chains' = chains \cup {s}
    <3>1. arrived \in Seq(Chains)
      BY DEF QualificationInv
    <3>. QED  BY <2>2, <3>1 DEF chains
  <2>. QED  BY <1>0, <2>1, <2>2, <2>3 DEF QualificationInv, Quoted
<1>4. ASSUME NEW decisions \in SUBSET DecisionPoints, NEW given \in BOOLEAN,
             Qualify(decisions, given)
      PROVE  QualificationInv'
  <2>1. PICK a : /\ a = IF given
                        THEN [discovered |-> Combined.discovered, resolved |-> Combined.resolved]
                        ELSE ResolutionAccounting
                 /\ manifests' = manifests \cup {Manifest(decisions, a)}
                 /\ UNCHANGED <<enrollmentVars, arrived>>
    BY <1>4 DEF Qualify
  <2>2. a.resolved \in Nat /\ a.discovered \in Nat /\ a.resolved <= a.discovered
    BY <2>1, AccountingsAreNumbers DEF QualificationInv
  <2>3. ManifestSound(Manifest(decisions, a)) /\ Manifest(decisions, a).chains = chains
    BY <2>2, QualifySound
  <2>4. instruments' = instruments /\ arrived' = arrived /\ chains' = chains
    BY <2>1 DEF enrollmentVars, chains
  <2>. QED  BY <1>0, <2>1, <2>3, <2>4 DEF QualificationInv, Quoted
<1>. QED
  BY <1>1, <1>2, <1>3, <1>4
  DEF QualificationNext, ObserveBars, enrollmentVars, qualificationVars

LEMMA QualificationImplies == QualificationInv /\ Moderate => QualificationHolds
<1>. SUFFICES ASSUME QualificationInv, Moderate PROVE QualificationHolds
  OBVIOUS
<1>1. NoLookAhead
  <2>1. SUFFICES ASSUME NEW m \in manifests, NEW n \in manifests, m.decisions = n.decisions,
               {s \in m.chains : \E d \in m.decisions : s.symbol = d.symbol /\ s.at = d.at}
                 = {s \in n.chains : \E d \in n.decisions : s.symbol = d.symbol /\ s.at = d.at}
        PROVE  m.complete = n.complete
    BY DEF NoLookAhead
  <2>2. \A d \in m.decisions : Seen(m, d) = Seen(n, d)
    BY <2>1 DEF Seen
  <2>3. CompleteIn(m) = CompleteIn(n)
    BY <2>1, <2>2 DEF CompleteIn
  <2>. QED  BY <2>3 DEF QualificationInv, ManifestSound
<1>2. PassIsEarned
  <2>. SUFFICES ASSUME NEW m \in manifests, m.verdict = "PASS"
                PROVE  /\ m.decisions # {}
                       /\ m.accounting.resolved = m.accounting.discovered
                       /\ m.accounting.discovered > 0
                       /\ \A d \in m.decisions :
                            \E s \in m.chains : s.symbol = d.symbol /\ s.at = d.at
                       /\ \A s \in m.chains : \A q \in s.quotes :
                            q.firm /\ \E r \in instruments : r.id = q.contract
    BY DEF PassIsEarned
  <2>1. ManifestSound(m) /\ (\A s \in m.chains : Quoted(s)) /\ m.accounting.discovered < 20000
        /\ Cardinality(m.decisions) < 20
    BY DEF QualificationInv, Moderate
  <2>2. IsFiniteSet(m.decisions) /\ CompleteIn(m) \in SUBSET m.decisions
    <3>1. IsFiniteSet(DecisionPoints) /\ m.decisions \in SUBSET DecisionPoints
      BY <2>1, QualificationAssumption DEF ManifestSound
    <3>. QED  BY <3>1, FS_Subset DEF CompleteIn
  <2>3. /\ Cardinality(m.decisions) \in Nat /\ m.complete \in Nat
        /\ m.complete <= Cardinality(m.decisions)
        /\ m.complete = Cardinality(m.decisions) => CompleteIn(m) = m.decisions
    <3>1. m.complete = Cardinality(CompleteIn(m))
      BY <2>1 DEF ManifestSound
    <3>2. IsFiniteSet(CompleteIn(m))
      BY <2>2, FS_Subset
    <3>. QED  BY <2>2, <3>1, <3>2, FS_Subset, FS_CardinalityType
  <2>4. m.complete = Cardinality(m.decisions) /\ Cardinality(m.decisions) > 0
    BY <2>1, <2>3, NoneMissing DEF ManifestSound
  <2>5. m.accounting.resolved = m.accounting.discovered /\ m.accounting.discovered > 0
    BY <2>1, NoneMissing DEF ManifestSound
  <2>6. m.decisions # {}
    BY <2>4, EmptyIsFinite
  <2>7. \A d \in m.decisions : \E s \in m.chains : s.symbol = d.symbol /\ s.at = d.at
    BY <2>3, <2>4 DEF CompleteIn, Seen
  <2>8. \A s \in m.chains : \A q \in s.quotes : q.firm /\ \E r \in instruments : r.id = q.contract
    BY <2>1 DEF ManifestSound, Quoted
  <2>. QED  BY <2>5, <2>6, <2>7, <2>8
<1>. QED  BY <1>1, <1>2 DEF QualificationHolds

\* A corpus that passes has earned it, as long as it is not so large that the
\* rounding of its percentages hides what is missing; and what a decision is
\* counted as never depends on what other moments show.
THEOREM QualificationAlwaysHolds ==
  QualificationSpec /\ []Moderate => []QualificationHolds
<1>1. EnrollmentInit /\ QualificationInit => QualificationInv
  BY EnrollmentStarts DEF QualificationInit, QualificationInv, chains
<1>2. QualificationSpec => []QualificationInv
  BY <1>1, QualificationStep, PTL DEF QualificationSpec
<1>. QED  BY <1>2, QualificationImplies, PTL

-----------------------------------------------------------------------------
(* Trust: rows of the ledger in their order. *)

\* Rows that are told apart.
Events(R) ==
  /\ IsFiniteSet(R)
  /\ \A x, y \in R : x.at \in Int /\ x.id \in Int /\ (x.id = y.id => x = y)

\* A sequence of all of the rows, each before the ones that follow.
Arranged(s, R) ==
  /\ s \in [1..Cardinality(R) -> R]
  /\ \A x \in R : \E k \in 1..Cardinality(R) : s[k] = x
  /\ \A i, j \in 1..Cardinality(R) : i < j => Before(s[i], s[j])

Earlier(R, x) == {y \in R : Before(y, x)}

\* The number of rows before a row is its place.
LEMMA PlacesRise ==
  ASSUME NEW R, Events(R), NEW x \in R, NEW y \in R, Before(x, y)
  PROVE  /\ Cardinality(Earlier(R, x)) \in Nat /\ Cardinality(Earlier(R, y)) \in Nat
         /\ Cardinality(Earlier(R, x)) < Cardinality(Earlier(R, y))
<1>1. Earlier(R, x) \subseteq Earlier(R, y)
  BY DEF Earlier, Before, Events
<1>2. x \in Earlier(R, y) /\ x \notin Earlier(R, x)
  BY DEF Earlier, Before, Events
<1>3. IsFiniteSet(Earlier(R, y)) /\ IsFiniteSet(Earlier(R, x))
  BY FS_Subset DEF Earlier, Events
<1>. QED  BY <1>1, <1>2, <1>3, FS_Subset, FS_CardinalityType

LEMMA InOrderIs == ASSUME NEW R, Events(R) PROVE Arranged(InOrder(R), R)
<1>. DEFINE n == Cardinality(R)
            place == [x \in R |-> Cardinality(Earlier(R, x))]
            s == InOrder(R)
<1>1. n \in Nat
  BY FS_CardinalityType DEF Events
<1>2. \A x \in R : place[x] \in 0..(n - 1)
  <2>. SUFFICES ASSUME NEW x \in R PROVE place[x] \in 0..(n - 1)
    OBVIOUS
  <2>1. Earlier(R, x) \subseteq R \ {x}
    BY DEF Earlier, Before, Events
  <2>2. IsFiniteSet(R \ {x}) /\ Cardinality(R \ {x}) = n - 1
    BY FS_RemoveElement DEF Events
  <2>3. Cardinality(Earlier(R, x)) <= n - 1 /\ Cardinality(Earlier(R, x)) \in Nat
    BY <2>1, <2>2, FS_Subset, FS_CardinalityType
  <2>. QED  BY <2>3, <1>1
<1>3. \A x, y \in R : x # y => Before(x, y) \/ Before(y, x)
  BY DEF Before, Events
<1>4. \A x, y \in R : Before(x, y) => place[x] < place[y]
  BY PlacesRise
<1>5. place \in Injection(R, 0..(n - 1))
  BY <1>2, <1>3, <1>4 DEF Injection, IsInjective
<1>6. place \in Surjection(R, 0..(n - 1))
  <2>1. IsFiniteSet(0..(n - 1)) /\ Cardinality(0..(n - 1)) = n
    BY <1>1, FS_Interval
  <2>. QED  BY <2>1, <1>5, FS_Injection
<1>7. \A k \in 1..n : s[k] \in R /\ place[s[k]] = k - 1
  <2>. SUFFICES ASSUME NEW k \in 1..n PROVE s[k] \in R /\ place[s[k]] = k - 1
    OBVIOUS
  <2>1. k - 1 \in 0..(n - 1)
    BY <1>1
  <2>2. \E x \in R : place[x] = k - 1
    BY <2>1, <1>6 DEF Surjection
  <2>3. \E x \in R : Cardinality({y \in R : Before(y, x)}) = k - 1
    BY <2>2 DEF Earlier
  <2>4. s[k] = CHOOSE x \in R : Cardinality({y \in R : Before(y, x)}) = k - 1
    BY DEF InOrder
  <2>5. s[k] \in R /\ Cardinality({y \in R : Before(y, s[k])}) = k - 1
    BY <2>3, <2>4
  <2>. QED  BY <2>5 DEF Earlier
<1>8. s \in [1..n -> R]
  <2>. DEFINE g == [k \in 1..n |-> CHOOSE x \in R : Cardinality({y \in R : Before(y, x)}) = k - 1]
  <2>1. s = g
    BY Zenon DEF InOrder
  <2>2. \A k \in 1..n : g[k] \in R
    BY <2>1, <1>7
  <2>3. g \in [1..n -> R]
    BY <2>2
  <2>. QED  BY <2>1, <2>3
<1>9. ASSUME NEW x \in R PROVE \E k \in 1..n : s[k] = x
  <2>. DEFINE k == place[x] + 1
  <2>1. k \in 1..n /\ place[s[k]] = place[x] /\ s[k] \in R
    BY <1>1, <1>2, <1>7
  <2>2. s[k] = x
    BY <2>1, <1>5 DEF Injection, IsInjective
  <2>. QED  BY <2>1, <2>2
<1>10. ASSUME NEW i \in 1..n, NEW j \in 1..n, i < j PROVE Before(s[i], s[j])
  <2>1. s[i] \in R /\ s[j] \in R /\ place[s[i]] = i - 1 /\ place[s[j]] = j - 1
    BY <1>7
  <2>. HIDE DEF s, place
  <2>2. s[i] # s[j]
    BY <2>1, <1>10, <1>1
  <2>3. ~(place[s[j]] < place[s[i]])
    BY <2>1, <1>10, <1>1
  <2>. QED  BY <2>1, <2>2, <2>3, <1>3, <1>4
<1>. QED  BY <1>8, <1>9, <1>10 DEF Arranged

-----------------------------------------------------------------------------
(* Trust: each factor is a percentage. *)

IsFactor(x) == x = None \/ x \in 0..100

\* An execution with a price to compare it with, if any is known.
Executed(x) ==
  /\ x.price \in Nat /\ x.price > 0 /\ x.quantity \in Nat /\ x.quantity > 0
  /\ x.reference = None \/ (x.reference \in Nat /\ x.reference > 0)

EvidenceTyped(e) ==
  /\ e.trades \in Seq(Recordable("trades"))
  /\ e.equity \in Seq(Recordable("equity"))
  /\ IsFiniteSet(e.executions) /\ \A x \in e.executions : Executed(x)
  /\ e.authorized \in Nat /\ e.rejected \in Nat

LEMMA ShareOfWhole ==
  ASSUME NEW a \in Nat, NEW b \in Nat, b > 0, a <= b
  PROVE  (100 * a) \div b \in 0..100
<1>. DEFINE q == (100 * a) \div b
<1>1. q \in Int /\ b * q <= 100 * a /\ 100 * a < b * q + b
  OBVIOUS
<1>. HIDE DEF q
<1>2. b * q <= b * 100
  BY <1>1
<1>3. q <= 100
  BY <1>1, <1>2
<1>4. q >= 0
  BY <1>1
<1>. QED  BY <1>1, <1>3, <1>4 DEF q

LEMMA TradesAreCounted ==
  ASSUME NEW s, NEW T, s \in Seq(T)
  PROVE  /\ DOMAIN s = 1..Len(s) /\ Len(s) \in Nat /\ \A i \in DOMAIN s : s[i] \in T
         /\ IsFiniteSet(DOMAIN s)
         /\ \A D \in SUBSET DOMAIN s : Cardinality(D) \in Nat /\ Cardinality(D) <= Len(s)
<1>1. PICK n \in Nat : n = Len(s) /\ DOMAIN s = 1..n
  OBVIOUS
<1>2. IsFiniteSet(1..n) /\ Cardinality(1..n) = n
  BY FS_Interval
<1>. QED  BY <1>1, <1>2, FS_Subset, FS_CardinalityType

\* A number of the trades and its sum.
Pnls(trades) == [i \in DOMAIN trades |-> trades[i].pnl]
Amounts(trades) == [i \in DOMAIN trades |-> IF trades[i].pnl < 0 THEN 0 - trades[i].pnl ELSE trades[i].pnl]
Mfes(trades) == [i \in DOMAIN trades |-> trades[i].mfe]
Maes(trades) == [i \in DOMAIN trades |-> trades[i].mae]

LEMMA PnlTotal ==
  ASSUME NEW trades
  PROVE  Total(LAMBDA t : t.pnl, trades) = SumOf(Pnls(trades), DOMAIN trades)
BY DEF Total, SumOf, MapThenSumSet, MapThenFoldSet, Pnls

LEMMA GrossTotal ==
  ASSUME NEW trades
  PROVE  Total(LAMBDA t : IF t.pnl < 0 THEN 0 - t.pnl ELSE t.pnl, trades)
           = SumOf(Amounts(trades), DOMAIN trades)
BY DEF Total, SumOf, MapThenSumSet, MapThenFoldSet, Amounts

LEMMA MfeTotal ==
  ASSUME NEW trades
  PROVE  Total(LAMBDA t : t.mfe, trades) = SumOf(Mfes(trades), DOMAIN trades)
BY DEF Total, SumOf, MapThenSumSet, MapThenFoldSet, Mfes

LEMMA MaeTotal ==
  ASSUME NEW trades
  PROVE  Total(LAMBDA t : t.mae, trades) = SumOf(Maes(trades), DOMAIN trades)
BY DEF Total, SumOf, MapThenSumSet, MapThenFoldSet, Maes

LEMMA PreservationIsFactor ==
  ASSUME NEW e, EvidenceTyped(e) PROVE IsFactor(score_capital_preservation(e))
<1>. DEFINE points == e.equity
            Until(j) == {points[i].equity : i \in 1..j}
            Kept == {(100 * points[j].equity) \div Max(Until(j)) : j \in DOMAIN points}
<1>1. CASE Len(points) < 2
  BY <1>1 DEF score_capital_preservation, IsFactor
<1>2. CASE ~(Len(points) < 2)
  <2>1. PICK n \in Nat : n = Len(points) /\ DOMAIN points = 1..n /\ n >= 2
    BY <1>2 DEF EvidenceTyped
  <2>2. \A i \in 1..n : points[i].equity \in Nat /\ points[i].equity > 0
    BY <2>1, FactsAssumption DEF EvidenceTyped
  <2>3. ASSUME NEW j \in 1..n PROVE (100 * points[j].equity) \div Max(Until(j)) \in 0..100
    <3>1. IsFiniteSet(1..j)
      BY FS_Interval
    <3>. DEFINE g == [i \in 1..j |-> points[i].equity]
    <3>2. IsFiniteSet({g[i] : i \in 1..j})
      BY <3>1, ImageIsFinite
    <3>3. Until(j) = {g[i] : i \in 1..j}
      OBVIOUS
    <3>4. IsFiniteSet(Until(j)) /\ Until(j) \in SUBSET Int /\ points[j].equity \in Until(j)
      <4>1. IsFiniteSet(Until(j))
        BY <3>2, <3>3
      <4>2. \A i \in 1..j : i \in 1..n
        BY <2>1
      <4>3. Until(j) \in SUBSET Int
        BY <4>2, <2>2
      <4>4. j \in 1..j
        OBVIOUS
      <4>. QED  BY <4>1, <4>3, <4>4
    <3>5. Max(Until(j)) \in Until(j) /\ \A y \in Until(j) : y <= Max(Until(j))
      BY <3>4, MaxIsLargest
    <3>6. Max(Until(j)) \in Nat /\ Max(Until(j)) > 0 /\ points[j].equity <= Max(Until(j))
      BY <3>4, <3>5, <2>2
    <3>. HIDE DEF Until
    <3>. QED  BY <3>6, <2>2, ShareOfWhole
  <2>4. Kept \in SUBSET (0..100) /\ Kept # {}
    <3>1. 1 \in DOMAIN points
      BY <2>1
    <3>. HIDE DEF Until
    <3>. QED  BY <3>1, <2>1, <2>3
  <2>5. IsFiniteSet(Kept)
    <3>1. PICK m \in Nat : m = 100
      OBVIOUS
    <3>2. IsFiniteSet(0..m)
      BY FS_Interval
    <3>. QED  BY <3>1, <3>2, <2>4, FS_Subset
  <2>6. Min(Kept) \in Kept
    <3>. HIDE DEF Kept
    <3>1. Kept \in SUBSET Int
      BY <2>4
    <3>. QED  BY <3>1, <2>4, <2>5, MinIsSmallest
  <2>7. score_capital_preservation(e) = Min(Kept)
    BY <1>2 DEF score_capital_preservation
  <2>. QED  BY <2>4, <2>6, <2>7 DEF IsFactor
<1>. QED  BY <1>1, <1>2

LEMMA DisciplineIsFactor ==
  ASSUME NEW e, EvidenceTyped(e) PROVE IsFactor(score_strategy_discipline(e))
<1>1. PICK c \in Nat, n \in Nat, a \in Nat, r \in Nat :
        /\ c = Cardinality({i \in DOMAIN e.trades : e.trades[i].compliant = TRUE})
        /\ n = Len(e.trades) /\ c <= n /\ a = e.authorized /\ r = e.rejected
  BY TradesAreCounted DEF EvidenceTyped
<1>2. CASE HasNone(e.trades, "compliant")
  BY <1>2 DEF score_strategy_discipline, IsFactor
<1>3. CASE ~HasNone(e.trades, "compliant")
  <2>1. n > 0
    BY <1>1, <1>3 DEF HasNone, EvidenceTyped
  <2>2. score_strategy_discipline(e) = (100 * (c + a)) \div (n + a + r)
    BY <1>1, <1>3 DEF score_strategy_discipline
  <2>3. c <= n
    BY <1>1
  <2>4. c + a \in Nat /\ n + a + r \in Nat /\ n + a + r > 0 /\ c + a <= n + a + r
    BY <2>1, <2>3
  <2>. QED  BY <2>2, <2>4, ShareOfWhole DEF IsFactor
<1>. QED  BY <1>2, <1>3

LEMMA RegimeIsFactor ==
  ASSUME NEW e, EvidenceTyped(e) PROVE IsFactor(score_context_regime_quality(e))
<1>1. PICK c \in Nat, n \in Nat :
        /\ c = Cardinality({i \in DOMAIN e.trades : e.trades[i].pnl >= 0})
        /\ n = Len(e.trades) /\ c <= n
  BY TradesAreCounted DEF EvidenceTyped
<1>2. CASE HasNone(e.trades, "regime") \/ HasNone(e.trades, "pnl")
  BY <1>2 DEF score_context_regime_quality, IsFactor
<1>3. CASE ~(HasNone(e.trades, "regime") \/ HasNone(e.trades, "pnl"))
  <2>1. n > 0
    BY <1>1, <1>3 DEF HasNone, EvidenceTyped
  <2>2. score_context_regime_quality(e) = (100 * c) \div n
    BY <1>1, <1>3 DEF score_context_regime_quality
  <2>. QED  BY <1>1, <2>1, <2>2, ShareOfWhole DEF IsFactor
<1>. QED  BY <1>2, <1>3

LEMMA EfficiencyIsFactor ==
  ASSUME NEW e, EvidenceTyped(e) PROVE IsFactor(score_risk_efficiency(e))
<1>. DEFINE D == DOMAIN e.trades
            without == \E field \in {"risk", "mfe", "mae"} : HasNone(e.trades, field)
            mfe == SumOf(Mfes(e.trades), D)
            mae == SumOf(Maes(e.trades), D)
<1>1. CASE without
  BY <1>1 DEF score_risk_efficiency, IsFactor
<1>2. CASE ~without
  <2>1. IsFiniteSet(D) /\ \A i \in D : e.trades[i] \in Recordable("trades")
    BY TradesAreCounted DEF EvidenceTyped
  <2>2. \A i \in D : e.trades[i].mfe # None /\ e.trades[i].mae # None
    BY <1>2 DEF HasNone
  <2>3. \A i \in D : Mfes(e.trades)[i] \in Nat /\ Maes(e.trades)[i] \in Nat
    BY <2>1, <2>2, FactsAssumption DEF Mfes, Maes
  <2>4. mfe \in Nat /\ mae \in Nat
    BY <2>1, <2>3, SumIsNat
  <2>5. score_risk_efficiency(e)
          = IF mfe + mae = 0 THEN None ELSE (100 * mfe) \div (mfe + mae)
    BY <1>2, MfeTotal, MaeTotal DEF score_risk_efficiency
  <2>. HIDE DEF mfe, mae
  <2>6. CASE mfe + mae = 0
    BY <2>5, <2>6 DEF IsFactor
  <2>7. CASE mfe + mae # 0
    <3>1. mfe + mae \in Nat /\ mfe + mae > 0 /\ mfe <= mfe + mae
      BY <2>4, <2>7
    <3>. QED  BY <3>1, <2>4, <2>5, <2>7, ShareOfWhole DEF IsFactor
  <2>. QED  BY <2>6, <2>7
<1>. QED  BY <1>1, <1>2

LEMMA ProductionIsFactor ==
  ASSUME NEW e, EvidenceTyped(e) PROVE IsFactor(score_qualified_capital_production(e))
<1>. DEFINE D == DOMAIN e.trades
            without == HasNone(e.trades, "pnl") \/ \E i \in D : e.trades[i].settled # TRUE
            gross == SumOf(Amounts(e.trades), D)
            net == SumOf(Pnls(e.trades), D)
<1>1. CASE without
  BY <1>1 DEF score_qualified_capital_production, IsFactor
<1>2. CASE ~without
  <2>1. IsFiniteSet(D) /\ \A i \in D : e.trades[i] \in Recordable("trades")
    BY TradesAreCounted DEF EvidenceTyped
  <2>2. \A i \in D : e.trades[i].pnl # None
    BY <1>2 DEF HasNone
  <2>3. \A i \in D : e.trades[i].pnl \in Int
    BY <2>1, <2>2, FactsAssumption
  <2>4. \A i \in D : /\ Pnls(e.trades)[i] \in Int /\ Amounts(e.trades)[i] \in Nat
                     /\ Pnls(e.trades)[i] <= Amounts(e.trades)[i]
    BY <2>3 DEF Pnls, Amounts
  <2>5. net \in Int /\ gross \in Nat
    BY <2>1, <2>4, SumIsInt, SumIsNat
  <2>6. net <= gross
    BY <2>1, <2>4, SumGrows
  <2>7. score_qualified_capital_production(e)
          = IF gross = 0 THEN 0 ELSE (100 * Larger(0, net)) \div gross
    BY <1>2, GrossTotal, PnlTotal DEF score_qualified_capital_production
  <2>. HIDE DEF gross, net
  <2>8. Larger(0, net) \in Nat /\ Larger(0, net) <= gross
    BY <2>5, <2>6 DEF Larger
  <2>9. CASE gross = 0
    BY <2>7, <2>9 DEF IsFactor
  <2>10. CASE gross # 0
    <3>1. gross > 0
      BY <2>5, <2>10
    <3>2. (100 * Larger(0, net)) \div gross \in 0..100
      BY <2>5, <2>8, <3>1, ShareOfWhole
    <3>. QED  BY <2>7, <2>10, <3>2 DEF IsFactor
  <2>. QED  BY <2>9, <2>10
<1>. QED  BY <1>1, <1>2

\* What the executions are worth, and what they cost above that.
Notionals(E) == [x \in E |-> x.reference * x.quantity]
Slippages(E) == [x \in E |-> AdverseSlippage(x)]

LEMMA NotionalSum ==
  ASSUME NEW E
  PROVE  MapThenSumSet(LAMBDA x : x.reference * x.quantity, E) = SumOf(Notionals(E), E)
BY DEF SumOf, MapThenSumSet, MapThenFoldSet, Notionals

LEMMA SlippageSum ==
  ASSUME NEW E
  PROVE  MapThenSumSet(AdverseSlippage, E) = SumOf(Slippages(E), E)
BY DEF SumOf, MapThenSumSet, MapThenFoldSet, Slippages

LEMMA Product ==
  ASSUME NEW a \in Nat, NEW b \in Nat
  PROVE  a * b \in Nat /\ (a > 0 /\ b > 0 => a * b > 0)
OBVIOUS

LEMMA FidelityIsFactor ==
  ASSUME NEW e, EvidenceTyped(e) PROVE IsFactor(score_execution_fidelity(e))
<1>. DEFINE E == e.executions
            without == E = {} \/ \E x \in E : x.reference = None
            notional == SumOf(Notionals(E), E)
            adverse == SumOf(Slippages(E), E)
<1>1. CASE without
  BY <1>1 DEF score_execution_fidelity, IsFactor
<1>2. CASE ~without
  <2>1. IsFiniteSet(E) /\ \A x \in E : Executed(x) /\ x.reference # None
    BY <1>2 DEF EvidenceTyped
  <2>2. \A x \in E : Notionals(E)[x] \in Nat /\ Notionals(E)[x] > 0
    BY <2>1, Product DEF Notionals, Executed
  <2>3. ASSUME NEW x \in E PROVE Slippages(E)[x] \in Nat
    <3>1. Executed(x) /\ x.reference # None
      BY <2>1
    <3>2. /\ Larger(0, x.price - x.reference) \in Nat
          /\ Larger(0, x.reference - x.price) \in Nat
          /\ x.quantity \in Nat
      BY <3>1 DEF Executed, Larger
    <3>. QED  BY <3>2, Product DEF Slippages, AdverseSlippage
  <2>4. notional \in Nat /\ adverse \in Nat
    BY <2>1, <2>2, <2>3, SumIsNat
  <2>5. PICK x \in E : TRUE
    BY <1>2
  <2>6. notional > 0
    <3>1. notional = Notionals(E)[x] + SumOf(Notionals(E), E \ {x})
      BY <2>1, <2>2, SumTakes
    <3>2. IsFiniteSet(E \ {x})
      BY <2>1, FS_Subset
    <3>3. SumOf(Notionals(E), E \ {x}) \in Nat
      BY <2>2, <3>2, SumIsNat
    <3>. QED  BY <2>2, <3>1, <3>3
  <2>7. score_execution_fidelity(e) = Larger(0, (100 * (notional - adverse)) \div notional)
    BY <1>2, NotionalSum, SlippageSum DEF score_execution_fidelity
  <2>. HIDE DEF notional, adverse
  <2>8. CASE adverse <= notional
    <3>1. notional - adverse \in Nat /\ notional - adverse <= notional
      BY <2>4, <2>8
    <3>2. (100 * (notional - adverse)) \div notional \in 0..100
      BY <2>4, <2>6, <3>1, ShareOfWhole
    <3>. QED  BY <2>7, <3>2 DEF Larger, IsFactor
  <2>9. CASE ~(adverse <= notional)
    <3>1. PICK d \in Int : d = 100 * (notional - adverse) /\ d < 0
      BY <2>4, <2>9
    <3>2. d \div notional \in Int /\ d \div notional < 0
      BY <2>4, <2>6, <3>1
    <3>3. Larger(0, d \div notional) = 0
      BY <3>2 DEF Larger
    <3>. QED  BY <2>7, <3>1, <3>3 DEF IsFactor
  <2>. QED  BY <2>8, <2>9
<1>. QED  BY <1>1, <1>2

\* A score, in hundredths of a percent.
InPoints(x) == x \in Points
IsPoints(x) == x = None \/ InPoints(x)

Weigh(a, b, c, d, f, g) == 25 * a + 20 * b + 20 * c + 15 * d + 10 * f + 10 * g

LEMMA PointsBounds == \A x : InPoints(x) <=> x \in Nat /\ x <= 10000
<1>1. PICK most \in Nat : most = 10000
  OBVIOUS
<1>2. \A x : x \in 0..most <=> x \in Nat /\ x <= most
  OBVIOUS
<1>. QED  BY <1>1, <1>2 DEF InPoints, Points

LEMMA Weighted ==
  ASSUME NEW a \in 0..100, NEW b \in 0..100, NEW c \in 0..100, NEW d \in 0..100,
         NEW f \in 0..100, NEW g \in 0..100
  PROVE  InPoints(Weigh(a, b, c, d, f, g))
<1>1. /\ 25 * a \in Nat /\ 20 * b \in Nat /\ 20 * c \in Nat /\ 15 * d \in Nat
      /\ 10 * f \in Nat /\ 10 * g \in Nat
      /\ 25 * a <= 2500 /\ 20 * b <= 2000 /\ 20 * c <= 2000 /\ 15 * d <= 1500
      /\ 10 * f <= 1000 /\ 10 * g <= 1000
  OBVIOUS
<1>2. PICK y \in Nat : y = Weigh(a, b, c, d, f, g) /\ y <= 10000
  BY <1>1 DEF Weigh
<1>. QED  BY <1>2, PointsBounds

LEMMA ScoreIsPoints ==
  ASSUME NEW e, EvidenceTyped(e) PROVE IsPoints(WeightedScore(e))
<1>. DEFINE s == <<score_capital_preservation(e), score_strategy_discipline(e),
                   score_execution_fidelity(e), score_context_regime_quality(e),
                   score_risk_efficiency(e), score_qualified_capital_production(e)>>
<1>1. \A i \in 1..6 : IsFactor(s[i])
  BY PreservationIsFactor, DisciplineIsFactor, FidelityIsFactor, RegimeIsFactor,
     EfficiencyIsFactor, ProductionIsFactor
<1>2. WeightedScore(e) = IF \E i \in 1..6 : s[i] = None THEN None
        ELSE 25 * s[1] + 20 * s[2] + 20 * s[3] + 15 * s[4] + 10 * s[5] + 10 * s[6]
  BY DEF WeightedScore
<1>. HIDE DEF s
<1>3. CASE \E i \in 1..6 : s[i] = None
  <2>1. WeightedScore(e) = None
    BY <1>2, <1>3
  <2>. QED  BY <2>1 DEF IsPoints
<1>4. CASE ~\E i \in 1..6 : s[i] = None
  <2>1. \A i \in 1..6 : s[i] \in 0..100
    BY <1>1, <1>4 DEF IsFactor
  <2>2. /\ s[1] \in 0..100 /\ s[2] \in 0..100 /\ s[3] \in 0..100
        /\ s[4] \in 0..100 /\ s[5] \in 0..100 /\ s[6] \in 0..100
    BY <2>1
  <2>3. InPoints(Weigh(s[1], s[2], s[3], s[4], s[5], s[6]))
    BY <2>2, Weighted
  <2>4. WeightedScore(e) = Weigh(s[1], s[2], s[3], s[4], s[5], s[6])
    BY <1>2, <1>4 DEF Weigh
  <2>. QED  BY <2>3, <2>4 DEF IsPoints
<1>. QED  BY <1>3, <1>4

-----------------------------------------------------------------------------
(* Trust: the tier recommended. *)

IsEligibility(x) == x \in {"DISQUALIFIED", "ELIGIBLE", "INSUFFICIENT_EVIDENCE"}

LEMMA RecommendedIsTier ==
  ASSUME NEW t \in Tiers, NEW x, NEW score, NEW n, NEW size
  PROVE  recommend_autonomy_tier(t, x, score, n, size) \in Tiers
<1>1. CASE t = "APPRENTICE"
  BY <1>1 DEF recommend_autonomy_tier, Tiers, TIER_ORDER, Rank
<1>2. CASE t = "GUARDED"
  BY <1>2 DEF recommend_autonomy_tier, Tiers, TIER_ORDER, Rank
<1>3. CASE t = "CAPITAL_BUILDER"
  BY <1>3 DEF recommend_autonomy_tier, Tiers, TIER_ORDER, Rank
<1>. QED  BY <1>1, <1>2, <1>3 DEF Tiers

\* Between two thresholds of a tier there is no score that takes it both ways.
LEMMA NoSwing ==
  ASSUME NEW t \in Tiers, NEW x, NEW score, score = None \/ score \in Int,
         NEW n, NEW first, NEW second, NEW u,
         u = recommend_autonomy_tier(t, x, score, n, first), u # t
  PROVE  recommend_autonomy_tier(u, x, score, n, second) # t
<1>. DEFINE G == "GUARDED"
            C == "CAPITAL_BUILDER"
<1>1. /\ Promotion[G] \in Int /\ Promotion[C] \in Int
      /\ Demotion[G] \in Int /\ Demotion[C] \in Int
      /\ Demotion[G] <= Promotion[G] /\ Demotion[C] <= Promotion[C]
  BY TrustAssumption
<1>2. CASE x = "DISQUALIFIED"
  BY <1>2 DEF recommend_autonomy_tier
<1>3. CASE x # "DISQUALIFIED"
  <2>1. x = "ELIGIBLE" /\ score # None
    BY <1>3 DEF recommend_autonomy_tier
  <2>2. score \in Int
    BY <2>1
  <2>3. CASE t = "APPRENTICE"
    <3>1. u = G /\ score >= Promotion[G]
      BY <2>1, <2>3 DEF recommend_autonomy_tier, TIER_ORDER, Rank
    <3>2. ~(score < Demotion[G])
      BY <3>1, <2>2, <1>1
    <3>. QED  BY <2>1, <2>3, <3>1, <3>2 DEF recommend_autonomy_tier, TIER_ORDER, Rank
  <2>4. CASE t = "GUARDED"
    <3>1. \/ u = "APPRENTICE" /\ score < Demotion[G]
          \/ u = C /\ score >= Promotion[C]
      BY <2>1, <2>4 DEF recommend_autonomy_tier, TIER_ORDER, Rank
    <3>2. CASE u = "APPRENTICE" /\ score < Demotion[G]
      <4>1. ~(score >= Promotion[G])
        BY <3>2, <2>2, <1>1
      <4>. QED  BY <2>1, <2>4, <3>2, <4>1 DEF recommend_autonomy_tier, TIER_ORDER, Rank
    <3>3. CASE u = C /\ score >= Promotion[C]
      <4>1. ~(score < Demotion[C])
        BY <3>3, <2>2, <1>1
      <4>. QED  BY <2>1, <2>4, <3>3, <4>1 DEF recommend_autonomy_tier, TIER_ORDER, Rank
    <3>. QED  BY <3>1, <3>2, <3>3
  <2>5. CASE t = "CAPITAL_BUILDER"
    <3>1. u = G /\ score < Demotion[C]
      BY <2>1, <2>5 DEF recommend_autonomy_tier, TIER_ORDER, Rank
    <3>2. ~(score >= Promotion[C])
      BY <3>1, <2>2, <1>1
    <3>. QED  BY <2>1, <2>5, <3>1, <3>2 DEF recommend_autonomy_tier, TIER_ORDER, Rank
  <2>. QED  BY <2>3, <2>4, <2>5 DEF Tiers
<1>. QED  BY <1>2, <1>3

-----------------------------------------------------------------------------
(* Trust: what the collector reads. *)

FactsSound ==
  /\ DOMAIN facts = Families
  /\ \A f \in Families : facts[f] \subseteq Recordable(f) /\ IsFiniteSet(facts[f])

LEMMA FamiliesAreEvents ==
  ASSUME FactsSound, NEW f \in {"trades", "equity", "audits"}, NEW R \in SUBSET facts[f]
  PROVE  Events(R)
<1>1. f \in Families
  BY DEF Families
<1>2. R \subseteq Recordable(f) /\ IsFiniteSet(R)
  BY <1>1, FS_Subset DEF FactsSound
<1>. QED  BY <1>2, FactsAssumption DEF Events

\* The last rows, as many as asked for or all.
IsTail(w, s, n, size) ==
  \E skipped, length \in Nat :
    /\ n = skipped + length /\ DOMAIN w = 1..length /\ Len(w) = length
    /\ \A i \in 1..length : w[i] = s[i + skipped]
    /\ skipped > 0 => length = size

LEMMA TailIs ==
  ASSUME NEW R, Events(R), NEW size \in Nat \ {0}
  PROVE  /\ IsTail(latest_window(R, size), InOrder(R), Cardinality(R), size)
         /\ latest_window(R, size) \in Seq(R)
<1>. DEFINE s == InOrder(R)
            w == latest_window(R, size)
<1>0. s \in [1..Cardinality(R) -> R] /\ Cardinality(R) \in Nat
  BY InOrderIs, FS_CardinalityType DEF Arranged, Events
<1>. HIDE DEF s
<1>1. PICK n \in Nat : n = Cardinality(R) /\ s \in [1..n -> R] /\ s \in Seq(R) /\ Len(s) = n
  BY <1>0
<1>2. w = IF n > size THEN SubSeq(s, n - size + 1, n) ELSE s
  BY <1>1 DEF latest_window, s
<1>. HIDE DEF w
<1>3. CASE n > size
  <2>1. PICK k \in Nat : n = k + size /\ w = SubSeq(s, k + 1, n)
    BY <1>2, <1>3
  <2>2. DOMAIN w = 1..size /\ Len(w) = size /\ \A i \in 1..size : w[i] = s[i + k]
    BY <1>1, <1>3, <2>1
  <2>3. w \in Seq(R)
    BY <1>1, <1>3, <2>1
  <2>4. IsTail(w, s, n, size)
    BY <2>1, <2>2 DEF IsTail
  <2>. QED  BY <1>1, <2>3, <2>4 DEF s, w
<1>4. CASE ~(n > size)
  <2>1. w = s /\ DOMAIN w = 1..n /\ Len(w) = n /\ \A i \in 1..n : w[i] = s[i + 0]
    BY <1>1, <1>2, <1>4
  <2>. QED  BY <1>1, <2>1 DEF IsTail, s, w
<1>. QED  BY <1>3, <1>4

LEMMA ExecutionsAreTyped ==
  ASSUME FactsSound, NEW w
  PROVE  IsFiniteSet(ExecutionEvidence(w)) /\ \A x \in ExecutionEvidence(w) : Executed(x)
<1>. DEFINE W == Within(facts.fills, w)
            g == [f \in W |-> [side |-> f.side, price |-> f.price, quantity |-> f.quantity,
                              reference |-> ReferencePrice(f), id |-> f.id]]
<1>1. /\ facts.fills \subseteq Recordable("fills") /\ IsFiniteSet(facts.fills)
      /\ facts.references \subseteq Recordable("references")
  BY DEF FactsSound, Families
<1>2. W \subseteq facts.fills
  BY DEF Within
<1>3. ExecutionEvidence(w) = {g[f] : f \in W}
  BY DEF ExecutionEvidence
<1>4. IsFiniteSet(W)
  BY <1>1, <1>2, FS_Subset
<1>5. IsFiniteSet({g[f] : f \in W})
  <2>. HIDE DEF g, W
  <2>. QED  BY <1>4, ImageIsFinite
<1>6. ASSUME NEW f \in W PROVE Executed(g[f])
  <2>1. f.price \in Nat /\ f.price > 0 /\ f.quantity \in Nat /\ f.quantity > 0
    BY <1>1, <1>2, FactsAssumption
  <2>2. ReferencePrice(f) = None \/ (ReferencePrice(f) \in Nat /\ ReferencePrice(f) > 0)
    <3>. DEFINE known == {r \in facts.references : r.fill = f.id}
    <3>1. CASE known = {}
      BY <3>1 DEF ReferencePrice
    <3>2. CASE known # {}
      <4>1. (CHOOSE r \in known : TRUE) \in known /\ ReferencePrice(f) = (CHOOSE r \in known : TRUE).price
        BY <3>2 DEF ReferencePrice
      <4>2. PICK r \in known : ReferencePrice(f) = r.price
        BY <4>1
      <4>. QED  BY <4>2, <1>1, FactsAssumption
    <3>. QED  BY <3>1, <3>2
  <2>3. /\ g[f].price = f.price /\ g[f].quantity = f.quantity
        /\ g[f].reference = ReferencePrice(f)
    OBVIOUS
  <2>. QED  BY <2>1, <2>2, <2>3 DEF Executed
<1>. QED  BY <1>3, <1>5, <1>6

LEMMA VerdictsAreCounted ==
  ASSUME FactsSound, NEW verdict, NEW w PROVE Verdicts(verdict, w) \in Nat
<1>1. IsFiniteSet(facts.decisions)
  BY DEF FactsSound, Families
<1>. QED  BY <1>1, FS_Subset, FS_CardinalityType DEF Verdicts, Within

LEMMA EvidenceIsTyped ==
  ASSUME FactsSound, NEW size \in WINDOWS PROVE EvidenceTyped(Evidence(size))
<1>. DEFINE w == latest_window(facts.trades, size)
            P == Within(facts.equity, w)
<1>0. size \in Nat \ {0}
  BY TrustAssumption
<1>1. facts.trades \subseteq Recordable("trades") /\ facts.equity \subseteq Recordable("equity")
  BY DEF FactsSound, Families
<1>2. Events(facts.trades) /\ Events(P)
  BY FamiliesAreEvents DEF Within
<1>3. w \in Seq(facts.trades)
  BY <1>0, <1>2, TailIs
<1>4. w \in Seq(Recordable("trades"))
  BY <1>1, <1>3
<1>5. InOrder(P) \in [1..Cardinality(P) -> P] /\ Cardinality(P) \in Nat
  BY <1>2, InOrderIs, FS_CardinalityType DEF Arranged, Events
<1>6. P \subseteq Recordable("equity")
  BY <1>1 DEF Within
<1>7. InOrder(P) \in Seq(Recordable("equity"))
  BY <1>5, <1>6
<1>. HIDE DEF w, P
<1>8. /\ Evidence(size).trades = w /\ Evidence(size).equity = InOrder(P)
      /\ Evidence(size).executions = ExecutionEvidence(w)
      /\ Evidence(size).authorized = Verdicts("AUTHORIZED", w)
      /\ Evidence(size).rejected = Verdicts("REJECTED", w)
  BY DEF Evidence, w, P
<1>. QED  BY <1>4, <1>7, <1>8, ExecutionsAreTyped, VerdictsAreCounted DEF EvidenceTyped

-----------------------------------------------------------------------------
(* Trust: the evaluations on record. *)

\* A row is what an evaluation makes of its evidence.
Evaluated(row) ==
  /\ row.tier \in Tiers /\ row.size \in WINDOWS /\ EvidenceTyped(row.evidence)
  /\ row = Row(row.tier, row.size, row.evidence)

\* A bypass that was found stays found, but for an order without authorization.
Lasting ==
  \A i \in DOMAIN evaluations :
    evaluations[i].evidence.safety.bypasses \ {"UNAUTHORIZED_EXECUTION"} \subseteq SafetyEvidence.bypasses

IsList(s) == \E S : s \in Seq(S)

TrustInv ==
  /\ FactsSound /\ tier \in Tiers /\ retired \in BOOLEAN
  /\ IsList(evaluations) /\ \A i \in DOMAIN evaluations : Evaluated(evaluations[i])
  /\ Lasting /\ BreachIsForever

LEMMA RowFields ==
  ASSUME NEW t \in Tiers, NEW size \in WINDOWS, NEW e, EvidenceTyped(e)
  PROVE  Evaluated(Row(t, size, e)) /\ Row(t, size, e).evidence = e
BY DEF Evaluated, Row

\* Each field, for an evaluation on record.
LEMMA FieldsFollow ==
  ASSUME NEW row, Evaluated(row)
  PROVE  /\ row.eligibility = SafetyEligibility(row.evidence.safety)
         /\ row.score = WeightedScore(row.evidence)
         /\ row.recommended = recommend_autonomy_tier(row.tier, row.eligibility, row.score,
                                                     Len(row.evidence.trades), row.size)
         /\ row.outcome = Outcome(row.eligibility, row.score)
         /\ row.eligible_for_promotion =
              (/\ row.eligibility = "ELIGIBLE" /\ row.score # None
               /\ Len(row.evidence.trades) >= row.size
               /\ Rank(row.recommended) > Rank(row.tier))
         /\ IsPoints(row.score) /\ row.recommended \in Tiers
<1>1. PICK t \in Tiers, size \in WINDOWS : t = row.tier /\ size = row.size
  BY DEF Evaluated
<1>2. PICK e : e = row.evidence /\ EvidenceTyped(e)
  BY DEF Evaluated
<1>3. row = Row(t, size, e)
  BY <1>1, <1>2 DEF Evaluated
<1>4. /\ row.eligibility = SafetyEligibility(e.safety)
      /\ row.score = WeightedScore(e)
      /\ row.recommended = recommend_autonomy_tier(t, SafetyEligibility(e.safety), WeightedScore(e),
                                                  Len(e.trades), size)
      /\ row.outcome = Outcome(SafetyEligibility(e.safety), WeightedScore(e))
      /\ row.eligible_for_promotion =
              (/\ row.eligibility = "ELIGIBLE" /\ row.score # None
               /\ Len(row.evidence.trades) >= row.size
               /\ Rank(row.recommended) > Rank(row.tier))
  BY <1>3 DEF Row
<1>5. IsPoints(row.score)
  BY <1>2, <1>4, ScoreIsPoints
<1>6. row.recommended \in Tiers
  BY <1>4, RecommendedIsTier
<1>. QED  BY <1>1, <1>2, <1>4, <1>5, <1>6

LEMMA ListGrows ==
  ASSUME NEW s, IsList(s), NEW x
  PROVE  /\ IsList(Append(s, x)) /\ Len(s) \in Nat
         /\ DOMAIN s = 1..Len(s) /\ DOMAIN Append(s, x) = 1..(Len(s) + 1)
         /\ Len(Append(s, x)) = Len(s) + 1
         /\ \A i \in DOMAIN s : Append(s, x)[i] = s[i]
         /\ Append(s, x)[Len(s) + 1] = x
<1>1. PICK S : s \in Seq(S)
  BY DEF IsList
<1>2. s \in Seq(S \cup {x})
  BY <1>1
<1>3. Append(s, x) \in Seq(S \cup {x})
  BY <1>2
<1>. QED  BY <1>1, <1>3 DEF IsList

LEMMA TrustStarts == TrustInit => TrustInv
<1>. SUFFICES ASSUME TrustInit PROVE TrustInv
  OBVIOUS
<1>1. FactsSound
  <2>1. facts \in Histories /\ DOMAIN facts = Families
    BY TrustAssumption DEF TrustInit
  <2>. QED  BY <2>1, FactsAssumption DEF FactsSound, Recordable
<1>2. evaluations = << >> /\ DOMAIN evaluations = {}
  BY DEF TrustInit
<1>3. IsList(evaluations)
  <2>1. evaluations \in Seq({})
    BY <1>2
  <2>. QED  BY <2>1 DEF IsList
<1>. QED  BY <1>1, <1>2, <1>3 DEF TrustInv, TrustInit, Lasting, BreachIsForever

\* Later facts take no bypass away that was found.
LEMMA BypassesStay ==
  ASSUME FactsSound, NEW f \in Families, NEW x \in Possible[f], Record(f, x)
  PROVE  /\ FactsSound'
         /\ SafetyEvidence.bypasses \ {"UNAUTHORIZED_EXECUTION"} \subseteq SafetyEvidence'.bypasses
<1>1. facts' = [facts EXCEPT ![f] = facts[f] \cup {x}]
  BY DEF Record
<1>2. \A g \in Families : facts'[g] = IF g = f THEN facts[f] \cup {x} ELSE facts[g]
  BY <1>1 DEF FactsSound
<1>3. \A g \in Families : facts[g] \subseteq facts'[g]
  BY <1>2
<1>4. FactsSound'
  <2>1. DOMAIN facts' = Families
    BY <1>1 DEF FactsSound
  <2>2. x \in Recordable(f)
    BY DEF Recordable
  <2>3. ASSUME NEW g \in Families PROVE facts'[g] \subseteq Recordable(g) /\ IsFiniteSet(facts'[g])
    <3>1. facts[g] \subseteq Recordable(g) /\ IsFiniteSet(facts[g])
      BY DEF FactsSound
    <3>2. IsFiniteSet(facts[g] \cup {x})
      BY <3>1, FS_AddElement
    <3>. QED  BY <1>2, <2>2, <3>1, <3>2
  <2>. QED  BY <2>1, <2>3 DEF FactsSound
<1>5. /\ facts.breaches \subseteq facts'.breaches /\ facts.orders \subseteq facts'.orders
      /\ facts.decisions \subseteq facts'.decisions /\ facts.halts \subseteq facts'.halts
  BY <1>3 DEF Families
<1>6. Confirmed \subseteq Confirmed'
  BY <1>5 DEF Confirmed
<1>7. PostHaltOrder => PostHaltOrder'
  BY <1>5 DEF PostHaltOrder
<1>8. ASSUME NEW b \in SafetyEvidence.bypasses, b # "UNAUTHORIZED_EXECUTION"
      PROVE  b \in SafetyEvidence'.bypasses
  BY <1>6, <1>7, <1>8 DEF SafetyEvidence
<1>. QED  BY <1>4, <1>8

LEMMA EvidenceHasSafety == \A size : Evidence(size).safety = SafetyEvidence
BY DEF Evidence

LEMMA TrustStep == TrustInv /\ [TrustNext]_trustVars => TrustInv'
<1>. SUFFICES ASSUME TrustInv, [TrustNext]_trustVars PROVE TrustInv'
  OBVIOUS
<1>. USE DEF TrustInv
<1>1. ASSUME NEW size \in WINDOWS, Evaluate(size) PROVE TrustInv'
  <2>. DEFINE n == Len(evaluations)
              row == Row(tier, size, Evidence(size))
  <2>1. evaluations' = Append(evaluations, row) /\ facts' = facts /\ tier' = tier /\ retired' = retired
    BY <1>1 DEF Evaluate
  <2>2. Evaluated(row) /\ row.evidence.safety = SafetyEvidence
    BY EvidenceIsTyped, RowFields, EvidenceHasSafety
  <2>3. FactsSound' /\ SafetyEvidence' = SafetyEvidence
    BY <2>1 DEF FactsSound, SafetyEvidence, LatestAudit, Confirmed, UnauthorizedOrder, PostHaltOrder
  <2>. HIDE DEF row
  <2>4. /\ IsList(evaluations') /\ n \in Nat /\ DOMAIN evaluations = 1..n
        /\ DOMAIN evaluations' = 1..(n + 1)
        /\ \A i \in 1..n : evaluations'[i] = evaluations[i]
        /\ evaluations'[n + 1] = row
    BY <2>1, ListGrows
  <2>. HIDE DEF n
  <2>5. \A i \in 1..(n + 1) : i \in 1..n \/ i = n + 1
    BY <2>4
  <2>6. \A i \in DOMAIN evaluations' : Evaluated(evaluations'[i])
    BY <2>2, <2>4, <2>5
  <2>7. Lasting'
    BY <2>2, <2>3, <2>4, <2>5 DEF Lasting
  <2>8. ASSUME NEW i \in 1..n, row.evidence.safety = SafetyEvidence,
               evaluations[i].evidence.safety.bypasses \ {"UNAUTHORIZED_EXECUTION"} # {}
        PROVE  row.eligibility = "DISQUALIFIED" /\ row.outcome = "DEMOTE"
    <3>1. SafetyEvidence.bypasses # {}
      BY <2>4, <2>8 DEF Lasting
    <3>2. row.eligibility = SafetyEligibility(SafetyEvidence)
      BY <2>2, FieldsFollow
    <3>3. row.eligibility = "DISQUALIFIED"
      BY <3>1, <3>2 DEF SafetyEligibility
    <3>. QED  BY <2>2, <3>3, FieldsFollow DEF Outcome
  <2>9. BreachIsForever'
    <3>. SUFFICES ASSUME NEW i \in 1..(n + 1), NEW j \in 1..(n + 1), i < j,
                    evaluations'[i].evidence.safety.bypasses \ {"UNAUTHORIZED_EXECUTION"} # {}
                  PROVE  evaluations'[j].eligibility = "DISQUALIFIED" /\ evaluations'[j].outcome = "DEMOTE"
      BY <2>4 DEF BreachIsForever
    <3>1. i \in 1..n /\ evaluations'[i] = evaluations[i]
      BY <2>4
    <3>2. CASE j \in 1..n
      BY <2>4, <3>1, <3>2 DEF BreachIsForever
    <3>3. CASE j = n + 1
      BY <2>2, <2>4, <2>8, <3>1, <3>3
    <3>. QED  BY <2>5, <3>2, <3>3
  <2>. QED  BY <2>1, <2>3, <2>4, <2>6, <2>7, <2>9
<1>2. ASSUME NEW f \in Families, NEW x \in Possible[f], Record(f, x) PROVE TrustInv'
  <2>1. evaluations' = evaluations /\ tier' = tier /\ retired' = retired
    BY <1>2 DEF Record
  <2>2. /\ FactsSound'
        /\ SafetyEvidence.bypasses \ {"UNAUTHORIZED_EXECUTION"} \subseteq SafetyEvidence'.bypasses
    BY <1>2, BypassesStay
  <2>3. Lasting'
    BY <2>1, <2>2 DEF Lasting
  <2>. QED  BY <2>1, <2>2, <2>3 DEF BreachIsForever
<1>3. ASSUME facts' = facts, evaluations' = evaluations, tier' \in Tiers, retired' \in BOOLEAN
      PROVE  TrustInv'
  <2>1. FactsSound' /\ SafetyEvidence' = SafetyEvidence
    BY <1>3 DEF FactsSound, SafetyEvidence, LatestAudit, Confirmed, UnauthorizedOrder, PostHaltOrder
  <2>. QED  BY <1>3, <2>1 DEF Lasting, BreachIsForever
<1>4. ASSUME Apply PROVE TrustInv'
  <2>1. /\ tier' = evaluations[Len(evaluations)].recommended /\ evaluations # << >>
        /\ facts' = facts /\ retired' = retired /\ evaluations' = evaluations
    BY <1>4 DEF Apply
  <2>2. Len(evaluations) \in DOMAIN evaluations
    BY <2>1 DEF IsList
  <2>3. tier' \in Tiers
    BY <2>1, <2>2, FieldsFollow
  <2>. QED  BY <1>3, <2>1, <2>3
<1>5. CASE Retire
  BY <1>3, <1>5 DEF Retire
<1>6. CASE UNCHANGED trustVars
  BY <1>3, <1>6 DEF trustVars
<1>. QED  BY <1>1, <1>2, <1>4, <1>5, <1>6 DEF TrustNext

LEMMA TrustImplies == TrustInv => TrustIsSteady
<1>. SUFFICES ASSUME TrustInv PROVE TrustIsSteady
  OBVIOUS
<1>0. \A i \in DOMAIN evaluations : Evaluated(evaluations[i])
  BY DEF TrustInv
<1>1. ASSUME NEW i \in DOMAIN evaluations
      PROVE  /\ evaluations[i].tier \in Tiers /\ evaluations[i].recommended \in Tiers
             /\ evaluations[i].score \in Points \cup {None}
             /\ evaluations[i].outcome \in {"PASS", "FAIL", "DEMOTE"}
             /\ evaluations[i].eligible_for_promotion \in BOOLEAN
  <2>1. PICK row : row = evaluations[i] /\ Evaluated(row)
    BY <1>0
  <2>2. row.tier \in Tiers /\ row.recommended \in Tiers
    BY <2>1, FieldsFollow DEF Evaluated
  <2>3. row.score \in Points \cup {None}
    <3>1. IsPoints(row.score)
      BY <2>1, FieldsFollow
    <3>. QED  BY <3>1 DEF IsPoints, InPoints
  <2>4. row.outcome \in {"PASS", "FAIL", "DEMOTE"}
    <3>1. row.outcome = Outcome(row.eligibility, row.score)
      BY <2>1, FieldsFollow
    <3>. QED  BY <3>1 DEF Outcome
  <2>5. row.eligible_for_promotion \in BOOLEAN
    BY <2>1, FieldsFollow, Zenon
  <2>. QED  BY <2>1, <2>2, <2>3, <2>4, <2>5
<1>2. TrustTypeOK
  BY <1>1 DEF TrustTypeOK, TrustInv
<1>3. TiersDoNotFlap
  <2>. SUFFICES ASSUME NEW i \in DOMAIN evaluations, NEW j \in DOMAIN evaluations,
                       evaluations[i].evidence = evaluations[j].evidence,
                       evaluations[j].tier = evaluations[i].recommended,
                       evaluations[i].recommended # evaluations[i].tier
                PROVE  evaluations[j].recommended # evaluations[i].tier
    BY DEF TiersDoNotFlap
  <2>1. PICK row, later : /\ row = evaluations[i] /\ later = evaluations[j]
                         /\ Evaluated(row) /\ Evaluated(later)
    BY <1>0
  <2>2. row.eligibility = later.eligibility /\ row.score = later.score
    BY <2>1, FieldsFollow
  <2>. DEFINE t == row.tier
              x == row.eligibility
              score == row.score
              n == Len(row.evidence.trades)
              first == row.size
              second == later.size
              u == row.recommended
  <2>3. t \in Tiers
    BY <2>1 DEF Evaluated
  <2>4. u = recommend_autonomy_tier(t, x, score, n, first) /\ u # t
    BY <2>1, FieldsFollow
  <2>5. later.recommended = recommend_autonomy_tier(u, x, score, n, second)
    BY <2>1, <2>2, FieldsFollow
  <2>6. score = None \/ score \in Int
    <3>1. score = None \/ InPoints(score)
      BY <2>1, FieldsFollow DEF IsPoints
    <3>. QED  BY <3>1, PointsBounds
  <2>7. later.recommended # t
    <3>. HIDE DEF t, x, score, n, first, second, u
    <3>. QED  BY <2>3, <2>4, <2>5, <2>6, NoSwing
  <2>. QED  BY <2>1, <2>7
<1>. QED  BY <1>2, <1>3 DEF TrustIsSteady, TrustInv

\* Whatever is recorded in whatever order, scores are percentages, a confirmed
\* bypass or an order after a halt disqualifies for good, and the same evidence
\* never takes a cell there and back.
THEOREM TrustStaysSteady == TrustSpec => []TrustIsSteady
<1>. QED  BY TrustStarts, TrustStep, TrustImplies, PTL DEF TrustSpec

-----------------------------------------------------------------------------
(* Trust: what a promotion rests on. *)

\* Of some events one is the last.
LEMMA OneIsLast ==
  ASSUME NEW R, Events(R), R # {}
  PROVE  \E a \in R : \A b \in R : b = a \/ Before(b, a)
<1>. DEFINE s == InOrder(R)
<1>1. PICK n \in Nat : n = Cardinality(R)
  BY FS_CardinalityType DEF Events
<1>2. Arranged(s, R)
  BY InOrderIs
<1>. HIDE DEF s
<1>3. n > 0
  BY <1>1, <1>2 DEF Arranged
<1>4. s[n] \in R
  BY <1>1, <1>2, <1>3 DEF Arranged
<1>5. \A b \in R : b = s[n] \/ Before(b, s[n])
  <2>. SUFFICES ASSUME NEW b \in R, b # s[n] PROVE Before(b, s[n])
    OBVIOUS
  <2>1. PICK k \in 1..n : s[k] = b
    BY <1>1, <1>2 DEF Arranged
  <2>2. k < n
    BY <2>1
  <2>. QED  BY <2>1, <2>2, <1>1, <1>2, <1>3 DEF Arranged
<1>. QED  BY <1>4, <1>5

LEMMA CleanWhereEligible ==
  ASSUME FactsSound, SafetyEligibility(SafetyEvidence) = "ELIGIBLE"
  PROVE  ControlsWereKept /\ AuditsAreClean
<1>1. SafetyEvidence.bypasses = {} /\ \A what \in Audits : SafetyEvidence.audits[what] = TRUE
  BY DEF SafetyEligibility
<1>2. \A what \in Audits : LatestAudit(what) = TRUE
  BY <1>1 DEF SafetyEvidence
<1>3. /\ \A x \in {"UNAUTHORIZED_EXECUTION", "POST_HALT_EXECUTION", "PARAMETER_BYPASS"} :
           x \notin Confirmed
      /\ ~UnauthorizedOrder /\ ~PostHaltOrder
  BY <1>1 DEF SafetyEvidence
<1>4. ControlsWereKept
  <2>1. \A b \in facts.breaches : b.type \in Confirmed
    BY DEF Confirmed
  <2>2. \A o \in facts.orders, h \in facts.halts : o.at \in Int /\ h.at \in Int
    BY FactsAssumption DEF FactsSound, Families
  <2>3. \A o \in facts.orders, d \in facts.decisions, h \in facts.halts :
          d.intent = o.intent /\ h.session = d.session => ~(h.at <= o.at)
    BY <1>3 DEF PostHaltOrder
  <2>4. \A o \in facts.orders, d \in facts.decisions, h \in facts.halts :
          d.intent = o.intent /\ h.session = d.session => o.at < h.at
    BY <2>2, <2>3
  <2>5. \A o \in facts.orders :
          \E d \in facts.decisions : d.intent = o.intent /\ d.verdict = "AUTHORIZED"
    BY <1>3 DEF UnauthorizedOrder
  <2>. QED  BY <1>3, <2>1, <2>4, <2>5, Zenon DEF ControlsWereKept
<1>5. ASSUME NEW what \in Audits
      PROVE  /\ \E a \in facts.audits : a.what = what
             /\ \A a \in facts.audits :
                  a.what = what /\ ~a.clean =>
                    \E b \in facts.audits : b.what = what /\ b.clean /\ Before(a, b)
  <2>. DEFINE all == {a \in facts.audits : a.what = what}
              IsLatest(a) == \A b \in all : b = a \/ Before(b, a)
  <2>1. LatestAudit(what) = IF all = {} THEN None ELSE (CHOOSE a \in all : IsLatest(a)).clean
    BY DEF LatestAudit
  <2>2. all # {}
    BY <1>2, <2>1, TrustAssumption
  <2>3. Events(all)
    BY FamiliesAreEvents
  <2>4. \E a \in all : IsLatest(a)
    BY <2>2, <2>3, OneIsLast
  <2>. DEFINE last == CHOOSE a \in all : IsLatest(a)
  <2>5. last \in all /\ IsLatest(last)
    <3>. HIDE DEF IsLatest, all
    <3>. QED  BY <2>4
  <2>6. last.clean = TRUE
    BY <1>2, <2>1, <2>2
  <2>. HIDE DEF last
  <2>7. last \in facts.audits /\ last.what = what
    BY <2>5
  <2>8. \A a \in facts.audits : a.what = what /\ ~a.clean => Before(a, last)
    BY <2>5, <2>6
  <2>. QED  BY <2>6, <2>7, <2>8
<1>. QED  BY <1>4, <1>5 DEF AuditsAreClean

LEMMA FullWindowIs ==
  ASSUME FactsSound, NEW size \in WINDOWS, Len(latest_window(facts.trades, size)) >= size
  PROVE  IsFullWindow(latest_window(facts.trades, size), size)
<1>. DEFINE R == facts.trades
            s == InOrder(R)
            w == latest_window(R, size)
            seen == {w[i] : i \in DOMAIN w}
<1>1. Events(R) /\ R \subseteq R
  BY FamiliesAreEvents
<1>2. size \in Nat /\ size \in Nat \ {0}
  BY TrustAssumption
<1>3. Arranged(s, R) /\ IsTail(w, s, Cardinality(R), size)
  BY <1>1, <1>2, InOrderIs, TailIs
<1>4. Len(w) >= size
  OBVIOUS
<1>5. \A x \in R : x.at \in Int /\ x.id \in Int
  BY <1>1 DEF Events
<1>. HIDE DEF s, w, R
<1>6. PICK n \in Nat : n = Cardinality(R)
  BY <1>1, FS_CardinalityType DEF Events
<1>7. PICK skipped \in Nat, length \in Nat :
        /\ n = skipped + length /\ DOMAIN w = 1..length /\ Len(w) = length
        /\ \A i \in 1..length : w[i] = s[i + skipped]
  BY <1>3, <1>6 DEF IsTail
<1>8. /\ \A k \in 1..n : s[k] \in R
      /\ \A x \in R : \E k \in 1..n : s[k] = x
      /\ \A i, j \in 1..n : i < j => Before(s[i], s[j])
  BY <1>3, <1>6 DEF Arranged
<1>9. \A i \in 1..length : i + skipped \in 1..n
  BY <1>7
<1>10. Cardinality(seen) >= size
  <2>. DEFINE g == [i \in 1..length |-> w[i]]
  <2>1. IsFiniteSet(1..length) /\ Cardinality(1..length) = length
    BY FS_Interval
  <2>2. seen = {g[i] : i \in 1..length}
    BY <1>7
  <2>3. IsFiniteSet({g[i] : i \in 1..length})
    <3>. HIDE DEF g
    <3>. QED  BY <2>1, ImageIsFinite
  <2>4. \A i, j \in 1..length : i < j => g[i] # g[j]
    <3>1. \A x \in R : ~Before(x, x)
      BY <1>5 DEF Before
    <3>2. ASSUME NEW i \in 1..length, NEW j \in 1..length, i < j PROVE g[i] # g[j]
      <4>1. g[i] = s[i + skipped] /\ g[j] = s[j + skipped]
        BY <1>7
      <4>2. i + skipped < j + skipped
        BY <3>2
      <4>. QED  BY <3>1, <4>1, <4>2, <1>8, <1>9
    <3>. QED  BY <3>2
  <2>5. g \in [1..length -> seen]
    BY <2>2
  <2>6. \A i, j \in 1..length : g[i] = g[j] => i = j
    <3>. HIDE DEF g
    <3>1. ASSUME NEW i \in 1..length, NEW j \in 1..length, i # j PROVE g[i] # g[j]
      <4>1. i < j \/ j < i
        BY <3>1
      <4>. QED  BY <4>1, <2>4
    <3>. QED  BY <3>1
  <2>. HIDE DEF g, seen
  <2>7. g \in Injection(1..length, seen)
    BY <2>5, <2>6 DEF Injection, IsInjective
  <2>8. IsFiniteSet(seen)
    BY <2>2, <2>3
  <2>9. Cardinality(seen) \in Nat /\ length <= Cardinality(seen)
    BY <2>1, <2>7, <2>8, FS_Injection, FS_CardinalityType
  <2>. QED  BY <2>9, <1>2, <1>4, <1>7
<1>11. ASSUME NEW t \in R \ seen, NEW x \in seen PROVE t.at <= x.at
  <2>1. PICK k \in 1..n : s[k] = t
    BY <1>8
  <2>2. PICK i \in 1..length : x = s[i + skipped]
    BY <1>7
  <2>3. k < i + skipped
    <3>1. CASE k > skipped
      <4>. DEFINE j == k - skipped
      <4>1. j \in 1..length /\ j + skipped = k
        BY <1>7, <3>1
      <4>. HIDE DEF j
      <4>2. w[j] = t
        BY <1>7, <2>1, <4>1
      <4>. QED  BY <1>7, <4>1, <4>2
    <3>2. CASE ~(k > skipped)
      BY <3>2
    <3>. QED  BY <3>1, <3>2
  <2>4. Before(t, x)
    BY <1>8, <1>9, <2>1, <2>2, <2>3
  <2>5. t.at \in Int /\ x.at \in Int
    BY <1>5, <1>8, <1>9, <2>2
  <2>. QED  BY <2>4, <2>5 DEF Before
<1>. QED  BY <1>10, <1>11, Zenon DEF IsFullWindow, R, w

LEMMA Promotes ==
  ASSUME TrustInv, [TrustNext]_trustVars,
         evaluations' # evaluations, Latest'.eligible_for_promotion
  PROVE  /\ ControlsWereKept /\ AuditsAreClean
         /\ IsFullWindow(Latest'.evidence.trades, Latest'.size)
<1>1. PICK size \in WINDOWS : Evaluate(size)
  BY DEF TrustNext, Record, Apply, Retire, trustVars
<1>. DEFINE row == Row(tier, size, Evidence(size))
<1>2. evaluations' = Append(evaluations, row) /\ tier \in Tiers /\ FactsSound
  BY <1>1 DEF Evaluate, TrustInv
<1>3. Evaluated(row)
  BY <1>2, EvidenceIsTyped, RowFields
<1>4. /\ row.size = size /\ row.evidence.trades = latest_window(facts.trades, size)
      /\ row.evidence.safety = SafetyEvidence
  BY DEF Row, Evidence
<1>. HIDE DEF row
<1>5. Latest' = row
  <2>1. /\ Len(evaluations) \in Nat
        /\ evaluations'[Len(evaluations) + 1] = row
        /\ Len(evaluations') = Len(evaluations) + 1
    BY <1>2, ListGrows DEF TrustInv
  <2>. QED  BY <2>1 DEF Latest
<1>6. row.eligible_for_promotion
  BY <1>5
<1>7. row.eligibility = "ELIGIBLE" /\ Len(row.evidence.trades) >= row.size
  BY <1>3, <1>6, FieldsFollow
<1>8. SafetyEligibility(SafetyEvidence) = "ELIGIBLE"
  BY <1>3, <1>4, <1>7, FieldsFollow
<1>9. ControlsWereKept /\ AuditsAreClean
  BY <1>2, <1>8, CleanWhereEligible
<1>10. IsFullWindow(row.evidence.trades, row.size)
  BY <1>2, <1>4, <1>7, FullWindowIs
<1>. QED  BY <1>5, <1>9, <1>10

\* A cell is found eligible for promotion only on a full window of its latest
\* trades and a record without a bypass, a late order or an audit left failed.
THEOREM PromotionsNeedCleanRecords == TrustSpec => PromotionNeedsCleanRecord
<1>1. TrustInv /\ [TrustNext]_trustVars =>
        [(evaluations' # evaluations /\ Latest'.eligible_for_promotion) =>
           /\ ControlsWereKept /\ AuditsAreClean
           /\ IsFullWindow(Latest'.evidence.trades, Latest'.size)]_trustVars
  BY Promotes
<1>. QED
  BY <1>1, TrustStarts, TrustStep, PTL DEF TrustSpec, PromotionNeedsCleanRecord

-----------------------------------------------------------------------------
(* Validation: division. *)

LEMMA Divided ==
  ASSUME NEW a \in Nat, NEW b \in Nat, b > 0
  PROVE  /\ a \div b \in Nat /\ a % b \in 0..(b - 1)
         /\ a = b * (a \div b) + (a % b)
OBVIOUS

LEMMA ProductIsPositive ==
  ASSUME NEW a \in Nat \ {0}, NEW b \in Nat \ {0} PROVE a * b \in Nat \ {0}
OBVIOUS

\* A difference weighed by some hundredths of it.
LEMMA Weighed ==
  ASSUME NEW d \in Nat, NEW p \in 0..99, NEW q \in 0..99, p <= q
  PROVE  0 <= d * p /\ d * p <= d * q /\ d * q <= 100 * d
OBVIOUS

-----------------------------------------------------------------------------
(* Validation: the values in order, and their percentiles. *)

\* The values that no less than k of them reach up to.
Reached(values, k) ==
  {v \in Range(values) : k <= Cardinality({i \in DOMAIN values : values[i] <= v})}

LEMMA RangeIsFinite ==
  ASSUME NEW values \in Seq(Int)
  PROVE  /\ Range(values) \in SUBSET Int /\ IsFiniteSet(Range(values))
         /\ IsFiniteSet(DOMAIN values) /\ Cardinality(DOMAIN values) = Len(values)
         /\ \A T \in SUBSET DOMAIN values : IsFiniteSet(T) /\ Cardinality(T) \in Nat
<1>1. PICK n \in Nat : n = Len(values) /\ DOMAIN values = 1..n
  OBVIOUS
<1>2. IsFiniteSet(1..n) /\ Cardinality(1..n) = n
  BY FS_Interval
<1>3. IsFiniteSet(Range(values))
  <2>1. IsFiniteSet({values[i] : i \in 1..n})
    BY <1>2, ImageIsFinite
  <2>. QED  BY <1>1, <2>1 DEF Range
<1>4. \A T \in SUBSET (1..n) : IsFiniteSet(T) /\ Cardinality(T) \in Nat
  BY <1>2, FS_Subset, FS_CardinalityType
<1>5. Range(values) \in SUBSET Int
  BY DEF Range
<1>. QED  BY <1>1, <1>2, <1>3, <1>4, <1>5

LEMMA ReachedSet ==
  ASSUME NEW values \in Seq(Int), NEW k \in DOMAIN values
  PROVE  /\ Reached(values, k) # {} /\ Reached(values, k) \in SUBSET Int
         /\ IsFiniteSet(Reached(values, k))
<1>1. Range(values) # {}
  BY DEF Range
<1>2. Max(Range(values)) \in Range(values) /\ \A y \in Range(values) : y <= Max(Range(values))
  BY <1>1, RangeIsFinite, MaxIsLargest
<1>3. PICK m : m \in Range(values) /\ \A y \in Range(values) : y <= m
  BY <1>2
<1>4. {i \in DOMAIN values : values[i] <= m} = DOMAIN values
  BY <1>3 DEF Range
<1>5. k <= Cardinality({i \in DOMAIN values : values[i] <= m})
  BY <1>4, RangeIsFinite
<1>6. m \in Reached(values, k)
  BY <1>3, <1>5 DEF Reached
<1>7. Reached(values, k) \subseteq Range(values)
  BY DEF Reached
<1>8. IsFiniteSet(Reached(values, k))
  BY <1>7, RangeIsFinite, FS_Subset
<1>. QED  BY <1>6, <1>7, <1>8, RangeIsFinite

\* What is put in order rises, and holds no value that was not there.
LEMMA OrderedRises ==
  ASSUME NEW values \in Seq(Int)
  PROVE  /\ Ordered(values) \in Seq(Int) /\ Len(Ordered(values)) = Len(values)
         /\ \A k \in 1..Len(values) : Ordered(values)[k] \in Range(values)
         /\ \A j, k \in 1..Len(values) : j <= k => Ordered(values)[j] <= Ordered(values)[k]
<1>. DEFINE O == Ordered(values)
<1>1. PICK n \in Nat : n = Len(values) /\ DOMAIN values = 1..n
  OBVIOUS
<1>2. O = [k \in 1..n |-> Min(Reached(values, k))]
  BY <1>1 DEF Ordered, Reached
<1>3. ASSUME NEW k \in 1..n
      PROVE  O[k] \in Reached(values, k) /\ \A y \in Reached(values, k) : O[k] <= y
  <2>1. O[k] = Min(Reached(values, k))
    BY <1>2
  <2>. QED  BY <1>1, <2>1, ReachedSet, MinIsSmallest
<1>. HIDE DEF O
<1>4. \A k \in 1..n : O[k] \in Range(values) /\ O[k] \in Int
  BY <1>3, RangeIsFinite DEF Reached
<1>5. ASSUME NEW j \in 1..n, NEW k \in 1..n, j <= k PROVE O[j] <= O[k]
  <2>1. O[k] \in Reached(values, j)
    <3>1. \A v \in Range(values) : Cardinality({i \in DOMAIN values : values[i] <= v}) \in Nat
      BY RangeIsFinite
    <3>2. O[k] \in Range(values)
            /\ k <= Cardinality({i \in DOMAIN values : values[i] <= O[k]})
      BY <1>3 DEF Reached
    <3>3. PICK m \in Nat : m = Cardinality({i \in DOMAIN values : values[i] <= O[k]})
      BY <3>1, <3>2
    <3>4. j <= m
      BY <1>5, <3>2, <3>3
    <3>. QED  BY <3>2, <3>3, <3>4 DEF Reached
  <2>. QED  BY <1>3, <2>1
<1>6. O \in Seq(Int) /\ Len(O) = n
  BY <1>2, <1>4
<1>. QED  BY <1>1, <1>4, <1>5, <1>6 DEF O

LEMMA Placed ==
  ASSUME NEW n \in Nat \ {0}, NEW percent \in 0..99
  PROVE  \E low \in 0..(n - 1), rest \in 0..99 :
           /\ percent * (n - 1) = 100 * low + rest
           /\ low = (percent * (n - 1)) \div 100 /\ rest = (percent * (n - 1)) % 100
<1>1. PICK m \in Nat : m = n - 1
  OBVIOUS
<1>2. PICK position \in Nat : position = percent * m /\ position <= 99 * m
  <2>1. percent * m \in Nat /\ percent * m <= 99 * m
    OBVIOUS
  <2>. QED  BY <2>1
<1>3. position \div 100 \in Nat /\ position % 100 \in 0..99
        /\ position = 100 * (position \div 100) + (position % 100)
  BY Divided
<1>4. PICK low \in Nat, rest \in 0..99 :
        low = position \div 100 /\ rest = position % 100 /\ position = 100 * low + rest
  BY <1>3
<1>5. low <= m
  BY <1>2, <1>4
<1>. QED  BY <1>1, <1>2, <1>4, <1>5

LEMMA FartherPlaced ==
  ASSUME NEW m \in Nat, NEW p \in 0..99, NEW q \in 0..99, p <= q PROVE p * m <= q * m
OBVIOUS

Next(n, low) == IF low + 1 < n THEN low + 1 ELSE low

\* A percentile lies some hundredths beyond a value.
LiesAt(ordered, n, percent, low, rest) ==
  /\ percent * (n - 1) = 100 * low + rest
  /\ Percentile(ordered, percent)
       = 100 * ordered[low + 1] + (ordered[Next(n, low) + 1] - ordered[low + 1]) * rest

LEMMA PercentileParts ==
  ASSUME NEW ordered, NEW n \in Nat \ {0}, n = Len(ordered), NEW percent \in 0..99
  PROVE  \E low \in 0..(n - 1), rest \in 0..99 : LiesAt(ordered, n, percent, low, rest)
<1>1. PICK low \in 0..(n - 1), rest \in 0..99 :
         /\ percent * (n - 1) = 100 * low + rest
         /\ low = (percent * (n - 1)) \div 100 /\ rest = (percent * (n - 1)) % 100
  BY Placed
<1>2. Percentile(ordered, percent)
        = 100 * ordered[low + 1] + (ordered[Next(n, low) + 1] - ordered[low + 1]) * rest
  BY <1>1 DEF Percentile, Next
<1>3. LiesAt(ordered, n, percent, low, rest)
  BY <1>1, <1>2 DEF LiesAt
<1>. QED  BY <1>3

LEMMA Encloses ==
  ASSUME NEW l \in Int, NEW a \in Int, NEW b \in Int, NEW h \in Int, NEW x \in Int,
         l <= a, b <= h, 100 * a <= x, x <= 100 * b
  PROVE  100 * l <= x /\ x <= 100 * h
OBVIOUS

\* Between two gaps of a distribution.
LEMMA Crosses ==
  ASSUME NEW a \in Int, NEW b \in Int, NEW c \in Int, NEW x \in Int, NEW y \in Int,
         x <= 100 * (b - a), b <= c, 0 <= y
  PROVE  100 * a + x <= 100 * c + y
OBVIOUS

\* The percentiles of values in order rise, and lie between them.
LEMMA PercentilesRise ==
  ASSUME NEW ordered, NEW n \in Nat \ {0}, n = Len(ordered),
         \A k \in 1..n : ordered[k] \in Int,
         \A j, k \in 1..n : j <= k => ordered[j] <= ordered[k],
         NEW p \in 0..99, NEW q \in 0..99, p <= q
  PROVE  /\ Percentile(ordered, p) \in Int /\ Percentile(ordered, q) \in Int
         /\ 100 * ordered[1] <= Percentile(ordered, p)
         /\ Percentile(ordered, p) <= Percentile(ordered, q)
         /\ Percentile(ordered, q) <= 100 * ordered[n]
<1>1. PICK low \in 0..(n - 1), rest \in 0..99 : LiesAt(ordered, n, p, low, rest)
  BY PercentileParts
<1>2. PICK low2 \in 0..(n - 1), rest2 \in 0..99 : LiesAt(ordered, n, q, low2, rest2)
  BY PercentileParts
<1>3. low <= low2 /\ (low = low2 => rest <= rest2)
  <2>1. n - 1 \in Nat
    OBVIOUS
  <2>2. p * (n - 1) <= q * (n - 1)
    BY <2>1, FartherPlaced
  <2>3. 100 * low + rest <= 100 * low2 + rest2
    BY <1>1, <1>2, <2>2 DEF LiesAt
  <2>. QED  BY <2>3
<1>4. PICK i \in 1..n, j \in 1..n : i = low + 1 /\ j = Next(n, low) + 1 /\ i <= j
  BY DEF Next
<1>5. PICK k \in 1..n, l \in 1..n : k = low2 + 1 /\ l = Next(n, low2) + 1 /\ k <= l
  BY DEF Next
<1>6. (low < low2 => j <= k) /\ (low = low2 => i = k /\ j = l) /\ 1 \in 1..n /\ n \in 1..n
  BY <1>4, <1>5 DEF Next
<1>7. PICK a \in Int, b \in Int, c \in Int, d \in Int :
         a = ordered[i] /\ b = ordered[j] /\ c = ordered[k] /\ d = ordered[l]
  OBVIOUS
<1>8. PICK first \in Int, last \in Int : first = ordered[1] /\ last = ordered[n]
  BY <1>6
<1>9. a <= b /\ c <= d /\ first <= a /\ d <= last
  BY <1>4, <1>5, <1>6, <1>7, <1>8
<1>10. (low < low2 => b <= c) /\ (low = low2 => a = c /\ b = d)
  BY <1>6, <1>7
<1>11. PICK x \in Int : x = (b - a) * rest /\ 0 <= x /\ x <= 100 * (b - a)
  <2>1. b - a \in Nat
    BY <1>9
  <2>2. (b - a) * rest \in Int /\ 0 <= (b - a) * rest /\ (b - a) * rest <= 100 * (b - a)
    BY <2>1, Weighed
  <2>. QED  BY <2>2
<1>12. PICK y \in Int : y = (d - c) * rest2 /\ 0 <= y /\ y <= 100 * (d - c)
  <2>1. d - c \in Nat
    BY <1>9
  <2>2. (d - c) * rest2 \in Int /\ 0 <= (d - c) * rest2 /\ (d - c) * rest2 <= 100 * (d - c)
    BY <2>1, Weighed
  <2>. QED  BY <2>2
<1>13. 100 * a + x <= 100 * c + y
  <2>1. CASE low = low2
    <3>1. a = c /\ b = d /\ rest <= rest2 /\ b - a \in Nat
      BY <1>3, <1>9, <1>10, <2>1
    <3>2. (b - a) * rest <= (b - a) * rest2
      BY <3>1, Weighed
    <3>. QED  BY <1>11, <1>12, <3>1, <3>2
  <2>2. CASE low < low2
    <3>1. b <= c
      BY <1>10, <2>2
    <3>. QED  BY <1>9, <1>11, <1>12, <3>1, Crosses
  <2>. QED  BY <1>3, <2>1, <2>2
<1>14. Percentile(ordered, p) = 100 * a + x /\ Percentile(ordered, q) = 100 * c + y
  BY <1>1, <1>2, <1>4, <1>5, <1>7, <1>11, <1>12 DEF LiesAt
<1>15. 100 * first <= 100 * a + x /\ 100 * c + y <= 100 * last
  BY <1>9, <1>11, <1>12
<1>. QED  BY <1>8, <1>13, <1>14, <1>15

\* The percentiles of a distribution rise and lie within any set of results
\* its values are of.
Rises(p, lowest, highest) ==
  /\ \A j \in 1..(Len(p) - 1) : p[j] <= p[j + 1]
  /\ \A j \in DOMAIN p : lowest <= p[j] /\ p[j] <= highest

LEMMA PercentsRise ==
  /\ \A i \in 1..6 : Percents[i] \in 0..99
  /\ \A i \in 1..5 : Percents[i] <= Percents[i + 1]
<1>1. /\ Percents[1] = 10 /\ Percents[2] = 25 /\ Percents[3] = 50
      /\ Percents[4] = 75 /\ Percents[5] = 90 /\ Percents[6] = 99
  BY DEF Percents
<1>2. \A i \in 1..6 : i = 1 \/ i = 2 \/ i = 3 \/ i = 4 \/ i = 5 \/ i = 6
  OBVIOUS
<1>3. \A i \in 1..5 : i = 1 \/ i = 2 \/ i = 3 \/ i = 4 \/ i = 5
  OBVIOUS
<1>. QED  BY <1>1, <1>2, <1>3

LEMMA DistributionRises ==
  ASSUME NEW values \in Seq(Int), NEW pnls \in SUBSET Int, IsFiniteSet(pnls), pnls # {},
         Range(values) \subseteq pnls
  PROVE  Rises(distribution(values).percentiles, 100 * Min(pnls), 100 * Max(pnls))
<1>. DEFINE p == distribution(values).percentiles
<1>1. CASE Len(values) < MINIMUM_BENCHMARK
  <2>1. p = << >>
    BY <1>1 DEF distribution
  <2>. QED  BY <2>1 DEF Rises
<1>2. CASE ~(Len(values) < MINIMUM_BENCHMARK)
  <2>. DEFINE O == Ordered(values)
  <2>1. PICK n \in Nat \ {0} : n = Len(values)
    BY <1>2, ValidationAssumption
  <2>2. /\ n = Len(O) /\ \A k \in 1..n : O[k] \in Int /\ O[k] \in Range(values)
        /\ \A j, k \in 1..n : j <= k => O[j] <= O[k]
    BY <2>1, OrderedRises
  <2>3. p = [i \in 1..6 |-> Percentile(O, Percents[i])]
    BY <1>2 DEF distribution
  <2>. HIDE DEF O, p
  <2>6. ASSUME NEW i \in 1..6
        PROVE  /\ p[i] \in Int /\ 100 * O[1] <= p[i] /\ p[i] <= 100 * O[n]
    <3>1. PICK m \in 0..99 : m = Percents[i]
      BY PercentsRise
    <3>2. p[i] = Percentile(O, m)
      BY <2>3, <3>1
    <3>3. m <= m
      OBVIOUS
    <3>4. /\ Percentile(O, m) \in Int
          /\ 100 * O[1] <= Percentile(O, m) /\ Percentile(O, m) <= 100 * O[n]
      BY <2>2, <3>3, PercentilesRise
    <3>. QED  BY <3>2, <3>4
  <2>7. ASSUME NEW i \in 1..5 PROVE p[i] <= p[i + 1]
    <3>1. i \in 1..6 /\ i + 1 \in 1..6
      OBVIOUS
    <3>. QED  BY <2>2, <2>3, <3>1, PercentsRise, PercentilesRise
  <2>8. PICK lowest \in Int, highest \in Int :
          lowest = Min(pnls) /\ highest = Max(pnls) /\ lowest <= O[1] /\ O[n] <= highest
    <3>1. 1 \in 1..n /\ n \in 1..n
      OBVIOUS
    <3>2. O[1] \in pnls /\ O[n] \in pnls
      BY <2>2, <3>1
    <3>3. Min(pnls) \in pnls /\ \A y \in pnls : Min(pnls) <= y
      BY MinIsSmallest
    <3>4. Max(pnls) \in pnls /\ \A y \in pnls : y <= Max(pnls)
      BY MaxIsLargest
    <3>. QED  BY <3>2, <3>3, <3>4
  <2>9. O[1] \in Int /\ O[n] \in Int
    BY <2>2
  <2>10. \A i \in 1..6 : 100 * lowest <= p[i] /\ p[i] <= 100 * highest
    <3>. TAKE i \in 1..6
    <3>1. PICK x \in Int, a \in Int, b \in Int :
            x = p[i] /\ a = O[1] /\ b = O[n] /\ 100 * a <= x /\ x <= 100 * b
      BY <2>6, <2>9
    <3>2. lowest <= a /\ b <= highest
      BY <2>8, <3>1, Zenon
    <3>. HIDE DEF p
    <3>3. x = p[i] /\ 100 * a <= x /\ x <= 100 * b
      BY <3>1, Zenon
    <3>4. 100 * lowest <= x /\ x <= 100 * highest
      BY <3>2, <3>3, Encloses
    <3>. QED  BY <3>3, <3>4, Zenon
  <2>11. DOMAIN p = 1..6 /\ Len(p) = 6
    BY <2>3
  <2>. QED  BY <2>7, <2>8, <2>10, <2>11 DEF Rises, p
<1>. QED  BY <1>1, <1>2

-----------------------------------------------------------------------------
(* Validation: the sessions of a scorecard. *)

LEMMA ResultsAreNumbers ==
  ASSUME NEW given \in Seq(SessionFacts)
  PROVE  /\ Results(given) \in Seq(Int) /\ Len(Results(given)) = Len(given)
         /\ \A i \in DOMAIN given : Results(given)[i] = given[i].pnl
<1>1. PICK n \in Nat : n = Len(given) /\ DOMAIN given = 1..n
  OBVIOUS
<1>2. \A f \in SessionFacts : f.pnl \in Int
  BY DEF SessionFacts
<1>3. \A i \in 1..n : given[i].pnl \in Int
  BY <1>1, <1>2
<1>4. Results(given) = [i \in 1..n |-> given[i].pnl]
  BY <1>1 DEF Results
<1>. QED  BY <1>1, <1>3, <1>4

LEMMA AsOfIsPart ==
  ASSUME NEW values \in Seq(Int), NEW i \in 1..Len(values)
  PROVE  AsOf(values, i) \in Seq(Int) /\ Range(AsOf(values, i)) \subseteq Range(values)
BY DEF AsOf, Range

\* What a session may be compared with owes nothing to what came after it.
LEMMA AsOfIsSame ==
  ASSUME NEW x \in Seq(SessionFacts), NEW y \in Seq(SessionFacts), NEW i \in Nat,
         i \in DOMAIN x, i \in DOMAIN y, SubSeq(x, 1, i) = SubSeq(y, 1, i)
  PROVE  Results(x)[i] = Results(y)[i] /\ AsOf(Results(x), i) = AsOf(Results(y), i)
<1>1. \A k \in 1..i : x[k] = y[k]
  <2>1. \A k \in 1..i : SubSeq(x, 1, i)[k] = x[k] /\ SubSeq(y, 1, i)[k] = y[k]
    OBVIOUS
  <2>. QED  BY <2>1
<1>2. \A k \in 1..i : Results(x)[k] = Results(y)[k]
  <2>1. \A k \in 1..i : k \in DOMAIN x /\ k \in DOMAIN y
    OBVIOUS
  <2>. QED  BY <1>1, <2>1, ResultsAreNumbers
<1>3. AsOf(Results(x), i) = [k \in 1..(i - 1) |-> Results(x)[k]]
        /\ AsOf(Results(y), i) = [k \in 1..(i - 1) |-> Results(y)[k]]
  BY ResultsAreNumbers DEF AsOf
<1>. QED  BY <1>2, <1>3

LEMMA DistributionsAre ==
  ASSUME NEW given \in Seq(SessionFacts)
  PROVE  /\ DOMAIN Distributions(given) = 1..(Len(given) + 1)
         /\ Distributions(given)[1] = distribution(Results(given))
         /\ \A i \in 1..Len(given) :
              Distributions(given)[i + 1] = distribution(AsOf(Results(given), i))
<1>. DEFINE D == [i \in 1..Len(given) |-> distribution(AsOf(Results(given), i))]
<1>1. D \in Seq({D[i] : i \in 1..Len(given)} \cup {distribution(Results(given))})
        /\ Len(D) = Len(given)
  OBVIOUS
<1>2. \A i \in 1..Len(given) : D[i] = distribution(AsOf(Results(given), i))
  OBVIOUS
<1>3. Distributions(given) = <<distribution(Results(given))>> \o D
  BY DEF Distributions
<1>. HIDE DEF D
<1>4. PICK h : h = distribution(Results(given))
  OBVIOUS
<1>5. DOMAIN (<<h>> \o D) = 1..(Len(given) + 1) /\ (<<h>> \o D)[1] = h
        /\ \A i \in 1..Len(given) : (<<h>> \o D)[i + 1] = D[i]
  BY <1>1, <1>4
<1>. QED  BY <1>2, <1>3, <1>4, <1>5

\* A number of each session, to be summed up.
TradesOf(given) == [i \in DOMAIN given |-> given[i].trades]
ClassifiedOf(given) ==
  [i \in DOMAIN given |-> given[i].winning + given[i].losing + given[i].breakeven]
ProfitOf(given) == [i \in DOMAIN given |-> IF given[i].pnl > 0 THEN given[i].pnl ELSE 0]

LEMMA TradesSum ==
  ASSUME NEW given
  PROVE  Sum(LAMBDA f : f.trades, given) = SumOf(TradesOf(given), DOMAIN given)
BY DEF Sum, SumOf, MapThenSumSet, MapThenFoldSet, TradesOf

LEMMA ClassifiedSum ==
  ASSUME NEW given
  PROVE  Sum(LAMBDA f : f.winning + f.losing + f.breakeven, given)
           = SumOf(ClassifiedOf(given), DOMAIN given)
BY DEF Sum, SumOf, MapThenSumSet, MapThenFoldSet, ClassifiedOf

LEMMA ProfitSum ==
  ASSUME NEW given
  PROVE  Sum(LAMBDA f : IF f.pnl > 0 THEN f.pnl ELSE 0, given) = SumOf(ProfitOf(given), DOMAIN given)
BY DEF Sum, SumOf, MapThenSumSet, MapThenFoldSet, ProfitOf

LEMMA SummaryFields ==
  ASSUME NEW given
  PROVE  /\ Summary(given).total_sessions = Len(given)
         /\ Summary(given).total_trades = SumOf(TradesOf(given), DOMAIN given)
         /\ Summary(given).gross_profit = SumOf(ProfitOf(given), DOMAIN given)
BY TradesSum, ProfitSum DEF Summary

LEMMA SummaryTypes ==
  ASSUME NEW given \in Seq(SessionFacts)
  PROVE  /\ Summary(given).total_sessions \in Nat /\ Summary(given).total_trades \in Nat
         /\ Summary(given).gross_profit \in Nat
<1>1. PICK n \in Nat : n = Len(given) /\ DOMAIN given = 1..n /\ IsFiniteSet(1..n)
  BY FS_Interval
<1>2. \A f \in SessionFacts : f.trades \in Nat /\ f.pnl \in Int
  BY DEF SessionFacts
<1>3. \A i \in 1..n : given[i] \in SessionFacts
  BY <1>1
<1>4. \A i \in 1..n : TradesOf(given)[i] \in Nat
  BY <1>1, <1>2, <1>3 DEF TradesOf
<1>5. \A i \in 1..n : ProfitOf(given)[i] \in Nat
  BY <1>1, <1>2, <1>3 DEF ProfitOf
<1>. QED  BY <1>1, <1>4, <1>5, SummaryFields, SumIsNat

LEMMA RegimesAreFinite == IsFiniteSet(Regimes)
<1>. DEFINE h == <<"BULL", "BEAR", "HIGH_VOL", "LOW_VOL", "RATE_SHOCK", "EVENT_HEAVY", "SIDEWAYS">>
<1>. HIDE DEF h
<1>1. IsFiniteSet({h[i] : i \in 1..7})
  <2>1. PICK n \in Nat : n = 7
    OBVIOUS
  <2>2. IsFiniteSet(1..n)
    BY FS_Interval
  <2>3. IsFiniteSet({h[i] : i \in 1..n})
    BY <2>2, ImageIsFinite
  <2>. QED  BY <2>1, <2>3
<1>2. \A i \in 1..7 : i = 1 \/ i = 2 \/ i = 3 \/ i = 4 \/ i = 5 \/ i = 6 \/ i = 7
  OBVIOUS
<1>3. /\ h[1] = "BULL" /\ h[2] = "BEAR" /\ h[3] = "HIGH_VOL" /\ h[4] = "LOW_VOL"
      /\ h[5] = "RATE_SHOCK" /\ h[6] = "EVENT_HEAVY" /\ h[7] = "SIDEWAYS"
  BY DEF h
<1>4. Regimes \subseteq {h[i] : i \in 1..7}
  BY <1>3 DEF Regimes
<1>. QED  BY <1>1, <1>4, FS_Subset

LEMMA SlicesAreFew ==
  ASSUME NEW given PROVE Cardinality(DOMAIN Slices(given)) \in Nat
<1>1. DOMAIN Slices(given) \subseteq Regimes
  BY DEF Slices
<1>. QED  BY <1>1, RegimesAreFinite, FS_Subset, FS_CardinalityType

\* A scorecard as the engine computes it, of sessions it may be given.
IsCard(card) ==
  \E given \in FactSets, at \in Times : Chronicle(given) /\ card = ScorecardOf(given, at)

LEMMA CardFields ==
  ASSUME NEW card, IsCard(card)
  PROVE  \E given \in Seq(SessionFacts), at \in Times :
           /\ Chronicle(given) /\ card = ScorecardOf(given, at)
           /\ card.manifest.facts = given
           /\ card.first = given[1].day /\ card.last = given[Len(given)].day
           /\ card.first \in Nat /\ card.last \in Nat
           /\ card.summary = Summary(given) /\ card.slices = Slices(given)
           /\ card.distributions = Distributions(given) /\ card.bands = Bands(given)
<1>1. PICK given \in FactSets, at \in Times : Chronicle(given) /\ card = ScorecardOf(given, at)
  BY DEF IsCard
<1>2. given \in Seq(SessionFacts) /\ given # << >>
  BY <1>1, ValidationAssumption DEF Chronicle
<1>3. 1 \in 1..Len(given) /\ Len(given) \in 1..Len(given)
  BY <1>2
<1>4. \A f \in SessionFacts : f.day \in Nat
  BY DEF SessionFacts
<1>5. given[1].day \in Nat /\ given[Len(given)].day \in Nat
  BY <1>2, <1>3, <1>4
<1>. QED  BY <1>1, <1>2, <1>5 DEF ScorecardOf

-----------------------------------------------------------------------------
(* Validation: scores are percentages. *)

IsScore(x) == x \in Hundredths

LEMMA ScoreBounds == \A x : IsScore(x) <=> x \in Nat /\ x <= 10000
<1>1. PICK most \in Nat : most = 10000
  OBVIOUS
<1>2. \A x : x \in 0..most <=> x \in Nat /\ x <= most
  OBVIOUS
<1>. QED  BY <1>1, <1>2 DEF IsScore, Hundredths

LEMMA ZeroIsScore == IsScore(0)
<1>1. 0 \in Nat /\ 0 <= 10000
  OBVIOUS
<1>. QED  BY <1>1, ScoreBounds

LEMMA PercentIsScore ==
  ASSUME NEW num \in Int, NEW den \in Nat \ {0} PROVE IsScore(Percent(num, den))
<1>1. CASE num <= 0
  BY <1>1, ZeroIsScore DEF Percent
<1>2. CASE num > 0
  <2>1. PICK a \in Nat, b \in Nat \ {0} : a = 20000 * num + den /\ b = 2 * den
    BY <1>2
  <2>2. a \div b \in Nat
    BY Divided
  <2>3. Percent(num, den) = Least(10000, a \div b)
    BY <1>2, <2>1 DEF Percent
  <2>4. PICK q \in Nat : q = a \div b
    BY <2>2
  <2>5. Least(10000, q) \in Nat /\ Least(10000, q) <= 10000
    BY DEF Least
  <2>. QED  BY <2>3, <2>4, <2>5, ScoreBounds
<1>. QED  BY <1>1, <1>2

LEMMA EvidenceTypes ==
  ASSUME NEW e \in Evidences
  PROVE  /\ e.expected \in Nat /\ e.observed \in Nat /\ e.gaps \in Nat /\ e.lookahead \in Nat
         /\ e.executions \in Nat /\ e.oos_sessions \in Nat /\ e.largest_profit \in Nat
         /\ e.context \in Nat /\ e.aligned \in Nat
         /\ IsScore(e.rth_adherence) /\ IsScore(e.execution_quality)
         /\ e.in_sample \in Int \cup {Absent} /\ e.oos \in Int \cup {Absent}
BY ValidationAssumption DEF IsScore

Scored(factor) == factor.score = Absent \/ IsScore(factor.score)

LEMMA SampleIsScored ==
  ASSUME NEW card, IsCard(card) PROVE Scored(SampleSize(card))
<1>1. PICK s \in Nat \ {0}, t \in Nat \ {0}, d \in Nat \ {0} :
        s = MinSessions /\ t = MinTrades /\ d = MinDays
  BY ValidationAssumption
<1>2. PICK x \in Int, y \in Int, z \in Int :
        /\ x = Least(card.summary.total_sessions, s) /\ y = Least(card.summary.total_trades, t)
        /\ z = Least(Days(card), d)
  BY <1>1, CardFields, SummaryTypes DEF Least, Days
<1>3. PICK st \in Nat \ {0}, td \in Nat \ {0}, sd \in Nat \ {0} :
        st = s * t /\ td = t * d /\ sd = s * d
  <2>1. s * t \in Nat \ {0}
    BY ProductIsPositive
  <2>2. t * d \in Nat \ {0}
    BY ProductIsPositive
  <2>3. s * d \in Nat \ {0}
    BY ProductIsPositive
  <2>. QED  BY <2>1, <2>2, <2>3, Zenon
<1>4. PICK num \in Int : num = x * t * d + y * s * d + z * s * t
  OBVIOUS
<1>5. PICK den \in Nat \ {0} : den = 3 * s * t * d
  <2>1. 3 * s \in Nat \ {0}
    OBVIOUS
  <2>2. (3 * s) * t \in Nat \ {0}
    BY <2>1, ProductIsPositive
  <2>3. ((3 * s) * t) * d \in Nat \ {0}
    BY <2>2, ProductIsPositive
  <2>. QED  BY <2>3
<1>6. SampleSize(card) = Factor(Percent(num, den), TRUE)
  BY <1>1, <1>2, <1>4, <1>5 DEF SampleSize
<1>. QED  BY <1>6, PercentIsScore DEF Factor, Scored

LEMMA FactorsAreScored ==
  ASSUME NEW card, IsCard(card), NEW r \in Runs, NEW e \in Evidences
  PROVE  /\ Scored(SampleSize(card)) /\ Scored(RegimeCoverage(card))
         /\ Scored(DataCompleteness(e)) /\ Scored(ExecutionRealism(e, Datasets[r].fidelity))
         /\ Scored(OosStability(e)) /\ Scored(ProfitDistribution(card, e))
         /\ Scored(ContextAlignment(e))
<1>1. Scored(RegimeCoverage(card))
  <2>1. PICK count \in Nat : count = Cardinality(DOMAIN card.slices)
    BY CardFields, SlicesAreFew
  <2>. QED  BY <2>1, PercentIsScore DEF RegimeCoverage, Factor, Scored
<1>2. Scored(DataCompleteness(e))
  <2>1. CASE e.expected = 0
    BY <2>1 DEF DataCompleteness, Factor, Scored
  <2>2. CASE e.expected # 0
    <3>1. e.expected \in Nat \ {0} /\ e.expected - e.gaps \in Int
      BY <2>2, EvidenceTypes
    <3>. QED  BY <2>2, <3>1, PercentIsScore DEF DataCompleteness, Factor, Scored
  <2>. QED  BY <2>1, <2>2
<1>3. Scored(ExecutionRealism(e, Datasets[r].fidelity))
  <2>1. PICK q \in Nat : q = e.execution_quality /\ IsScore(q)
    BY EvidenceTypes, ScoreBounds
  <2>2. Datasets[r].fidelity \in Fidelities
    BY ValidationAssumption
  <2>3. PICK f \in Fidelities : f = Datasets[r].fidelity
    BY <2>2
  <2>4. PICK c \in Nat : c = Ceiling(f)
    BY DEF Ceiling, Fidelities
  <2>5. IsScore(Least(q, c))
    <3>1. Least(q, c) \in Nat /\ Least(q, c) <= q
      BY DEF Least
    <3>. QED  BY <2>1, <3>1, ScoreBounds
  <2>. QED  BY <2>1, <2>3, <2>4, <2>5 DEF ExecutionRealism, Factor, Scored
<1>4. Scored(OosStability(e))
  <2>1. CASE PositiveBaseline(e) /\ ~(e.oos = Absent \/ e.oos_sessions = 0)
    <3>1. e.in_sample \in Nat \ {0} /\ e.oos \in Int
      BY <2>1, EvidenceTypes DEF PositiveBaseline
    <3>. QED  BY <2>1, <3>1, PercentIsScore DEF OosStability, Factor, Scored
  <2>2. CASE ~(PositiveBaseline(e) /\ ~(e.oos = Absent \/ e.oos_sessions = 0))
    BY <2>2, ZeroIsScore DEF OosStability, Factor, Scored
  <2>. QED  BY <2>1, <2>2
<1>5. Scored(ProfitDistribution(card, e))
  <2>1. PICK gross \in Nat : gross = card.summary.gross_profit
    BY CardFields, SummaryTypes
  <2>2. CASE gross = 0
    BY <2>1, <2>2, ZeroIsScore DEF ProfitDistribution, Factor, Scored
  <2>3. CASE gross # 0
    <3>1. gross \in Nat \ {0} /\ gross - e.largest_profit \in Int
      BY <2>3, EvidenceTypes
    <3>. QED  BY <2>1, <3>1, PercentIsScore DEF ProfitDistribution, Factor, Scored
  <2>. QED  BY <2>2, <2>3
<1>6. Scored(ContextAlignment(e))
  <2>1. CASE e.context = 0
    BY <2>1 DEF ContextAlignment, Factor, Scored
  <2>2. CASE e.context # 0
    <3>1. e.context \in Nat \ {0} /\ e.aligned \in Int
      BY <2>2, EvidenceTypes
    <3>. QED  BY <2>2, <3>1, PercentIsScore DEF ContextAlignment, Factor, Scored
  <2>. QED  BY <2>1, <2>2
<1>. QED  BY <1>1, <1>2, <1>3, <1>4, <1>5, <1>6, SampleIsScored

\* What a factor counts.
Worth(factor) == IF factor.score = Absent THEN 0 ELSE factor.score

LEMMA WorthIsScore == ASSUME NEW factor, Scored(factor) PROVE IsScore(Worth(factor))
BY ZeroIsScore DEF Scored, Worth

LEMMA CompositeIsScore ==
  ASSUME NEW t, \A i \in 1..7 : Scored(t[i]) PROVE IsScore(Composite(t))
<1>1. Composite(t) =
        (15 * (Worth(t[1]) + Worth(t[2]) + Worth(t[3]) + Worth(t[4]) + Worth(t[5]) + Worth(t[6]))
           + 10 * Worth(t[7]) + 50) \div 100
  BY DEF Composite, Worth
<1>2. ASSUME NEW i \in 1..7 PROVE Worth(t[i]) \in Nat /\ Worth(t[i]) <= 10000
  <2>1. IsScore(Worth(t[i]))
    BY WorthIsScore
  <2>. QED  BY <2>1, ScoreBounds
<1>3. PICK a \in Nat, b \in Nat, c \in Nat :
        /\ a = Worth(t[1]) /\ b = Worth(t[2]) /\ c = Worth(t[3])
        /\ a <= 10000 /\ b <= 10000 /\ c <= 10000
  BY <1>2
<1>4. PICK d \in Nat, e \in Nat, f \in Nat, g \in Nat :
        /\ d = Worth(t[4]) /\ e = Worth(t[5]) /\ f = Worth(t[6]) /\ g = Worth(t[7])
        /\ d <= 10000 /\ e <= 10000 /\ f <= 10000 /\ g <= 10000
  BY <1>2
<1>5. PICK m \in Nat : m = 15 * (a + b + c + d + e + f) + 10 * g + 50 /\ m < 100 * 10001
  BY <1>3, <1>4
<1>6. Composite(t) = m \div 100
  BY <1>1, <1>3, <1>4, <1>5
<1>7. PICK q \in Nat : q = m \div 100 /\ 100 * q <= m
  <2>1. m \div 100 \in Nat /\ m % 100 \in 0..99 /\ m = 100 * (m \div 100) + (m % 100)
    BY Divided
  <2>. QED  BY <2>1
<1>8. q <= 10000
  BY <1>5, <1>7
<1>. QED  BY <1>6, <1>7, <1>8, ScoreBounds

\* What of a ledger is told of it elsewhere.
LedgerSays(l, r, card, e) ==
  LET gates == HardGates(r, card, e, Factors(card, Datasets[r].fidelity, e)) IN
  /\ IsScore(l.score) /\ l.tier = Tier(l.score) /\ l.evidence = e
  /\ l.hard_gate_passed = (\A g \in DOMAIN gates : gates[g])

LEMMA EligibleBy ==
  ASSUME NEW l, NEW r, NEW card, NEW e, NEW at, l = Ledger(r, card, e, at)
  PROVE  l.eligible <=> (l.score >= 8000 /\ l.hard_gate_passed)
<1>. DEFINE factors == Factors(card, Datasets[r].fidelity, e)
            gates == HardGates(r, card, e, factors)
            passed == \A g \in DOMAIN gates : gates[g]
            eligible == Composite(factors) >= 8000 /\ passed
<1>1. l = [factors |-> factors, gates |-> gates, hard_gate_passed |-> passed,
           score |-> Composite(factors), tier |-> Tier(Composite(factors)),
           eligible |-> eligible, evidence |-> e, evaluated_at |-> at]
  BY DEF Ledger
<1>2. eligible <=> (Composite(factors) >= 8000 /\ passed)
  OBVIOUS
<1>. HIDE DEF factors, gates, passed, eligible
<1>3. l.score = Composite(factors) /\ l.hard_gate_passed = passed /\ l.eligible = eligible
  BY <1>1
<1>. QED  BY <1>2, <1>3

LEMMA LedgerFields ==
  ASSUME NEW card, IsCard(card), NEW r \in Runs, NEW e \in Evidences, NEW at
  PROVE  LedgerSays(Ledger(r, card, e, at), r, card, e)
<1>. DEFINE factors == Factors(card, Datasets[r].fidelity, e)
<1>1. \A i \in 1..7 : Scored(factors[i])
  <2>1. /\ factors[1] = SampleSize(card) /\ factors[2] = RegimeCoverage(card)
        /\ factors[3] = DataCompleteness(e)
        /\ factors[4] = ExecutionRealism(e, Datasets[r].fidelity)
        /\ factors[5] = OosStability(e) /\ factors[6] = ProfitDistribution(card, e)
        /\ factors[7] = ContextAlignment(e)
    BY DEF Factors
  <2>2. \A i \in 1..7 : i = 1 \/ i = 2 \/ i = 3 \/ i = 4 \/ i = 5 \/ i = 6 \/ i = 7
    OBVIOUS
  <2>. HIDE DEF factors
  <2>. QED  BY <2>1, <2>2, FactorsAreScored
<1>2. IsScore(Composite(factors))
  BY <1>1, CompositeIsScore
<1>. QED  BY <1>2 DEF Ledger, LedgerSays

\* What the gates and the factors that suffice say of the evidence.
LEMMA GatesPassed ==
  ASSUME NEW card, NEW r \in Runs, NEW e \in Evidences,
         LET gates == HardGates(r, card, e, Factors(card, Datasets[r].fidelity, e))
         IN  \A g \in DOMAIN gates : gates[g]
  PROVE  /\ card.summary.total_sessions >= MinSessions
         /\ card.summary.total_trades >= MinTrades /\ Days(card) >= MinDays
         /\ Causal(e) /\ LineageVerified(r, card, e)
         /\ Datasets[r].fidelity # "TIER_3_BAR_ONLY"
         /\ e.oos_sessions >= MinOosSessions /\ PositiveBaseline(e)
         /\ e.executions # 0 /\ e.oos # Absent /\ e.context # 0
<1>. DEFINE factors == Factors(card, Datasets[r].fidelity, e)
            gates == HardGates(r, card, e, factors)
<1>1. /\ gates.minimum_sample_breadth /\ gates.causal_integrity /\ gates.cryptographic_lineage
      /\ gates.execution_fidelity_tier /\ gates.oos_evidence_sufficiency
      /\ gates.required_factor_sufficiency
  BY DEF HardGates
<1>2. /\ card.summary.total_sessions >= MinSessions
      /\ card.summary.total_trades >= MinTrades /\ Days(card) >= MinDays
      /\ Causal(e) /\ LineageVerified(r, card, e)
      /\ Datasets[r].fidelity # "TIER_3_BAR_ONLY"
      /\ e.oos_sessions >= MinOosSessions /\ PositiveBaseline(e)
      /\ \A i \in DOMAIN factors : factors[i].sufficient
  BY <1>1 DEF HardGates
<1>3. /\ ExecutionRealism(e, Datasets[r].fidelity).sufficient
      /\ OosStability(e).sufficient /\ ContextAlignment(e).sufficient
  <2>1. /\ DOMAIN factors = 1..7
        /\ factors[4] = ExecutionRealism(e, Datasets[r].fidelity)
        /\ factors[5] = OosStability(e) /\ factors[7] = ContextAlignment(e)
    BY DEF Factors
  <2>2. 4 \in 1..7 /\ 5 \in 1..7 /\ 7 \in 1..7
    OBVIOUS
  <2>. HIDE DEF factors
  <2>. QED  BY <1>2, <2>1, <2>2
<1>4. e.executions # 0
  BY <1>3 DEF ExecutionRealism, Factor
<1>5. e.oos # Absent
  BY <1>3 DEF OosStability, Factor
<1>6. e.context # 0
  BY <1>3 DEF ContextAlignment, Factor
<1>. QED  BY <1>2, <1>4, <1>5, <1>6

-----------------------------------------------------------------------------
(* Validation: what is on record, and what is about to be. *)

IsLedger(R, r, row) ==
  /\ R["scorecard"][r] # NoRow
  /\ \E e \in Evidences, at \in Times : row = Ledger(r, R["scorecard"][r], e, at)

DecisionOf(decision, entry, card, at) ==
  [decision |-> decision, score |-> entry.score, gates |-> entry.hard_gate_passed,
   eligible |-> entry.eligible, confidence |-> entry, scorecard |-> card.manifest,
   decided_at |-> at]

IsDecision(R, r, row) ==
  /\ R["scorecard"][r] # NoRow /\ R["confidence"][r] # NoRow
  /\ \E decision \in Decisions, at \in Times :
       /\ row = DecisionOf(decision, R["confidence"][r], R["scorecard"][r], at)
       /\ decision = "ACCEPTED_FOR_LIVE" => R["confidence"][r].hard_gate_passed

\* A row as its engine computes it from the rows it rests on.
RowSound(R, kind, r, row) ==
  /\ kind \in Kinds /\ r \in Runs
  /\ kind = "scorecard" => IsCard(row)
  /\ kind = "confidence" => IsLedger(R, r, row)
  /\ kind = "decision" => IsDecision(R, r, row)

RecordSound(R) ==
  /\ R = [k \in Kinds |-> [r \in Runs |-> R[k][r]]]
  /\ \A k \in Kinds, r \in Runs : R[k][r] # NoRow => RowSound(R, k, r, R[k][r])

ValidationInv ==
  /\ RecordSound(rows)
  /\ work = [c \in Callers |-> work[c]]
  /\ \A c \in Callers :
       work[c] # Idle => RowSound(rows, work[c].kind, work[c].run, work[c].row)
  /\ \A a \in answers :
       a.kind \in Kinds /\ a.run \in Runs /\ a.row # NoRow /\ rows[a.kind][a.run] = a.row

LEMMA RowsAreRows ==
  ASSUME NEW R, NEW kind, NEW r, NEW row, RowSound(R, kind, r, row) PROVE row # NoRow
<1>1. NoRow = [row |-> "none"] /\ DOMAIN NoRow = {"row"}
  BY DEF NoRow
<1>2. CASE kind = "scorecard"
  <2>1. PICK given, at : row = ScorecardOf(given, at)
    BY <1>2 DEF RowSound, IsCard
  <2>2. "manifest" \in DOMAIN row
    BY <2>1 DEF ScorecardOf
  <2>. QED  BY <1>1, <2>2
<1>3. CASE kind = "confidence"
  <2>1. PICK card, e, at : row = Ledger(r, card, e, at)
    BY <1>3 DEF RowSound, IsLedger
  <2>2. "tier" \in DOMAIN row
    BY <2>1 DEF Ledger
  <2>. QED  BY <1>1, <2>2
<1>4. CASE kind = "decision"
  <2>1. PICK decision, entry, card, at : row = DecisionOf(decision, entry, card, at)
    BY <1>4 DEF RowSound, IsDecision
  <2>2. "decision" \in DOMAIN row
    BY <2>1 DEF DecisionOf
  <2>. QED  BY <1>1, <2>2
<1>. QED  BY <1>2, <1>3, <1>4 DEF RowSound, Kinds

\* A row stays sound while what is on record stays.
Kept(R, S) == \A k \in Kinds, r \in Runs : R[k][r] # NoRow => S[k][r] = R[k][r]

LEMMA RowsStay ==
  ASSUME NEW R, NEW S, Kept(R, S), NEW kind, NEW r, NEW row, RowSound(R, kind, r, row)
  PROVE  RowSound(S, kind, r, row)
<1>1. r \in Runs /\ "scorecard" \in Kinds /\ "confidence" \in Kinds
  BY DEF RowSound, Kinds
<1>2. R["scorecard"][r] # NoRow => S["scorecard"][r] = R["scorecard"][r]
  BY <1>1 DEF Kept
<1>3. R["confidence"][r] # NoRow => S["confidence"][r] = R["confidence"][r]
  BY <1>1 DEF Kept
<1>4. kind = "confidence" => IsLedger(S, r, row)
  BY <1>2 DEF RowSound, IsLedger
<1>5. kind = "decision" => IsDecision(S, r, row)
  BY <1>2, <1>3 DEF RowSound, IsDecision
<1>. QED  BY <1>4, <1>5 DEF RowSound

-----------------------------------------------------------------------------
(* Validation: the steps. *)

LEMMA ValidationStarts == ValidationInit => ValidationInv
<1>. SUFFICES ASSUME ValidationInit PROVE ValidationInv
  OBVIOUS
<1>1. \A k \in Kinds, r \in Runs : rows[k][r] = NoRow
  BY DEF ValidationInit
<1>2. rows = [k \in Kinds |-> [r \in Runs |-> rows[k][r]]]
  <2>1. rows = [k \in Kinds |-> [r \in Runs |-> NoRow]]
    BY DEF ValidationInit
  <2>. QED  BY <2>1
<1>3. RecordSound(rows)
  BY <1>1, <1>2 DEF RecordSound
<1>4. work = [c \in Callers |-> Idle] /\ answers = {}
  BY DEF ValidationInit
<1>. QED  BY <1>3, <1>4 DEF ValidationInv

IsAnswer(w, kind, r, row) ==
  w = [kind |-> kind, run |-> r, row |-> row] /\ w.kind = kind /\ w.run = r /\ w.row = row

LEMMA AnswerFields ==
  ASSUME NEW kind, NEW r, NEW row PROVE \E w : IsAnswer(w, kind, r, row)
<1>. DEFINE w == [kind |-> kind, run |-> r, row |-> row]
<1>1. IsAnswer(w, kind, r, row)
  BY DEF IsAnswer
<1>. QED  BY <1>1

\* A call that is handed a sound row confirms one or takes it to its insert.
LEMMA SubmitStep ==
  ASSUME ValidationInv, NEW c \in Callers, NEW kind, NEW r, NEW row,
         RowSound(rows, kind, r, row), Submit(c, kind, r, row)
  PROVE  ValidationInv'
<1>1. kind \in Kinds /\ r \in Runs /\ row # NoRow
  BY RowsAreRows DEF RowSound
<1>2. rows' = rows /\ RecordSound(rows)'
  <2>1. rows' = rows /\ RecordSound(rows)
    BY DEF Submit, ValidationInv
  <2>. QED  BY <2>1
<1>3. CASE /\ work' = [work EXCEPT ![c] = [kind |-> kind, run |-> r, row |-> row]]
           /\ answers' = answers
  <2>1. PICK w : IsAnswer(w, kind, r, row)
    BY AnswerFields
  <2>2. work' = [d \in Callers |-> IF d = c THEN w ELSE work[d]]
    BY <1>3, <2>1 DEF ValidationInv, IsAnswer
  <2>3. \A d \in Callers :
          work'[d] # Idle => RowSound(rows', work'[d].kind, work'[d].run, work'[d].row)
    BY <1>2, <2>1, <2>2 DEF ValidationInv, IsAnswer
  <2>4. work' = [d \in Callers |-> work'[d]]
    BY <2>2
  <2>. QED  BY <1>2, <1>3, <2>3, <2>4 DEF ValidationInv
<1>4. CASE /\ work' = work /\ rows[kind][r] = row
           /\ answers' = answers \cup {[kind |-> kind, run |-> r, row |-> row]}
  <2>1. PICK w : IsAnswer(w, kind, r, row)
    BY AnswerFields
  <2>2. \A a \in answers' :
          a.kind \in Kinds /\ a.run \in Runs /\ a.row # NoRow /\ rows'[a.kind][a.run] = a.row
    BY <1>1, <1>2, <1>4, <2>1 DEF ValidationInv, IsAnswer
  <2>. QED  BY <1>2, <1>4, <2>2 DEF ValidationInv
<1>. QED  BY <1>3, <1>4 DEF Submit

\* A row is inserted where there is none, and so all others stay sound.
LEMMA InsertStep ==
  ASSUME ValidationInv, NEW c \in Callers, Insert(c) PROVE ValidationInv'
<1>1. PICK w : w = work[c] /\ RowSound(rows, w.kind, w.run, w.row)
  BY DEF ValidationInv, Insert
<1>2. /\ w.kind \in Kinds /\ w.run \in Runs /\ w.row # NoRow /\ rows[w.kind][w.run] = NoRow
  BY <1>1, RowsAreRows DEF RowSound, Insert, Free
<1>3. \A k \in Kinds, r \in Runs :
        rows'[k][r] = IF k = w.kind /\ r = w.run THEN w.row ELSE rows[k][r]
  <2>1. rows' = [rows EXCEPT ![w.kind][w.run] = w.row]
    BY <1>1 DEF Insert
  <2>2. rows = [k \in Kinds |-> [r \in Runs |-> rows[k][r]]]
    BY DEF ValidationInv, RecordSound
  <2>. QED  BY <1>2, <2>1, <2>2
<1>4. rows' = [k \in Kinds |-> [r \in Runs |-> rows'[k][r]]]
  <2>1. rows' = [rows EXCEPT ![w.kind] = [rows[w.kind] EXCEPT ![w.run] = w.row]]
    BY <1>1 DEF Insert
  <2>2. PICK one : one = [rows[w.kind] EXCEPT ![w.run] = w.row]
    OBVIOUS
  <2>3. rows = [k \in Kinds |-> [r \in Runs |-> rows[k][r]]]
    BY DEF ValidationInv, RecordSound
  <2>4. \A k \in Kinds : rows[k] = [r \in Runs |-> rows[k][r]]
    BY <2>3
  <2>5. one = [r \in Runs |-> one[r]]
    BY <1>2, <2>2, <2>4
  <2>6. rows' = [k \in Kinds |-> IF k = w.kind THEN one ELSE rows[k]]
    BY <2>1, <2>2, <2>3
  <2>7. \A k \in Kinds : rows'[k] = [r \in Runs |-> rows'[k][r]]
    BY <2>4, <2>5, <2>6
  <2>8. rows' = [k \in Kinds |-> rows'[k]]
    BY <2>6
  <2>. QED  BY <2>7, <2>8
<1>5. Kept(rows, rows')
  BY <1>2, <1>3 DEF Kept
<1>6. RowSound(rows', w.kind, w.run, w.row)
  BY <1>1, <1>5, RowsStay
<1>7. RecordSound(rows)'
  <2>1. \A k \in Kinds, r \in Runs : rows'[k][r] # NoRow => RowSound(rows', k, r, rows'[k][r])
    <3>. SUFFICES ASSUME NEW k \in Kinds, NEW r \in Runs, rows'[k][r] # NoRow
                  PROVE  RowSound(rows', k, r, rows'[k][r])
      OBVIOUS
    <3>1. CASE k = w.kind /\ r = w.run
      BY <1>3, <1>6, <3>1
    <3>2. CASE ~(k = w.kind /\ r = w.run)
      <4>1. rows'[k][r] = rows[k][r] /\ rows[k][r] # NoRow
        BY <1>3, <3>2
      <4>2. RowSound(rows, k, r, rows[k][r])
        BY <4>1 DEF ValidationInv, RecordSound
      <4>. QED  BY <1>5, <4>1, <4>2, RowsStay
    <3>. QED  BY <3>1, <3>2
  <2>. QED  BY <1>4, <2>1 DEF RecordSound
<1>8. work' = [d \in Callers |-> IF d = c THEN Idle ELSE work[d]]
  BY DEF ValidationInv, Insert
<1>9. \A d \in Callers :
        work'[d] # Idle => RowSound(rows', work'[d].kind, work'[d].run, work'[d].row)
  <2>. SUFFICES ASSUME NEW d \in Callers, work'[d] # Idle
                PROVE  RowSound(rows', work'[d].kind, work'[d].run, work'[d].row)
    OBVIOUS
  <2>1. work'[d] = work[d]
    BY <1>8
  <2>2. RowSound(rows, work[d].kind, work[d].run, work[d].row)
    BY <2>1 DEF ValidationInv
  <2>. QED  BY <1>5, <2>1, <2>2, RowsStay
<1>10. \A a \in answers' :
         a.kind \in Kinds /\ a.run \in Runs /\ a.row # NoRow /\ rows'[a.kind][a.run] = a.row
  <2>. SUFFICES ASSUME NEW a \in answers'
                PROVE  /\ a.kind \in Kinds /\ a.run \in Runs /\ a.row # NoRow
                       /\ rows'[a.kind][a.run] = a.row
    OBVIOUS
  <2>1. a = w \/ a \in answers
    BY <1>1 DEF Insert
  <2>2. CASE a = w
    BY <1>2, <1>3, <2>2
  <2>3. CASE a \in answers
    BY <1>5, <2>3 DEF ValidationInv, Kept
  <2>. QED  BY <2>1, <2>2, <2>3
<1>11. work' = [d \in Callers |-> work'[d]]
  BY <1>8
<1>. QED  BY <1>7, <1>9, <1>10, <1>11 DEF ValidationInv

LEMMA ValidationStep == ValidationInv /\ [ValidationNext]_validationVars => ValidationInv'
<1>. SUFFICES ASSUME ValidationInv, [ValidationNext]_validationVars PROVE ValidationInv'
  OBVIOUS
<1>1. ASSUME NEW c \in Callers, Insert(c) PROVE ValidationInv'
  BY <1>1, InsertStep
<1>2. ASSUME NEW c \in Callers, GiveUp(c) PROVE ValidationInv'
  <2>1. /\ work' = [d \in Callers |-> IF d = c THEN Idle ELSE work[d]]
        /\ rows' = rows /\ answers' = answers
    BY <1>2 DEF GiveUp, ValidationInv
  <2>2. RecordSound(rows)'
    BY <2>1 DEF ValidationInv
  <2>3. \A d \in Callers :
          work'[d] # Idle => RowSound(rows', work'[d].kind, work'[d].run, work'[d].row)
    BY <2>1 DEF ValidationInv
  <2>4. work' = [d \in Callers |-> work'[d]]
    BY <2>1
  <2>. QED  BY <2>1, <2>2, <2>3, <2>4 DEF ValidationInv
<1>3. ASSUME NEW c \in Callers, NEW r \in Runs, NEW at \in Times, NEW given \in FactSets,
             EvaluateScorecard(c, r, given, at)
      PROVE  ValidationInv'
  <2>1. RowSound(rows, "scorecard", r, ScorecardOf(given, at))
    BY <1>3 DEF EvaluateScorecard, RowSound, IsCard, Kinds
  <2>. QED  BY <1>3, <2>1, SubmitStep DEF EvaluateScorecard
<1>4. ASSUME NEW c \in Callers, NEW r \in Runs, NEW at \in Times, NEW e \in Evidences,
             EvaluateConfidence(c, r, e, at)
      PROVE  ValidationInv'
  <2>1. RowSound(rows, "confidence", r, Ledger(r, rows["scorecard"][r], e, at))
    BY <1>4 DEF EvaluateConfidence, RowSound, IsLedger, Kinds
  <2>. QED  BY <1>4, <2>1, SubmitStep DEF EvaluateConfidence
<1>5. ASSUME NEW c \in Callers, NEW r \in Runs, NEW at \in Times, NEW decision \in Decisions,
             RecordDecision(c, r, decision, at)
      PROVE  ValidationInv'
  <2>. DEFINE row == DecisionOf(decision, rows["confidence"][r], rows["scorecard"][r], at)
  <2>1. /\ rows["scorecard"][r] # NoRow /\ rows["confidence"][r] # NoRow
        /\ decision = "ACCEPTED_FOR_LIVE" => rows["confidence"][r].hard_gate_passed
        /\ Submit(c, "decision", r, row)
    BY <1>5 DEF RecordDecision, DecisionOf
  <2>2. RowSound(rows, "decision", r, row)
    BY <2>1 DEF RowSound, IsDecision, Kinds
  <2>. QED  BY <2>1, <2>2, SubmitStep
<1>6. CASE UNCHANGED validationVars
  BY <1>6 DEF validationVars, ValidationInv
<1>. QED  BY <1>1, <1>2, <1>3, <1>4, <1>5, <1>6 DEF ValidationNext

-----------------------------------------------------------------------------
(* Validation: what the invariant entails. *)

LEMMA TypesFollow == ValidationInv => ValidationTypeOK
<1>. SUFFICES ASSUME ValidationInv PROVE ValidationTypeOK
  OBVIOUS
<1>1. \A c \in Callers : work[c] = Idle \/ (work[c].kind \in Kinds /\ work[c].run \in Runs)
  BY DEF ValidationInv, RowSound
<1>2. ASSUME NEW r \in Runs, Confidence(r) # NoRow
      PROVE  /\ Confidence(r).score \in Hundredths
             /\ (Confidence(r).tier = "HIGH_CONFIDENCE") <=> (Confidence(r).score >= 8000)
             /\ (Confidence(r).tier = "LOW_CONFIDENCE") <=> (Confidence(r).score < 6500)
             /\ Confidence(r).eligible
                  <=> (Confidence(r).score >= 8000 /\ Confidence(r).hard_gate_passed)
  <2>1. IsLedger(rows, r, Confidence(r)) /\ IsCard(rows["scorecard"][r])
    BY <1>2 DEF ValidationInv, RecordSound, RowSound, IsLedger, Kinds, Confidence
  <2>2. PICK e \in Evidences, at \in Times : Confidence(r) = Ledger(r, rows["scorecard"][r], e, at)
    BY <2>1 DEF IsLedger
  <2>3. LedgerSays(Confidence(r), r, rows["scorecard"][r], e)
    BY <2>1, <2>2, LedgerFields
  <2>4. IsScore(Confidence(r).score) /\ Confidence(r).tier = Tier(Confidence(r).score)
    BY <2>3 DEF LedgerSays
  <2>9. Confidence(r).eligible
          <=> (Confidence(r).score >= 8000 /\ Confidence(r).hard_gate_passed)
    BY <2>2, EligibleBy
  <2>5. PICK score : score = Confidence(r).score
    OBVIOUS
  <2>6. score \in Nat
    BY <2>4, <2>5, ScoreBounds
  <2>7. score \in Hundredths
    BY <2>4, <2>5 DEF IsScore
  <2>8. /\ (Tier(score) = "HIGH_CONFIDENCE") <=> (score >= 8000)
        /\ (Tier(score) = "LOW_CONFIDENCE") <=> (score < 6500)
    BY <2>6 DEF Tier
  <2>. QED  BY <2>4, <2>5, <2>7, <2>8, <2>9
<1>3. ASSUME NEW r \in Runs, Decided(r) # NoRow PROVE Decided(r).decision \in Decisions
  <2>1. IsDecision(rows, r, Decided(r))
    BY <1>3 DEF ValidationInv, RecordSound, RowSound, Kinds, Decided
  <2>. QED  BY <2>1 DEF IsDecision, DecisionOf
<1>. QED  BY <1>1, <1>2, <1>3 DEF ValidationTypeOK

\* A scorecard on record is one of some sessions.
LEMMA CardOnRecord ==
  ASSUME ValidationInv, NEW r \in Runs, Card(r) # NoRow PROVE IsCard(Card(r))
BY DEF ValidationInv, RecordSound, RowSound, Kinds, Card

LEMMA BandFields ==
  ASSUME NEW given, NEW i \in DOMAIN given
  PROVE  /\ Bands(given)[i].as_of_percentile
              = percentile_rank(Results(given)[i], AsOf(Results(given), i))
         /\ Bands(given)[i].as_of
              = performance_band(percentile_rank(Results(given)[i], AsOf(Results(given), i)))
BY DEF Bands

LEMMA StandingsFollow == ValidationInv => AsOfIgnoresTheFuture
<1>. SUFFICES ASSUME ValidationInv, NEW q \in Runs, NEW r \in Runs,
                     Card(q) # NoRow, Card(r) # NoRow,
                     NEW i \in (DOMAIN Card(q).manifest.facts) \cap (DOMAIN Card(r).manifest.facts),
                     SubSeq(Card(q).manifest.facts, 1, i) = SubSeq(Card(r).manifest.facts, 1, i)
              PROVE  /\ Card(q).bands[i].as_of = Card(r).bands[i].as_of
                     /\ Card(q).bands[i].as_of_percentile = Card(r).bands[i].as_of_percentile
                     /\ Card(q).distributions[i + 1] = Card(r).distributions[i + 1]
  BY DEF AsOfIgnoresTheFuture
<1>1. PICK x \in Seq(SessionFacts) :
        /\ x = Card(q).manifest.facts /\ Card(q).bands = Bands(x)
        /\ Card(q).distributions = Distributions(x)
  BY CardOnRecord, CardFields
<1>2. PICK y \in Seq(SessionFacts) :
        /\ y = Card(r).manifest.facts /\ Card(r).bands = Bands(y)
        /\ Card(r).distributions = Distributions(y)
  BY CardOnRecord, CardFields
<1>3. /\ i \in Nat /\ i \in DOMAIN x /\ i \in DOMAIN y /\ SubSeq(x, 1, i) = SubSeq(y, 1, i)
      /\ i \in 1..Len(x) /\ i \in 1..Len(y)
  BY <1>1, <1>2
<1>4. Results(x)[i] = Results(y)[i] /\ AsOf(Results(x), i) = AsOf(Results(y), i)
  BY <1>3, AsOfIsSame
<1>5. /\ Bands(x)[i].as_of = Bands(y)[i].as_of
      /\ Bands(x)[i].as_of_percentile = Bands(y)[i].as_of_percentile
  BY <1>3, <1>4, BandFields
<1>6. Distributions(x)[i + 1] = Distributions(y)[i + 1]
  BY <1>3, <1>4, DistributionsAre
<1>. QED  BY <1>1, <1>2, <1>5, <1>6

\* The percentiles of some results lie within them.
LEMMA DistributionWithin ==
  ASSUME NEW values \in Seq(Int)
  PROVE  Rises(distribution(values).percentiles, 100 * Min(Range(values)), 100 * Max(Range(values)))
<1>1. CASE Len(values) = 0
  <2>1. Len(values) < MINIMUM_BENCHMARK
    BY <1>1, ValidationAssumption
  <2>2. distribution(values).percentiles = << >>
    BY <2>1 DEF distribution
  <2>. QED  BY <2>2 DEF Rises
<1>2. CASE Len(values) # 0
  <2>1. 1 \in DOMAIN values
    BY <1>2
  <2>2. /\ Range(values) \in SUBSET Int /\ IsFiniteSet(Range(values)) /\ Range(values) # {}
    BY <2>1, RangeIsFinite DEF Range
  <2>. QED  BY <2>2, DistributionRises
<1>. QED  BY <1>1, <1>2

LEMMA PercentilesFollow == ValidationInv => DistributionsRise
<1>. DEFINE Sample(all, i) == IF i = 1 THEN all ELSE AsOf(all, i - 1)
<1>. SUFFICES ASSUME ValidationInv, NEW r \in Runs, Card(r) # NoRow,
                     NEW i \in DOMAIN Card(r).distributions
              PROVE  LET pnls == Range(Sample(Results(Card(r).manifest.facts), i)) IN
                     Rises(Card(r).distributions[i].percentiles, 100 * Min(pnls), 100 * Max(pnls))
  BY DEF DistributionsRise, Rises
<1>1. PICK given \in Seq(SessionFacts) :
        /\ given = Card(r).manifest.facts /\ Card(r).distributions = Distributions(given)
  BY CardOnRecord, CardFields
<1>2. PICK all \in Seq(Int) : all = Results(given) /\ Len(all) = Len(given)
  BY <1>1, ResultsAreNumbers
<1>3. PICK values \in Seq(Int) :
        Distributions(given)[i] = distribution(values) /\ values = Sample(all, i)
  <2>1. i \in 1..(Len(given) + 1)
    BY <1>1, DistributionsAre
  <2>2. CASE i = 1
    BY <1>2, <2>2, DistributionsAre
  <2>3. CASE i # 1
    <3>1. PICK k \in 1..Len(given) : i = k + 1 /\ k = i - 1
      <4>1. i - 1 \in 1..Len(given) /\ i = (i - 1) + 1
        BY <2>1, <2>3
      <4>. QED  BY <4>1
    <3>2. Distributions(given)[i] = distribution(AsOf(all, k))
      BY <1>2, <3>1, DistributionsAre
    <3>3. AsOf(all, k) \in Seq(Int)
      BY <1>2, <3>1, AsOfIsPart
    <3>. QED  BY <2>3, <3>1, <3>2, <3>3
  <2>. QED  BY <2>2, <2>3
<1>4. Rises(distribution(values).percentiles, 100 * Min(Range(values)), 100 * Max(Range(values)))
  BY DistributionWithin
<1>. QED  BY <1>1, <1>2, <1>3, <1>4

\* The sessions of a scorecard whose sample is broad enough are many, and long.
LEMMA BreadthIsOfSessions ==
  ASSUME NEW card, IsCard(card),
         card.summary.total_sessions >= MinSessions,
         card.summary.total_trades >= MinTrades, Days(card) >= MinDays
  PROVE  BroadEnough(card.manifest.facts)
<1>1. PICK given \in Seq(SessionFacts) :
        /\ given = card.manifest.facts /\ Chronicle(given) /\ card.summary = Summary(given)
        /\ card.first = given[1].day /\ card.last = given[Len(given)].day
  BY CardFields
<1>2. PICK n \in Nat : n = Len(given) /\ DOMAIN given = 1..n /\ IsFiniteSet(1..n)
  BY FS_Interval
<1>3. \A i \in 1..n : ClassifiedOf(given)[i] \in Int /\ TradesOf(given)[i] = ClassifiedOf(given)[i]
  <2>1. \A f \in SessionFacts : f.winning \in Nat /\ f.losing \in Nat /\ f.breakeven \in Nat
    BY DEF SessionFacts
  <2>2. \A i \in 1..n : given[i] \in SessionFacts
    BY <1>2
  <2>3. \A i \in 1..n : given[i].trades = given[i].winning + given[i].losing + given[i].breakeven
    BY <1>1, <1>2 DEF Chronicle, Reconciles
  <2>. QED  BY <1>2, <2>1, <2>2, <2>3 DEF TradesOf, ClassifiedOf
<1>4. SumOf(TradesOf(given), 1..n) = SumOf(ClassifiedOf(given), 1..n)
  BY <1>2, <1>3, SumSame
<1>5. Summary(given).total_trades = Sum(LAMBDA f : f.winning + f.losing + f.breakeven, given)
  BY <1>2, <1>4, SummaryFields, ClassifiedSum
<1>6. Summary(given).total_sessions = Len(given)
  BY SummaryFields
<1>7. /\ Len(given) >= MinSessions /\ given[Len(given)].day - given[1].day + 1 >= MinDays
  BY <1>1, <1>6 DEF Days
<1>8. Sum(LAMBDA f : f.winning + f.losing + f.breakeven, given) >= MinTrades
  BY <1>1, <1>5
<1>. QED  BY <1>1, <1>7, <1>8 DEF BroadEnough

\* What the ledger of an accepted run was made of.
LEMMA AcceptanceFollows == ValidationInv => AcceptanceRestsOnEvidence
<1>. SUFFICES ASSUME ValidationInv, NEW r \in Runs,
                     Decided(r) # NoRow, Decided(r).decision = "ACCEPTED_FOR_LIVE"
              PROVE  /\ Decided(r).confidence = Confidence(r)
                     /\ Decided(r).scorecard = Card(r).manifest
                     /\ BroadEnough(Card(r).manifest.facts)
                     /\ LET e == Confidence(r).evidence
                        IN /\ e.scorecard = Card(r).manifest
                           /\ e.lookahead = 0 /\ e.rth_adherence = 10000
                           /\ Datasets[r].fidelity # "TIER_3_BAR_ONLY"
                           /\ e.oos_sessions >= MinOosSessions /\ e.executions > 0 /\ e.context > 0
                           /\ e.oos # Absent /\ e.in_sample > 0
  BY DEF AcceptanceRestsOnEvidence
<1>1. IsDecision(rows, r, Decided(r))
  BY DEF ValidationInv, RecordSound, RowSound, Kinds, Decided
<1>2. PICK decision, at :
        /\ Decided(r) = DecisionOf(decision, Confidence(r), Card(r), at)
        /\ decision = "ACCEPTED_FOR_LIVE" => Confidence(r).hard_gate_passed
  BY <1>1 DEF IsDecision, Confidence, Card
<1>3. /\ Decided(r).confidence = Confidence(r) /\ Decided(r).scorecard = Card(r).manifest
      /\ Confidence(r).hard_gate_passed
  BY <1>2 DEF DecisionOf
<1>4. Card(r) # NoRow /\ Confidence(r) # NoRow
  BY <1>1 DEF IsDecision, Card, Confidence
<1>5. IsCard(Card(r))
  BY <1>4, CardOnRecord
<1>6. IsLedger(rows, r, Confidence(r))
  BY <1>4 DEF ValidationInv, RecordSound, RowSound, Kinds, Confidence
<1>7. PICK e \in Evidences, when \in Times : Confidence(r) = Ledger(r, Card(r), e, when)
  BY <1>6 DEF IsLedger, Card
<1>8. LedgerSays(Confidence(r), r, Card(r), e)
  BY <1>5, <1>7, LedgerFields
<1>9. Confidence(r).evidence = e
  BY <1>8 DEF LedgerSays
<1>10. LET gates == HardGates(r, Card(r), e, Factors(Card(r), Datasets[r].fidelity, e))
       IN  \A g \in DOMAIN gates : gates[g]
  BY <1>3, <1>8 DEF LedgerSays
<1>11. /\ Card(r).summary.total_sessions >= MinSessions
       /\ Card(r).summary.total_trades >= MinTrades /\ Days(Card(r)) >= MinDays
       /\ Causal(e) /\ LineageVerified(r, Card(r), e)
       /\ Datasets[r].fidelity # "TIER_3_BAR_ONLY"
       /\ e.oos_sessions >= MinOosSessions /\ PositiveBaseline(e)
       /\ e.executions # 0 /\ e.oos # Absent /\ e.context # 0
  BY <1>10, GatesPassed
<1>12. e.executions > 0 /\ e.context > 0
  BY <1>11, EvidenceTypes
<1>13. /\ e.scorecard = Card(r).manifest /\ e.lookahead = 0 /\ e.rth_adherence = 10000
       /\ e.in_sample > 0
  BY <1>11 DEF Causal, LineageVerified, PositiveBaseline
<1>14. BroadEnough(Card(r).manifest.facts)
  BY <1>5, <1>11, BreadthIsOfSessions
<1>. QED  BY <1>3, <1>9, <1>11, <1>12, <1>13, <1>14

\* Whatever callers evaluate and decide at the same time, of whatever sessions,
\* evidence and clocks: what a caller was told is what is on record ever after,
\* a session's standing as of its day owes nothing to later sessions, the
\* percentiles of a distribution rise within the results it may look at, a run
\* is eligible by its score and its gates, and one accepted for live trading
\* has the evidence its ledger claims.
THEOREM AnswersAlwaysHold == ValidationSpec => []AnswersHold
<1>1. ValidationInv => AnswersAreOnRecord
  BY DEF ValidationInv, AnswersAreOnRecord
<1>2. ValidationInv => AnswersHold
  BY <1>1, TypesFollow, StandingsFollow, PercentilesFollow, AcceptanceFollows DEF AnswersHold
<1>3. ValidationSpec => []ValidationInv
  BY ValidationStarts, ValidationStep, PTL DEF ValidationSpec
<1>. QED  BY <1>2, <1>3, PTL

-----------------------------------------------------------------------------
(* Trade removal: the drawdown. *)

NoCurve == [equity |-> 0, peak |-> 0, worst |-> 0]
Fall(change, curve) ==
  LET equity == curve.equity + change
      peak == Max({curve.peak, equity})
  IN [equity |-> equity, peak |-> peak, worst |-> Max({curve.worst, peak - equity})]

\* The curve of the closes of a set, and the function MapThenFoldSet defines of it.
IsCurve(g, pnl, S) ==
  g = [T \in SUBSET S |-> IF T = {} THEN NoCurve ELSE Fall(pnl[Max(T)], g[T \ {Max(T)}])]
CurveFn(pnl, S) == CHOOSE g : IsCurve(g, pnl, S)
Curve(pnl, S) == CurveFn(pnl, S)[S]

LEMMA DrawdownIs == ASSUME NEW pnl, NEW S PROVE MaxDrawdown(pnl, S) = Curve(pnl, S).worst
BY DEF MaxDrawdown, MapThenFoldSet, Curve, CurveFn, IsCurve, Fall, NoCurve

\* A set of closes has a last one.
LEMMA LastClose ==
  ASSUME NEW S \in SUBSET Nat, IsFiniteSet(S), NEW T \in SUBSET S, T # {}
  PROVE  Max(T) \in T /\ \A t \in T : t <= Max(T)
<1>1. IsFiniteSet(T)
  BY FS_Subset
<1>2. T \in SUBSET Int
  OBVIOUS
<1>. QED  BY <1>1, <1>2, MaxIsLargest

LEMMA CurveFnExists ==
  ASSUME NEW pnl, NEW S \in SUBSET Nat, IsFiniteSet(S) PROVE IsCurve(CurveFn(pnl, S), pnl, S)
<1>. DEFINE Sub(n) == {T \in SUBSET S : Cardinality(T) <= n}
            Def(g, n) == g = [T \in Sub(n) |->
              IF T = {} THEN NoCurve ELSE Fall(pnl[Max(T)], g[T \ {Max(T)}])]
            N == {n \in Nat : \E g : Def(g, n)}
<1>1. \A T \in SUBSET S : IsFiniteSet(T) /\ Cardinality(T) \in Nat
                          /\ Cardinality(T) <= Cardinality(S)
  BY FS_Subset, FS_CardinalityType
<1>2. Sub(0) = {{}}
  BY <1>1, FS_EmptySet
<1>3. 0 \in N
  <2>. DEFINE g == [T \in Sub(0) |-> NoCurve]
  <2>1. Def(g, 0)
    BY <1>2
  <2>. QED  BY <2>1
<1>4. ASSUME NEW n \in Nat, n \in N PROVE n + 1 \in N
  <2>1. PICK g : Def(g, n)
    BY <1>4
  <2>. DEFINE R(T) == Fall(pnl[Max(T)], g[T \ {Max(T)}])
              h == [T \in Sub(n + 1) |-> IF T = {} THEN NoCurve ELSE R(T)]
  <2>2. ASSUME NEW T \in Sub(n + 1), T # {}, NEW x \in T
        PROVE  T \ {x} \in Sub(n)
    BY <1>1, <2>2, FS_RemoveElement
  <2>3. ASSUME NEW T \in Sub(n) PROVE T \in Sub(n + 1) /\ h[T] = g[T]
    <3>1. T \in Sub(n + 1)
      BY <1>1
    <3>2. g[T] = IF T = {} THEN NoCurve ELSE R(T)
      BY <2>1, <2>3
    <3>3. h[T] = IF T = {} THEN NoCurve ELSE R(T)
      BY <3>1
    <3>. QED  BY <3>1, <3>2, <3>3
  <2>4. ASSUME NEW T \in Sub(n + 1), T # {}
        PROVE  h[T] = Fall(pnl[Max(T)], h[T \ {Max(T)}])
    <3>1. Max(T) \in T
      BY <2>4, LastClose
    <3>2. h[T \ {Max(T)}] = g[T \ {Max(T)}]
      BY <3>1, <2>2, <2>3, <2>4
    <3>3. h[T] = Fall(pnl[Max(T)], g[T \ {Max(T)}])
      BY <2>4
    <3>. QED  BY <3>2, <3>3
  <2>5. \A T \in Sub(n + 1) : h[T] = IF T = {} THEN NoCurve
                                     ELSE Fall(pnl[Max(T)], h[T \ {Max(T)}])
    BY <2>4
  <2>6. Def(h, n + 1)
    <3>. DEFINE k == [T \in Sub(n + 1) |->
                        IF T = {} THEN NoCurve ELSE Fall(pnl[Max(T)], h[T \ {Max(T)}])]
    <3>1. \A T \in Sub(n + 1) : h[T] = k[T]
      BY <2>5
    <3>2. h = k
      BY <3>1
    <3>. QED  BY <3>2
  <2>. HIDE DEF h, Def
  <2>. QED  BY <2>6
<1>. HIDE DEF N
<1>5. Cardinality(S) \in N
  BY <1>1, <1>3, <1>4, NatReached
<1>6. Sub(Cardinality(S)) = SUBSET S
  BY <1>1
<1>7. \E g : IsCurve(g, pnl, S)
  BY <1>5, <1>6 DEF N, IsCurve
<1>. QED  BY <1>7 DEF CurveFn

LEMMA CurveFnIs ==
  ASSUME NEW pnl, NEW S \in SUBSET Nat, IsFiniteSet(S), NEW T \in SUBSET S
  PROVE  /\ T = {} => CurveFn(pnl, S)[T] = NoCurve
         /\ T # {} => CurveFn(pnl, S)[T] = Fall(pnl[Max(T)], CurveFn(pnl, S)[T \ {Max(T)}])
<1>1. ASSUME NEW g, IsCurve(g, pnl, S)
      PROVE  /\ T = {} => g[T] = NoCurve
             /\ T # {} => g[T] = Fall(pnl[Max(T)], g[T \ {Max(T)}])
  BY <1>1 DEF IsCurve
<1>. QED  BY <1>1, CurveFnExists

\* Numbers of a curve: it is never above its peak, and its fall never beyond the
\* worst.
IsPoint(c) ==
  /\ c.equity \in Int /\ c.peak \in Int /\ c.worst \in Int
  /\ 0 <= c.peak - c.equity /\ c.peak - c.equity <= c.worst

LEMMA MaxOfPair == ASSUME NEW a \in Int, NEW b \in Int PROVE Max({a, b}) = IF a >= b THEN a ELSE b
<1>. DEFINE m == IF a >= b THEN a ELSE b
<1>1. m \in {a, b} /\ \A y \in {a, b} : m >= y
  OBVIOUS
<1>2. \A z \in {a, b} : (\A y \in {a, b} : z >= y) => z = m
  OBVIOUS
<1>. HIDE DEF m
<1>3. Max({a, b}) = m
  BY <1>1, <1>2 DEF Max
<1>. QED  BY <1>3 DEF m

LEMMA FallIs ==
  ASSUME NEW x \in Int, NEW c, IsPoint(c)
  PROVE  LET down == c.peak - c.equity
             deep == IF down >= x THEN down - x ELSE 0
             after == Fall(x, c)
         IN /\ IsPoint(after) /\ after.peak - after.equity = deep
            /\ after.worst = IF c.worst >= deep THEN c.worst ELSE deep
<1>1. PICK e \in Int, p \in Int, w \in Int :
        e = c.equity /\ p = c.peak /\ w = c.worst /\ 0 <= p - e /\ p - e <= w
  BY DEF IsPoint
<1>2. PICK q \in Int : q = IF p >= e + x THEN p ELSE e + x
  BY <1>1
<1>3. Max({p, e + x}) = q
  BY <1>1, <1>2, MaxOfPair
<1>4. PICK v \in Int : v = IF w >= q - (e + x) THEN w ELSE q - (e + x)
  BY <1>1, <1>2
<1>5. Max({w, q - (e + x)}) = v
  BY <1>1, <1>2, <1>4, MaxOfPair
<1>6. Fall(x, c) = [equity |-> e + x, peak |-> q, worst |-> v]
  BY <1>1, <1>3, <1>5 DEF Fall
<1>7. /\ Fall(x, c).equity = e + x /\ Fall(x, c).peak = q /\ Fall(x, c).worst = v
  BY <1>6
<1>. QED  BY <1>1, <1>2, <1>4, <1>7 DEF IsPoint

-----------------------------------------------------------------------------
(* Trade removal: the two curves. *)

Down(c) == c.peak - c.equity

\* The curve falls no deeper, and has fallen no deeper.
NoDeeper(c, d) == Down(c) <= Down(d) /\ c.worst <= d.worst

LEMMA SizedIsNotEmpty == ASSUME NEW T, NEW n \in Nat, Cardinality(T) = n + 1 PROVE T # {}
<1>1. Cardinality({}) = 0
  BY FS_EmptySet
<1>2. ASSUME T = {} PROVE FALSE
  <2>1. Cardinality(T) = 0
    BY <1>1, <1>2, Zenon
  <2>. QED  BY <2>1
<1>. QED  BY <1>2

LEMMA OneLess ==
  ASSUME NEW T, IsFiniteSet(T), NEW n \in Nat, Cardinality(T) = n + 1, NEW m \in T
  PROVE  Cardinality(T \ {m}) = n
<1>1. Cardinality(T \ {m}) = Cardinality(T) - 1
  BY FS_RemoveElement
<1>. QED  BY <1>1

LEMMA CurveIsPoint ==
  ASSUME NEW S \in SUBSET Nat, IsFiniteSet(S), NEW pnl, \A t \in S : pnl[t] \in Int
  PROVE  \A T \in SUBSET S : IsPoint(CurveFn(pnl, S)[T])
<1>. DEFINE N == {n \in Nat : \A T \in SUBSET S :
                    Cardinality(T) = n => IsPoint(CurveFn(pnl, S)[T])}
<1>1. \A T \in SUBSET S : IsFiniteSet(T) /\ Cardinality(T) \in Nat
  BY FS_Subset, FS_CardinalityType
<1>2. 0 \in N
  <2>1. \A T \in SUBSET S : Cardinality(T) = 0 => T = {}
    BY <1>1, FS_EmptySet
  <2>2. IsPoint(NoCurve)
    BY DEF IsPoint, NoCurve
  <2>. QED  BY <2>1, <2>2, CurveFnIs
<1>3. ASSUME NEW n \in Nat, n \in N PROVE n + 1 \in N
  <2>1. SUFFICES ASSUME NEW T \in SUBSET S, Cardinality(T) = n + 1
                 PROVE  IsPoint(CurveFn(pnl, S)[T])
    OBVIOUS
  <2>2. T # {}
    BY <2>1, SizedIsNotEmpty
  <2>3. Max(T) \in T /\ pnl[Max(T)] \in Int
    BY <2>2, LastClose
  <2>4. Cardinality(T \ {Max(T)}) = n
    BY <1>1, <2>1, <2>3, FS_RemoveElement
  <2>5. IsPoint(CurveFn(pnl, S)[T \ {Max(T)}])
    BY <1>3, <2>4
  <2>. QED  BY <2>2, <2>3, <2>5, CurveFnIs, FallIs
<1>. HIDE DEF N
<1>4. \A n \in Nat : n \in N
  BY <1>2, <1>3, NatReached
<1>. QED  BY <1>1, <1>4 DEF N

\* A step keeps the order of two curves; a loss alone deepens one of them, and a
\* profit alone does not.
LEMMA FallsCompare ==
  ASSUME NEW x \in Int, NEW c, NEW d, IsPoint(c), IsPoint(d), NoDeeper(c, d)
  PROVE  /\ NoDeeper(Fall(x, c), Fall(x, d))
         /\ x <= 0 => NoDeeper(c, Fall(x, d))
         /\ x >= 0 => NoDeeper(Fall(x, c), d)
<1>. DEFINE a == Fall(x, c)
            b == Fall(x, d)
<1>1. PICK p \in Int, q \in Int, v \in Int, w \in Int :
        /\ p = Down(c) /\ q = Down(d) /\ v = c.worst /\ w = d.worst
        /\ 0 <= p /\ p <= v /\ 0 <= q /\ q <= w /\ p <= q /\ v <= w
  BY DEF IsPoint, NoDeeper, Down
<1>2. /\ Down(a) = IF p >= x THEN p - x ELSE 0
      /\ a.worst = IF v >= Down(a) THEN v ELSE Down(a)
  BY <1>1, FallIs DEF Down
<1>3. /\ Down(b) = IF q >= x THEN q - x ELSE 0
      /\ b.worst = IF w >= Down(b) THEN w ELSE Down(b)
  BY <1>1, FallIs DEF Down
<1>. HIDE DEF a, b
<1>4. Down(a) \in Int /\ Down(b) \in Int
  BY <1>1, <1>2, <1>3
<1>5. Down(a) <= Down(b) /\ a.worst <= b.worst
  BY <1>1, <1>2, <1>3, <1>4
<1>6. x <= 0 => Down(c) <= Down(b) /\ c.worst <= b.worst
  BY <1>1, <1>3, <1>4
<1>7. x >= 0 => Down(a) <= Down(d) /\ a.worst <= d.worst
  BY <1>1, <1>2, <1>4
<1>. QED  BY <1>5, <1>6, <1>7 DEF NoDeeper, a, b

LEMMA CurvesCompare ==
  ASSUME NEW S \in SUBSET Nat, IsFiniteSet(S), NEW pnl, \A t \in S : pnl[t] \in Int,
         NEW R \in SUBSET S
  PROVE  /\ (\A t \in R : pnl[t] <= 0) => NoDeeper(CurveFn(pnl, S)[S \ R], CurveFn(pnl, S)[S])
         /\ (\A t \in R : pnl[t] >= 0) => NoDeeper(CurveFn(pnl, S)[S], CurveFn(pnl, S)[S \ R])
<1>. DEFINE F == CurveFn(pnl, S)
            Fine(T) == /\ (\A t \in R : pnl[t] <= 0) => NoDeeper(F[T \ R], F[T])
                       /\ (\A t \in R : pnl[t] >= 0) => NoDeeper(F[T], F[T \ R])
            N == {n \in Nat : \A T \in SUBSET S : Cardinality(T) = n => Fine(T)}
<1>1. \A T \in SUBSET S : IsFiniteSet(T) /\ Cardinality(T) \in Nat
  BY FS_Subset, FS_CardinalityType
<1>2. \A T \in SUBSET S : IsPoint(F[T])
  BY CurveIsPoint
<1>3. \A T \in SUBSET S : T # {} => F[T] = Fall(pnl[Max(T)], F[T \ {Max(T)}])
  BY CurveFnIs
<1>. HIDE DEF F
<1>4. 0 \in N
  <2>1. \A T \in SUBSET S : Cardinality(T) = 0 => T = {}
    BY <1>1, FS_EmptySet
  <2>2. ASSUME NEW T \in SUBSET S, T = {} PROVE Fine(T)
    <3>1. T \ R = T /\ NoDeeper(F[T], F[T])
      BY <1>2, <2>2 DEF NoDeeper, Down, IsPoint
    <3>. QED  BY <3>1
  <2>. QED  BY <2>1, <2>2
<1>5. ASSUME NEW n \in Nat, n \in N PROVE n + 1 \in N
  <2>1. SUFFICES ASSUME NEW T \in SUBSET S, Cardinality(T) = n + 1 PROVE Fine(T)
    <3>. HIDE DEF Fine
    <3>. QED  OBVIOUS
  <2>. DEFINE m == Max(T)
              U == T \ {m}
              x == pnl[m]
  <2>2. T # {}
    BY <2>1, SizedIsNotEmpty
  <2>3. m \in T /\ x \in Int /\ \A t \in T : t <= m
    BY <2>2, LastClose
  <2>4. Cardinality(U) = n /\ U \in SUBSET S
    <3>1. IsFiniteSet(T) /\ m \in T
      BY <1>1, <2>3
    <3>. QED  BY <2>1, <3>1, OneLess
  <2>5. Fine(U)
    BY <1>5, <2>4
  <2>6. /\ F[T] = Fall(x, F[U]) /\ IsPoint(F[U]) /\ IsPoint(F[U \ R])
        /\ U \ R \in SUBSET S
    BY <1>2, <1>3, <2>2, <2>4
  <2>7. CASE m \in R
    <3>1. T \ R = U \ R
      BY <2>7
    <3>. HIDE DEF m, U
    <3>2. (\A t \in R : pnl[t] <= 0) => NoDeeper(F[U \ R], Fall(x, F[U]))
      BY <2>3, <2>5, <2>6, <2>7, FallsCompare
    <3>3. (\A t \in R : pnl[t] >= 0) => NoDeeper(Fall(x, F[U]), F[U \ R])
      BY <2>3, <2>5, <2>6, <2>7, FallsCompare
    <3>. QED  BY <2>6, <3>1, <3>2, <3>3
  <2>8. CASE m \notin R
    <3>1. T \ R # {} /\ T \ R \in SUBSET S /\ m \in T \ R
      BY <2>3, <2>8
    <3>2. Max(T \ R) \in T \ R /\ \A t \in T \ R : t <= Max(T \ R)
      BY <3>1, LastClose
    <3>3. m \in Int /\ Max(T \ R) \in Int
      <4>. HIDE DEF m
      <4>. DEFINE k == Max(T \ R)
      <4>1. m \in S /\ k \in S
        BY <3>1, <3>2
      <4>. HIDE DEF k
      <4>2. m \in Int /\ k \in Int
        BY <4>1
      <4>. QED  BY <4>2 DEF k
    <3>4. Max(T \ R) = m
      <4>. HIDE DEF m
      <4>. QED  BY <2>3, <3>1, <3>2, <3>3
    <3>5. (T \ R) \ {m} = U \ R
      BY <2>8
    <3>6. F[T \ R] = Fall(x, F[U \ R])
      BY <1>3, <3>1, <3>4, <3>5
    <3>. HIDE DEF m, U
    <3>7. (\A t \in R : pnl[t] <= 0) => NoDeeper(Fall(x, F[U \ R]), Fall(x, F[U]))
      BY <2>3, <2>5, <2>6, FallsCompare
    <3>8. (\A t \in R : pnl[t] >= 0) => NoDeeper(Fall(x, F[U]), Fall(x, F[U \ R]))
      BY <2>3, <2>5, <2>6, FallsCompare
    <3>. QED  BY <2>6, <3>6, <3>7, <3>8
  <2>. QED  BY <2>7, <2>8
<1>. HIDE DEF N
<1>6. Cardinality(S) \in N
  BY <1>1, <1>4, <1>5, NatReached
<1>7. Fine(S)
  BY <1>1, <1>6 DEF N
<1>. QED  BY <1>7 DEF F

\* The curve of some closes is that of their own.
LEMMA CurveRestricts ==
  ASSUME NEW pnl, NEW S \in SUBSET Nat, IsFiniteSet(S), NEW U \in SUBSET S
  PROVE  CurveFn(pnl, S)[U] = Curve(pnl, U)
<1>. DEFINE F == CurveFn(pnl, S)
            G == CurveFn(pnl, U)
            N == {n \in Nat : \A T \in SUBSET U : Cardinality(T) = n => F[T] = G[T]}
<1>0. IsFiniteSet(U) /\ U \in SUBSET Nat
  BY FS_Subset
<1>1. \A T \in SUBSET U : IsFiniteSet(T) /\ Cardinality(T) \in Nat
  BY <1>0, FS_Subset, FS_CardinalityType
<1>2. \A T \in SUBSET U : /\ T = {} => F[T] = NoCurve
                          /\ T # {} => F[T] = Fall(pnl[Max(T)], F[T \ {Max(T)}])
  <2>. TAKE T \in SUBSET U
  <2>1. T \in SUBSET S
    OBVIOUS
  <2>. QED  BY <2>1, CurveFnIs
<1>3. \A T \in SUBSET U : /\ T = {} => G[T] = NoCurve
                          /\ T # {} => G[T] = Fall(pnl[Max(T)], G[T \ {Max(T)}])
  BY <1>0, CurveFnIs
<1>. HIDE DEF F, G
<1>4. 0 \in N
  <2>1. \A T \in SUBSET U : Cardinality(T) = 0 => T = {}
    BY <1>1, FS_EmptySet
  <2>. QED  BY <1>2, <1>3, <2>1
<1>5. ASSUME NEW n \in Nat, n \in N PROVE n + 1 \in N
  <2>1. SUFFICES ASSUME NEW T \in SUBSET U, Cardinality(T) = n + 1 PROVE F[T] = G[T]
    OBVIOUS
  <2>2. T # {}
    BY <2>1, SizedIsNotEmpty
  <2>3. Max(T) \in T
    BY <1>0, <2>2, LastClose
  <2>4. Cardinality(T \ {Max(T)}) = n
    BY <1>1, <2>1, <2>3, FS_RemoveElement
  <2>5. F[T \ {Max(T)}] = G[T \ {Max(T)}]
    BY <1>5, <2>4
  <2>. QED  BY <1>2, <1>3, <2>2, <2>5
<1>. HIDE DEF N
<1>6. Cardinality(U) \in N
  BY <1>1, <1>4, <1>5, NatReached
<1>7. F[U] = G[U]
  BY <1>1, <1>6 DEF N
<1>. QED  BY <1>7 DEF F, G, Curve

\* What taking out closes does to the drawdown.
LEMMA DrawdownsFollow ==
  ASSUME NEW S \in SUBSET Nat, IsFiniteSet(S), NEW pnl, \A t \in S : pnl[t] \in Int,
         NEW R \in SUBSET S
  PROVE  /\ MaxDrawdown(pnl, S) \in Nat /\ MaxDrawdown(pnl, S \ R) \in Nat
         /\ (\A t \in R : pnl[t] <= 0) => MaxDrawdown(pnl, S \ R) <= MaxDrawdown(pnl, S)
         /\ (\A t \in R : pnl[t] >= 0) => MaxDrawdown(pnl, S \ R) >= MaxDrawdown(pnl, S)
<1>. DEFINE F == CurveFn(pnl, S)
<1>1. S \ R \in SUBSET S /\ S \in SUBSET S
  OBVIOUS
<1>2. MaxDrawdown(pnl, S) = F[S].worst /\ MaxDrawdown(pnl, S \ R) = F[S \ R].worst
  BY <1>1, DrawdownIs, CurveRestricts
<1>3. IsPoint(F[S]) /\ IsPoint(F[S \ R])
  BY <1>1, CurveIsPoint
<1>4. /\ (\A t \in R : pnl[t] <= 0) => NoDeeper(F[S \ R], F[S])
      /\ (\A t \in R : pnl[t] >= 0) => NoDeeper(F[S], F[S \ R])
  BY CurvesCompare
<1>. HIDE DEF F
<1>. QED  BY <1>2, <1>3, <1>4 DEF NoDeeper, IsPoint

-----------------------------------------------------------------------------
(* Trade removal: losses, profits and counts as sums. *)

Loss(x) == IF x < 0 THEN -x ELSE 0
Gain(x) == IF x > 0 THEN x ELSE 0

LEMMA SizeIsSum ==
  ASSUME NEW S, IsFiniteSet(S) PROVE Cardinality(S) = SumOf([t \in S |-> 1], S)
<1>. DEFINE one == [t \in S |-> 1]
            P == {T \in SUBSET S : Cardinality(T) = SumOf(one, T)}
<1>1. {} \in P
  BY FS_EmptySet, SumEmpty
<1>2. ASSUME NEW T \in SUBSET S, NEW x \in S \ T, T \in P PROVE T \cup {x} \in P
  <2>1. IsFiniteSet(T)
    BY FS_Subset
  <2>2. Cardinality(T \cup {x}) = Cardinality(T) + 1
    BY <2>1, FS_AddElement
  <2>3. one[x] = 1 /\ \A t \in S : one[t] \in Int
    OBVIOUS
  <2>. HIDE DEF one
  <2>4. SumOf(one, T \cup {x}) = SumOf(one, T) + one[x]
    BY <2>3, SumAdds
  <2>5. Cardinality(T \cup {x}) = SumOf(one, T \cup {x})
    BY <1>2, <2>2, <2>3, <2>4
  <2>. QED  BY <2>5
<1>. HIDE DEF P
<1>3. S \in P
  BY <1>1, <1>2, SetReached
<1>. QED  BY <1>3 DEF P

\* The losses and the profits of a set of closes, of integers.
LEMMA MoneyIs ==
  ASSUME NEW S, IsFiniteSet(S), NEW pnl, \A t \in S : pnl[t] \in Int
  PROVE  LET loss == SumOf([t \in S |-> Loss(pnl[t])], S)
             gain == SumOf([t \in S |-> Gain(pnl[t])], S)
         IN /\ loss \in Nat /\ gain \in Nat
            /\ Avoided(pnl, S) = loss /\ Forfeited(pnl, S) = gain
            /\ Realized(pnl, S) = gain - loss
<1>. DEFINE l == [t \in S |-> Loss(pnl[t])]
            g == [t \in S |-> Gain(pnl[t])]
            L == {t \in S : pnl[t] < 0}
            G == {t \in S : pnl[t] > 0}
<1>1. \A t \in S : l[t] = Loss(pnl[t]) /\ g[t] = Gain(pnl[t])
  OBVIOUS
<1>2. \A t \in S : l[t] \in Nat /\ g[t] \in Nat /\ g[t] = pnl[t] + l[t]
  BY <1>1 DEF Loss, Gain
<1>3. /\ \A t \in L : l[t] + pnl[t] = 0 /\ pnl[t] \in Int
      /\ \A t \in S \ L : l[t] = 0
      /\ \A t \in G : pnl[t] = g[t]
      /\ \A t \in S \ G : g[t] = 0
  BY <1>1 DEF Loss, Gain
<1>4. L \in SUBSET S /\ G \in SUBSET S
  OBVIOUS
<1>. HIDE DEF l, g, L, G
<1>5. IsFiniteSet(L) /\ IsFiniteSet(G) /\ IsFiniteSet(S \ L) /\ IsFiniteSet(S \ G)
  BY <1>4, FS_Subset, FS_Difference
<1>6. SumOf(l, S) \in Nat /\ SumOf(g, S) \in Nat
  BY <1>2, SumIsNat
<1>7. SumOf(g, S) = SumOf(pnl, S) + SumOf(l, S)
  BY <1>2, SumPlus
<1>8. SumOf(l, S) = SumOf(l, L) + SumOf(l, S \ L) /\ SumOf(l, S \ L) = 0
  <2>1. \A t \in S : l[t] \in Int
    BY <1>2
  <2>2. SumOf(l, S) = SumOf(l, L) + SumOf(l, S \ L)
    BY <1>4, <2>1, SumParts
  <2>3. SumOf(l, S \ L) = 0
    BY <1>3, <1>5, SumOfZeros
  <2>. QED  BY <2>2, <2>3
<1>9. SumOf(g, S) = SumOf(g, G) + SumOf(g, S \ G) /\ SumOf(g, S \ G) = 0
  <2>1. \A t \in S : g[t] \in Int
    BY <1>2
  <2>2. SumOf(g, S) = SumOf(g, G) + SumOf(g, S \ G)
    BY <1>4, <2>1, SumParts
  <2>3. SumOf(g, S \ G) = 0
    BY <1>3, <1>5, SumOfZeros
  <2>. QED  BY <2>2, <2>3
<1>10. SumOf(pnl, G) = SumOf(g, G)
  BY <1>2, <1>3, <1>4, <1>5, SumSame
<1>11. SumOf(l, L) + SumOf(pnl, L) = 0
  <2>. DEFINE z == [t \in L |-> 0]
  <2>1. \A t \in L : z[t] = 0 /\ z[t] = l[t] + pnl[t] /\ l[t] \in Int /\ pnl[t] \in Int
    BY <1>2, <1>3, <1>4
  <2>. HIDE DEF z
  <2>2. SumOf(z, L) = SumOf(l, L) + SumOf(pnl, L) /\ SumOf(z, L) = 0
    BY <1>5, <2>1, SumPlus, SumOfZeros
  <2>. QED  BY <2>2
<1>12. /\ Avoided(pnl, S) = -SumOf(pnl, L) /\ Forfeited(pnl, S) = SumOf(pnl, G)
       /\ Realized(pnl, S) = SumOf(pnl, S)
  BY DEF Avoided, Forfeited, Realized, SumOf, L, G
<1>13. SumOf(pnl, L) \in Int /\ SumOf(pnl, S) \in Int /\ SumOf(l, L) \in Int /\ SumOf(g, G) \in Int
  BY <1>2, <1>4, <1>5, SumIsInt
<1>14. /\ Avoided(pnl, S) = SumOf(l, S) /\ Forfeited(pnl, S) = SumOf(g, S)
       /\ Realized(pnl, S) = SumOf(g, S) - SumOf(l, S)
  <2>. DEFINE av == Avoided(pnl, S)
              fo == Forfeited(pnl, S)
              re == Realized(pnl, S)
              ls == SumOf(l, S)
              gs == SumOf(g, S)
              ll == SumOf(l, L)
              gg == SumOf(g, G)
              pl == SumOf(pnl, L)
              pg == SumOf(pnl, G)
              ps == SumOf(pnl, S)
  <2>1. /\ ls \in Int /\ gs \in Int /\ pl \in Int /\ ps \in Int /\ ll \in Int /\ gg \in Int
        /\ gs = ps + ls /\ pg = gg /\ ll + pl = 0 /\ av = -pl /\ fo = pg /\ re = ps
    BY <1>6, <1>7, <1>10, <1>11, <1>12, <1>13
  <2>2. ls = ll + 0 /\ gs = gg + 0
    BY <1>8, <1>9
  <2>. HIDE DEF av, fo, re, ls, gs, ll, gg, pl, pg, ps
  <2>3. av = ls /\ fo = gs /\ re = gs - ls
    BY <2>1, <2>2
  <2>. QED  BY <2>3 DEF av, fo, re, ls, gs
<1>. QED  BY <1>6, <1>14 DEF l, g

\* A share of k, rounded, is none or up to k of them.
LEMMA ShareOf ==
  ASSUME NEW k \in Nat, NEW a \in Nat, NEW n \in Nat, a <= n, n > 0
  PROVE  LET x == k * a
             q == x \div n
             rest == 2 * (x % n)
         IN (IF rest > n \/ (rest = n /\ q % 2 = 1) THEN q + 1 ELSE q) \in 0..k
<1>1. PICK x \in Nat, y \in Nat : x = k * a /\ y = k * n /\ x <= y
  <2>1. PICK d \in Nat : n = a + d
    <3>1. n - a \in Nat /\ n = a + (n - a)
      OBVIOUS
    <3>. QED  BY <3>1
  <2>2. k * n = k * a + k * d /\ k * a \in Nat /\ k * d \in Nat
    BY <2>1
  <2>. QED  BY <2>2
<1>2. PICK q \in Nat, r \in 0..(n - 1) : q = x \div n /\ r = x % n /\ x = n * q + r
  BY <1>1, Divided
<1>3. ASSUME q > k PROVE FALSE
  <2>1. PICK d \in Nat : q = (k + 1) + d
    <3>1. q - (k + 1) \in Nat /\ q = (k + 1) + (q - (k + 1))
      BY <1>3
    <3>. QED  BY <3>1
  <2>2. n * q = (k * n + n) + n * d /\ n * d \in Nat
    BY <2>1
  <2>. QED  BY <1>1, <1>2, <2>2
<1>4. ASSUME q = k PROVE r = 0
  <2>1. n * q = k * n
    BY <1>4
  <2>. QED  BY <1>1, <1>2, <2>1
<1>5. (IF 2 * r > n \/ (2 * r = n /\ q % 2 = 1) THEN q + 1 ELSE q) \in 0..k
  BY <1>2, <1>3, <1>4
<1>. QED  BY <1>1, <1>2, <1>5

\* A precision, in hundredths of a percent.
InRange(x) == x \in 0..10000

LEMMA PrecisionIs ==
  ASSUME NEW S, IsFiniteSet(S), NEW pnl PROVE InRange(Precision(pnl, S))
<1>. DEFINE L == {t \in S : pnl[t] < 0}
<1>1. PICK a \in Nat, n \in Nat : a = Cardinality(L) /\ n = Cardinality(S) /\ a <= n
  <2>1. L \in SUBSET S
    OBVIOUS
  <2>. QED  BY <2>1, FS_Subset, FS_CardinalityType
<1>2. CASE n = 0
  <2>1. Precision(pnl, S) = 0
    BY <1>1, <1>2 DEF Precision
  <2>2. InRange(0)
    BY DEF InRange
  <2>. QED  BY <2>1, <2>2
<1>3. CASE n > 0
  <2>. DEFINE whole == 10000
  <2>1. Precision(pnl, S) = LET x == whole * a
                                q == x \div n
                                rest == 2 * (x % n)
                            IN IF rest > n \/ (rest = n /\ q % 2 = 1) THEN q + 1 ELSE q
    BY <1>1, <1>3 DEF Precision
  <2>2. whole \in Nat /\ \A x : InRange(x) = (x \in 0..whole)
    BY DEF InRange
  <2>. HIDE DEF whole
  <2>3. Precision(pnl, S) \in 0..whole
    BY <1>1, <1>3, <2>1, <2>2, ShareOf
  <2>. QED  BY <2>2, <2>3
<1>. QED  BY <1>1, <1>2, <1>3

-----------------------------------------------------------------------------
(* Trade removal: a study as what its facts make of it. *)

InTime(ops, t) == {o \in ops[t] : CausalValid(o)}
Vetoes(ops, t) == {o \in InTime(ops, t) : o.opinion = "WOULD_HAVE_VETOED"}
Removed(ops) == {t \in DOMAIN ops : Vetoes(ops, t) # {}}

SlicesOf(pnl, ops) ==
  LET removed == Removed(ops)
      codes == {o.reason : o \in UNION {Vetoes(ops, t) : t \in removed}}
  IN [c \in codes |-> Slice(pnl, {t \in removed : \E o \in Vetoes(ops, t) : o.reason = c})]

StudyOf(s, pnl, ops) ==
  LET pop == DOMAIN ops
      removed == Removed(ops)
      kept == pop \ removed
  IN [sample |-> s, pnl |-> pnl, opinions |-> ops,
      trades |-> Cardinality(pop),
      evaluated |-> Cardinality({t \in pop : InTime(ops, t) # {}}),
      excluded |-> Cardinality({t \in pop : ops[t] # InTime(ops, t)}),
      vetoes |-> Cardinality(removed),
      losing |-> Cardinality({t \in removed : pnl[t] < 0}),
      winning |-> Cardinality({t \in removed : pnl[t] > 0}),
      breakeven |-> Cardinality({t \in removed : pnl[t] = 0}),
      baseline |-> Realized(pnl, pop), counterfactual |-> Realized(pnl, kept),
      avoided |-> Avoided(pnl, removed), forfeited |-> Forfeited(pnl, removed),
      alpha |-> Avoided(pnl, removed) - Forfeited(pnl, removed),
      precision |-> Precision(pnl, removed),
      drawdown |-> MaxDrawdown(pnl, pop), counterfactual_drawdown |-> MaxDrawdown(pnl, kept),
      slices |-> SlicesOf(pnl, ops)]

\* Closes with their money and at most one opinion each.
Grounded(pnl, ops) ==
  /\ DOMAIN ops \in SUBSET Closings /\ IsFiniteSet(DOMAIN ops)
  /\ \A t \in DOMAIN ops : pnl[t] \in Int /\ \A o, p \in ops[t] : o = p

IsStudy(d) == Grounded(d.pnl, d.opinions) /\ d = StudyOf(d.sample, d.pnl, d.opinions)

\* Every study, stored or about to be, is what its own facts make of it.
RemovalInv ==
  /\ closed \in SUBSET Closings /\ IsFiniteSet(closed)
  /\ opinions \in SUBSET Thoughts /\ \A o, p \in opinions : o.intent = p.intent => o = p
  /\ DOMAIN drafts = Researchers
  /\ \A s \in studies : IsStudy(s)
  /\ \A r \in Researchers : \A d \in drafts[r] : IsStudy(d)

LEMMA CentsAreWhole == ASSUME NEW x \in Int PROVE Cents(x) \in Int
<1>1. Unit \in Nat /\ Unit # 0
  BY RemovalAssumption
<1>2. x \div Unit \in Int
  BY <1>1
<1>. QED  BY <1>2 DEF Cents

\* What is analysed is such a study.
LEMMA StudyIsOne == ASSUME RemovalInv, NEW s PROVE IsStudy(Study(s))
<1>. DEFINE pop == Population(s)
            pnl == [t \in pop |-> Cents(Closing[t].pnl)]
            ops == [t \in pop |-> Opinion(t)]
<1>1. pop \in SUBSET Closings /\ IsFiniteSet(pop)
  <2>1. pop \in SUBSET closed
    BY DEF Population
  <2>. QED  BY <2>1, FS_Subset DEF RemovalInv
<1>2. Grounded(pnl, ops)
  <2>1. ASSUME NEW t \in pop PROVE pnl[t] \in Int /\ \A o, p \in ops[t] : o = p
    <3>1. Closing[t].pnl \in Int
      BY <1>1, RemovalAssumption
    <3>. QED  BY <3>1, CentsAreWhole DEF RemovalInv, Opinion
  <2>. HIDE DEF pop
  <2>. QED  BY <1>1, <2>1 DEF Grounded
<1>. HIDE DEF pop
<1>3. DOMAIN ops = pop /\ DOMAIN pnl = pop /\ \A t \in pop : ops[t] = Opinion(t)
  OBVIOUS
<1>4. \A t \in pop : Attributed(t) = InTime(ops, t) /\ Vetoed(t) = Vetoes(ops, t)
  BY <1>3 DEF Attributed, InTime, Vetoed, Vetoes
<1>5. {t \in pop : Vetoed(t) # {}} = Removed(ops)
  BY <1>3, <1>4 DEF Removed
<1>6. /\ {t \in pop : Attributed(t) # {}} = {t \in pop : InTime(ops, t) # {}}
      /\ {t \in pop : Opinion(t) # Attributed(t)} = {t \in pop : ops[t] # InTime(ops, t)}
  BY <1>3, <1>4
<1>. HIDE DEF pnl, ops
<1>7. CategorySlices(pnl, Removed(ops)) = SlicesOf(pnl, ops)
  <2>. DEFINE R == Removed(ops)
              V(t) == Vetoed(t)
              W(t) == Vetoes(ops, t)
              codes == {o.reason : o \in UNION {V(t) : t \in R}}
              Of(c) == {t \in R : \E o \in V(t) : o.reason = c}
  <2>1. R \in SUBSET pop
    BY <1>3 DEF Removed
  <2>2. \A t \in R : V(t) = W(t)
    BY <1>4, <2>1
  <2>. HIDE DEF R, V, W
  <2>3. {V(t) : t \in R} = {W(t) : t \in R}
    BY <2>2
  <2>4. codes = {o.reason : o \in UNION {W(t) : t \in R}}
    BY <2>3
  <2>5. \A c : Of(c) = {t \in R : \E o \in W(t) : o.reason = c}
    BY <2>2
  <2>. HIDE DEF codes, Of
  <2>6. CategorySlices(pnl, R) = [c \in codes |-> Slice(pnl, Of(c))]
    BY DEF CategorySlices, codes, Of, V
  <2>7. SlicesOf(pnl, ops) = [c \in codes |-> Slice(pnl, Of(c))]
    BY <2>4, <2>5 DEF SlicesOf, R, W
  <2>. QED  BY <2>6, <2>7 DEF R
<1>8. Study(s) = StudyOf(s, pnl, ops)
  <2>1. Study(s) =
     [sample |-> s, pnl |-> pnl, opinions |-> ops,
      trades |-> Cardinality(pop),
      evaluated |-> Cardinality({t \in pop : Attributed(t) # {}}),
      excluded |-> Cardinality({t \in pop : Opinion(t) # Attributed(t)}),
      vetoes |-> Cardinality({t \in pop : Vetoed(t) # {}}),
      losing |-> Cardinality({t \in {t \in pop : Vetoed(t) # {}} : pnl[t] < 0}),
      winning |-> Cardinality({t \in {t \in pop : Vetoed(t) # {}} : pnl[t] > 0}),
      breakeven |-> Cardinality({t \in {t \in pop : Vetoed(t) # {}} : pnl[t] = 0}),
      baseline |-> Realized(pnl, pop),
      counterfactual |-> Realized(pnl, pop \ {t \in pop : Vetoed(t) # {}}),
      avoided |-> Avoided(pnl, {t \in pop : Vetoed(t) # {}}),
      forfeited |-> Forfeited(pnl, {t \in pop : Vetoed(t) # {}}),
      alpha |-> Avoided(pnl, {t \in pop : Vetoed(t) # {}})
                - Forfeited(pnl, {t \in pop : Vetoed(t) # {}}),
      precision |-> Precision(pnl, {t \in pop : Vetoed(t) # {}}),
      drawdown |-> MaxDrawdown(pnl, pop),
      counterfactual_drawdown |-> MaxDrawdown(pnl, pop \ {t \in pop : Vetoed(t) # {}}),
      slices |-> CategorySlices(pnl, {t \in pop : Vetoed(t) # {}})]
    BY Zenon DEF Study, pop, pnl, ops
  <2>. QED  BY <1>3, <1>5, <1>6, <1>7, <2>1, Zenon DEF StudyOf
<1>9. StudyOf(s, pnl, ops).pnl = pnl /\ StudyOf(s, pnl, ops).opinions = ops
      /\ StudyOf(s, pnl, ops).sample = s
  BY DEF StudyOf
<1>. QED  BY <1>2, <1>8, <1>9, Zenon DEF IsStudy

LEMMA DisjointCount ==
  ASSUME NEW S, IsFiniteSet(S), NEW A \in SUBSET S, NEW B \in SUBSET S, A \cap B = {}
  PROVE  /\ Cardinality(A) \in Nat /\ Cardinality(B) \in Nat /\ Cardinality(S) \in Nat
         /\ Cardinality(A \cup B) = Cardinality(A) + Cardinality(B)
         /\ Cardinality(A) + Cardinality(B) <= Cardinality(S)
<1>1. IsFiniteSet(A) /\ IsFiniteSet(B) /\ A \cup B \in SUBSET S
  BY FS_Subset
<1>2. Cardinality(A \cup B) = Cardinality(A) + Cardinality(B) - Cardinality(A \cap B)
  BY <1>1, FS_Union
<1>3. Cardinality(A \cap B) = 0
  <2>1. A \cap B = {} /\ Cardinality({}) = 0
    BY FS_EmptySet
  <2>. QED  BY <2>1, Zenon
<1>4. Cardinality(A \cup B) <= Cardinality(S)
  BY <1>1, FS_Subset
<1>. QED  BY <1>1, <1>2, <1>3, <1>4, FS_CardinalityType

\* The trades of a study: those removed are among the evaluated ones.
LEMMA RemovedAre ==
  ASSUME NEW pnl, NEW ops, Grounded(pnl, ops)
  PROVE  LET pop == DOMAIN ops
             evaluated == {t \in pop : InTime(ops, t) # {}}
             excluded == {t \in pop : ops[t] # InTime(ops, t)}
         IN /\ Removed(ops) \in SUBSET evaluated /\ Removed(ops) \in SUBSET pop
            /\ evaluated \cap excluded = {}
            /\ IsFiniteSet(pop) /\ IsFiniteSet(Removed(ops)) /\ IsFiniteSet(evaluated)
            /\ pop \in SUBSET Nat /\ \A t \in pop : pnl[t] \in Int
<1>. DEFINE pop == DOMAIN ops
            evaluated == {t \in pop : InTime(ops, t) # {}}
            excluded == {t \in pop : ops[t] # InTime(ops, t)}
<1>1. IsFiniteSet(pop) /\ pop \in SUBSET Nat /\ \A t \in pop : pnl[t] \in Int
  BY RemovalAssumption DEF Grounded
<1>2. Removed(ops) \in SUBSET evaluated /\ evaluated \in SUBSET pop
  BY DEF Removed, Vetoes
<1>3. ASSUME NEW t \in pop, InTime(ops, t) # {} PROVE ops[t] = InTime(ops, t)
  BY <1>3 DEF InTime, Grounded
<1>. QED  BY <1>1, <1>2, <1>3, FS_Subset

LEMMA CountsAgree ==
  ASSUME NEW x, NEW pnl, NEW ops, Grounded(pnl, ops)
  PROVE  LET s == StudyOf(x, pnl, ops)
         IN /\ s.evaluated + s.excluded <= s.trades /\ s.vetoes <= s.evaluated
            /\ s.losing + s.winning + s.breakeven = s.vetoes
<1>. DEFINE pop == DOMAIN ops
            evaluated == {t \in pop : InTime(ops, t) # {}}
            excluded == {t \in pop : ops[t] # InTime(ops, t)}
            R == Removed(ops)
            L == {t \in R : pnl[t] < 0}
            G == {t \in R : pnl[t] > 0}
            Z == {t \in R : pnl[t] = 0}
            s == StudyOf(x, pnl, ops)
<1>1. /\ R \in SUBSET evaluated /\ R \in SUBSET pop /\ evaluated \cap excluded = {}
      /\ IsFiniteSet(pop) /\ IsFiniteSet(R) /\ IsFiniteSet(evaluated)
      /\ \A t \in pop : pnl[t] \in Int
  BY RemovedAre
<1>2. evaluated \in SUBSET pop /\ excluded \in SUBSET pop
  OBVIOUS
<1>3. /\ L \in SUBSET R /\ G \in SUBSET R /\ Z \in SUBSET R
      /\ L \cap G = {} /\ (L \cup G) \cap Z = {} /\ (L \cup G) \cup Z = R
  BY <1>1
<1>4. /\ s.trades = Cardinality(pop) /\ s.evaluated = Cardinality(evaluated)
      /\ s.excluded = Cardinality(excluded) /\ s.vetoes = Cardinality(R)
      /\ s.losing = Cardinality(L) /\ s.winning = Cardinality(G) /\ s.breakeven = Cardinality(Z)
  BY DEF StudyOf
<1>. HIDE DEF pop, evaluated, excluded, R, L, G, Z, s
<1>5. Cardinality(evaluated) + Cardinality(excluded) <= Cardinality(pop)
  BY <1>1, <1>2, DisjointCount
<1>6. Cardinality(R) <= Cardinality(evaluated)
  BY <1>1, FS_Subset
<1>7. /\ Cardinality(L \cup G) = Cardinality(L) + Cardinality(G)
      /\ Cardinality(L) \in Nat /\ Cardinality(G) \in Nat
  <2>1. IsFiniteSet(R) /\ L \in SUBSET R /\ G \in SUBSET R /\ L \cap G = {}
    BY <1>1, <1>3
  <2>. QED  BY <2>1, DisjointCount
<1>8. L \cup G \in SUBSET R
  BY <1>3
<1>9. Cardinality((L \cup G) \cup Z) = Cardinality(L \cup G) + Cardinality(Z)
  BY <1>1, <1>3, <1>8, DisjointCount
<1>10. Cardinality(L) + Cardinality(G) + Cardinality(Z) = Cardinality(R)
  BY <1>3, <1>7, <1>9
<1>11. /\ s.evaluated + s.excluded <= s.trades /\ s.vetoes <= s.evaluated
       /\ s.losing + s.winning + s.breakeven = s.vetoes
  BY <1>4, <1>5, <1>6, <1>10
<1>. QED  BY <1>11 DEF s

\* Its money and its drawdowns.
LEMMA FiguresAre ==
  ASSUME NEW x, NEW pnl, NEW ops, Grounded(pnl, ops)
  PROVE  LET s == StudyOf(x, pnl, ops)
         IN /\ s.avoided >= 0 /\ s.forfeited >= 0
            /\ s.drawdown >= 0 /\ s.counterfactual_drawdown >= 0
            /\ InRange(s.precision)
            /\ \A c \in DOMAIN s.slices : InRange(s.slices[c].precision)
            /\ s.counterfactual - s.baseline = s.alpha
            /\ s.winning = 0 => s.counterfactual_drawdown <= s.drawdown
            /\ s.losing = 0 => s.counterfactual_drawdown >= s.drawdown
<1>. DEFINE pop == DOMAIN ops
            R == Removed(ops)
            s == StudyOf(x, pnl, ops)
<1>1. /\ R \in SUBSET pop /\ IsFiniteSet(pop) /\ IsFiniteSet(R) /\ pop \in SUBSET Nat
      /\ \A t \in pop : pnl[t] \in Int
  BY RemovedAre
<1>2. /\ s.avoided = Avoided(pnl, R) /\ s.forfeited = Forfeited(pnl, R)
      /\ s.alpha = Avoided(pnl, R) - Forfeited(pnl, R)
      /\ s.baseline = Realized(pnl, pop) /\ s.counterfactual = Realized(pnl, pop \ R)
      /\ s.precision = Precision(pnl, R)
      /\ s.drawdown = MaxDrawdown(pnl, pop)
      /\ s.counterfactual_drawdown = MaxDrawdown(pnl, pop \ R)
      /\ s.winning = Cardinality({t \in R : pnl[t] > 0})
      /\ s.losing = Cardinality({t \in R : pnl[t] < 0})
      /\ s.slices = SlicesOf(pnl, ops)
  BY DEF StudyOf
<1>3. ASSUME NEW c \in DOMAIN SlicesOf(pnl, ops)
      PROVE  InRange(SlicesOf(pnl, ops)[c].precision)
  <2>. DEFINE G == {t \in R : \E o \in Vetoes(ops, t) : o.reason = c}
  <2>1. SlicesOf(pnl, ops)[c] = Slice(pnl, G)
    BY <1>3 DEF SlicesOf
  <2>2. SlicesOf(pnl, ops)[c].precision = Precision(pnl, G)
    BY <2>1 DEF Slice
  <2>3. G \in SUBSET R
    OBVIOUS
  <2>4. IsFiniteSet(G)
    BY <1>1, <2>3, FS_Subset
  <2>. QED  BY <2>2, <2>4, PrecisionIs
<1>. HIDE DEF pop, R, s
<1>4. InRange(Precision(pnl, R))
  BY <1>1, PrecisionIs
<1>5. /\ Avoided(pnl, R) \in Nat /\ Forfeited(pnl, R) \in Nat
      /\ Realized(pnl, R) = Forfeited(pnl, R) - Avoided(pnl, R)
  <2>1. \A t \in R : pnl[t] \in Int
    BY <1>1
  <2>. QED  BY <1>1, <2>1, MoneyIs
<1>6. /\ Realized(pnl, pop) = Realized(pnl, R) + Realized(pnl, pop \ R)
      /\ Realized(pnl, pop \ R) \in Int
  <2>1. SumOf(pnl, pop) = SumOf(pnl, R) + SumOf(pnl, pop \ R)
    <3>1. IsFiniteSet(pop) /\ R \in SUBSET pop
      BY <1>1
    <3>2. \A t \in pop : pnl[t] \in Int
      BY <1>1
    <3>. QED  BY <3>1, <3>2, SumParts
  <2>2. IsFiniteSet(pop \ R) /\ \A t \in pop \ R : pnl[t] \in Int
    BY <1>1, FS_Difference
  <2>3. SumOf(pnl, pop \ R) \in Int
    BY <2>2, SumIsInt
  <2>4. \A T : Realized(pnl, T) = SumOf(pnl, T)
    BY DEF Realized, SumOf
  <2>. QED  BY <2>1, <2>3, <2>4
<1>7. Realized(pnl, pop \ R) - Realized(pnl, pop) = Avoided(pnl, R) - Forfeited(pnl, R)
  BY <1>5, <1>6
<1>8. /\ MaxDrawdown(pnl, pop) \in Nat /\ MaxDrawdown(pnl, pop \ R) \in Nat
      /\ (\A t \in R : pnl[t] <= 0) => MaxDrawdown(pnl, pop \ R) <= MaxDrawdown(pnl, pop)
      /\ (\A t \in R : pnl[t] >= 0) => MaxDrawdown(pnl, pop \ R) >= MaxDrawdown(pnl, pop)
  BY <1>1, DrawdownsFollow
<1>9. /\ Cardinality({t \in R : pnl[t] > 0}) = 0 => \A t \in R : pnl[t] <= 0
      /\ Cardinality({t \in R : pnl[t] < 0}) = 0 => \A t \in R : pnl[t] >= 0
  <2>1. {t \in R : pnl[t] > 0} \in SUBSET R /\ {t \in R : pnl[t] < 0} \in SUBSET R
    OBVIOUS
  <2>2. IsFiniteSet({t \in R : pnl[t] > 0}) /\ IsFiniteSet({t \in R : pnl[t] < 0})
    BY <1>1, <2>1, FS_Subset
  <2>3. /\ Cardinality({t \in R : pnl[t] > 0}) = 0 => {t \in R : pnl[t] > 0} = {}
        /\ Cardinality({t \in R : pnl[t] < 0}) = 0 => {t \in R : pnl[t] < 0} = {}
    BY <2>2, FS_EmptySet
  <2>4. \A t \in R : pnl[t] \in Int
    BY <1>1
  <2>. QED  BY <2>3, <2>4
<1>10. /\ s.avoided >= 0 /\ s.forfeited >= 0
       /\ s.drawdown >= 0 /\ s.counterfactual_drawdown >= 0
  BY <1>2, <1>5, <1>8
<1>11. InRange(s.precision) /\ \A c \in DOMAIN s.slices : InRange(s.slices[c].precision)
  <2>1. InRange(s.precision)
    BY <1>2, <1>4, Zenon
  <2>2. \A c \in DOMAIN s.slices : InRange(s.slices[c].precision)
    BY <1>2, <1>3, Zenon
  <2>. QED  BY <2>1, <2>2
<1>12. s.counterfactual - s.baseline = s.alpha
  BY <1>2, <1>7
<1>13. /\ s.winning = 0 => s.counterfactual_drawdown <= s.drawdown
       /\ s.losing = 0 => s.counterfactual_drawdown >= s.drawdown
  BY <1>2, <1>8, <1>9
<1>. QED  BY <1>10, <1>11, <1>12, <1>13, Zenon DEF s

\* The one reason a trade is removed for, and the trades of a reason.
Reason(ops, t) == (CHOOSE o \in Vetoes(ops, t) : TRUE).reason
Reasons(ops) == [t \in Removed(ops) |-> Reason(ops, t)]
Codes(ops) == {Reasons(ops)[t] : t \in Removed(ops)}
OfReason(ops, c) == {t \in Removed(ops) : Reasons(ops)[t] = c}

LEMMA SlicesAre ==
  ASSUME NEW pnl, NEW ops, Grounded(pnl, ops)
  PROVE  SlicesOf(pnl, ops) = [c \in Codes(ops) |-> Slice(pnl, OfReason(ops, c))]
<1>. DEFINE R == Removed(ops)
            V(t) == Vetoes(ops, t)
            key == Reasons(ops)
            codes == {key[t] : t \in R}
            old == {o.reason : o \in UNION {V(t) : t \in R}}
<1>1. ASSUME NEW t \in R
      PROVE  \E o \in V(t) : key[t] = o.reason /\ V(t) = {o}
  <2>1. t \in DOMAIN ops /\ V(t) # {}
    BY DEF Removed
  <2>2. \A o, p \in ops[t] : o = p
    BY <2>1 DEF Grounded
  <2>3. V(t) \in SUBSET ops[t]
    BY DEF Vetoes, InTime
  <2>4. PICK o \in V(t) : o = CHOOSE p \in V(t) : TRUE
    BY <2>1
  <2>5. key[t] = o.reason
    BY <2>4 DEF Reason, Reasons
  <2>. HIDE DEF V, key, R
  <2>6. V(t) = {o}
    BY <2>2, <2>3
  <2>. QED  BY <2>5, <2>6
<1>. HIDE DEF R, V, key
<1>2. \A c : {t \in R : \E o \in V(t) : o.reason = c} = {t \in R : key[t] = c}
  BY <1>1
<1>3. old = codes
  <2>1. ASSUME NEW c \in old PROVE c \in codes
    BY <1>1
  <2>2. ASSUME NEW c \in codes PROVE c \in old
    <3>1. PICK t \in R : c = key[t]
      OBVIOUS
    <3>2. PICK o \in V(t) : key[t] = o.reason
      BY <1>1
    <3>3. o \in UNION {V(u) : u \in R}
      OBVIOUS
    <3>. QED  BY <3>1, <3>2, <3>3
  <2>. QED  BY <2>1, <2>2
<1>4. SlicesOf(pnl, ops) = [c \in old |-> Slice(pnl, {t \in R : \E o \in V(t) : o.reason = c})]
  BY DEF SlicesOf, R, V
<1>5. SlicesOf(pnl, ops) = [c \in codes |-> Slice(pnl, {t \in R : key[t] = c})]
  BY <1>2, <1>3, <1>4
<1>6. codes = Codes(ops) /\ \A c : OfReason(ops, c) = {t \in R : key[t] = c}
  BY DEF Codes, OfReason, R, key
<1>. QED  BY <1>5, <1>6

LEMMA TotalIs ==
  ASSUME NEW s, NEW f, NEW A, DOMAIN s.slices = A, NEW w, w = [c \in A |-> s.slices[c][f]]
  PROVE  SliceTotal(s, f) = SumOf(w, A)
<1>. DEFINE v == [c \in DOMAIN s.slices |-> s.slices[c][f]]
<1>1. SliceTotal(s, f) = SumOf(v, DOMAIN s.slices)
  BY DEF SliceTotal, SumOf, MapThenSumSet, MapThenFoldSet
<1>. QED  BY <1>1, Zenon

\* What the slices of all reasons show together is what the study shows.
LEMMA SlicesAddUp ==
  ASSUME NEW x, NEW pnl, NEW ops, Grounded(pnl, ops)
  PROVE  LET s == StudyOf(x, pnl, ops)
         IN /\ SliceTotal(s, "count") = s.vetoes
            /\ SliceTotal(s, "avoided") = s.avoided /\ SliceTotal(s, "forfeited") = s.forfeited
            /\ SliceTotal(s, "alpha") = s.alpha
<1>. DEFINE R == Removed(ops)
            key == Reasons(ops)
            A == Codes(ops)
            Of(c) == OfReason(ops, c)
            s == StudyOf(x, pnl, ops)
            one == [t \in R |-> 1]
            loss == [t \in R |-> Loss(pnl[t])]
            gain == [t \in R |-> Gain(pnl[t])]
<1>1. IsFiniteSet(R) /\ \A t \in R : pnl[t] \in Int
  BY RemovedAre
<1>2. /\ IsFiniteSet(A) /\ \A t \in R : key[t] \in A
      /\ \A c : Of(c) = {t \in R : key[t] = c}
  BY <1>1, ImageIsFinite DEF Codes, OfReason
<1>3. s.slices = [c \in A |-> Slice(pnl, Of(c))]
  <2>1. s.slices = SlicesOf(pnl, ops)
    BY DEF StudyOf
  <2>. QED  BY <2>1, SlicesAre
<1>4. /\ s.vetoes = Cardinality(R) /\ s.avoided = Avoided(pnl, R)
      /\ s.forfeited = Forfeited(pnl, R) /\ s.alpha = Avoided(pnl, R) - Forfeited(pnl, R)
  BY DEF StudyOf
<1>5. \A t \in R : /\ one[t] = 1 /\ loss[t] = Loss(pnl[t]) /\ gain[t] = Gain(pnl[t])
                   /\ one[t] \in Int /\ loss[t] \in Int /\ gain[t] \in Int
  BY <1>1 DEF Loss, Gain
<1>6. /\ Cardinality(R) = SumOf(one, R)
      /\ Avoided(pnl, R) = SumOf(loss, R) /\ Forfeited(pnl, R) = SumOf(gain, R)
      /\ SumOf(loss, R) \in Int /\ SumOf(gain, R) \in Int
  BY <1>1, SizeIsSum, MoneyIs
<1>7. ASSUME NEW c \in A
      PROVE  /\ Cardinality(Of(c)) = SumOf(one, Of(c))
             /\ Avoided(pnl, Of(c)) = SumOf(loss, Of(c))
             /\ Forfeited(pnl, Of(c)) = SumOf(gain, Of(c))
             /\ SumOf(loss, Of(c)) \in Int /\ SumOf(gain, Of(c)) \in Int
  <2>. DEFINE G == Of(c)
              o == [t \in G |-> 1]
              l == [t \in G |-> Loss(pnl[t])]
              g == [t \in G |-> Gain(pnl[t])]
  <2>1. G \in SUBSET R
    BY DEF OfReason
  <2>2. IsFiniteSet(G) /\ \A t \in G : pnl[t] \in Int
    BY <1>1, <2>1, FS_Subset
  <2>. HIDE DEF one, loss, gain, G
  <2>3. /\ Cardinality(G) = SumOf(o, G) /\ Avoided(pnl, G) = SumOf(l, G)
        /\ Forfeited(pnl, G) = SumOf(g, G) /\ SumOf(l, G) \in Int /\ SumOf(g, G) \in Int
    BY <2>2, SizeIsSum, MoneyIs
  <2>4. \A t \in G : o[t] = one[t] /\ l[t] = loss[t] /\ g[t] = gain[t]
    BY <1>5, <2>1
  <2>5. \A t \in G : one[t] \in Int /\ loss[t] \in Int /\ gain[t] \in Int
    BY <1>5, <2>1
  <2>. HIDE DEF o, l, g
  <2>6. SumOf(o, G) = SumOf(one, G)
    BY <2>2, <2>4, <2>5, SumSame
  <2>7. SumOf(l, G) = SumOf(loss, G)
    BY <2>2, <2>4, <2>5, SumSame
  <2>8. SumOf(g, G) = SumOf(gain, G)
    BY <2>2, <2>4, <2>5, SumSame
  <2>9. /\ Cardinality(G) = SumOf(one, G) /\ Avoided(pnl, G) = SumOf(loss, G)
        /\ Forfeited(pnl, G) = SumOf(gain, G)
        /\ SumOf(loss, G) \in Int /\ SumOf(gain, G) \in Int
    BY <2>3, <2>6, <2>7, <2>8
  <2>. QED  BY <2>9 DEF G
<1>. DEFINE ByKey(w) == SumOf([c \in A |-> SumOf(w, {t \in R : key[t] = c})], A)
<1>. HIDE DEF one, loss, gain, key, R, A, Of
<1>8. SumOf(one, R) = ByKey(one) /\ SumOf(loss, R) = ByKey(loss) /\ SumOf(gain, R) = ByKey(gain)
  <2>1. \A t \in R : one[t] \in Int
    BY <1>5
  <2>2. \A t \in R : loss[t] \in Int
    BY <1>5
  <2>3. \A t \in R : gain[t] \in Int
    BY <1>5
  <2>4. SumOf(one, R) = ByKey(one)
    BY <1>1, <1>2, <2>1, SumByKey
  <2>5. SumOf(loss, R) = ByKey(loss)
    BY <1>1, <1>2, <2>2, SumByKey
  <2>6. SumOf(gain, R) = ByKey(gain)
    BY <1>1, <1>2, <2>3, SumByKey
  <2>. QED  BY <2>4, <2>5, <2>6
<1>. DEFINE ones == [c \in A |-> SumOf(one, Of(c))]
            losses == [c \in A |-> SumOf(loss, Of(c))]
            gains == [c \in A |-> SumOf(gain, Of(c))]
            alphas == [c \in A |-> SumOf(loss, Of(c)) - SumOf(gain, Of(c))]
<1>9. /\ SumOf(one, R) = SumOf(ones, A) /\ SumOf(loss, R) = SumOf(losses, A)
      /\ SumOf(gain, R) = SumOf(gains, A)
  BY <1>2, <1>8
<1>. HIDE DEF s, ByKey
<1>10. DOMAIN s.slices = A
  BY <1>3
<1>11. \A c \in A : /\ s.slices[c]["count"] = ones[c] /\ s.slices[c]["avoided"] = losses[c]
                    /\ s.slices[c]["forfeited"] = gains[c] /\ s.slices[c]["alpha"] = alphas[c]
  <2>. TAKE c \in A
  <2>1. s.slices[c] = Slice(pnl, Of(c))
    BY <1>3
  <2>. QED  BY <1>7, <2>1 DEF Slice
<1>12. \A c \in A : /\ losses[c] = alphas[c] + gains[c]
                    /\ alphas[c] \in Int /\ gains[c] \in Int /\ losses[c] \in Int
  BY <1>7
<1>. HIDE DEF ones, losses, gains, alphas
<1>13. /\ SliceTotal(s, "count") = SumOf(ones, A) /\ SliceTotal(s, "avoided") = SumOf(losses, A)
       /\ SliceTotal(s, "forfeited") = SumOf(gains, A) /\ SliceTotal(s, "alpha") = SumOf(alphas, A)
  <2>1. SliceTotal(s, "count") = SumOf(ones, A)
    <3>1. ones = [c \in A |-> s.slices[c]["count"]]
      BY <1>11 DEF ones
    <3>. QED  BY <1>10, <3>1, TotalIs
  <2>2. SliceTotal(s, "avoided") = SumOf(losses, A)
    <3>1. losses = [c \in A |-> s.slices[c]["avoided"]]
      BY <1>11 DEF losses
    <3>. QED  BY <1>10, <3>1, TotalIs
  <2>3. SliceTotal(s, "forfeited") = SumOf(gains, A)
    <3>1. gains = [c \in A |-> s.slices[c]["forfeited"]]
      BY <1>11 DEF gains
    <3>. QED  BY <1>10, <3>1, TotalIs
  <2>4. SliceTotal(s, "alpha") = SumOf(alphas, A)
    <3>1. alphas = [c \in A |-> s.slices[c]["alpha"]]
      BY <1>11 DEF alphas
    <3>. QED  BY <1>10, <3>1, TotalIs
  <2>. QED  BY <2>1, <2>2, <2>3, <2>4
<1>14. SumOf(losses, A) = SumOf(alphas, A) + SumOf(gains, A) /\ SumOf(alphas, A) \in Int
  <2>1. \A c \in A : alphas[c] \in Int
    BY <1>12
  <2>. QED  BY <1>2, <1>12, <2>1, SumPlus, SumIsInt
<1>15. SliceTotal(s, "alpha") = s.alpha
  BY <1>4, <1>6, <1>9, <1>13, <1>14
<1>16. /\ SliceTotal(s, "count") = s.vetoes
       /\ SliceTotal(s, "avoided") = s.avoided /\ SliceTotal(s, "forfeited") = s.forfeited
  BY <1>4, <1>6, <1>9, <1>13
<1>. QED  BY <1>15, <1>16 DEF s

-----------------------------------------------------------------------------
(* Trade removal: the studies. *)

\* What was formed in time settles which trades are taken out.
LEMMA TimelySettles ==
  ASSUME NEW s, NEW u, IsStudy(s), IsStudy(u), s.pnl = u.pnl, Timely(s) = Timely(u)
  PROVE  s.alpha = u.alpha /\ s.precision = u.precision
           /\ s.counterfactual_drawdown = u.counterfactual_drawdown
<1>1. ASSUME NEW d, IsStudy(d)
      PROVE  /\ d.alpha = Avoided(d.pnl, Removed(d.opinions))
                           - Forfeited(d.pnl, Removed(d.opinions))
             /\ d.precision = Precision(d.pnl, Removed(d.opinions))
             /\ d.counterfactual_drawdown
                  = MaxDrawdown(d.pnl, DOMAIN d.opinions \ Removed(d.opinions))
  <2>1. PICK x, pnl, ops : x = d.sample /\ pnl = d.pnl /\ ops = d.opinions
    OBVIOUS
  <2>2. d = StudyOf(x, pnl, ops)
    BY <1>1, <2>1 DEF IsStudy
  <2>3. /\ d.alpha = Avoided(pnl, Removed(ops)) - Forfeited(pnl, Removed(ops))
        /\ d.precision = Precision(pnl, Removed(ops))
        /\ d.counterfactual_drawdown = MaxDrawdown(pnl, DOMAIN ops \ Removed(ops))
    BY <2>2 DEF StudyOf
  <2>. QED  BY <2>1, <2>3
<1>2. \A d : /\ DOMAIN Timely(d) = DOMAIN d.opinions
             /\ \A t \in DOMAIN d.opinions : Timely(d)[t] = InTime(d.opinions, t)
  BY DEF Timely, InTime, CausalValid
<1>3. DOMAIN s.opinions = DOMAIN u.opinions
  BY <1>2
<1>4. \A t \in DOMAIN s.opinions : Vetoes(s.opinions, t) = Vetoes(u.opinions, t)
  BY <1>2, <1>3 DEF Vetoes
<1>5. Removed(s.opinions) = Removed(u.opinions)
  BY <1>3, <1>4 DEF Removed
<1>. QED  BY <1>1, <1>3, <1>5

LEMMA SoundImplied == ASSUME RemovalInv PROVE StudiesAreSound
<1>1. ASSUME NEW s \in studies
      PROVE  /\ s.evaluated + s.excluded <= s.trades /\ s.vetoes <= s.evaluated
             /\ s.losing + s.winning + s.breakeven = s.vetoes
             /\ s.avoided >= 0 /\ s.forfeited >= 0
             /\ s.drawdown >= 0 /\ s.counterfactual_drawdown >= 0
             /\ InRange(s.precision)
             /\ \A c \in DOMAIN s.slices : InRange(s.slices[c].precision)
             /\ s.counterfactual - s.baseline = s.alpha
             /\ s.winning = 0 => s.counterfactual_drawdown <= s.drawdown
             /\ s.losing = 0 => s.counterfactual_drawdown >= s.drawdown
             /\ SliceTotal(s, "count") = s.vetoes
             /\ SliceTotal(s, "avoided") = s.avoided /\ SliceTotal(s, "forfeited") = s.forfeited
             /\ SliceTotal(s, "alpha") = s.alpha
  <2>1. PICK x, pnl, ops : Grounded(pnl, ops) /\ s = StudyOf(x, pnl, ops)
    BY DEF RemovalInv, IsStudy
  <2>. QED  BY <2>1, CountsAgree, FiguresAre, SlicesAddUp
<1>2. RemovalTypeOK
  <2>. DEFINE Counts(s) == /\ s.evaluated + s.excluded <= s.trades /\ s.vetoes <= s.evaluated
                           /\ s.losing + s.winning + s.breakeven = s.vetoes
                           /\ s.avoided >= 0 /\ s.forfeited >= 0
                           /\ s.drawdown >= 0 /\ s.counterfactual_drawdown >= 0
  <2>1. \A s \in studies : Counts(s)
    BY <1>1
  <2>2. \A s \in studies : InRange(s.precision)
    BY <1>1
  <2>3. \A s \in studies : \A c \in DOMAIN s.slices : InRange(s.slices[c].precision)
    BY <1>1
  <2>. HIDE DEF Counts
  <2>4. RemovalTypeOK = /\ closed \subseteq Closings /\ opinions \subseteq Thoughts
                        /\ \A s \in studies :
                             /\ Counts(s) /\ InRange(s.precision)
                             /\ \A c \in DOMAIN s.slices : InRange(s.slices[c].precision)
    BY DEF RemovalTypeOK, InRange, Counts
  <2>. QED  BY <2>1, <2>2, <2>3, <2>4 DEF RemovalInv
<1>3. SlicesReconcile
  BY <1>1 DEF SlicesReconcile
<1>4. HindsightWorthNothing
  BY TimelySettles DEF HindsightWorthNothing, RemovalInv
<1>5. DrawdownsCompare
  BY <1>1 DEF DrawdownsCompare
<1>. QED  BY <1>2, <1>3, <1>4, <1>5 DEF StudiesAreSound

LEMMA RemovalStarts == RemovalInit => RemovalInv
BY FS_EmptySet DEF RemovalInit, RemovalInv

LEMMA ClosingKeeps ==
  ASSUME RemovalInv, NEW t \in Closings, RecordClosing(t) PROVE RemovalInv'
<1>1. IsFiniteSet(closed') /\ closed' \in SUBSET Closings
  BY FS_AddElement DEF RemovalInv, RecordClosing
<1>. QED  BY <1>1 DEF RemovalInv, RecordClosing, IsStudy

LEMMA OpinionKeeps ==
  ASSUME RemovalInv, NEW o \in Thoughts, RecordOpinion(o) PROVE RemovalInv'
BY DEF RemovalInv, RecordOpinion, IsStudy

LEMMA AnalyseKeeps ==
  ASSUME RemovalInv, NEW r \in Researchers, NEW s \in Samples, Analyse(r, s) PROVE RemovalInv'
<1>1. IsStudy(Study(s))
  BY StudyIsOne
<1>2. \A q \in Researchers : drafts'[q] = IF q = r THEN {Study(s)} ELSE drafts[q]
  BY DEF Analyse, RemovalInv
<1>3. \A q \in Researchers : \A d \in drafts'[q] : IsStudy(d)
  BY <1>1, <1>2 DEF RemovalInv
<1>. QED  BY <1>3 DEF RemovalInv, Analyse

LEMMA StoreKeeps ==
  ASSUME RemovalInv, NEW r \in Researchers, StoreStudy(r) \/ DropStudy(r) PROVE RemovalInv'
<1>1. \A q \in Researchers : drafts'[q] = IF q = r THEN {} ELSE drafts[q]
  BY DEF StoreStudy, DropStudy, RemovalInv
<1>2. \A s \in studies' : IsStudy(s)
  BY DEF StoreStudy, DropStudy, RemovalInv
<1>. QED  BY <1>1, <1>2 DEF RemovalInv, StoreStudy, DropStudy

LEMMA RemovalSteps == RemovalInv /\ [RemovalNext]_removalVars => RemovalInv'
<1>. SUFFICES ASSUME RemovalInv, [RemovalNext]_removalVars PROVE RemovalInv'
  OBVIOUS
<1>1. ASSUME NEW t \in Closings, RecordClosing(t) PROVE RemovalInv'
  BY <1>1, ClosingKeeps
<1>2. ASSUME NEW o \in Thoughts, RecordOpinion(o) PROVE RemovalInv'
  BY <1>2, OpinionKeeps
<1>3. ASSUME NEW r \in Researchers, StoreStudy(r) \/ DropStudy(r) PROVE RemovalInv'
  BY <1>3, StoreKeeps
<1>4. ASSUME NEW r \in Researchers, NEW s \in Samples, Analyse(r, s) PROVE RemovalInv'
  BY <1>4, AnalyseKeeps
<1>5. CASE UNCHANGED removalVars
  BY <1>5 DEF RemovalInv, IsStudy, removalVars
<1>. QED  BY <1>1, <1>2, <1>3, <1>4, <1>5 DEF RemovalNext

\* The figures of every stored study agree with each other, its slices add up to
\* it, hindsight is worth nothing, and its two drawdowns are of one order.
THEOREM StudiesStaySound == RemovalSpec => []StudiesAreSound
<1>1. RemovalInv => StudiesAreSound
  BY SoundImplied
<1>. QED  BY <1>1, RemovalStarts, RemovalSteps, PTL DEF RemovalSpec

-----------------------------------------------------------------------------
(* Two tracks: sums over facts by other names. *)

LEMMA SumRenamed ==
  ASSUME NEW S, IsFiniteSet(S), NEW h, \A x, y \in S : h[x] = h[y] => x = y,
         NEW v, NEW w, \A x \in S : v[x] \in Int /\ w[h[x]] = v[x]
  PROVE  SumOf(w, {h[x] : x \in S}) = SumOf(v, S)
<1>. DEFINE V(T) == {h[x] : x \in T}
            P == {T \in SUBSET S : SumOf(w, V(T)) = SumOf(v, T)}
<1>1. {} \in P
  <2>1. V({}) = {}
    OBVIOUS
  <2>. QED  BY <2>1, SumEmpty
<1>2. IsFiniteSet(V(S)) /\ \A z \in V(S) : w[z] \in Int
  BY ImageIsFinite
<1>3. ASSUME NEW T \in SUBSET S, NEW x \in S \ T, T \in P PROVE T \cup {x} \in P
  <2>1. V(T) \in SUBSET V(S) /\ h[x] \in V(S) \ V(T) /\ V(T \cup {x}) = V(T) \cup {h[x]}
    OBVIOUS
  <2>. HIDE DEF V
  <2>2. SumOf(w, V(T) \cup {h[x]}) = SumOf(w, V(T)) + w[h[x]]
    BY <1>2, <2>1, SumAdds
  <2>3. \A y \in S : v[y] \in Int
    OBVIOUS
  <2>4. SumOf(v, T \cup {x}) = SumOf(v, T) + v[x]
    BY <2>3, SumAdds
  <2>5. T \cup {x} \in SUBSET S /\ w[h[x]] = v[x] /\ SumOf(w, V(T)) = SumOf(v, T)
    BY <1>3
  <2>. QED  BY <2>1, <2>2, <2>4, <2>5
<1>. HIDE DEF P
<1>4. S \in P
  BY <1>1, <1>3, SetReached
<1>. QED  BY <1>4 DEF P

\* As many under other names.
LEMMA CountRenamed ==
  ASSUME NEW S, IsFiniteSet(S), NEW h, \A x, y \in S : h[x] = h[y] => x = y
  PROVE  Cardinality({h[x] : x \in S}) = Cardinality(S)
<1>. DEFINE V == {h[x] : x \in S}
            v == [x \in S |-> 1]
            w == [z \in V |-> 1]
<1>1. IsFiniteSet(V)
  BY ImageIsFinite
<1>2. \A x \in S : v[x] \in Int /\ w[h[x]] = v[x]
  OBVIOUS
<1>3. Cardinality(V) = SumOf(w, V) /\ Cardinality(S) = SumOf(v, S)
  BY <1>1, SizeIsSum
<1>. HIDE DEF v, w
<1>4. SumOf(w, V) = SumOf(v, S)
  BY <1>2, SumRenamed
<1>. QED  BY <1>3, <1>4

-----------------------------------------------------------------------------
(* Two tracks: what there is to sum. *)

Pnl == [o \in Opportunities |-> Opportunity[o].pnl]

LEMMA OpportunitiesAre ==
  /\ IsFiniteSet(Opportunities) /\ Cardinality(Opportunities) \in Nat
  /\ Opportunities = 1..Cardinality(Opportunities) /\ Opportunities \in SUBSET Nat
  /\ IsFiniteSet(SessionDays) /\ SessionDays \in SUBSET Nat
  /\ \A o \in Opportunities : /\ Opportunity[o].pnl \in Int /\ Pnl[o] = Opportunity[o].pnl
                              /\ Opportunity[o].day \in SessionDays
<1>1. IsFiniteSet(Opportunities) /\ Opportunities = 1..Cardinality(Opportunities)
      /\ \A o \in Opportunities : Opportunity[o].pnl \in Int /\ Opportunity[o].day \in Nat
  BY StatefulAssumption
<1>2. Cardinality(Opportunities) \in Nat
  BY <1>1, FS_CardinalityType
<1>3. Opportunities \in SUBSET Nat
  BY <1>1, <1>2
<1>4. IsFiniteSet(SessionDays)
  <2>. DEFINE day == [o \in Opportunities |-> Opportunity[o].day]
  <2>1. SessionDays = {day[o] : o \in Opportunities}
    BY DEF SessionDays
  <2>. HIDE DEF day
  <2>. QED  BY <1>1, <2>1, ImageIsFinite
<1>. QED  BY <1>1, <1>2, <1>3, <1>4 DEF Pnl, SessionDays

LEMMA ProfitIs ==
  ASSUME NEW T \in SUBSET Opportunities
  PROVE  IsFiniteSet(T) /\ Profit(T) = SumOf(Pnl, T) /\ Profit(T) \in Int
<1>. DEFINE v == [o \in T |-> Opportunity[o].pnl]
<1>1. IsFiniteSet(T)
  BY OpportunitiesAre, FS_Subset
<1>2. Profit(T) = SumOf(v, T)
  BY DEF Profit, SumOf, MapThenSumSet, MapThenFoldSet
<1>3. \A o \in T : Pnl[o] \in Int /\ v[o] = Pnl[o]
  BY OpportunitiesAre
<1>. HIDE DEF v
<1>4. SumOf(v, T) = SumOf(Pnl, T) /\ SumOf(Pnl, T) \in Int
  BY <1>1, <1>3, SumSame, SumIsInt
<1>. QED  BY <1>1, <1>2, <1>4

\* What a track has siphoned, and what of it is in a bucket.
Qualified(S) == MapThenSumSet(LAMBDA f : f.of, S)
Amounted(S) == IsFiniteSet(S) /\ \A f \in S : f.of \in Int

LEMMA ShareIsWhole == ASSUME NEW x \in Int, NEW b PROVE Share(x, b) \in Int
<1>1. (4 * x) \div 10 \in Int
  OBVIOUS
<1>. QED  BY <1>1 DEF Share

LEMMA AllocatedIs ==
  ASSUME NEW S, Amounted(S), NEW b
  PROVE  LET v == [f \in S |-> Share(f.of, b)]
             q == [f \in S |-> f.of]
         IN /\ Allocated(S, b) = SumOf(v, S) /\ Qualified(S) = SumOf(q, S)
            /\ Allocated(S, b) \in Int /\ Qualified(S) \in Int
            /\ \A f \in S : v[f] \in Int /\ q[f] \in Int
<1>. DEFINE v == [f \in S |-> Share(f.of, b)]
            q == [f \in S |-> f.of]
<1>1. Allocated(S, b) = SumOf(v, S) /\ Qualified(S) = SumOf(q, S)
  <2>1. Allocated(S, b) = SumOf(v, S)
    BY DEF Allocated, SumOf, MapThenSumSet, MapThenFoldSet
  <2>2. Qualified(S) = SumOf(q, S)
    BY DEF Qualified, SumOf, MapThenSumSet, MapThenFoldSet
  <2>. QED  BY <2>1, <2>2
<1>2. \A f \in S : v[f] \in Int /\ q[f] \in Int
  BY ShareIsWhole DEF Amounted
<1>3. IsFiniteSet(S)
  BY DEF Amounted
<1>. HIDE DEF v, q
<1>4. SumOf(v, S) \in Int /\ SumOf(q, S) \in Int
  BY <1>2, <1>3, SumIsInt
<1>. QED  BY <1>1, <1>2, <1>4 DEF v, q

-----------------------------------------------------------------------------
(* Two tracks: a world, and the ledger that tells its facts by their track. *)

IsWorld(p) ==
  /\ p \in [trades : SUBSET Opportunities, halted : SUBSET SessionDays,
            siphons : SUBSET [of : Int, after : Opportunities], births : SUBSET Opportunities]
  /\ IsFiniteSet(p.siphons)

Mark(t, S) == {[track |-> t, of |-> x] : x \in S}
Told(t, f) == [track |-> t, of |-> f.of, after |-> f.after]
MarkSiphons(t, S) == {Told(t, f) : f \in S}
Marked(t, p) ==
  [trades |-> Mark(t, p.trades), halted |-> Mark(t, p.halted),
   siphons |-> MarkSiphons(t, p.siphons), births |-> Mark(t, p.births)]

LEMMA UntouchedIs == IsWorld(Untouched) /\ \A t : Marked(t, Untouched) = Untouched
BY FS_EmptySet DEF IsWorld, Untouched, Marked, Mark, MarkSiphons

LEMMA OwnIs == ASSUME NEW S PROVE Own(Mark(step, S)) = S
<1>1. \A f \in Mark(step, S) : f.track = step /\ f.of \in S
  BY DEF Mark
<1>2. \A x \in S : \E f \in Mark(step, S) : f.track = step /\ f.of = x
  <2>. TAKE x \in S
  <2>1. [track |-> step, of |-> x] \in Mark(step, S)
    BY DEF Mark
  <2>. QED  BY <2>1
<1>. QED  BY <1>1, <1>2 DEF Own

LEMMA OwnSiphons == \A S : {f \in MarkSiphons(step, S) : f.track = step} = MarkSiphons(step, S)
BY DEF MarkSiphons, Told

LEMMA MarkAdds ==
  ASSUME NEW t, NEW S, NEW x
  PROVE  Mark(t, S \cup {x}) = Mark(t, S) \cup {[track |-> t, of |-> x]}
BY DEF Mark

LEMMA MarkSiphonAdds ==
  ASSUME NEW t, NEW S, NEW f
  PROVE  MarkSiphons(t, S \cup {f}) = MarkSiphons(t, S) \cup {Told(t, f)}
BY DEF MarkSiphons

\* What the facts of a track add up to owes nothing to their track.
LEMMA BookedIs ==
  ASSUME NEW T \in SUBSET Opportunities, NEW t
  PROVE  MapThenSumSet(LAMBDA f : Opportunity[f.of].pnl, Mark(t, T)) = Profit(T)
<1>. DEFINE M == Mark(t, T)
            h == [x \in T |-> [track |-> t, of |-> x]]
            v == [x \in T |-> Opportunity[x].pnl]
            w == [f \in M |-> Opportunity[f.of].pnl]
<1>1. M = {h[x] : x \in T} /\ \A x, y \in T : h[x] = h[y] => x = y
  <2>1. \A x \in T : h[x].of = x
    OBVIOUS
  <2>2. M = {h[x] : x \in T}
    BY DEF Mark
  <2>. HIDE DEF h
  <2>. QED  BY <2>1, <2>2
<1>2. \A x \in T : v[x] \in Int /\ w[h[x]] = v[x]
  <2>1. ASSUME NEW x \in T PROVE v[x] \in Int /\ w[h[x]] = v[x]
    <3>1. h[x] \in M /\ h[x].of = x
      BY DEF Mark
    <3>2. Opportunity[x].pnl \in Int
      BY OpportunitiesAre
    <3>. QED  BY <3>1, <3>2
  <2>. QED  BY <2>1
<1>3. MapThenSumSet(LAMBDA f : Opportunity[f.of].pnl, M) = SumOf(w, M)
  BY DEF SumOf, MapThenSumSet, MapThenFoldSet
<1>4. IsFiniteSet(T) /\ Profit(T) = SumOf(v, T)
  <2>1. Profit(T) = SumOf(v, T)
    BY DEF Profit, SumOf, MapThenSumSet, MapThenFoldSet
  <2>. QED  BY <2>1, ProfitIs
<1>. HIDE DEF M, h, v, w
<1>5. SumOf(w, M) = SumOf(v, T)
  BY <1>1, <1>2, <1>4, SumRenamed
<1>. QED  BY <1>3, <1>4, <1>5 DEF M

LEMMA SiphonedIs ==
  ASSUME NEW S \in SUBSET [of : Int, after : Opportunities], IsFiniteSet(S), NEW t
  PROVE  /\ Qualified(MarkSiphons(t, S)) = Qualified(S) /\ Qualified(S) \in Int
         /\ \A b : Allocated(MarkSiphons(t, S), b) = Allocated(S, b) /\ Allocated(S, b) \in Int
<1>. DEFINE M == MarkSiphons(t, S)
            h == [f \in S |-> Told(t, f)]
            q == [f \in S |-> f.of]
            r == [f \in M |-> f.of]
<1>1. M = {h[f] : f \in S} /\ \A f, g \in S : h[f] = h[g] => f = g
  <2>1. \A f \in S : h[f].of = f.of /\ h[f].after = f.after
    BY DEF Told
  <2>2. M = {h[f] : f \in S}
    BY DEF MarkSiphons
  <2>3. \A f, g \in S : f.of = g.of /\ f.after = g.after => f = g
    OBVIOUS
  <2>. HIDE DEF h
  <2>. QED  BY <2>1, <2>2, <2>3
<1>2. Amounted(S)
  BY DEF Amounted
<1>3. Amounted(M)
  <2>1. IsFiniteSet(M)
    <3>. HIDE DEF h
    <3>1. IsFiniteSet({h[f] : f \in S})
      BY ImageIsFinite
    <3>. QED  BY <1>1, <3>1
  <2>. QED  BY <2>1 DEF Amounted, MarkSiphons, Told
<1>4. \A f \in S : h[f] \in M /\ h[f].of = f.of
  BY DEF MarkSiphons, Told
<1>5. \A f \in S : q[f] \in Int /\ r[h[f]] = q[f]
  BY <1>4
<1>6. Qualified(S) = SumOf(q, S) /\ Qualified(S) \in Int /\ Qualified(M) = SumOf(r, M)
  BY <1>2, <1>3, AllocatedIs
<1>7. ASSUME NEW b PROVE Allocated(M, b) = Allocated(S, b) /\ Allocated(S, b) \in Int
  <2>. DEFINE v == [f \in S |-> Share(f.of, b)]
              w == [f \in M |-> Share(f.of, b)]
  <2>1. Allocated(S, b) = SumOf(v, S) /\ Allocated(S, b) \in Int /\ Allocated(M, b) = SumOf(w, M)
    BY <1>2, <1>3, AllocatedIs
  <2>2. \A f \in S : v[f] \in Int
    BY <1>2, AllocatedIs
  <2>3. \A f \in S : w[h[f]] = v[f]
    BY <1>4
  <2>. HIDE DEF v, w, h, M
  <2>4. SumOf(w, M) = SumOf(v, S)
    BY <1>1, <2>2, <2>3, SumRenamed
  <2>. QED  BY <2>1, <2>4
<1>. HIDE DEF M, h, q, r
<1>8. SumOf(r, M) = SumOf(q, S)
  BY <1>1, <1>5, SumRenamed
<1>. QED  BY <1>6, <1>7, <1>8 DEF M

LEMMA BirthsAre ==
  ASSUME NEW S \in SUBSET Opportunities, NEW t
  PROVE  Cardinality(Mark(t, S)) = Cardinality(S) /\ Cardinality(S) \in Nat
<1>. DEFINE h == [x \in S |-> [track |-> t, of |-> x]]
<1>1. Mark(t, S) = {h[x] : x \in S} /\ \A x, y \in S : h[x] = h[y] => x = y
  <2>1. \A x \in S : h[x].of = x
    OBVIOUS
  <2>2. Mark(t, S) = {h[x] : x \in S}
    BY DEF Mark
  <2>. HIDE DEF h
  <2>. QED  BY <2>1, <2>2
<1>2. IsFiniteSet(S)
  BY OpportunitiesAre, FS_Subset
<1>. HIDE DEF h
<1>. QED  BY <1>1, <1>2, CountRenamed, FS_CardinalityType

-----------------------------------------------------------------------------
(* Two tracks: a trade in a world, and in the ledger. *)

HaltIn(p, d) ==
  IF Profit(OfDay(p.trades, d)) <= -LossLimit THEN [p EXCEPT !.halted = @ \cup {d}] ELSE p
SiphonIn(p, o, lost) ==
  LET qualified == Profit(p.trades) - lost - Qualified(p.siphons)
  IN IF Opportunity[o].pnl > 0 /\ qualified > 0
     THEN [p EXCEPT !.siphons = @ \cup {[of |-> qualified, after |-> o]}] ELSE p
BirthIn(p, o) ==
  IF Allocated(p.siphons, "REPLICATION_POOL") >= SeedPrice * (Cardinality(p.births) + 1)
  THEN [p EXCEPT !.births = @ \cup {o}] ELSE p
TradedIn(p, o, lost) ==
  LET booked == [p EXCEPT !.trades = @ \cup {o}]
  IN BirthIn(SiphonIn(HaltIn(booked, Opportunity[o].day), o, lost), o)

LEMMA HaltIs ==
  ASSUME NEW p, IsWorld(p), NEW d \in SessionDays
  PROVE  /\ IsWorld(HaltIn(p, d)) /\ HaltIn(p, d).trades = p.trades
         /\ WithHalt(Marked(step, p), d) = Marked(step, HaltIn(p, d))
<1>1. Own(Marked(step, p).trades) = p.trades
  BY OwnIs DEF Marked
<1>2. Mark(step, p.halted \cup {d}) = Mark(step, p.halted) \cup {[track |-> step, of |-> d]}
  BY MarkAdds
<1>3. CASE Profit(OfDay(p.trades, d)) <= -LossLimit
  <2>. DEFINE q == [p EXCEPT !.halted = @ \cup {d}]
  <2>1. HaltIn(p, d) = q
    BY <1>3 DEF HaltIn
  <2>2. IsWorld(q) /\ q.trades = p.trades /\ q.halted = p.halted \cup {d}
        /\ q.siphons = p.siphons /\ q.births = p.births
    BY DEF IsWorld
  <2>3. WithHalt(Marked(step, p), d) = [Marked(step, p) EXCEPT !.halted = @ \cup {Fact(d)}]
    BY <1>1, <1>3 DEF WithHalt
  <2>. HIDE DEF q
  <2>4. WithHalt(Marked(step, p), d) = Marked(step, q)
    BY <1>2, <2>2, <2>3 DEF Marked, Fact
  <2>. QED  BY <2>1, <2>2, <2>4
<1>4. CASE ~(Profit(OfDay(p.trades, d)) <= -LossLimit)
  BY <1>1, <1>4 DEF HaltIn, WithHalt
<1>. QED  BY <1>3, <1>4

LEMMA SiphonIs ==
  ASSUME NEW p, IsWorld(p), NEW o \in Opportunities, elsewhere \in Int
  PROVE  /\ IsWorld(SiphonIn(p, o, elsewhere)) /\ SiphonIn(p, o, elsewhere).trades = p.trades
         /\ WithSiphon(Marked(step, p), o) = Marked(step, SiphonIn(p, o, elsewhere))
<1>. DEFINE a == Profit(p.trades) - elsewhere - Qualified(p.siphons)
            b == MapThenSumSet(LAMBDA f : Opportunity[f.of].pnl, Marked(step, p).trades)
                   - elsewhere - MapThenSumSet(LAMBDA f : f.of, Marked(step, p).siphons)
<1>1. a = b /\ a \in Int
  <2>1. /\ p.trades \in SUBSET Opportunities /\ IsFiniteSet(p.siphons)
        /\ p.siphons \in SUBSET [of : Int, after : Opportunities]
    BY DEF IsWorld
  <2>2. MapThenSumSet(LAMBDA f : Opportunity[f.of].pnl, Mark(step, p.trades)) = Profit(p.trades)
    BY <2>1, BookedIs
  <2>3. /\ Qualified(MarkSiphons(step, p.siphons)) = Qualified(p.siphons)
        /\ Qualified(p.siphons) \in Int
    BY <2>1, SiphonedIs
  <2>4. Profit(p.trades) \in Int
    BY <2>1, ProfitIs
  <2>5. b = Profit(p.trades) - elsewhere - Qualified(p.siphons)
    BY <2>2, <2>3 DEF Marked, Qualified
  <2>. QED  BY <2>3, <2>4, <2>5
<1>. HIDE DEF a
<1>2. WithSiphon(Marked(step, p), o) =
        IF Opportunity[o].pnl > 0 /\ a > 0
        THEN [Marked(step, p) EXCEPT !.siphons = @ \cup {[track |-> step, of |-> a, after |-> o]}]
        ELSE Marked(step, p)
  BY <1>1 DEF WithSiphon
<1>3. SiphonIn(p, o, elsewhere) =
        IF Opportunity[o].pnl > 0 /\ a > 0
        THEN [p EXCEPT !.siphons = @ \cup {[of |-> a, after |-> o]}] ELSE p
  BY DEF SiphonIn, a
<1>4. CASE Opportunity[o].pnl > 0 /\ a > 0
  <2>. DEFINE q == [p EXCEPT !.siphons = @ \cup {[of |-> a, after |-> o]}]
  <2>1. /\ q.trades = p.trades /\ q.halted = p.halted /\ q.births = p.births
        /\ q.siphons = p.siphons \cup {[of |-> a, after |-> o]}
    BY DEF IsWorld
  <2>2. IsWorld(q)
    <3>1. IsFiniteSet(p.siphons \cup {[of |-> a, after |-> o]})
      BY FS_AddElement DEF IsWorld
    <3>2. [of |-> a, after |-> o] \in [of : Int, after : Opportunities]
      BY <1>1
    <3>. QED  BY <2>1, <3>1, <3>2 DEF IsWorld
  <2>3. MarkSiphons(step, q.siphons)
          = MarkSiphons(step, p.siphons) \cup {[track |-> step, of |-> a, after |-> o]}
    <3>1. MarkSiphons(step, p.siphons \cup {[of |-> a, after |-> o]})
            = MarkSiphons(step, p.siphons) \cup {Told(step, [of |-> a, after |-> o])}
      BY MarkSiphonAdds
    <3>2. Told(step, [of |-> a, after |-> o]) = [track |-> step, of |-> a, after |-> o]
      BY DEF Told
    <3>. HIDE DEF q
    <3>. QED  BY <2>1, <3>1, <3>2
  <2>. HIDE DEF q
  <2>4. [Marked(step, p) EXCEPT !.siphons = @ \cup {[track |-> step, of |-> a, after |-> o]}]
          = Marked(step, q)
    BY <2>1, <2>3 DEF Marked
  <2>. QED  BY <1>2, <1>3, <1>4, <2>1, <2>2, <2>4 DEF q
<1>5. CASE ~(Opportunity[o].pnl > 0 /\ a > 0)
  BY <1>2, <1>3, <1>5
<1>. QED  BY <1>4, <1>5

LEMMA BirthIs ==
  ASSUME NEW p, IsWorld(p), NEW o \in Opportunities
  PROVE  /\ IsWorld(BirthIn(p, o)) /\ BirthIn(p, o).trades = p.trades
         /\ WithBirth(Marked(step, p), o) = Marked(step, BirthIn(p, o))
<1>1. Allocated(Marked(step, p).siphons, "REPLICATION_POOL")
        = Allocated(p.siphons, "REPLICATION_POOL")
  BY SiphonedIs DEF IsWorld, Marked
<1>2. Cardinality(Marked(step, p).births) = Cardinality(p.births)
  BY BirthsAre DEF IsWorld, Marked
<1>. DEFINE full == Allocated(p.siphons, "REPLICATION_POOL")
                      >= SeedPrice * (Cardinality(p.births) + 1)
<1>3. /\ BirthIn(p, o) = IF full THEN [p EXCEPT !.births = @ \cup {o}] ELSE p
      /\ WithBirth(Marked(step, p), o)
           = IF full THEN [Marked(step, p) EXCEPT !.births = @ \cup {Fact(o)}] ELSE Marked(step, p)
  BY <1>1, <1>2 DEF BirthIn, WithBirth
<1>. HIDE DEF full
<1>4. CASE full
  <2>. DEFINE q == [p EXCEPT !.births = @ \cup {o}]
  <2>1. IsWorld(q) /\ q.trades = p.trades /\ q.halted = p.halted
        /\ q.siphons = p.siphons /\ q.births = p.births \cup {o}
    BY DEF IsWorld
  <2>2. Mark(step, q.births) = Mark(step, p.births) \cup {[track |-> step, of |-> o]}
    <3>1. Mark(step, p.births \cup {o}) = Mark(step, p.births) \cup {[track |-> step, of |-> o]}
      BY MarkAdds, Zenon
    <3>. HIDE DEF q
    <3>. QED  BY <2>1, <3>1
  <2>. HIDE DEF q
  <2>3. [Marked(step, p) EXCEPT !.births = @ \cup {Fact(o)}] = Marked(step, q)
    BY <2>1, <2>2 DEF Marked, Fact
  <2>. QED  BY <1>3, <1>4, <2>1, <2>3 DEF q
<1>5. CASE ~full
  BY <1>3, <1>5
<1>. QED  BY <1>4, <1>5

\* The engine does the same to a world, whatever the track.
LEMMA TradeIs ==
  ASSUME NEW p, IsWorld(p), NEW o \in Opportunities, elsewhere \in Int
  PROVE  /\ IsWorld(TradedIn(p, o, elsewhere))
         /\ TradedIn(p, o, elsewhere).trades = p.trades \cup {o}
         /\ Traded(Marked(step, p), o) = Marked(step, TradedIn(p, o, elsewhere))
<1>. DEFINE d == Opportunity[o].day
            a == [p EXCEPT !.trades = @ \cup {o}]
            b == HaltIn(a, d)
            c == SiphonIn(b, o, elsewhere)
<1>1. IsWorld(a) /\ a.trades = p.trades \cup {o} /\ a.halted = p.halted
      /\ a.siphons = p.siphons /\ a.births = p.births
  BY DEF IsWorld
<1>2. [Marked(step, p) EXCEPT !.trades = @ \cup {Fact(o)}] = Marked(step, a)
  <2>1. Mark(step, a.trades) = Mark(step, p.trades) \cup {[track |-> step, of |-> o]}
    <3>1. Mark(step, p.trades \cup {o}) = Mark(step, p.trades) \cup {[track |-> step, of |-> o]}
      BY MarkAdds, Zenon
    <3>. HIDE DEF a
    <3>. QED  BY <1>1, <3>1
  <2>. HIDE DEF a
  <2>. QED  BY <1>1, <2>1 DEF Marked, Fact
<1>3. d \in SessionDays
  BY OpportunitiesAre
<1>4. Traded(Marked(step, p), o)
        = WithBirth(WithSiphon(WithHalt(Marked(step, a), d), o), o)
  BY <1>2 DEF Traded
<1>5. TradedIn(p, o, elsewhere) = BirthIn(c, o)
  BY DEF TradedIn
<1>. HIDE DEF a, b, c, d
<1>6. IsWorld(b) /\ b.trades = a.trades /\ WithHalt(Marked(step, a), d) = Marked(step, b)
  BY <1>1, <1>3, HaltIs DEF b
<1>7. IsWorld(c) /\ c.trades = b.trades /\ WithSiphon(Marked(step, b), o) = Marked(step, c)
  BY <1>6, SiphonIs DEF c
<1>8. /\ IsWorld(BirthIn(c, o)) /\ BirthIn(c, o).trades = c.trades
      /\ WithBirth(Marked(step, c), o) = Marked(step, BirthIn(c, o))
  BY <1>7, BirthIs
<1>. QED  BY <1>1, <1>4, <1>5, <1>6, <1>7, <1>8

-----------------------------------------------------------------------------
(* Two tracks: snapshots, and the row that is made of two of them. *)

Shot(p, sup) ==
  [trades |-> p.trades, halt_dates |-> p.halted,
   buckets |-> [b \in Buckets |-> Allocated(p.siphons, b)],
   cells |-> 1 + Cardinality(p.births), genesis |-> GenesisIndex(p.births),
   suppressions |-> sup]
IsShot(s) == \E p, sup : IsWorld(p) /\ sup \in SUBSET Opportunities /\ s = Shot(p, sup)

LEMMA SnapshotIs ==
  ASSUME NEW p, IsWorld(p) PROVE SnapshotOf(Marked(step, p)) = Shot(p, suppressed)
<1>. DEFINE l == Marked(step, p)
<1>1. Own(l.trades) = p.trades /\ Own(l.halted) = p.halted /\ Own(l.births) = p.births
  BY OwnIs DEF Marked
<1>2. {f \in l.siphons : f.track = step} = MarkSiphons(step, p.siphons)
  BY OwnSiphons DEF Marked
<1>3. \A b : Allocated(MarkSiphons(step, p.siphons), b) = Allocated(p.siphons, b)
  BY SiphonedIs DEF IsWorld
<1>. HIDE DEF l
<1>4. [b \in Buckets |-> Allocated({f \in l.siphons : f.track = step}, b)]
        = [b \in Buckets |-> Allocated(p.siphons, b)]
  BY <1>2, <1>3
<1>. QED  BY <1>1, <1>4, Zenon DEF SnapshotOf, Shot, l

LEMMA ShotIs ==
  ASSUME NEW s, IsShot(s)
  PROVE  /\ s.trades \in SUBSET Opportunities /\ s.suppressions \in SUBSET Opportunities
         /\ s.halt_dates \in SUBSET SessionDays /\ IsFiniteSet(s.halt_dates)
         /\ \A b \in Buckets : s.buckets[b] \in Int
         /\ s.cells \in Nat /\ s.cells >= 1
         /\ s.genesis = NoGenesis \/ s.genesis \in Int
<1>1. PICK p, sup : IsWorld(p) /\ sup \in SUBSET Opportunities /\ s = Shot(p, sup)
  BY DEF IsShot
<1>2. /\ p.trades \in SUBSET Opportunities /\ p.halted \in SUBSET SessionDays
      /\ p.births \in SUBSET Opportunities /\ IsFiniteSet(p.siphons)
      /\ p.siphons \in SUBSET [of : Int, after : Opportunities]
  BY <1>1 DEF IsWorld
<1>3. /\ s.trades = p.trades /\ s.suppressions = sup /\ s.halt_dates = p.halted
      /\ s.buckets = [b \in Buckets |-> Allocated(p.siphons, b)]
      /\ s.cells = 1 + Cardinality(p.births) /\ s.genesis = GenesisIndex(p.births)
  BY <1>1 DEF Shot
<1>4. Cardinality(p.births) \in Nat
  BY <1>2, BirthsAre
<1>5. IsFiniteSet(p.halted)
  BY <1>2, OpportunitiesAre, FS_Subset
<1>6. \A b : Allocated(p.siphons, b) \in Int
  BY <1>2, SiphonedIs
<1>7. GenesisIndex(p.births) = NoGenesis \/ GenesisIndex(p.births) \in Int
  <2>. DEFINE index == [o \in p.births |->
                          1 + Cardinality({d \in SessionDays : d < Opportunity[o].day})]
              I == {index[o] : o \in p.births}
  <2>1. ASSUME NEW o \in p.births PROVE index[o] \in Int
    <3>1. {d \in SessionDays : d < Opportunity[o].day} \in SUBSET SessionDays
      OBVIOUS
    <3>2. Cardinality({d \in SessionDays : d < Opportunity[o].day}) \in Nat
      BY <3>1, OpportunitiesAre, FS_Subset, FS_CardinalityType
    <3>. QED  BY <3>2
  <2>2. GenesisIndex(p.births) = IF p.births = {} THEN NoGenesis ELSE Min(I)
    <3>1. I = {1 + Cardinality({d \in SessionDays : d < Opportunity[o].day}) : o \in p.births}
      OBVIOUS
    <3>. QED  BY <3>1, Zenon DEF GenesisIndex
  <2>3. IsFiniteSet(p.births)
    BY <1>2, OpportunitiesAre, FS_Subset
  <2>. HIDE DEF index
  <2>4. I \in SUBSET Int /\ IsFiniteSet(I)
    BY <2>1, <2>3, ImageIsFinite
  <2>5. p.births # {} => I # {}
    OBVIOUS
  <2>. HIDE DEF I
  <2>6. p.births # {} => Min(I) \in Int
    BY <2>4, <2>5, MinIsSmallest
  <2>. QED  BY <2>2, <2>6
<1>. QED  BY <1>1, <1>2, <1>3, <1>4, <1>5, <1>6, <1>7

LEMMA DrawdownIsNat ==
  ASSUME NEW T \in SUBSET Opportunities PROVE Drawdown(T) \in Nat
<1>. DEFINE lost == [x \in T \X T |-> -Profit({u \in T : x[1] <= u /\ u <= x[2]})]
            V == {lost[x] : x \in T \X T}
            fall(o, p) == -Profit({u \in T : o <= u /\ u <= p})
            W == {fall(o, p) : o, p \in T}
<1>1. IsFiniteSet(T)
  BY ProfitIs
<1>2. IsFiniteSet(T \X T)
  BY <1>1, FS_Product
<1>3. \A x \in T \X T : lost[x] \in Int
  <2>. TAKE x \in T \X T
  <2>1. {u \in T : x[1] <= u /\ u <= x[2]} \in SUBSET Opportunities
    OBVIOUS
  <2>2. Profit({u \in T : x[1] <= u /\ u <= x[2]}) \in Int
    BY <2>1, ProfitIs
  <2>. QED  BY <2>2
<1>4. W = V
  <2>1. \A o, p \in T : <<o, p>> \in T \X T /\ lost[<<o, p>>] = fall(o, p)
    OBVIOUS
  <2>2. \A x \in T \X T : x[1] \in T /\ x[2] \in T /\ lost[x] = fall(x[1], x[2])
    OBVIOUS
  <2>. HIDE DEF lost, fall
  <2>3. ASSUME NEW z \in W PROVE z \in V
    <3>1. PICK o \in T, p \in T : z = fall(o, p)
      OBVIOUS
    <3>2. <<o, p>> \in T \X T /\ lost[<<o, p>>] = z
      BY <2>1, <3>1
    <3>. QED  BY <3>2
  <2>4. \A z \in V : z \in W
    BY <2>2
  <2>. HIDE DEF V, W
  <2>. QED  BY <2>3, <2>4
<1>. HIDE DEF lost
<1>5. IsFiniteSet({0} \cup V) /\ {0} \cup V \in SUBSET Int /\ {0} \cup V # {}
  <2>1. IsFiniteSet(V) /\ V \in SUBSET Int
    BY <1>2, <1>3, ImageIsFinite
  <2>. HIDE DEF V
  <2>2. IsFiniteSet({0}) /\ IsFiniteSet({0} \cup V)
    BY <2>1, FS_Singleton, FS_Union
  <2>. QED  BY <2>1, <2>2
<1>6. Max({0} \cup V) \in {0} \cup V /\ 0 <= Max({0} \cup V)
  <2>. HIDE DEF V
  <2>1. Max({0} \cup V) \in {0} \cup V /\ \A y \in {0} \cup V : y <= Max({0} \cup V)
    BY <1>5, MaxIsLargest
  <2>. QED  BY <2>1
<1>7. Drawdown(T) = Max({0} \cup V)
  <2>1. Drawdown(T) = Max({0} \cup W)
    BY DEF Drawdown
  <2>. HIDE DEF V, W
  <2>. QED  BY <1>4, <2>1
<1>. HIDE DEF V
<1>8. Drawdown(T) \in Int /\ 0 <= Drawdown(T)
  BY <1>5, <1>6, <1>7
<1>. QED  BY <1>8

-----------------------------------------------------------------------------
(* Two tracks: the days of a run. *)

LEMMA DailyProfits ==
  ASSUME NEW T \in SUBSET Opportunities, NEW D, IsFiniteSet(D),
         \A o \in T : Opportunity[o].day \in D
  PROVE  /\ Profit(T) = SumOf([d \in D |-> Profit(OfDay(T, d))], D) /\ Profit(T) \in Int
         /\ \A d \in D : Profit(OfDay(T, d)) \in Int
<1>. DEFINE key == [o \in T |-> Opportunity[o].day]
            Of(d) == {o \in T : key[o] = d}
            t == [d \in D |-> SumOf(Pnl, Of(d))]
<1>1. \A d : Of(d) = OfDay(T, d) /\ OfDay(T, d) \in SUBSET Opportunities
  BY DEF OfDay
<1>2. \A o \in T : Pnl[o] \in Int /\ key[o] \in D
  BY OpportunitiesAre
<1>3. IsFiniteSet(T) /\ Profit(T) = SumOf(Pnl, T) /\ Profit(T) \in Int
  BY ProfitIs
<1>. HIDE DEF key
<1>4. SumOf(Pnl, T) = SumOf(t, D)
  BY <1>2, <1>3, SumByKey
<1>. HIDE DEF Of
<1>5. \A d \in D : Profit(OfDay(T, d)) = SumOf(Pnl, Of(d)) /\ Profit(OfDay(T, d)) \in Int
  BY <1>1, ProfitIs
<1>6. t = [d \in D |-> Profit(OfDay(T, d))]
  BY <1>5
<1>. QED  BY <1>3, <1>4, <1>5, <1>6

LEMMA DailyCounts ==
  ASSUME NEW T \in SUBSET Opportunities, NEW D, IsFiniteSet(D),
         \A o \in T : Opportunity[o].day \in D
  PROVE  Cardinality(T) = SumOf([d \in D |-> Cardinality(OfDay(T, d))], D)
<1>. DEFINE key == [o \in T |-> Opportunity[o].day]
            Of(d) == {o \in T : key[o] = d}
            one == [o \in T |-> 1]
            t == [d \in D |-> SumOf(one, Of(d))]
<1>1. \A d : Of(d) = OfDay(T, d) /\ OfDay(T, d) \in SUBSET T
  BY DEF OfDay
<1>2. \A o \in T : one[o] = 1 /\ one[o] \in Int /\ key[o] \in D
  OBVIOUS
<1>3. IsFiniteSet(T)
  BY ProfitIs
<1>4. Cardinality(T) = SumOf(one, T)
  BY <1>3, SizeIsSum
<1>. HIDE DEF key, one
<1>5. SumOf(one, T) = SumOf(t, D)
  BY <1>2, <1>3, SumByKey
<1>. HIDE DEF Of
<1>6. ASSUME NEW d \in D PROVE Cardinality(OfDay(T, d)) = SumOf(one, Of(d))
  <2>. DEFINE G == OfDay(T, d)
              o == [x \in G |-> 1]
  <2>1. G \in SUBSET T /\ Of(d) = G
    BY <1>1
  <2>. HIDE DEF G
  <2>2. IsFiniteSet(G) /\ \A x \in G : one[x] \in Int /\ o[x] = one[x]
    BY <1>2, <1>3, <2>1, FS_Subset
  <2>3. Cardinality(G) = SumOf(o, G)
    BY <2>2, SizeIsSum
  <2>. HIDE DEF o
  <2>4. SumOf(o, G) = SumOf(one, G)
    BY <2>2, SumSame
  <2>. QED  BY <2>1, <2>3, <2>4 DEF G
<1>7. t = [d \in D |-> Cardinality(OfDay(T, d))]
  BY <1>6
<1>. QED  BY <1>4, <1>5, <1>7

LEMMA AddsIs ==
  ASSUME NEW r, NEW f, NEW D, DOMAIN r.deltas = D, NEW w, w = [d \in D |-> r.deltas[d][f]]
  PROVE  Adds(r, f) = SumOf(w, D)
<1>. DEFINE v == [d \in DOMAIN r.deltas |-> r.deltas[d][f]]
<1>1. Adds(r, f) = SumOf(v, DOMAIN r.deltas)
  BY DEF Adds, SumOf, MapThenSumSet, MapThenFoldSet
<1>. QED  BY <1>1, Zenon

\* What is asked of a stored run.
Tallied(r) ==
  /\ r.baseline_drawdown >= 0 /\ r.counterfactual_drawdown >= 0
  /\ r.baseline_cells >= 1 /\ r.counterfactual_cells >= 1
  /\ Adds(r, "alpha") = r.alpha
  /\ Adds(r, "vetoed") = r.direct_vetoed /\ Adds(r, "induced") = r.induced_taken
  /\ Holds(r, "baseline_halted") = r.baseline_halts
  /\ Holds(r, "counterfactual_halted") = r.counterfactual_halts

LEMMA RowIsTallied ==
  ASSUME NEW b, IsShot(b), NEW c, IsShot(c)
  PROVE  Tallied(RunRow(b, c))
<1>. DEFINE r == RunRow(b, c)
            D == Dates(b, c)
            taken == InducedTaken(b, c)
            dates(T) == {Opportunity[o].day : o \in T}
<1>1. /\ b.trades \in SUBSET Opportunities /\ c.trades \in SUBSET Opportunities
      /\ c.suppressions \in SUBSET Opportunities /\ taken \in SUBSET Opportunities
      /\ b.halt_dates \in SUBSET SessionDays /\ c.halt_dates \in SUBSET SessionDays
      /\ b.cells >= 1 /\ c.cells >= 1
  BY ShotIs DEF InducedTaken
<1>2. D \in SUBSET SessionDays /\ IsFiniteSet(D)
  <2>1. D \in SUBSET SessionDays
    BY <1>1, OpportunitiesAre DEF Dates
  <2>. QED  BY <2>1, OpportunitiesAre, FS_Subset
<1>3. /\ \A o \in b.trades : Opportunity[o].day \in D
      /\ \A o \in c.trades : Opportunity[o].day \in D
      /\ \A o \in c.suppressions : Opportunity[o].day \in D
      /\ \A o \in taken : Opportunity[o].day \in D
  BY DEF Dates, InducedTaken
<1>4. b.halt_dates \in SUBSET D /\ c.halt_dates \in SUBSET D
  BY DEF Dates
<1>5. /\ r.deltas = SessionPayload(b, c) /\ r.alpha = Profit(c.trades) - Profit(b.trades)
      /\ r.direct_vetoed = Cardinality(c.suppressions) /\ r.induced_taken = Cardinality(taken)
      /\ r.baseline_halts = Cardinality(b.halt_dates)
      /\ r.counterfactual_halts = Cardinality(c.halt_dates)
      /\ r.baseline_cells = b.cells /\ r.counterfactual_cells = c.cells
      /\ r.baseline_drawdown = Drawdown(b.trades) /\ r.counterfactual_drawdown = Drawdown(c.trades)
  BY DEF RunRow
<1>6. DOMAIN r.deltas = D
  BY <1>5 DEF SessionPayload
<1>7. \A d \in D :
        /\ r.deltas[d]["alpha"] = Profit(OfDay(c.trades, d)) - Profit(OfDay(b.trades, d))
        /\ r.deltas[d]["vetoed"] = Cardinality(OfDay(c.suppressions, d))
        /\ r.deltas[d]["induced"] = Cardinality(OfDay(taken, d))
        /\ r.deltas[d]["baseline_halted"] = (d \in b.halt_dates)
        /\ r.deltas[d]["counterfactual_halted"] = (d \in c.halt_dates)
  BY <1>5 DEF SessionPayload
<1>. HIDE DEF r, D, taken
<1>8. Adds(r, "alpha") = r.alpha
  <2>. DEFINE mine == [d \in D |-> Profit(OfDay(c.trades, d))]
              base == [d \in D |-> Profit(OfDay(b.trades, d))]
              alpha == [d \in D |-> r.deltas[d]["alpha"]]
  <2>1. /\ Profit(c.trades) = SumOf(mine, D) /\ Profit(c.trades) \in Int
        /\ \A d \in D : Profit(OfDay(c.trades, d)) \in Int
    BY <1>1, <1>2, <1>3, DailyProfits
  <2>2. /\ Profit(b.trades) = SumOf(base, D) /\ Profit(b.trades) \in Int
        /\ \A d \in D : Profit(OfDay(b.trades, d)) \in Int
    BY <1>1, <1>2, <1>3, DailyProfits
  <2>3. \A d \in D : /\ alpha[d] \in Int /\ base[d] \in Int /\ mine[d] = alpha[d] + base[d]
    BY <1>7, <2>1, <2>2
  <2>4. Adds(r, "alpha") = SumOf(alpha, D)
    BY <1>6, AddsIs
  <2>. HIDE DEF mine, base, alpha
  <2>5. SumOf(mine, D) = SumOf(alpha, D) + SumOf(base, D)
    BY <1>2, <2>3, SumPlus
  <2>6. SumOf(alpha, D) \in Int
    BY <1>2, <2>3, SumIsInt
  <2>. QED  BY <1>5, <2>1, <2>2, <2>4, <2>5, <2>6
<1>9. Adds(r, "vetoed") = r.direct_vetoed
  <2>. DEFINE w == [d \in D |-> Cardinality(OfDay(c.suppressions, d))]
  <2>1. w = [d \in D |-> r.deltas[d]["vetoed"]]
    BY <1>7
  <2>2. Cardinality(c.suppressions) = SumOf(w, D)
    BY <1>1, <1>2, <1>3, DailyCounts
  <2>. HIDE DEF w
  <2>3. Adds(r, "vetoed") = SumOf(w, D)
    BY <1>6, <2>1, AddsIs
  <2>. QED  BY <1>5, <2>2, <2>3
<1>10. Adds(r, "induced") = r.induced_taken
  <2>. DEFINE w == [d \in D |-> Cardinality(OfDay(taken, d))]
  <2>1. w = [d \in D |-> r.deltas[d]["induced"]]
    BY <1>7
  <2>2. Cardinality(taken) = SumOf(w, D)
    BY <1>1, <1>2, <1>3, DailyCounts
  <2>. HIDE DEF w
  <2>3. Adds(r, "induced") = SumOf(w, D)
    BY <1>6, <2>1, AddsIs
  <2>. QED  BY <1>5, <2>2, <2>3
<1>11. Holds(r, "baseline_halted") = r.baseline_halts
  <2>1. {d \in DOMAIN r.deltas : r.deltas[d]["baseline_halted"]} = b.halt_dates
    BY <1>4, <1>6, <1>7
  <2>. QED  BY <1>5, <2>1 DEF Holds
<1>12. Holds(r, "counterfactual_halted") = r.counterfactual_halts
  <2>1. {d \in DOMAIN r.deltas : r.deltas[d]["counterfactual_halted"]} = c.halt_dates
    BY <1>4, <1>6, <1>7
  <2>. QED  BY <1>5, <2>1 DEF Holds
<1>13. /\ r.baseline_drawdown >= 0 /\ r.counterfactual_drawdown >= 0
       /\ r.baseline_cells >= 1 /\ r.counterfactual_cells >= 1
  BY <1>1, <1>5, DrawdownIsNat
<1>. QED  BY <1>8, <1>9, <1>10, <1>11, <1>12, <1>13 DEF Tallied, r

-----------------------------------------------------------------------------
(* Two tracks: the worlds a track goes through when nothing is vetoed, and *)
(* what another track has kept of them.                                    *)

Arisen == Cardinality(Opportunities)
StepIn(p, o, lost) == IF Opportunity[o].day \in p.halted THEN p ELSE TradedIn(p, o, lost)

History(h, k, lost) ==
  /\ h[1] = Untouched
  /\ \A i \in 1..k : IsWorld(h[i]) /\ h[i].trades = {o \in h[k].trades : o < i}
  /\ \A i \in 1..k : i # k => h[i + 1] = StepIn(h[i], i, lost)

\* Up to k: all of it, or what came before the first that it suppressed.
Keeps(h, p, sup, k) ==
  \/ sup = {} /\ p = h[k]
  \/ \E m \in sup : /\ m < k /\ m \notin p.trades
                    /\ Opportunity[m].day \notin h[m].halted
                    /\ {o \in p.trades : o < m} = h[m].trades

LEMMA ArisenIs == Arisen \in Nat /\ Opportunities = 1..Arisen
BY OpportunitiesAre DEF Arisen

LEMMA HistoryStarts ==
  ASSUME NEW lost PROVE \E h : History(h, 1, lost)
<1>. DEFINE h == [i \in 1..1 |-> Untouched]
<1>1. h[1] = Untouched /\ IsWorld(Untouched) /\ Untouched.trades = {}
  BY UntouchedIs DEF Untouched
<1>2. 1..1 = {1}
  OBVIOUS
<1>. HIDE DEF h
<1>3. History(h, 1, lost)
  BY <1>1, <1>2 DEF History
<1>. QED  BY <1>3

LEMMA HistoryGrows ==
  ASSUME NEW k \in Opportunities, NEW h, elsewhere \in Int, History(h, k, elsewhere)
  PROVE  \E g : History(g, k + 1, elsewhere) /\ g[k + 1] = StepIn(h[k], k, elsewhere)
<1>. DEFINE q == StepIn(h[k], k, elsewhere)
            g == [i \in 1..(k + 1) |-> IF i = k + 1 THEN q ELSE h[i]]
<1>1. k \in Nat /\ k >= 1 /\ 1 \in 1..k /\ k \in 1..k
  BY ArisenIs
<1>2. /\ h[1] = Untouched
      /\ \A i \in 1..k : IsWorld(h[i]) /\ h[i].trades = {o \in h[k].trades : o < i}
      /\ \A i \in 1..k : i # k => h[i + 1] = StepIn(h[i], i, elsewhere)
  BY DEF History
<1>3. IsWorld(h[k]) /\ \A o \in h[k].trades : o < k
  BY <1>1, <1>2
<1>4. IsWorld(q) /\ (q.trades = h[k].trades \/ q.trades = h[k].trades \cup {k})
  BY <1>3, TradeIs DEF StepIn
<1>5. h[k].trades \in SUBSET Int
  BY <1>3, OpportunitiesAre DEF IsWorld
<1>. HIDE DEF q
<1>6. g[k + 1] = q /\ \A i \in 1..k : g[i] = h[i]
  BY <1>1
<1>. HIDE DEF g
<1>7. g[1] = Untouched
  BY <1>1, <1>2, <1>6
<1>8. ASSUME NEW i \in 1..(k + 1)
      PROVE  IsWorld(g[i]) /\ g[i].trades = {o \in g[k + 1].trades : o < i}
  <2>1. CASE i = k + 1
    BY <1>1, <1>3, <1>4, <1>5, <1>6, <2>1
  <2>2. CASE i # k + 1
    <3>1. i \in 1..k /\ i <= k /\ i \in Int
      BY <1>1, <2>2
    <3>2. IsWorld(h[i]) /\ h[i].trades = {o \in h[k].trades : o < i} /\ g[i] = h[i]
      BY <1>2, <1>6, <3>1
    <3>3. {o \in q.trades : o < i} = {o \in h[k].trades : o < i}
      BY <1>1, <1>4, <3>1
    <3>. QED  BY <1>6, <3>2, <3>3
  <2>. QED  BY <2>1, <2>2
<1>9. ASSUME NEW i \in 1..(k + 1), i # k + 1 PROVE g[i + 1] = StepIn(g[i], i, elsewhere)
  <2>1. i \in 1..k /\ g[i] = h[i]
    BY <1>1, <1>6, <1>9
  <2>2. CASE i = k
    BY <1>6, <2>1, <2>2 DEF q
  <2>3. CASE i # k
    <3>1. i + 1 \in 1..k
      BY <1>1, <2>1, <2>3
    <3>. QED  BY <1>2, <1>6, <2>1, <2>3, <3>1
  <2>. QED  BY <2>2, <2>3
<1>10. History(g, k + 1, elsewhere)
  BY <1>7, <1>8, <1>9 DEF History
<1>. QED  BY <1>6, <1>10 DEF q

\* The other track comes to the next opportunity.
LEMMA KeepsGrows ==
  ASSUME NEW h, NEW p, IsWorld(p), NEW sup \in SUBSET Opportunities, NEW k \in Opportunities,
         elsewhere \in Int, History(h, Arisen + 1, elsewhere), Keeps(h, p, sup, k)
  PROVE  /\ Keeps(h, StepIn(p, k, elsewhere), sup, k + 1)
         /\ Opportunity[k].day \notin p.halted => Keeps(h, p, sup \cup {k}, k + 1)
<1>. DEFINE q == StepIn(p, k, elsewhere)
<1>1. /\ Arisen \in Nat /\ k \in Nat /\ k \in 1..(Arisen + 1) /\ k # Arisen + 1
      /\ p.trades \in SUBSET Nat /\ sup \in SUBSET Nat
  BY ArisenIs, OpportunitiesAre DEF IsWorld
<1>2. IsWorld(h[k]) /\ h[k + 1] = StepIn(h[k], k, elsewhere)
      /\ h[k].trades = {o \in h[Arisen + 1].trades : o < k}
  BY <1>1 DEF History
<1>3. q.trades = p.trades \/ q.trades = p.trades \cup {k}
  BY TradeIs DEF StepIn
<1>4. CASE sup = {} /\ p = h[k]
  <2>1. Keeps(h, q, sup, k + 1)
    BY <1>2, <1>4 DEF Keeps
  <2>2. ASSUME Opportunity[k].day \notin p.halted PROVE Keeps(h, p, sup \cup {k}, k + 1)
    <3>1. k < k + 1 /\ k \notin p.trades /\ {o \in p.trades : o < k} = h[k].trades
      BY <1>1, <1>2, <1>4
    <3>. QED  BY <1>4, <2>2, <3>1 DEF Keeps
  <2>. QED  BY <2>1, <2>2
<1>5. CASE \E m \in sup : /\ m < k /\ m \notin p.trades
                          /\ Opportunity[m].day \notin h[m].halted
                          /\ {o \in p.trades : o < m} = h[m].trades
  <2>1. PICK m \in sup : /\ m < k /\ m \notin p.trades
                         /\ Opportunity[m].day \notin h[m].halted
                         /\ {o \in p.trades : o < m} = h[m].trades
    BY <1>5
  <2>. HIDE DEF q
  <2>2. m < k + 1 /\ m \notin q.trades /\ {o \in q.trades : o < m} = h[m].trades
    BY <1>1, <1>3, <2>1
  <2>3. m \in sup \cup {k}
    OBVIOUS
  <2>4. Keeps(h, q, sup, k + 1)
    BY <2>1, <2>2 DEF Keeps
  <2>5. Keeps(h, p, sup \cup {k}, k + 1)
    BY <2>1, <2>2, <2>3 DEF Keeps
  <2>. QED  BY <2>4, <2>5 DEF q
<1>. QED  BY <1>4, <1>5 DEF Keeps

-----------------------------------------------------------------------------
(* Two tracks: where they part. *)

Between(b, c) == (b.trades \ c.trades) \cup (c.trades \ b.trades)

PartedShots(b, c) ==
  /\ Between(b, c) # {} => Min(Between(b, c)) \in c.suppressions
  /\ Between(b, c) = {} =>
       b.halt_dates = c.halt_dates /\ b.buckets = c.buckets /\ b.genesis = c.genesis

LEMMA ShotsPart ==
  ASSUME NEW h, NEW p, IsWorld(p), NEW sup \in SUBSET Opportunities,
         elsewhere \in Int, History(h, Arisen + 1, elsewhere), Keeps(h, p, sup, Arisen + 1)
  PROVE  PartedShots(Shot(h[Arisen + 1], {}), Shot(p, sup))
<1>. DEFINE w == h[Arisen + 1]
            b == Shot(w, {})
            c == Shot(p, sup)
            A == Between(b, c)
<1>1. Arisen \in Nat /\ Arisen + 1 \in 1..(Arisen + 1) /\ IsWorld(w)
  <2>1. Arisen \in Nat /\ Arisen + 1 \in 1..(Arisen + 1)
    BY ArisenIs
  <2>. QED  BY <2>1 DEF History
<1>2. /\ b.trades = w.trades /\ c.trades = p.trades /\ c.suppressions = sup
      /\ A = (w.trades \ p.trades) \cup (p.trades \ w.trades)
  BY DEF Shot, Between
<1>3. w.trades \in SUBSET Opportunities /\ p.trades \in SUBSET Opportunities
  BY <1>1 DEF IsWorld
<1>4. CASE sup = {} /\ p = w
  <2>1. A = {} /\ b = c
    BY <1>2, <1>4
  <2>. HIDE DEF A, b, c
  <2>. QED  BY <2>1 DEF PartedShots, A, b, c
<1>5. CASE \E m \in sup : /\ m < Arisen + 1 /\ m \notin p.trades
                          /\ Opportunity[m].day \notin h[m].halted
                          /\ {o \in p.trades : o < m} = h[m].trades
  <2>1. PICK m \in sup : /\ m < Arisen + 1 /\ m \notin p.trades
                         /\ Opportunity[m].day \notin h[m].halted
                         /\ {o \in p.trades : o < m} = h[m].trades
    BY <1>5
  <2>2. m \in Opportunities /\ m \in Nat /\ m \in 1..(Arisen + 1) /\ m + 1 \in 1..(Arisen + 1)
        /\ m # Arisen + 1
    BY <1>1, <2>1, ArisenIs
  <2>3. /\ IsWorld(h[m]) /\ h[m].trades = {o \in w.trades : o < m}
        /\ h[m + 1] = StepIn(h[m], m, elsewhere)
        /\ h[m + 1].trades = {o \in w.trades : o < m + 1}
    BY <2>2 DEF History
  <2>4. h[m + 1].trades = h[m].trades \cup {m}
    BY <2>1, <2>2, <2>3, TradeIs DEF StepIn
  <2>5. m \in w.trades
    BY <2>3, <2>4
  <2>. HIDE DEF w, b, c, A
  <2>6. m \in A /\ A \in SUBSET Opportunities
    BY <1>2, <1>3, <2>1, <2>5
  <2>7. \A o \in A : m <= o
    <3>. SUFFICES ASSUME NEW o \in A, ~(m <= o) PROVE FALSE
      OBVIOUS
    <3>1. o < m /\ o \in Opportunities
      BY <2>2, <2>6, ArisenIs
    <3>2. o \in w.trades <=> o \in p.trades
      BY <2>1, <2>3, <3>1
    <3>. QED  BY <1>2, <3>2
  <2>8. IsFiniteSet(A) /\ A \in SUBSET Int /\ A # {}
    <3>1. IsFiniteSet(A)
      BY <2>6, OpportunitiesAre, FS_Subset
    <3>2. A \in SUBSET Int
      BY <2>6, OpportunitiesAre
    <3>. QED  BY <2>6, <3>1, <3>2
  <2>9. Min(A) \in A /\ \A o \in A : Min(A) <= o
    BY <2>8, MinIsSmallest
  <2>10. Min(A) = m
    <3>1. Min(A) \in Int /\ m \in Int
      <4>1. Min(A) \in A /\ A \in SUBSET Int
        BY <2>8, <2>9
      <4>2. Min(A) \in Int
        BY <4>1, Zenon
      <4>3. m \in Int
        BY <2>2
      <4>. QED  BY <4>2, <4>3
    <3>2. m <= Min(A) /\ Min(A) <= m
      BY <2>6, <2>7, <2>9
    <3>. QED  BY <3>1, <3>2
  <2>11. Between(b, c) # {} /\ Min(Between(b, c)) \in c.suppressions
    BY <1>2, <2>1, <2>8, <2>10 DEF A
  <2>12. PartedShots(b, c)
    BY <2>11 DEF PartedShots
  <2>. QED  BY <2>12 DEF b, c, w
<1>. QED  BY <1>4, <1>5 DEF Keeps, w

LEMMA RowParts ==
  ASSUME NEW b, IsShot(b), NEW c, IsShot(c), PartedShots(b, c)
  PROVE  Parted(RunRow(b, c))
<1>. DEFINE r == RunRow(b, c)
<1>1. /\ r.tracks = <<b, c>> /\ r.alpha = Profit(c.trades) - Profit(b.trades)
      /\ r.drawdown_reduction = Drawdown(b.trades) - Drawdown(c.trades)
      /\ r.siphon_delta = [k \in Buckets |-> c.buckets[k] - b.buckets[k]]
      /\ r.genesis_delta = IF NoGenesis \in {b.genesis, c.genesis} THEN NoGenesis
                           ELSE c.genesis - b.genesis
  BY DEF RunRow
<1>2. r.tracks[1] = b /\ r.tracks[2] = c
  BY <1>1
<1>. HIDE DEF r
<1>3. ASSUME Between(b, c) = {}
      PROVE  /\ r.alpha = 0 /\ r.drawdown_reduction = 0 /\ b.halt_dates = c.halt_dates
             /\ r.genesis_delta \in {0, NoGenesis}
             /\ \A k \in Buckets : r.siphon_delta[k] = 0
  <2>1. b.trades = c.trades
    BY <1>3, ShotIs DEF Between
  <2>2. Profit(c.trades) \in Int /\ Drawdown(c.trades) \in Int
    BY ShotIs, ProfitIs, DrawdownIsNat
  <2>3. b.halt_dates = c.halt_dates /\ b.buckets = c.buckets /\ b.genesis = c.genesis
    BY <1>3 DEF PartedShots
  <2>4. c.genesis = NoGenesis \/ c.genesis \in Int
    BY ShotIs
  <2>5. \A k \in Buckets : c.buckets[k] \in Int
    BY ShotIs
  <2>6. r.alpha = 0 /\ r.drawdown_reduction = 0
    BY <1>1, <2>1, <2>2
  <2>7. r.genesis_delta \in {0, NoGenesis}
    BY <1>1, <2>3, <2>4
  <2>8. \A k \in Buckets : r.siphon_delta[k] = 0
    BY <1>1, <2>3, <2>5
  <2>. QED  BY <2>3, <2>6, <2>7, <2>8
<1>4. Between(b, c) # {} => Min(Between(b, c)) \in c.suppressions
  BY DEF PartedShots
<1>. QED  BY <1>2, <1>3, <1>4 DEF Parted, Between, r

-----------------------------------------------------------------------------
(* Two tracks: the invariant. *)

Books ==
  /\ disturbed \in BOOLEAN /\ elsewhere \in Int /\ step \in Tracks \cup {"IDLE", "RECONCILE"}
  /\ suppressed \in SUBSET Opportunities /\ next \in 1..(Arisen + 1)
  /\ saved = Untouched
  /\ step \notin Tracks => ledger = Untouched
  /\ step \in Tracks => \E p : IsWorld(p) /\ ledger = Marked(step, p)
  /\ \A r \in replays : Tallied(r)

Shown ==
  /\ step = "BASELINE" => snapshots = << >> /\ suppressed = {}
  /\ step = "COUNTERFACTUAL" => \E b : IsShot(b) /\ snapshots = <<b>>
  /\ step = "RECONCILE" => \E b, c : IsShot(b) /\ IsShot(c) /\ snapshots = <<b, c>>

\* What the other track keeps of the first.
Compared(h, p) ==
  /\ History(h, Arisen + 1, elsewhere) /\ snapshots = <<Shot(h[Arisen + 1], {})>>
  /\ IsWorld(p) /\ ledger = Marked(step, p) /\ Keeps(h, p, suppressed, next)

Lived ==
  /\ step = "BASELINE" => \E h : History(h, next, elsewhere) /\ ledger = Marked(step, h[next])
  /\ step = "COUNTERFACTUAL" => \E h, p : Compared(h, p)
  /\ step = "RECONCILE" => PartedShots(snapshots[1], snapshots[2])

StatefulInv == Books /\ Shown /\ (~disturbed => Lived)

LEMMA StatefulInitially == StatefulInit => StatefulInv
<1>. SUFFICES ASSUME StatefulInit PROVE StatefulInv
  OBVIOUS
<1>. USE DEF StatefulInit
<1>1. Books
  <2>1. 1 \in 1..(Arisen + 1)
    BY ArisenIs
  <2>2. step \notin Tracks /\ step \in Tracks \cup {"IDLE", "RECONCILE"}
    BY DEF Tracks
  <2>3. /\ disturbed = FALSE /\ elsewhere = 0 /\ step = "IDLE" /\ suppressed = {} /\ next = 1
        /\ saved = Untouched /\ ledger = Untouched /\ replays = {}
    OBVIOUS
  <2>4. step \in Tracks => \E p : IsWorld(p) /\ ledger = Marked(step, p)
    BY <2>2, <2>3
  <2>5. \A r \in replays : Tallied(r)
    BY <2>3
  <2>6. /\ disturbed \in BOOLEAN /\ elsewhere \in Int
        /\ suppressed \in SUBSET Opportunities /\ next \in 1..(Arisen + 1)
    <3>1. disturbed \in BOOLEAN
      BY <2>3
    <3>2. elsewhere \in Int
      BY <2>3
    <3>3. suppressed \in SUBSET Opportunities
      BY <2>3
    <3>4. next \in 1..(Arisen + 1)
      BY <2>1, <2>3
    <3>. QED  BY <3>1, <3>2, <3>3, <3>4
  <2>. QED  BY <2>2, <2>3, <2>4, <2>5, <2>6 DEF Books
<1>2. Shown /\ Lived
  BY DEF Shown, Lived
<1>. QED  BY <1>1, <1>2 DEF StatefulInv

LEMMA RunKeeps == ASSUME StatefulInv, NEW w, Run(w) PROVE StatefulInv'
<1>. USE DEF Run, BeginTrack
<1>1. Books
  BY DEF StatefulInv
<1>2. ledger = Untouched /\ ledger' = Untouched /\ step' = "BASELINE" /\ next' = 1
      /\ suppressed' = {} /\ snapshots' = << >> /\ saved' = Untouched
      /\ elsewhere' = elsewhere /\ disturbed' = FALSE /\ replays' = replays
  BY <1>1 DEF Books, Tracks
<1>3. IsWorld(Untouched) /\ Untouched = Marked("BASELINE", Untouched)
  BY UntouchedIs
<1>4. Books'
  <2>1. 1 \in 1..(Arisen + 1)
    BY ArisenIs
  <2>2. step' \in Tracks /\ \E p : IsWorld(p) /\ ledger' = Marked(step', p)
    BY <1>2, <1>3 DEF Tracks
  <2>. QED  BY <1>1, <1>2, <2>1, <2>2 DEF Books
<1>5. Shown'
  BY <1>2 DEF Shown
<1>6. Lived'
  <2>1. PICK h : History(h, 1, elsewhere)
    BY HistoryStarts
  <2>2. h[1] = Untouched
    BY <2>1 DEF History
  <2>3. History(h, next', elsewhere') /\ ledger' = Marked(step', h[next'])
    BY <1>2, <1>3, <2>1, <2>2
  <2>. QED  BY <1>2, <2>3 DEF Lived
<1>. QED  BY <1>4, <1>5, <1>6 DEF StatefulInv

LEMMA ElsewhereKeeps == ASSUME StatefulInv, CommitElsewhere PROVE StatefulInv'
<1>. USE DEF CommitElsewhere
<1>1. elsewhere' \in Int /\ disturbed' = TRUE
  BY StatefulAssumption
<1>2. Books'
  BY <1>1 DEF StatefulInv, Books
<1>3. Shown'
  BY DEF StatefulInv, Shown
<1>. QED  BY <1>1, <1>2, <1>3 DEF StatefulInv

\* What a visit does to the world of the track.
LEMMA VisitIs ==
  ASSUME NEW p, IsWorld(p), ledger = Marked(step, p), elsewhere \in Int, Visit
  PROVE  /\ next \in Opportunities /\ next' = next + 1 /\ step' = step /\ step \in Tracks
         /\ saved' = saved /\ snapshots' = snapshots /\ elsewhere' = elsewhere
         /\ disturbed' = disturbed /\ replays' = replays
         /\ \/ /\ ledger' = Marked(step, StepIn(p, next, elsewhere))
               /\ suppressed' = suppressed
            \/ /\ Opportunity[next].day \notin p.halted /\ step = "COUNTERFACTUAL"
               /\ ledger' = ledger /\ suppressed' = suppressed \cup {next}
<1>. USE DEF Visit
<1>1. Own(ledger.halted) = p.halted
  BY OwnIs DEF Marked
<1>2. CASE Opportunity[next].day \in Own(ledger.halted) /\ UNCHANGED <<ledger, suppressed>>
  BY <1>1, <1>2 DEF StepIn
<1>3. CASE /\ Opportunity[next].day \notin Own(ledger.halted) /\ ShouldRoute(next)
           /\ ledger' = Traded(ledger, next)
           /\ UNCHANGED suppressed
  <2>1. Traded(ledger, next) = Marked(step, TradedIn(p, next, elsewhere))
    BY TradeIs
  <2>. QED  BY <1>1, <1>3, <2>1 DEF StepIn
<1>4. CASE /\ Opportunity[next].day \notin Own(ledger.halted) /\ ~ShouldRoute(next)
           /\ suppressed' = suppressed \cup {next}
           /\ UNCHANGED ledger
  BY <1>1, <1>4 DEF ShouldRoute
<1>. QED  BY <1>2, <1>3, <1>4

LEMMA VisitKeeps == ASSUME StatefulInv, Visit PROVE StatefulInv'
<1>1. Books /\ Shown /\ elsewhere \in Int /\ step \in Tracks
  BY DEF StatefulInv, Books, Visit
<1>2. PICK p : IsWorld(p) /\ ledger = Marked(step, p)
  BY <1>1 DEF Books
<1>3. /\ next \in Opportunities /\ next' = next + 1 /\ step' = step
      /\ saved' = saved /\ snapshots' = snapshots /\ elsewhere' = elsewhere
      /\ disturbed' = disturbed /\ replays' = replays
  BY <1>1, <1>2, VisitIs
<1>4. \/ ledger' = Marked(step, StepIn(p, next, elsewhere)) /\ suppressed' = suppressed
      \/ step = "COUNTERFACTUAL" /\ ledger' = ledger /\ suppressed' = suppressed \cup {next}
  BY <1>1, <1>2, VisitIs
<1>5. IsWorld(StepIn(p, next, elsewhere))
  BY <1>1, <1>2, <1>3, TradeIs DEF StepIn
<1>6. Books'
  <2>1. next' \in 1..(Arisen + 1)
    BY <1>3, ArisenIs
  <2>2. suppressed' \in SUBSET Opportunities
    BY <1>1, <1>3, <1>4 DEF Books
  <2>3. \E q : IsWorld(q) /\ ledger' = Marked(step', q)
    BY <1>2, <1>3, <1>4, <1>5
  <2>. QED  BY <1>1, <1>3, <2>1, <2>2, <2>3 DEF Books
<1>7. Shown'
  BY <1>1, <1>3, <1>4 DEF Shown
<1>8. ASSUME ~disturbed' PROVE Lived'
  <2>1. Lived
    BY <1>3, <1>8 DEF StatefulInv
  <2>2. CASE step = "BASELINE"
    <3>1. PICK h : History(h, next, elsewhere) /\ ledger = Marked(step, h[next])
      BY <2>1, <2>2 DEF Lived
    <3>2. IsWorld(h[next])
      <4>1. next \in 1..next
        BY <1>3, ArisenIs
      <4>. QED  BY <3>1, <4>1 DEF History
    <3>3. ledger' = Marked(step, StepIn(h[next], next, elsewhere))
      BY <1>1, <2>2, <3>1, <3>2, VisitIs
    <3>4. PICK g : /\ History(g, next + 1, elsewhere)
                   /\ g[next + 1] = StepIn(h[next], next, elsewhere)
      BY <1>1, <1>3, <3>1, HistoryGrows
    <3>5. History(g, next', elsewhere') /\ ledger' = Marked(step', g[next'])
      BY <1>3, <3>3, <3>4
    <3>. QED  BY <1>3, <2>2, <3>5 DEF Lived
  <2>3. CASE step = "COUNTERFACTUAL"
    <3>1. PICK h, q : Compared(h, q)
      BY <2>1, <2>3 DEF Lived
    <3>2. /\ History(h, Arisen + 1, elsewhere) /\ snapshots = <<Shot(h[Arisen + 1], {})>>
          /\ IsWorld(q) /\ ledger = Marked(step, q) /\ Keeps(h, q, suppressed, next)
      BY <3>1 DEF Compared
    <3>3. \/ /\ ledger' = Marked(step, StepIn(q, next, elsewhere)) /\ suppressed' = suppressed
          \/ /\ Opportunity[next].day \notin q.halted
             /\ ledger' = ledger /\ suppressed' = suppressed \cup {next}
      BY <1>1, <3>2, VisitIs
    <3>4. /\ Keeps(h, StepIn(q, next, elsewhere), suppressed, next + 1)
          /\ Opportunity[next].day \notin q.halted => Keeps(h, q, suppressed \cup {next}, next + 1)
      <4>1. suppressed \in SUBSET Opportunities
        BY <1>1 DEF Books
      <4>. QED  BY <1>1, <1>3, <3>2, <4>1, KeepsGrows
    <3>5. IsWorld(StepIn(q, next, elsewhere))
      BY <1>1, <1>3, <3>2, TradeIs DEF StepIn
    <3>6. \E r : Compared(h, r)'
      <4>1. CASE /\ ledger' = Marked(step, StepIn(q, next, elsewhere))
                 /\ suppressed' = suppressed
        <5>1. PICK r : r = StepIn(q, next, elsewhere)
          OBVIOUS
        <5>2. Compared(h, r)'
          BY <1>3, <3>2, <3>4, <3>5, <4>1, <5>1 DEF Compared
        <5>. QED  BY <5>2
      <4>2. CASE /\ Opportunity[next].day \notin q.halted
                 /\ ledger' = ledger /\ suppressed' = suppressed \cup {next}
        <5>1. Compared(h, q)'
          BY <1>3, <3>2, <3>4, <4>2 DEF Compared
        <5>. QED  BY <5>1
      <4>. QED  BY <3>3, <4>1, <4>2
    <3>. QED  BY <1>3, <2>3, <3>6 DEF Lived
  <2>. QED  BY <1>1, <2>2, <2>3 DEF Tracks
<1>. QED  BY <1>6, <1>7, <1>8 DEF StatefulInv

LEMMA AppendsTo == ASSUME NEW x, NEW y PROVE Append(<<x>>, y) = <<x, y>>
<1>1. x \in {x, y} /\ y \in {x, y}
  OBVIOUS
<1>. DEFINE S == {x, y}
<1>. HIDE DEF S
<1>2. x \in S /\ y \in S
  BY <1>1 DEF S
<1>3. <<x>> \in Seq(S) /\ Len(<<x>>) = 1
  BY <1>2
<1>4. /\ Append(<<x>>, y) \in Seq(S) /\ Len(Append(<<x>>, y)) = 2
      /\ Append(<<x>>, y)[1] = x /\ Append(<<x>>, y)[2] = y
  BY <1>2, <1>3
<1>5. <<x, y>> \in Seq(S) /\ Len(<<x, y>>) = 2 /\ <<x, y>>[1] = x /\ <<x, y>>[2] = y
  BY <1>2
<1>6. \A i \in 1..2 : i = 1 \/ i = 2
  OBVIOUS
<1>. QED  BY <1>4, <1>5, <1>6, SeqEqual

LEMMA SnapshotKeeps == ASSUME StatefulInv, Snapshot PROVE StatefulInv'
<1>. USE DEF Snapshot, Rollback
<1>1. Books /\ Shown /\ elsewhere \in Int /\ step \in Tracks
  BY DEF StatefulInv, Books
<1>2. PICK p : IsWorld(p) /\ ledger = Marked(step, p)
  BY <1>1 DEF Books
<1>3. next = Arisen + 1
  BY <1>1, ArisenIs DEF Books
<1>4. /\ ledger' = Untouched /\ elsewhere' = elsewhere /\ disturbed' = disturbed
      /\ replays' = replays
  BY <1>1 DEF Books
<1>5. /\ snapshots' = Append(snapshots, Shot(p, suppressed)) /\ IsShot(Shot(p, suppressed))
  BY <1>1, <1>2, SnapshotIs DEF Books, IsShot
<1>6. IsWorld(Untouched) /\ \A t : Marked(t, Untouched) = Untouched
  BY UntouchedIs
<1>7. CASE step = "BASELINE"
  <2>1. step' = "COUNTERFACTUAL" /\ saved' = Untouched /\ next' = 1 /\ suppressed' = {}
    BY <1>4, <1>7
  <2>2. snapshots = << >> /\ suppressed = {}
    BY <1>1, <1>7 DEF Shown
  <2>3. snapshots' = <<Shot(p, {})>> /\ IsShot(Shot(p, {}))
    BY <1>5, <2>2
  <2>4. Books'
    <3>1. 1 \in 1..(Arisen + 1) /\ step' \in Tracks
      BY <2>1, ArisenIs DEF Tracks
    <3>2. \E q : IsWorld(q) /\ ledger' = Marked(step', q)
      BY <1>4, <1>6
    <3>. QED  BY <1>1, <1>4, <2>1, <3>1, <3>2 DEF Books
  <2>5. Shown'
    BY <2>1, <2>3 DEF Shown
  <2>6. ASSUME ~disturbed' PROVE Lived'
    <3>1. PICK h : History(h, next, elsewhere) /\ ledger = Marked(step, h[next])
      BY <1>4, <1>7, <2>6 DEF StatefulInv, Lived
    <3>2. h[1] = Untouched /\ IsWorld(h[next])
      <4>1. next \in 1..next
        BY <1>3, ArisenIs
      <4>. QED  BY <3>1, <4>1 DEF History
    <3>3. snapshots' = <<Shot(h[Arisen + 1], {})>>
      BY <1>3, <2>2, <3>1, <3>2, SnapshotIs
    <3>4. Keeps(h, Untouched, {}, 1)
      BY <3>2 DEF Keeps
    <3>5. Compared(h, Untouched)'
      BY <1>3, <1>4, <1>6, <2>1, <3>1, <3>3, <3>4 DEF Compared
    <3>. QED  BY <2>1, <3>5 DEF Lived
  <2>. QED  BY <2>4, <2>5, <2>6 DEF StatefulInv
<1>8. CASE step = "COUNTERFACTUAL"
  <2>1. step' = "RECONCILE" /\ saved' = saved /\ next' = next /\ suppressed' = suppressed
    BY <1>8
  <2>2. PICK b : IsShot(b) /\ snapshots = <<b>>
    BY <1>1, <1>8 DEF Shown
  <2>3. snapshots' = <<b, Shot(p, suppressed)>>
    BY <1>5, <2>2, AppendsTo
  <2>4. Books'
    BY <1>1, <1>4, <2>1 DEF Books, Tracks
  <2>5. Shown'
    BY <1>5, <2>1, <2>2, <2>3 DEF Shown
  <2>6. ASSUME ~disturbed' PROVE Lived'
    <3>1. PICK h, q : Compared(h, q)
      BY <1>4, <1>8, <2>6 DEF StatefulInv, Lived
    <3>2. /\ History(h, Arisen + 1, elsewhere) /\ snapshots = <<Shot(h[Arisen + 1], {})>>
          /\ IsWorld(q) /\ ledger = Marked(step, q) /\ Keeps(h, q, suppressed, Arisen + 1)
      BY <1>3, <3>1 DEF Compared
    <3>3. snapshots' = <<Shot(h[Arisen + 1], {}), Shot(q, suppressed)>>
      <4>1. SnapshotOf(ledger) = Shot(q, suppressed)
        BY <3>2, SnapshotIs
      <4>. QED  BY <3>2, <4>1, AppendsTo
    <3>4. PartedShots(Shot(h[Arisen + 1], {}), Shot(q, suppressed))
      <4>1. suppressed \in SUBSET Opportunities
        BY <1>1 DEF Books
      <4>. QED  BY <1>1, <3>2, <4>1, ShotsPart
    <3>. QED  BY <2>1, <3>3, <3>4 DEF Lived
  <2>. QED  BY <2>4, <2>5, <2>6 DEF StatefulInv
<1>. QED  BY <1>1, <1>7, <1>8 DEF Tracks

LEMMA FailKeeps == ASSUME StatefulInv, FailTrack PROVE StatefulInv'
<1>. USE DEF FailTrack, Rollback
<1>1. Books'
  BY DEF StatefulInv, Books, Tracks
<1>2. Shown' /\ Lived'
  BY DEF Shown, Lived
<1>. QED  BY <1>1, <1>2 DEF StatefulInv

\* The run that is stored, and what the two snapshots of an undisturbed one show.
LEMMA ReconcileKeeps ==
  ASSUME StatefulInv, Reconcile
  PROVE  StatefulInv' /\ (~disturbed => \A r \in replays' \ replays : Parted(r))
<1>. USE DEF Reconcile
<1>1. Books /\ Shown
  BY DEF StatefulInv
<1>2. PICK b, c : IsShot(b) /\ IsShot(c) /\ snapshots = <<b, c>>
  BY <1>1 DEF Shown
<1>3. snapshots[1] = b /\ snapshots[2] = c
  BY <1>2
<1>4. replays' = replays \cup {RunRow(b, c)}
  BY <1>3
<1>5. Tallied(RunRow(b, c))
  BY <1>2, RowIsTallied
<1>6. Books'
  BY <1>1, <1>4, <1>5 DEF Books, Tracks
<1>7. Shown' /\ Lived'
  BY DEF Shown, Lived
<1>8. ASSUME ~disturbed PROVE Parted(RunRow(b, c))
  <2>1. PartedShots(b, c)
    BY <1>3, <1>8 DEF StatefulInv, Lived
  <2>. QED  BY <1>2, <2>1, RowParts
<1>. QED  BY <1>4, <1>6, <1>7, <1>8 DEF StatefulInv

LEMMA StatefulKeeps ==
  StatefulInv /\ [StatefulNext]_statefulVars
    => StatefulInv' /\ (~disturbed => \A r \in replays' \ replays : Parted(r))
<1>. SUFFICES ASSUME StatefulInv, [StatefulNext]_statefulVars
              PROVE  StatefulInv' /\ (~disturbed => \A r \in replays' \ replays : Parted(r))
  OBVIOUS
<1>1. ASSUME NEW w \in Windows, Run(w) PROVE StatefulInv' /\ replays' = replays
  BY <1>1, RunKeeps DEF Run
<1>2. CASE CommitElsewhere
  BY <1>2, ElsewhereKeeps DEF CommitElsewhere
<1>3. CASE Visit
  BY <1>3, VisitKeeps DEF Visit
<1>4. CASE Snapshot
  BY <1>4, SnapshotKeeps DEF Snapshot
<1>5. CASE FailTrack
  BY <1>5, FailKeeps DEF FailTrack
<1>6. CASE Reconcile
  BY <1>6, ReconcileKeeps
<1>7. CASE UNCHANGED statefulVars
  BY <1>7 DEF statefulVars, StatefulInv, Books, Shown, Lived, Compared
<1>. QED  BY <1>1, <1>2, <1>3, <1>4, <1>5, <1>6, <1>7 DEF StatefulNext

LEMMA StatefulShows == StatefulInv => StatefulTypeOK /\ TracksLeaveNothing /\ SessionDeltasAddUp
<1>. SUFFICES ASSUME StatefulInv
              PROVE  StatefulTypeOK /\ TracksLeaveNothing /\ SessionDeltasAddUp
  OBVIOUS
<1>1. Books
  BY DEF StatefulInv
<1>2. Own(ledger.trades) \in SUBSET Opportunities
  <2>1. CASE step \in Tracks
    <3>1. PICK p : IsWorld(p) /\ ledger = Marked(step, p)
      BY <1>1, <2>1 DEF Books
    <3>2. Own(ledger.trades) = p.trades
      BY <3>1, OwnIs DEF Marked
    <3>. QED  BY <3>1, <3>2 DEF IsWorld
  <2>2. CASE step \notin Tracks
    BY <1>1, <2>2 DEF Books, Untouched, Own
  <2>. QED  BY <2>1, <2>2
<1>3. StatefulTypeOK
  BY <1>1, <1>2 DEF Books, StatefulTypeOK, Tallied
<1>4. TracksLeaveNothing
  BY <1>1 DEF Books, TracksLeaveNothing
<1>5. SessionDeltasAddUp
  BY <1>1 DEF Books, SessionDeltasAddUp, Tallied
<1>. QED  BY <1>3, <1>4, <1>5

\* The two worlds of a run part at a veto and nowhere else, the days of every
\* stored run add up to it, and a track leaves nothing behind: for every sample,
\* every set of objections, and every moment at which a track fails or another
\* session commits.
THEOREM WorldsPartAtAVeto == StatefulSpec => WorldsPartAtVetoes
<1>1. StatefulInv /\ [StatefulNext]_statefulVars
        => [~disturbed => \A r \in replays' \ replays : Parted(r)]_statefulVars
  BY StatefulKeeps
<1>2. StatefulSpec => []StatefulInv
  <2>1. StatefulInv /\ [StatefulNext]_statefulVars => StatefulInv'
    BY StatefulKeeps
  <2>. QED  BY <2>1, StatefulInitially, PTL DEF StatefulSpec
<1>3. StatefulSpec => [](StatefulTypeOK /\ TracksLeaveNothing /\ SessionDeltasAddUp)
  BY <1>2, StatefulShows, PTL
<1>4. StatefulSpec => PartAtAVeto
  BY <1>1, <1>2, PTL DEF StatefulSpec, PartAtAVeto
<1>. QED  BY <1>3, <1>4, PTL DEF WorldsPartAtVetoes
===============================================================================
