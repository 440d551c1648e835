-------------------------- MODULE ReplicationProofs --------------------------
(***************************************************************************)
(* Theorems about Replication, for every pool, every set of proposals and  *)
(* sessions, and every interleaving of their transactions.                 *)
(***************************************************************************)
EXTENDS Replication, TLAPS

\* A newly opened transaction is well typed, and replaces none.
LEMMA OpenType ==
  ASSUME TypeOK, NEW s \in Sessions, NEW c \in Codes, NEW t \in Times,
         NEW op \in {"PROPOSE", "RELEASE", "AUTHORIZE", "GENESIS"},
         NEW d \in Decisions, NEW rows \in SUBSET Allocs,
         Open(s, Opened(op, c, t, d, rows))
  PROVE  /\ tx' \in [Sessions -> SUBSET Tx]
         /\ \A r \in Sessions : \A x, y \in tx'[r] : x = y
<1>1. Opened(op, c, t, d, rows) \in Tx
  BY PoolAssumption DEF Opened, Tx, Nothing, Allocs
<1> QED
  BY <1>1 DEF Open, TypeOK

\* Closing a transaction leaves the others.
LEMMA CloseType ==
  ASSUME TypeOK, NEW s \in Sessions, Close(s)
  PROVE  /\ tx' \in [Sessions -> SUBSET Tx]
         /\ \A r \in Sessions : \A x, y \in tx'[r] : x = y
BY DEF Close, TypeOK

\* Appending a proposal event yields states and times.
LEMMA AppendType ==
  ASSUME TypeOK, NEW c \in Codes, NEW from, NEW to \in States, NEW t \in Times, Append(c, from, to, t)
  PROVE  state' \in [Codes -> States] /\ stateAt' \in [Codes -> Nat]
BY DEF Append, TypeOK, Times

\* Releasing reservations keeps every variable it changes well typed.
LEMMA ReleaseType ==
  ASSUME TypeOK, NEW c \in Codes, NEW rows \in SUBSET Allocs, NEW won, NEW t \in Times,
         ReleaseRows(c, rows, won, t)
  PROVE  /\ reservation' \in [Codes -> [Allocs -> EventTypes]]
         /\ reservationAt' \in [Codes -> [Allocs -> Nat]]
         /\ held' \in [Allocs -> Int]
         /\ UNCHANGED <<consumed, children, spent>>
<1>1. reservation[c] \in [Allocs -> EventTypes] /\ reservationAt[c] \in [Allocs -> Nat]
      /\ refs[c] \in [Allocs -> Nat]
  BY DEF TypeOK
<1>2. [a \in Allocs |-> IF a \in won THEN "RELEASED" ELSE reservation[c][a]]
        \in [Allocs -> EventTypes]
  BY <1>1 DEF EventTypes
<1>3. [a \in Allocs |-> IF a \in rows THEN t ELSE reservationAt[c][a]] \in [Allocs -> Nat]
  BY <1>1 DEF Times
<1> QED
  BY <1>1, <1>2, <1>3 DEF ReleaseRows, TypeOK

\* What a proposal takes is between nothing and what it still needs.
LEMMA TakesBounds ==
  ASSUME TypeOK, NEW x \in Tx, NEW a \in Allocs
  PROVE  /\ Takes(x, a) \in 0..x.remaining
         /\ Takes(x, a) > 0 => a \in x.rows /\ Takes(x, a) <= Available(a)
<1>1. x.remaining \in Nat /\ Available(a) \in Int
  BY PoolAssumption DEF Tx, TypeOK, Available
<1> QED
  BY <1>1 DEF Takes

\* Every step keeps the types, action by action.
LEMMA TypeStep ==
  ASSUME TypeOK, [Next]_vars
  PROVE  TypeOK'
<1> USE DEF States, Decisions
<1>1. ASSUME NEW a \in Allocs, SiphonAllocates(a) PROVE TypeOK'
  BY <1>1 DEF SiphonAllocates, proposal, cash, TypeOK
<1>2. ASSUME NEW s \in Sessions, NEW c \in Codes, NEW t \in Times,
             \/ ProposeLock(s, c, t) \/ ReleaseLock(s, c, t)
             \/ AuthorizeLock(s, c, "APPROVE", t) \/ AuthorizeLock(s, c, "REJECT", t)
             \/ GenesisLock(s, c, t)
      PROVE  TypeOK'
  <2>1. UNCHANGED <<funded, proposal, cash>>
    BY <1>2 DEF ProposeLock, ReleaseLock, AuthorizeLock, GenesisLock
  <2>2. PICK op \in {"PROPOSE", "RELEASE", "AUTHORIZE", "GENESIS"} :
          \E d \in Decisions : \E rows \in SUBSET Allocs : Open(s, Opened(op, c, t, d, rows))
    BY <1>2 DEF ProposeLock, ReleaseLock, AuthorizeLock, GenesisLock, TypeOK
  <2>3. /\ tx' \in [Sessions -> SUBSET Tx]
        /\ \A r \in Sessions : \A x, y \in tx'[r] : x = y
    BY <2>2, OpenType
  <2> QED
    BY <2>1, <2>3 DEF TypeOK, proposal, cash
<1>3. ASSUME NEW s \in Sessions, ProposeRead(s) PROVE TypeOK'
  <2>1. PICK x \in tx[s] :
          /\ x.next \in Allocs
          /\ tx' = [tx EXCEPT ![s] =
               {[x EXCEPT !.next = @ + 1, !.refs[x.next] = Takes(x, x.next),
                          !.remaining = @ - Takes(x, x.next)]}]
          /\ UNCHANGED <<funded, proposal, cash>>
    BY <1>3 DEF ProposeRead
  <2>2. x \in Tx
    BY DEF TypeOK
  <2>3. Takes(x, x.next) \in 0..x.remaining /\ x.remaining \in 0..Threshold
    BY <2>1, <2>2, TakesBounds DEF Tx
  <2>4. [x EXCEPT !.next = @ + 1, !.refs[x.next] = Takes(x, x.next),
                  !.remaining = @ - Takes(x, x.next)] \in Tx
    <3>1. /\ x.next + 1 \in 1..(Last + 1) /\ x.remaining - Takes(x, x.next) \in 0..Threshold
          /\ Takes(x, x.next) \in 0..Threshold
      BY <2>1, <2>3, PoolAssumption DEF Allocs
    <3>2. [x.refs EXCEPT ![x.next] = Takes(x, x.next)] \in [Allocs -> 0..Threshold]
      BY <2>1, <2>2, <3>1 DEF Tx
    <3> QED
      BY <2>2, <3>1, <3>2 DEF Tx
  <2> QED
    BY <2>1, <2>4 DEF TypeOK, proposal, cash
<1>4. ASSUME NEW s \in Sessions, ProposeCommit(s) PROVE TypeOK'
  <2>1. PICK x \in tx[s] :
          /\ refs' = [refs EXCEPT ![x.code] = x.refs]
          /\ state' = [state EXCEPT ![x.code] = "PENDING_AUTHORIZATION"]
          /\ stateAt' = [stateAt EXCEPT ![x.code] = x.at]
          /\ reservation' = [reservation EXCEPT ![x.code] =
                 [a \in Allocs |-> IF x.refs[a] > 0 THEN "RESERVED" ELSE "NONE"]]
          /\ reservationAt' = [reservationAt EXCEPT ![x.code] = [a \in Allocs |-> x.at]]
          /\ held' = [a \in Allocs |-> held[a] + x.refs[a]]
          /\ Close(s)
          /\ UNCHANGED <<funded, decision, cancelledAt, consumed, children, spent>>
    BY <1>4 DEF ProposeCommit
  <2>2. x \in Tx
    BY DEF TypeOK
  <2>3. /\ x.refs \in [Allocs -> 0..Threshold] /\ x.at \in Nat /\ x.code \in Codes
    BY <2>2 DEF Tx, Times
  <2>4. [a \in Allocs |-> IF x.refs[a] > 0 THEN "RESERVED" ELSE "NONE"] \in [Allocs -> EventTypes]
    BY DEF EventTypes
  <2>5. held' \in [Allocs -> Int]
    BY <2>1, <2>3, PoolAssumption DEF TypeOK
  <2> QED
    BY <2>1, <2>3, <2>4, <2>5, CloseType DEF TypeOK
<1>5. ASSUME NEW s \in Sessions, ReleaseCommit(s) PROVE TypeOK'
  <2>1. PICK x \in tx[s] :
          /\ \E won \in SUBSET Reserved(x.code) : ReleaseRows(x.code, Reserved(x.code), won, x.at)
          /\ Append(x.code, "PENDING_AUTHORIZATION", "CANCELLED", x.at)
          /\ cancelledAt' = [cancelledAt EXCEPT ![x.code] = @ \cup {x.at}]
          /\ Close(s)
          /\ UNCHANGED <<funded, refs, decision>>
    BY <1>5 DEF ReleaseCommit
  <2>2. x.code \in Codes /\ x.at \in Times
    BY DEF TypeOK, Tx
  <2>3. Reserved(x.code) \in SUBSET Allocs
    BY DEF Reserved
  <2>4. /\ reservation' \in [Codes -> [Allocs -> EventTypes]]
        /\ reservationAt' \in [Codes -> [Allocs -> Nat]]
        /\ held' \in [Allocs -> Int]
        /\ UNCHANGED <<consumed, children, spent>>
    BY <2>1, <2>2, <2>3, ReleaseType
  <2>5. state' \in [Codes -> States] /\ stateAt' \in [Codes -> Nat]
    BY <2>1, <2>2, AppendType
  <2>6. cancelledAt' \in [Codes -> SUBSET Times]
    BY <2>1, <2>2 DEF TypeOK
  <2>7. /\ tx' \in [Sessions -> SUBSET Tx]
        /\ \A r \in Sessions : \A z, y \in tx'[r] : z = y
    BY <2>1, CloseType
  <2> QED
    BY <2>1, <2>4, <2>5, <2>6, <2>7 DEF TypeOK
<1>6. ASSUME NEW s \in Sessions, Approve(s) PROVE TypeOK'
  <2>1. PICK x \in tx[s] :
          /\ decision' = [decision EXCEPT ![x.code] = "APPROVE"]
          /\ Append(x.code, "PENDING_AUTHORIZATION", "AUTHORIZED", x.at)
          /\ Close(s)
          /\ UNCHANGED <<funded, refs, cancelledAt, cash>>
    BY <1>6 DEF Approve
  <2>2. x.code \in Codes /\ x.at \in Times
    BY DEF TypeOK, Tx
  <2>3. state' \in [Codes -> States] /\ stateAt' \in [Codes -> Nat]
    BY <2>1, <2>2, AppendType
  <2> QED
    BY <2>1, <2>2, <2>3, CloseType DEF TypeOK, cash
<1>7. ASSUME NEW s \in Sessions, Reject(s) PROVE TypeOK'
  <2>1. PICK x \in tx[s] :
          /\ decision' = [decision EXCEPT ![x.code] = "REJECT"]
          /\ \E won \in SUBSET RejectedRows(x.code) :
               ReleaseRows(x.code, RejectedRows(x.code), won, x.at)
          /\ Append(x.code, "PENDING_AUTHORIZATION", "REJECTED", x.at)
          /\ Close(s)
          /\ UNCHANGED <<funded, refs, cancelledAt>>
    BY <1>7 DEF Reject
  <2>2. x.code \in Codes /\ x.at \in Times
    BY DEF TypeOK, Tx
  <2>3. RejectedRows(x.code) \in SUBSET Allocs
    BY DEF RejectedRows, Holding
  <2>4. /\ reservation' \in [Codes -> [Allocs -> EventTypes]]
        /\ reservationAt' \in [Codes -> [Allocs -> Nat]]
        /\ held' \in [Allocs -> Int]
        /\ UNCHANGED <<consumed, children, spent>>
    BY <2>1, <2>2, <2>3, ReleaseType
  <2>5. state' \in [Codes -> States] /\ stateAt' \in [Codes -> Nat]
    BY <2>1, <2>2, AppendType
  <2> QED
    BY <2>1, <2>2, <2>4, <2>5, CloseType DEF TypeOK
<1>8. ASSUME NEW s \in Sessions, GenesisCommit(s) PROVE TypeOK'
  <2>1. PICK x \in tx[s] :
          /\ children' = children \cup {x.code}
          /\ consumed' = [consumed EXCEPT ![x.code] = refs[x.code]]
          /\ reservation' = [reservation EXCEPT ![x.code] =
               [a \in Allocs |-> IF a \in Reserved(x.code) THEN "CONSUMED" ELSE @[a]]]
          /\ reservationAt' = [reservationAt EXCEPT ![x.code] =
               [a \in Allocs |-> IF a \in Reserved(x.code) THEN x.at ELSE @[a]]]
          /\ spent' = [a \in Allocs |-> spent[a] + refs[x.code][a]]
          /\ held' = [a \in Allocs |-> held[a] - refs[x.code][a]]
          /\ Append(x.code, "AUTHORIZED", "EXECUTED", x.at)
          /\ Close(s)
          /\ UNCHANGED <<funded, refs, decision, cancelledAt>>
    BY <1>8 DEF GenesisCommit, ConsumeRows
  <2>2. x.code \in Codes /\ x.at \in Times
    BY DEF TypeOK, Tx
  <2>3. state' \in [Codes -> States] /\ stateAt' \in [Codes -> Nat]
    BY <2>1, <2>2, AppendType
  <2>4. /\ refs[x.code] \in [Allocs -> Nat] /\ reservation[x.code] \in [Allocs -> EventTypes]
        /\ reservationAt[x.code] \in [Allocs -> Nat]
    BY <2>2, PoolAssumption DEF TypeOK
  <2>5. reservation' \in [Codes -> [Allocs -> EventTypes]]
    BY <2>1, <2>4 DEF TypeOK, EventTypes
  <2>6. reservationAt' \in [Codes -> [Allocs -> Nat]]
    BY <2>1, <2>2, <2>4 DEF TypeOK, Times
  <2>7. spent' \in [Allocs -> Nat] /\ held' \in [Allocs -> Int]
    BY <2>1, <2>4 DEF TypeOK
  <2>8. consumed' \in [Codes -> [Allocs -> Nat]] /\ children' \subseteq Codes
    BY <2>1, <2>2, <2>4 DEF TypeOK
  <2> QED
    BY <2>1, <2>3, <2>5, <2>6, <2>7, <2>8, CloseType DEF TypeOK
<1>9. ASSUME NEW s \in Sessions, Rollback(s) PROVE TypeOK'
  BY <1>9, CloseType DEF Rollback, proposal, cash, TypeOK
<1>10. CASE UNCHANGED vars
  BY <1>10 DEF vars, proposal, cash, TypeOK
<1> QED
  BY <1>1, <1>2, <1>3, <1>4, <1>5, <1>6, <1>7, <1>8, <1>9, <1>10 DEF Next

\* Every reachable state is well typed, for every pool and number of sessions.
THEOREM TypeCorrect == Spec => []TypeOK
<1>1. Init => TypeOK
  BY PoolAssumption DEF Init, TypeOK, States, Decisions, EventTypes, Nothing
<1> QED
  BY <1>1, TypeStep, PTL DEF Spec

-----------------------------------------------------------------------------
(* Commitments. *)

Committed(a) == held[a] + spent[a]

\* Releasing only lowers what is committed.
LEMMA ReleaseLowers ==
  ASSUME TypeOK, NEW c \in Codes, NEW rows \in SUBSET Allocs, NEW won, NEW t,
         ReleaseRows(c, rows, won, t), NEW a \in Allocs
  PROVE  Committed(a)' <= Committed(a)
<1>1. refs[c][a] \in Nat /\ held[a] \in Int /\ spent[a] \in Nat /\ spent' = spent
  BY PoolAssumption DEF TypeOK, ReleaseRows
<1>2. held'[a] = held[a] - refs[c][a] \/ held'[a] = held[a]
  BY DEF ReleaseRows
<1> QED
  BY <1>1, <1>2 DEF Committed

\* Commitments grow only when a proposal reserves what the trigger let through;
\* a genesis turns held dollars into spent ones.
LEMMA CommitmentStep ==
  ASSUME TypeOK, [Next]_vars
  PROVE  \/ \A a \in Allocs : Committed(a)' <= Committed(a)
         \/ \E s \in Sessions : \E x \in tx[s] :
              /\ x.op = "PROPOSE" /\ Close(s)
              /\ \A a \in Allocs : x.refs[a] > 0 => Fits(a, x.refs[a])
              /\ held' = [a \in Allocs |-> held[a] + x.refs[a]]
              /\ spent' = spent
<1>1. ASSUME UNCHANGED <<held, spent>>
      PROVE  \A a \in Allocs : Committed(a)' <= Committed(a)
  BY <1>1 DEF TypeOK, Committed
<1>2. ASSUME NEW s \in Sessions, ReleaseCommit(s) \/ Reject(s)
      PROVE  \A a \in Allocs : Committed(a)' <= Committed(a)
  <2>1. PICK x \in tx[s] : \E rows \in SUBSET Allocs : \E won \in SUBSET rows :
           ReleaseRows(x.code, rows, won, x.at)
    BY <1>2 DEF ReleaseCommit, Reject, Reserved, RejectedRows, Holding
  <2>2. x.code \in Codes
    BY DEF TypeOK, Tx
  <2> QED
    BY <2>1, <2>2, ReleaseLowers
<1>3. ASSUME NEW s \in Sessions, GenesisCommit(s)
      PROVE  \A a \in Allocs : Committed(a)' <= Committed(a)
  <2>1. PICK x \in tx[s] : /\ spent' = [a \in Allocs |-> spent[a] + refs[x.code][a]]
                           /\ held' = [a \in Allocs |-> held[a] - refs[x.code][a]]
    BY <1>3 DEF GenesisCommit, ConsumeRows
  <2>2. \A a \in Allocs : refs[x.code][a] \in Nat /\ held[a] \in Int /\ spent[a] \in Nat
    BY PoolAssumption DEF TypeOK, Tx
  <2> QED
    BY <2>1, <2>2 DEF Committed
<1>4. ASSUME NEW s \in Sessions, ProposeCommit(s)
      PROVE  \E x \in tx[s] :
              /\ x.op = "PROPOSE" /\ Close(s)
              /\ \A a \in Allocs : x.refs[a] > 0 => Fits(a, x.refs[a])
              /\ held' = [a \in Allocs |-> held[a] + x.refs[a]]
              /\ spent' = spent
  BY <1>4 DEF ProposeCommit
<1>5. UNCHANGED vars => UNCHANGED <<held, spent>>
  BY DEF vars, cash
<1>6. \A a \in Allocs : SiphonAllocates(a) => UNCHANGED <<held, spent>>
  BY DEF SiphonAllocates, cash
<1>7. \A s \in Sessions : \A c \in Codes : \A t \in Times :
        (\/ ProposeLock(s, c, t) \/ ReleaseLock(s, c, t)
         \/ AuthorizeLock(s, c, "APPROVE", t) \/ AuthorizeLock(s, c, "REJECT", t)
         \/ GenesisLock(s, c, t)) => UNCHANGED <<held, spent>>
  BY DEF ProposeLock, ReleaseLock, AuthorizeLock, GenesisLock, cash
<1>8. \A s \in Sessions : ProposeRead(s) \/ Approve(s) \/ Rollback(s) => UNCHANGED <<held, spent>>
  BY DEF ProposeRead, Approve, Rollback, cash
<1> QED
  BY <1>1, <1>2, <1>3, <1>4, <1>5, <1>6, <1>7, <1>8 DEF Next

\* No allocation is ever committed beyond its dollars, whatever the number of
\* sessions, their interleaving and the timestamps they use.
THEOREM NoOvercommitment == Spec => []NeverOvercommitted
<1>1. Init => NeverOvercommitted
  BY PoolAssumption DEF Init, NeverOvercommitted, Nothing
<1>2. ASSUME TypeOK, NeverOvercommitted, [Next]_vars PROVE NeverOvercommitted'
  <2> SUFFICES ASSUME NEW a \in Allocs PROVE spent'[a] + held'[a] <= Amount[a]
    BY DEF NeverOvercommitted
  <2>0. spent[a] \in Nat /\ held[a] \in Int /\ Amount[a] \in Nat /\ TypeOK'
    BY <1>2, TypeStep, PoolAssumption DEF TypeOK
  <2>1. CASE \A b \in Allocs : Committed(b)' <= Committed(b)
    BY <1>2, <2>0, <2>1 DEF NeverOvercommitted, Committed, TypeOK
  <2>2. CASE \E s \in Sessions : \E x \in tx[s] :
              /\ x.op = "PROPOSE" /\ Close(s)
              /\ \A b \in Allocs : x.refs[b] > 0 => Fits(b, x.refs[b])
              /\ held' = [b \in Allocs |-> held[b] + x.refs[b]]
              /\ spent' = spent
    <3>1. PICK s \in Sessions : \E x \in tx[s] :
              /\ x.refs[a] > 0 => Fits(a, x.refs[a])
              /\ held'[a] = held[a] + x.refs[a]
              /\ spent' = spent
      BY <2>2
    <3>2. PICK x \in tx[s] :
              /\ x.refs[a] > 0 => Fits(a, x.refs[a])
              /\ held'[a] = held[a] + x.refs[a]
              /\ spent' = spent
      BY <3>1
    <3>3. x.refs[a] \in Nat
      BY <1>2, PoolAssumption DEF TypeOK, Tx
    <3> QED
      BY <1>2, <2>0, <3>2, <3>3 DEF NeverOvercommitted, Fits
  <2> QED
    BY <1>2, <2>1, <2>2, CommitmentStep
<1> QED
  BY <1>1, <1>2, TypeCorrect, PTL DEF Spec

-----------------------------------------------------------------------------
(* Plans made under the allocation locks. *)

\* A plan draws on rows its transaction has locked and read, and still fits.
PlanHolds(x) ==
  \A a \in Allocs : x.refs[a] > 0 => a \in x.rows /\ a < x.next /\ Fits(a, x.refs[a])
Plans == \A s \in Sessions : \A x \in tx[s] : x.op = "PROPOSE" => PlanHolds(x)

\* No two transactions hold the same allocation.
Exclusive ==
  \A s, r \in Sessions : \A x \in tx[s], y \in tx[r] :
    s # r /\ x.op = "PROPOSE" /\ y.op = "PROPOSE" => x.rows \cap y.rows = {}

\* Where an open transaction comes from.
LEMMA TransactionStep ==
  ASSUME TypeOK, [Next]_vars, NEW r \in Sessions, NEW y \in tx'[r], y.op = "PROPOSE"
  PROVE  \/ y \in tx[r] /\ UNCHANGED tx
         \/ y \in tx[r] /\ \E s \in Sessions : s # r /\ Close(s)
         \/ y \in tx[r] /\ \E s \in Sessions : \E c \in Codes : \E t \in Times :
              s # r /\ ProposeLock(s, c, t)
         \/ y \in tx[r] /\ \E s \in Sessions : \E x : s # r /\ x.op # "PROPOSE" /\ Open(s, x)
         \/ y \in tx[r] /\ \E s \in Sessions : s # r /\ ProposeRead(s)
         \/ \E c \in Codes : \E t \in Times : ProposeLock(r, c, t)
         \/ ProposeRead(r)
<1>1. \A s \in Sessions : Close(s) => s # r /\ y \in tx[r]
  BY DEF Close, TypeOK
<1>2. \A s \in Sessions : ProposeRead(s) => s = r \/ y \in tx[r]
  BY DEF ProposeRead, TypeOK
<1>3. \A s \in Sessions : \A x : Open(s, x) /\ x.op # "PROPOSE" => s # r /\ y \in tx[r]
  BY DEF Open, TypeOK
<1>4. \A s \in Sessions : \A c \in Codes : \A t \in Times :
        ProposeLock(s, c, t) => s = r \/ y \in tx[r]
  BY DEF ProposeLock, Open, TypeOK
<1>5. \A s \in Sessions : \A c \in Codes : \A t \in Times :
        (\/ ReleaseLock(s, c, t)
         \/ AuthorizeLock(s, c, "APPROVE", t) \/ AuthorizeLock(s, c, "REJECT", t)
         \/ GenesisLock(s, c, t)) => \E x : x.op # "PROPOSE" /\ Open(s, x)
  BY DEF ReleaseLock, AuthorizeLock, GenesisLock, Opened
<1>6. \A s \in Sessions :
        (\/ ProposeCommit(s) \/ ReleaseCommit(s) \/ Approve(s) \/ Reject(s)
         \/ GenesisCommit(s) \/ Rollback(s)) => Close(s)
  BY DEF ProposeCommit, ReleaseCommit, Approve, Reject, GenesisCommit, Rollback
<1>7. \A a \in Allocs : SiphonAllocates(a) => UNCHANGED tx
  BY DEF SiphonAllocates
<1>8. UNCHANGED vars => UNCHANGED tx
  BY DEF vars
<1> QED
  BY <1>1, <1>2, <1>3, <1>4, <1>5, <1>6, <1>7, <1>8 DEF Next

\* Fitting survives a step of which the allocation's commitments do not grow.
LEMMA FitsStays ==
  ASSUME TypeOK, TypeOK', NEW a \in Allocs, NEW n \in Nat, Fits(a, n),
         Committed(a)' <= Committed(a)
  PROVE  Fits(a, n)'
<1>1. held[a] \in Int /\ spent[a] \in Nat /\ held'[a] \in Int /\ spent'[a] \in Nat
      /\ Amount[a] \in Nat
  BY PoolAssumption DEF TypeOK
<1> QED
  BY <1>1 DEF Fits, Committed

\* The rows of a plan are those its transaction had locked, or free ones it
\* locks now while the other transactions stand still.
LEMMA RowsStep ==
  ASSUME TypeOK, [Next]_vars, NEW r \in Sessions, NEW y \in tx'[r], y.op = "PROPOSE"
  PROVE  \/ \E z \in tx[r] : z.op = "PROPOSE" /\ z.rows = y.rows
         \/ /\ y.rows = funded
            /\ \A a \in funded : ~AllocationLocked(a)
            /\ \A s \in Sessions : s # r => tx'[s] = tx[s]
<1>1. ASSUME NEW c \in Codes, NEW t \in Times, ProposeLock(r, c, t)
      PROVE  /\ y.rows = funded
             /\ \A a \in funded : ~AllocationLocked(a)
             /\ \A s \in Sessions : s # r => tx'[s] = tx[s]
  BY <1>1 DEF ProposeLock, Open, Opened, TypeOK
<1>2. ASSUME ProposeRead(r)
      PROVE  \E z \in tx[r] : z.op = "PROPOSE" /\ z.rows = y.rows
  <2>1. PICK x \in tx[r] :
          /\ x.op = "PROPOSE"
          /\ tx' = [tx EXCEPT ![r] =
               {[x EXCEPT !.next = @ + 1, !.refs[x.next] = Takes(x, x.next),
                          !.remaining = @ - Takes(x, x.next)]}]
    BY <1>2 DEF ProposeRead
  <2>2. x \in Tx
    BY DEF TypeOK
  <2>3. y = [x EXCEPT !.next = @ + 1, !.refs[x.next] = Takes(x, x.next),
                      !.remaining = @ - Takes(x, x.next)]
    BY <2>1 DEF TypeOK
  <2>4. x.rows = y.rows
    BY <2>2, <2>3 DEF Tx
  <2> QED
    BY <2>1, <2>4
<1> QED
  BY <1>1, <1>2, TransactionStep

LEMMA ExclusiveStep ==
  ASSUME TypeOK, Exclusive, [Next]_vars
  PROVE  Exclusive'
<1> SUFFICES ASSUME NEW s \in Sessions, NEW r \in Sessions, NEW x \in tx'[s], NEW y \in tx'[r],
                    s # r, x.op = "PROPOSE", y.op = "PROPOSE"
             PROVE  x.rows \cap y.rows = {}
  BY DEF Exclusive
<1>1. ASSUME NEW p \in Sessions, NEW q \in Sessions, p # q,
             NEW u \in tx'[p], NEW v \in tx'[q], u.op = "PROPOSE", v.op = "PROPOSE",
             u.rows = funded, \A a \in funded : ~AllocationLocked(a), tx'[q] = tx[q]
      PROVE  u.rows \cap v.rows = {}
  BY <1>1 DEF AllocationLocked
<1> QED
  BY <1>1, RowsStep DEF Exclusive

LEMMA PlansStep ==
  ASSUME TypeOK, TypeOK', Plans, Exclusive, [Next]_vars
  PROVE  Plans'
<1> SUFFICES ASSUME NEW r \in Sessions, NEW y \in tx'[r], y.op = "PROPOSE"
             PROVE  PlanHolds(y)'
  BY DEF Plans
<1>1. ASSUME NEW c \in Codes, NEW t \in Times, ProposeLock(r, c, t)
      PROVE  PlanHolds(y)'
  BY <1>1 DEF ProposeLock, Open, Opened, TypeOK, PlanHolds, Nothing
<1>2. ASSUME ProposeRead(r)
      PROVE  PlanHolds(y)'
  <2>1. PICK x \in tx[r] :
          /\ x.op = "PROPOSE" /\ x.next \in Allocs
          /\ tx' = [tx EXCEPT ![r] =
               {[x EXCEPT !.next = @ + 1, !.refs[x.next] = Takes(x, x.next),
                          !.remaining = @ - Takes(x, x.next)]}]
          /\ UNCHANGED <<held, spent>>
    BY <1>2 DEF ProposeRead, cash
  <2>2. x \in Tx /\ x.refs \in [Allocs -> Nat] /\ PlanHolds(x)
    BY <2>1, PoolAssumption DEF TypeOK, Tx, Plans
  <2>3. /\ y.rows = x.rows /\ y.next = x.next + 1
        /\ y.refs = [x.refs EXCEPT ![x.next] = Takes(x, x.next)]
    <3>1. y = [x EXCEPT !.next = @ + 1, !.refs[x.next] = Takes(x, x.next),
                        !.remaining = @ - Takes(x, x.next)]
      BY <2>1 DEF TypeOK
    <3> QED
      BY <2>2, <3>1 DEF Tx
  <2>4. ASSUME NEW a \in Allocs, y.refs[a] > 0
        PROVE  a \in y.rows /\ a < y.next /\ Fits(a, y.refs[a])'
    <3>1. CASE a = x.next
      <4>1. y.refs[a] = Takes(x, a) /\ Takes(x, a) \in Nat
        BY <2>2, <2>3, <3>1, TakesBounds, PoolAssumption DEF Tx
      <4>2. a \in x.rows /\ Takes(x, a) <= Available(a)
        BY <2>2, <2>4, <4>1, TakesBounds
      <4>3. held[a] \in Int /\ spent[a] \in Nat /\ Amount[a] \in Nat
        BY PoolAssumption DEF TypeOK
      <4> QED
        BY <2>1, <2>3, <3>1, <4>1, <4>2, <4>3, PoolAssumption DEF Fits, Available, Allocs
    <3>2. CASE a # x.next
      <4>1. y.refs[a] = x.refs[a]
        BY <2>2, <2>3, <3>2
      <4>2. a \in x.rows /\ a < x.next /\ Fits(a, x.refs[a])
        BY <2>2, <2>4, <4>1 DEF PlanHolds
      <4> QED
        BY <2>1, <2>3, <4>1, <4>2, PoolAssumption DEF Fits, Allocs
    <3> QED
      BY <3>1, <3>2
  <2> QED
    BY <2>4 DEF PlanHolds
<1>3. ASSUME y \in tx[r]
      PROVE  PlanHolds(y)'
  <2>1. PlanHolds(y) /\ y.refs \in [Allocs -> Nat]
    BY <1>3, PoolAssumption DEF Plans, TypeOK, Tx
  <2>2. ASSUME NEW a \in Allocs, y.refs[a] > 0
        PROVE  Fits(a, y.refs[a])'
    <3>1. CASE \A b \in Allocs : Committed(b)' <= Committed(b)
      BY <2>1, <2>2, <3>1, FitsStays DEF PlanHolds
    <3>2. ASSUME NEW s \in Sessions, NEW x \in tx[s], x.op = "PROPOSE", Close(s),
                 held' = [b \in Allocs |-> held[b] + x.refs[b]], spent' = spent
          PROVE  Committed(a)' <= Committed(a)
      <4>1. s # r
        BY <3>2 DEF Close, TypeOK
      <4>2. x.refs[a] \in Nat
        BY <3>2, PoolAssumption DEF TypeOK, Tx
      <4>3. a \notin x.rows
        BY <1>3, <2>1, <2>2, <3>2, <4>1 DEF Exclusive, PlanHolds
      <4>4. x.refs[a] = 0
        BY <3>2, <4>2, <4>3 DEF Plans, PlanHolds
      <4> QED
        BY <3>2, <4>4 DEF Committed, TypeOK
    <3> QED
      BY <2>1, <2>2, <3>1, <3>2, FitsStays, CommitmentStep DEF PlanHolds
  <2> QED
    BY <2>1, <2>2 DEF PlanHolds
<1> QED
  BY <1>1, <1>2, <1>3, TransactionStep

\* What a proposal has read under its allocation locks is still there when it
\* reserves it, whatever the other sessions do meanwhile.
THEOREM PlansKeepTheirCash == Spec => []PlannedCashStaysAvailable
<1>1. Init => Plans /\ Exclusive
  BY DEF Init, Plans, Exclusive
<1>2. TypeOK /\ TypeOK' /\ Plans /\ Exclusive /\ [Next]_vars => Plans' /\ Exclusive'
  BY PlansStep, ExclusiveStep
<1>3. Plans => PlannedCashStaysAvailable
  BY DEF Plans, PlanHolds, PlannedCashStaysAvailable
<1> QED
  BY <1>1, <1>2, <1>3, TypeCorrect, PTL DEF Spec

-----------------------------------------------------------------------------
(* What a step does to one proposal. *)

Quiet(c) ==
  /\ UNCHANGED <<refs[c], state[c], reservation[c], decision[c], consumed[c]>>
  /\ c \in children' <=> c \in children

Born(c) ==
  /\ state[c] = "INITIAL" /\ state'[c] = "PENDING_AUTHORIZATION"
  /\ refs'[c] \in [Allocs -> 0..Threshold]
  /\ reservation'[c] = [a \in Allocs |-> IF refs'[c][a] > 0 THEN "RESERVED" ELSE "NONE"]
  /\ \A a \in Allocs : refs'[c][a] > 0 => Fits(a, refs'[c][a])
  /\ held' = [a \in Allocs |-> held[a] + refs'[c][a]]
  /\ UNCHANGED <<decision[c], consumed[c], children, spent>>

\* A pending proposal ends as to, its rows released, unless a shared timestamp
\* hides the one or the other.
Ends(c, rows, to) ==
  /\ state[c] = "PENDING_AUTHORIZATION"
  /\ state'[c] \in {"PENDING_AUTHORIZATION", to}
  /\ \A a \in Allocs : \/ reservation'[c][a] = reservation[c][a]
                       \/ a \in rows /\ reservation'[c][a] = "RELEASED"
  /\ ~SharedTimestamps => /\ state'[c] = to
                          /\ \A a \in rows : reservation'[c][a] = "RELEASED"
                          /\ held' = [a \in Allocs |-> IF a \in rows THEN held[a] - refs[c][a]
                                                      ELSE held[a]]
  /\ UNCHANGED <<refs[c], consumed[c], children, spent>>

Cancels(c) == Releasable(c) /\ Ends(c, Reserved(c), "CANCELLED") /\ UNCHANGED decision[c]
Rejects(c) == Ends(c, Holding(c), "REJECTED") /\ decision[c] = "NONE" /\ decision'[c] = "REJECT"

Approves(c) ==
  /\ state[c] = "PENDING_AUTHORIZATION" /\ decision[c] = "NONE" /\ decision'[c] = "APPROVE"
  /\ state'[c] \in {"PENDING_AUTHORIZATION", "AUTHORIZED"}
  /\ ~SharedTimestamps => state'[c] = "AUTHORIZED"
  /\ UNCHANGED <<refs[c], reservation[c], consumed[c], children, held, spent>>

Executes(c) ==
  /\ state[c] = "AUTHORIZED" /\ state'[c] \in {"AUTHORIZED", "EXECUTED"}
  /\ Total(refs[c]) = Seed /\ GenesisHolds(c)
  /\ \E s \in Sessions : \E x \in tx[s] : x.op = "GENESIS" /\ x.code = c
  /\ reservation'[c] = [a \in Allocs |-> IF a \in Reserved(c) THEN "CONSUMED"
                                         ELSE reservation[c][a]]
  /\ consumed'[c] = refs[c] /\ children' = children \cup {c}
  /\ spent' = [a \in Allocs |-> spent[a] + refs[c][a]]
  /\ held' = [a \in Allocs |-> held[a] - refs[c][a]]
  /\ UNCHANGED <<refs[c], decision[c]>>

Moves(c) == Born(c) \/ Cancels(c) \/ Rejects(c) \/ Approves(c) \/ Executes(c)

LEMMA AppendEffect ==
  ASSUME TypeOK, NEW c \in Codes, NEW from, NEW to, NEW t \in Times,
         Append(c, from, to, t)
  PROVE  /\ state[c] = from
         /\ state'[c] \in {state[c], to}
         /\ ~SharedTimestamps => state'[c] = to
         /\ \A d \in Codes \ {c} : state'[d] = state[d]
<1>1. stateAt[c] \in Nat /\ t \in Nat
  BY DEF TypeOK, Times
<1> QED
  BY <1>1 DEF Append, BecomesLatest, NotBackward, TypeOK

LEMMA ReleaseEffect ==
  ASSUME TypeOK, NEW c \in Codes, NEW rows \in SUBSET Allocs, NEW won, NEW t \in Times,
         ReleaseRows(c, rows, won, t)
  PROVE  /\ \A a \in Allocs : \/ reservation'[c][a] = reservation[c][a]
                              \/ a \in rows /\ reservation'[c][a] = "RELEASED"
         /\ ~SharedTimestamps => won = rows
         /\ held' = [a \in Allocs |-> IF a \in won THEN held[a] - refs[c][a] ELSE held[a]]
         /\ UNCHANGED <<consumed, children, spent>>
         /\ \A a \in won : reservation'[c][a] = "RELEASED"
         /\ \A d \in Codes \ {c} : reservation'[d] = reservation[d]
<1>1. reservation[c] \in [Allocs -> EventTypes] /\ reservationAt[c] \in [Allocs -> Nat] /\ t \in Nat
  BY DEF TypeOK, Times
<1>2. reservation'[c] = [a \in Allocs |-> IF a \in won THEN "RELEASED" ELSE reservation[c][a]]
      /\ \A d \in Codes \ {c} : reservation'[d] = reservation[d]
  BY DEF ReleaseRows, TypeOK
<1>3. ~SharedTimestamps => won = rows
  BY <1>1 DEF ReleaseRows, NotBackward
<1>4. /\ won \subseteq rows
      /\ held' = [a \in Allocs |-> IF a \in won THEN held[a] - refs[c][a] ELSE held[a]]
      /\ UNCHANGED <<consumed, children, spent>>
  BY DEF ReleaseRows
<1> QED
  BY <1>2, <1>3, <1>4

\* Releasing and appending the end of a pending proposal ends it.
LEMMA EndsEffect ==
  ASSUME TypeOK, NEW c \in Codes, NEW rows \in SUBSET Allocs, NEW to, NEW t \in Times,
         \E won \in SUBSET rows : ReleaseRows(c, rows, won, t),
         Append(c, "PENDING_AUTHORIZATION", to, t), UNCHANGED refs
  PROVE  Ends(c, rows, to)
<1>1. PICK won \in SUBSET rows : ReleaseRows(c, rows, won, t)
  OBVIOUS
<1>2. /\ \A a \in Allocs : \/ reservation'[c][a] = reservation[c][a]
                           \/ a \in rows /\ reservation'[c][a] = "RELEASED"
      /\ ~SharedTimestamps => won = rows
      /\ \A a \in won : reservation'[c][a] = "RELEASED"
      /\ held' = [a \in Allocs |-> IF a \in won THEN held[a] - refs[c][a] ELSE held[a]]
      /\ UNCHANGED <<consumed, children, spent>>
  BY <1>1, ReleaseEffect
<1>3. /\ state[c] = "PENDING_AUTHORIZATION"
      /\ state'[c] \in {"PENDING_AUTHORIZATION", to} /\ (~SharedTimestamps => state'[c] = to)
  BY AppendEffect
<1>4. ~SharedTimestamps =>
        /\ \A a \in rows : reservation'[c][a] = "RELEASED"
        /\ held' = [a \in Allocs |-> IF a \in rows THEN held[a] - refs[c][a] ELSE held[a]]
  BY <1>2
<1> QED
  BY <1>2, <1>3, <1>4 DEF Ends

\* Every step moves one proposal or none.
LEMMA ProposalStep ==
  ASSUME TypeOK, [Next]_vars
  PROVE  \/ (\A c \in Codes : Quiet(c)) /\ UNCHANGED <<held, spent>>
         \/ \E c \in Codes : Moves(c) /\ \A d \in Codes \ {c} : Quiet(d)
<1>1. UNCHANGED <<proposal, cash>> => (\A c \in Codes : Quiet(c)) /\ UNCHANGED <<held, spent>>
  BY DEF proposal, cash, Quiet
<1>2. ASSUME NEW s \in Sessions, ProposeCommit(s)
      PROVE  \E c \in Codes : Moves(c) /\ \A d \in Codes \ {c} : Quiet(d)
  <2>1. PICK x \in tx[s] :
          /\ state[x.code] = "INITIAL"
          /\ refs' = [refs EXCEPT ![x.code] = x.refs]
          /\ state' = [state EXCEPT ![x.code] = "PENDING_AUTHORIZATION"]
          /\ reservation' = [reservation EXCEPT ![x.code] =
               [a \in Allocs |-> IF x.refs[a] > 0 THEN "RESERVED" ELSE "NONE"]]
          /\ \A a \in Allocs : x.refs[a] > 0 => Fits(a, x.refs[a])
          /\ held' = [a \in Allocs |-> held[a] + x.refs[a]]
          /\ UNCHANGED <<decision, consumed, children, spent>>
    BY <1>2 DEF ProposeCommit
  <2>2. x.code \in Codes /\ x.refs \in [Allocs -> 0..Threshold]
    BY DEF TypeOK, Tx
  <2>3. Born(x.code)
    BY <2>1, <2>2 DEF Born, TypeOK
  <2>4. \A d \in Codes \ {x.code} : Quiet(d)
    BY <2>1, <2>2 DEF Quiet, TypeOK
  <2> QED
    BY <2>2, <2>3, <2>4 DEF Moves
<1>3. ASSUME NEW s \in Sessions, ReleaseCommit(s)
      PROVE  \E c \in Codes : Moves(c) /\ \A d \in Codes \ {c} : Quiet(d)
  <2>1. PICK x \in tx[s] :
          /\ Releasable(x.code)
          /\ \E won \in SUBSET Reserved(x.code) : ReleaseRows(x.code, Reserved(x.code), won, x.at)
          /\ Append(x.code, "PENDING_AUTHORIZATION", "CANCELLED", x.at)
          /\ UNCHANGED <<refs, decision>>
    BY <1>3 DEF ReleaseCommit
  <2>2. x.code \in Codes /\ x.at \in Times /\ Reserved(x.code) \in SUBSET Allocs
    BY DEF TypeOK, Tx, Reserved
  <2>3. UNCHANGED <<consumed, children, spent>>
    BY <2>1 DEF ReleaseRows
  <2>4. Ends(x.code, Reserved(x.code), "CANCELLED")
    BY <2>1, <2>2, EndsEffect
  <2>5. \A d \in Codes \ {x.code} : Quiet(d)
    BY <2>1, <2>2, <2>3, AppendEffect, ReleaseEffect DEF Quiet
  <2> QED
    BY <2>1, <2>2, <2>4, <2>5 DEF Moves, Cancels
<1>4. ASSUME NEW s \in Sessions, Approve(s)
      PROVE  \E c \in Codes : Moves(c) /\ \A d \in Codes \ {c} : Quiet(d)
  <2>1. PICK x \in tx[s] :
          /\ decision[x.code] = "NONE"
          /\ decision' = [decision EXCEPT ![x.code] = "APPROVE"]
          /\ Append(x.code, "PENDING_AUTHORIZATION", "AUTHORIZED", x.at)
          /\ UNCHANGED <<refs, reservation, consumed, children, held, spent>>
    BY <1>4 DEF Approve, cash
  <2>2. x.code \in Codes /\ x.at \in Times
    BY DEF TypeOK, Tx
  <2>3. Approves(x.code)
    BY <2>1, <2>2, AppendEffect DEF Approves, TypeOK
  <2>4. \A d \in Codes \ {x.code} : Quiet(d)
    BY <2>1, <2>2, AppendEffect DEF Quiet, TypeOK
  <2> QED
    BY <2>2, <2>3, <2>4 DEF Moves
<1>5. ASSUME NEW s \in Sessions, Reject(s)
      PROVE  \E c \in Codes : Moves(c) /\ \A d \in Codes \ {c} : Quiet(d)
  <2>1. PICK x \in tx[s] :
          /\ decision[x.code] = "NONE"
          /\ decision' = [decision EXCEPT ![x.code] = "REJECT"]
          /\ \E won \in SUBSET RejectedRows(x.code) :
               ReleaseRows(x.code, RejectedRows(x.code), won, x.at)
          /\ Append(x.code, "PENDING_AUTHORIZATION", "REJECTED", x.at)
          /\ UNCHANGED refs
    BY <1>5 DEF Reject
  <2>2. x.code \in Codes /\ x.at \in Times /\ Holding(x.code) \in SUBSET Allocs
    BY DEF TypeOK, Tx, Holding
  <2>3. UNCHANGED <<consumed, children, spent>>
    BY <2>1 DEF ReleaseRows
  <2>4. Ends(x.code, Holding(x.code), "REJECTED")
    BY <2>1, <2>2, EndsEffect DEF RejectedRows
  <2>5. \A d \in Codes \ {x.code} : Quiet(d)
    <3>1. \A d \in Codes \ {x.code} : decision'[d] = decision[d]
      BY <2>1, <2>2 DEF TypeOK
    <3>2. \A d \in Codes \ {x.code} : state'[d] = state[d] /\ reservation'[d] = reservation[d]
      BY <2>1, <2>2, AppendEffect, ReleaseEffect DEF RejectedRows
    <3> QED
      BY <2>1, <2>3, <3>1, <3>2 DEF Quiet
  <2>6. Rejects(x.code)
    BY <2>1, <2>2, <2>4 DEF Rejects, TypeOK
  <2> QED
    BY <2>2, <2>5, <2>6 DEF Moves
<1>6. ASSUME NEW s \in Sessions, GenesisCommit(s)
      PROVE  \E c \in Codes : Moves(c) /\ \A d \in Codes \ {c} : Quiet(d)
  <2>1. PICK x \in tx[s] :
          /\ x.op = "GENESIS"
          /\ Total(refs[x.code]) = Seed
          /\ GenesisHolds(x.code)
          /\ children' = children \cup {x.code}
          /\ consumed' = [consumed EXCEPT ![x.code] = refs[x.code]]
          /\ reservation' = [reservation EXCEPT ![x.code] =
               [a \in Allocs |-> IF a \in Reserved(x.code) THEN "CONSUMED" ELSE @[a]]]
          /\ spent' = [a \in Allocs |-> spent[a] + refs[x.code][a]]
          /\ held' = [a \in Allocs |-> held[a] - refs[x.code][a]]
          /\ Append(x.code, "AUTHORIZED", "EXECUTED", x.at)
          /\ UNCHANGED <<refs, decision>>
    BY <1>6 DEF GenesisCommit, ConsumeRows
  <2>2. x.code \in Codes /\ x.at \in Times
    BY DEF TypeOK, Tx
  <2>3. Executes(x.code)
    BY <2>1, <2>2, AppendEffect DEF Executes, TypeOK
  <2>4. \A d \in Codes \ {x.code} : Quiet(d)
    BY <2>1, <2>2, AppendEffect DEF Quiet, TypeOK
  <2> QED
    BY <2>2, <2>3, <2>4 DEF Moves
<1>7. \A a \in Allocs : SiphonAllocates(a) => UNCHANGED <<proposal, cash>>
  BY DEF SiphonAllocates
<1>8. \A s \in Sessions : \A c \in Codes : \A t \in Times :
        (\/ ProposeLock(s, c, t) \/ ReleaseLock(s, c, t)
         \/ AuthorizeLock(s, c, "APPROVE", t) \/ AuthorizeLock(s, c, "REJECT", t)
         \/ GenesisLock(s, c, t)) => UNCHANGED <<proposal, cash>>
  BY DEF ProposeLock, ReleaseLock, AuthorizeLock, GenesisLock
<1>9. \A s \in Sessions : ProposeRead(s) \/ Rollback(s) => UNCHANGED <<proposal, cash>>
  BY DEF ProposeRead, Rollback
<1>10. UNCHANGED vars => UNCHANGED <<proposal, cash>>
  BY DEF vars
<1> QED
  BY <1>1, <1>2, <1>3, <1>4, <1>5, <1>6, <1>7, <1>8, <1>9, <1>10 DEF Next

\* A proposal that reached an end never changes again, nor do its dollars.
THEOREM EndsStayFinal == Spec => EndsAreFinal
<1> DEFINE Final == \A c \in Codes : state[c] \in {"CANCELLED", "REJECTED", "EXECUTED"} =>
                      UNCHANGED <<state[c], reservation[c], consumed[c]>>
<1>1. TypeOK /\ [Next]_vars => Final
  <2> SUFFICES ASSUME TypeOK, [Next]_vars, NEW c \in Codes,
                      state[c] \in {"CANCELLED", "REJECTED", "EXECUTED"}
               PROVE  UNCHANGED <<state[c], reservation[c], consumed[c]>>
    OBVIOUS
  <2>1. ~Moves(c)
    BY DEF Moves, Born, Cancels, Rejects, Ends, Approves, Executes
  <2>2. Quiet(c)
    BY <2>1, ProposalStep
  <2> QED
    BY <2>2 DEF Quiet
<1> QED
  BY <1>1, TypeCorrect, PTL DEF Spec, EndsAreFinal

-----------------------------------------------------------------------------
(* The life of a proposal. *)

Life(c) ==
  /\ state[c] = "INITIAL" => c \notin children /\ decision[c] = "NONE"
  /\ \A a \in Allocs : reservation[c][a] = "NONE" <=> refs[c][a] = 0
  /\ c \in children =>
       /\ decision[c] = "APPROVE" /\ state[c] \in {"AUTHORIZED", "EXECUTED"}
       /\ consumed[c] = refs[c] /\ Total(refs[c]) = Seed
       /\ \A a \in Allocs : refs[c][a] > 0 => reservation[c][a] = "CONSUMED"
  /\ c \notin children => consumed[c] = Nothing
Lives == \A c \in Codes : Life(c)

\* A genesis under way is one of an approved proposal.
GenesisApproved ==
  \A s \in Sessions : \A x \in tx[s] : x.op = "GENESIS" => decision[x.code] = "APPROVE"

LEMMA LifeStep ==
  ASSUME TypeOK, TypeOK', Lives, GenesisApproved, [Next]_vars
  PROVE  Lives'
<1> SUFFICES ASSUME NEW c \in Codes PROVE Life(c)'
  BY DEF Lives
<1>0. /\ Life(c) /\ refs[c] \in [Allocs -> Nat] /\ refs'[c] \in [Allocs -> Nat]
  BY PoolAssumption DEF Lives, TypeOK
<1>1. CASE Quiet(c)
  BY <1>0, <1>1 DEF Life, Quiet
<1>2. CASE Born(c)
  BY <1>0, <1>2 DEF Life, Born
<1>3. ASSUME NEW rows \in SUBSET Reserved(c), NEW to \in {"CANCELLED", "REJECTED"},
             Ends(c, rows, to)
      PROVE  Life(c)'
  BY <1>0, <1>3 DEF Life, Ends, Reserved
<1>4. Reserved(c) \in SUBSET Reserved(c) /\ Holding(c) \in SUBSET Reserved(c)
  BY <1>0 DEF Life, Holding, Reserved
<1>5. CASE Approves(c)
  BY <1>0, <1>5 DEF Life, Approves
<1>6. CASE Executes(c)
  <2>1. decision[c] = "APPROVE"
    BY <1>6 DEF Executes, GenesisApproved
  <2>2. \A a \in Allocs : reservation'[c][a] = IF refs[c][a] > 0 THEN "CONSUMED"
                                               ELSE reservation[c][a]
    BY <1>0, <1>6 DEF Executes, Reserved
  <2> QED
    BY <1>0, <1>6, <2>1, <2>2 DEF Life, Executes
<1>7. Moves(c) \/ Quiet(c)
  BY ProposalStep
<1> QED
  BY <1>1, <1>2, <1>3, <1>4, <1>5, <1>6, <1>7 DEF Moves, Cancels, Rejects

LEMMA GenesisApprovedStep ==
  ASSUME TypeOK, Lives, GenesisApproved, [Next]_vars
  PROVE  GenesisApproved'
<1> SUFFICES ASSUME NEW r \in Sessions, NEW y \in tx'[r], y.op = "GENESIS"
             PROVE  decision'[y.code] = "APPROVE"
  BY DEF GenesisApproved
<1>1. \A c \in Codes : decision[c] = "APPROVE" => decision'[c] = "APPROVE"
  <2>1. \A c \in Codes : Moves(c) \/ Quiet(c)
    BY ProposalStep
  <2> QED
    BY <2>1 DEF Moves, Quiet, Born, Cancels, Rejects, Approves, Executes
<1>2. CASE y \in tx[r]
  BY <1>1, <1>2 DEF GenesisApproved, TypeOK, Tx
<1>3. ASSUME NEW c \in Codes, NEW t \in Times, NEW s \in Sessions, y \notin tx[r],
             \/ ProposeLock(s, c, t) \/ ReleaseLock(s, c, t)
             \/ AuthorizeLock(s, c, "APPROVE", t) \/ AuthorizeLock(s, c, "REJECT", t)
             \/ GenesisLock(s, c, t)
      PROVE  decision'[y.code] = "APPROVE"
  <2>1. PICK x : Open(s, x) /\ (x.op = "GENESIS" => decision[x.code] = "APPROVE")
                 /\ UNCHANGED decision
    BY <1>3 DEF ProposeLock, ReleaseLock, AuthorizeLock, GenesisLock, Opened, proposal
  <2>2. y = x
    BY <1>3, <2>1 DEF Open, TypeOK
  <2> QED
    BY <2>1, <2>2
<1>4. ASSUME NEW s \in Sessions, ProposeRead(s), y \notin tx[r]
      PROVE  FALSE
  <2>1. PICK x \in tx[s] :
          /\ x.op = "PROPOSE"
          /\ tx' = [tx EXCEPT ![s] =
               {[x EXCEPT !.next = @ + 1, !.refs[x.next] = Takes(x, x.next),
                          !.remaining = @ - Takes(x, x.next)]}]
    BY <1>4 DEF ProposeRead
  <2>2. x \in Tx
    BY DEF TypeOK
  <2>3. y = [x EXCEPT !.next = @ + 1, !.refs[x.next] = Takes(x, x.next),
                      !.remaining = @ - Takes(x, x.next)]
    BY <1>4, <2>1 DEF TypeOK
  <2>4. y.op = "PROPOSE"
    BY <2>1, <2>2, <2>3 DEF Tx
  <2> QED
    BY <2>4
<1>5. \A s \in Sessions :
        (\/ ProposeCommit(s) \/ ReleaseCommit(s) \/ Approve(s) \/ Reject(s)
         \/ GenesisCommit(s) \/ Rollback(s)) => y \in tx[r]
  <2>1. ASSUME NEW s \in Sessions, Close(s) PROVE y \in tx[r]
    BY <2>1 DEF Close, TypeOK
  <2> QED
    BY <2>1 DEF ProposeCommit, ReleaseCommit, Approve, Reject, GenesisCommit, Rollback
<1>6. \A a \in Allocs : SiphonAllocates(a) => y \in tx[r]
  BY DEF SiphonAllocates
<1>7. UNCHANGED vars => y \in tx[r]
  BY DEF vars
<1> QED
  BY <1>2, <1>3, <1>4, <1>5, <1>6, <1>7 DEF Next

LEMMA LivesAlways == Spec => [](Lives /\ GenesisApproved)
<1>1. Init => Lives /\ GenesisApproved
  BY DEF Init, Lives, Life, GenesisApproved, Nothing
<1>2. TypeOK /\ TypeOK' /\ Lives /\ GenesisApproved /\ [Next]_vars => Lives' /\ GenesisApproved'
  BY LifeStep, GenesisApprovedStep
<1> QED
  BY <1>1, <1>2, TypeCorrect, PTL DEF Spec

\* Children exist only by a human's approval and cost exactly the seed, taken
\* from their own proposal's reservations, for every pool and interleaving.
THEOREM ChildrenAlwaysFunded == Spec => []ChildrenAreFunded
<1>1. ASSUME TypeOK, Lives PROVE ChildrenAreFunded
  <2> SUFFICES ASSUME NEW c \in children
               PROVE  /\ decision[c] = "APPROVE"
                      /\ Total(consumed[c]) = Seed
                      /\ \A a \in Allocs : reservation[c][a] =
                           IF consumed[c][a] > 0 THEN "CONSUMED" ELSE "NONE"
    BY DEF ChildrenAreFunded
  <2>1. Life(c) /\ refs[c] \in [Allocs -> Nat]
    BY <1>1, PoolAssumption DEF Lives, TypeOK
  <2> QED
    BY <2>1 DEF Life
<1> QED
  BY <1>1, TypeCorrect, LivesAlways, PTL

\* The audit of the flywheel finds no consumption without a reservation and no
\* reservation without an event.
THEOREM NoOrphans == Spec => []HasZeroOrphans
<1>1. ASSUME TypeOK, Lives PROVE HasZeroOrphans
  <2> SUFFICES ASSUME NEW c \in Codes, NEW a \in Allocs
               PROVE  /\ consumed[c][a] > 0 => refs[c][a] > 0
                      /\ refs[c][a] > 0 => reservation[c][a] # "NONE"
    BY DEF HasZeroOrphans
  <2>1. Life(c) /\ refs[c] \in [Allocs -> Nat]
    BY <1>1, PoolAssumption DEF Lives, TypeOK
  <2> QED
    BY <2>1 DEF Life, Nothing
<1> QED
  BY <1>1, TypeCorrect, LivesAlways, PTL

-----------------------------------------------------------------------------
(* Callers that give every call a timestamp of its own. *)

\* An open proposal holds all it reserved, a closed one nothing.
Settled(c) ==
  /\ state[c] \in {"PENDING_AUTHORIZATION", "AUTHORIZED"} /\ c \notin children =>
       \A a \in Reserved(c) : reservation[c][a] = "RESERVED"
  /\ state[c] \in {"CANCELLED", "REJECTED"} => Holding(c) = {}
AllSettled == \A c \in Codes : Settled(c)

LEMMA SettledStep ==
  ASSUME ~SharedTimestamps, TypeOK, TypeOK', Lives, AllSettled, [Next]_vars
  PROVE  AllSettled'
<1> SUFFICES ASSUME NEW c \in Codes PROVE Settled(c)'
  BY DEF AllSettled
<1>0. /\ Life(c) /\ Settled(c)
      /\ refs[c] \in [Allocs -> Nat] /\ refs'[c] \in [Allocs -> Nat]
  BY PoolAssumption DEF Lives, AllSettled, TypeOK
<1>1. CASE Quiet(c)
  BY <1>0, <1>1 DEF Settled, Quiet, Reserved, Holding
<1>2. CASE Born(c)
  BY <1>0, <1>2 DEF Settled, Born, Reserved, Holding
<1>3. ASSUME NEW rows \in SUBSET Allocs, NEW to \in {"CANCELLED", "REJECTED"},
             Ends(c, rows, to), Holding(c) \subseteq rows
      PROVE  Settled(c)'
  <2>1. state'[c] = to /\ \A a \in rows : reservation'[c][a] = "RELEASED"
    BY <1>3 DEF Ends
  <2>2. Holding(c)' = {}
    BY <1>3, <2>1 DEF Ends, Holding
  <2> QED
    BY <2>1, <2>2 DEF Settled
<1>4. Holding(c) \subseteq Reserved(c) /\ Reserved(c) \in SUBSET Allocs /\ Holding(c) \in SUBSET Allocs
  BY <1>0 DEF Life, Holding, Reserved
<1>5. CASE Approves(c)
  BY <1>0, <1>5 DEF Settled, Approves, Reserved, Holding
<1>6. CASE Executes(c)
  BY <1>0, <1>6 DEF Settled, Executes
<1>7. Moves(c) \/ Quiet(c)
  BY ProposalStep
<1> QED
  BY <1>1, <1>2, <1>3, <1>4, <1>5, <1>6, <1>7 DEF Moves, Cancels, Rejects

\* The dollars of cancelled and rejected proposals are free again, provided no
\* two calls share a timestamp.
THEOREM ClosedHoldNothing ==
  ASSUME ~SharedTimestamps
  PROVE  Spec => []ClosedProposalsHoldNothing
<1>1. Init => AllSettled
  BY DEF Init, AllSettled, Settled
<1>2. TypeOK /\ TypeOK' /\ Lives /\ AllSettled /\ [Next]_vars => AllSettled'
  BY SettledStep
<1>3. AllSettled => ClosedProposalsHoldNothing
  BY DEF AllSettled, Settled, ClosedProposalsHoldNothing
<1> QED
  BY <1>1, <1>2, <1>3, TypeCorrect, LivesAlways, PTL DEF Spec

\* Every transaction is a step of SeedFunding or none, and the dollars it moves
\* are those SeedFunding moves.
THEOREM ReplicationImplementsFunding ==
  ASSUME ~SharedTimestamps
  PROVE  Spec => ImplementsFunding
<1> DEFINE phase == [c \in Codes |-> Phase(c)]
           pledge == [c \in Codes |-> IF Phase(c) = "DROPPED" THEN Nothing ELSE refs[c]]
           committed == [a \in Allocs |-> held[a] + spent[a]]
<1>1. Init => Funding!Init
  BY DEF Init, Funding!Init, Funding!Nothing, Nothing, Phase
<1>2. ASSUME TypeOK, TypeOK', Lives, Lives', AllSettled, AllSettled', [Next]_vars
      PROVE  [Funding!Next]_<<phase, pledge, committed>>
  <2>1. CASE (\A c \in Codes : Quiet(c)) /\ UNCHANGED <<held, spent>>
    <3>1. \A c \in Codes : Phase(c)' = Phase(c) /\ refs'[c] = refs[c]
      BY <2>1 DEF Quiet, Phase
    <3> QED
      BY <2>1, <3>1
  <2>2. ASSUME NEW c \in Codes, Moves(c), \A d \in Codes \ {c} : Quiet(d)
        PROVE  [Funding!Next]_<<phase, pledge, committed>>
    <3>0. /\ \A d \in Codes \ {c} : Phase(d)' = Phase(d) /\ refs'[d] = refs[d]
          /\ Life(c) /\ Settled(c) /\ Life(c)' /\ refs[c] \in [Allocs -> Nat]
          /\ Holding(c) \subseteq Reserved(c)
      BY <1>2, <2>2, PoolAssumption DEF Quiet, Phase, Lives, AllSettled, Life, TypeOK, Holding,
         Reserved
    <3>1. CASE Born(c)
      <4>0. PICK p : p = refs'[c]
        OBVIOUS
      <4>1. Phase(c) = "IDLE" /\ Phase(c)' = "PLEDGED"
        BY <3>0, <3>1 DEF Born, Phase, Life
      <4>2. ASSUME NEW a \in Allocs
            PROVE  committed[a] + p[a] <= Amount[a] \/ p[a] = 0
        <5>1. p[a] \in Nat /\ (p[a] > 0 => Fits(a, p[a]))
          BY <3>1, <4>0, PoolAssumption DEF Born
        <5>2. held[a] \in Int /\ spent[a] \in Nat /\ Amount[a] \in Nat
          BY <1>2, PoolAssumption DEF TypeOK
        <5> QED
          BY <5>1, <5>2 DEF Fits
      <4>3. phase' = [phase EXCEPT ![c] = "PLEDGED"] /\ pledge' = [pledge EXCEPT ![c] = p]
        BY <3>0, <4>0, <4>1
      <4>4. committed' = [a \in Allocs |-> committed[a] + p[a]]
        BY <1>2, <3>1, <4>0, PoolAssumption DEF Born, TypeOK
      <4>5. Funding!Pledge(c, p)
        BY <4>1, <4>2, <4>3, <4>4 DEF Funding!Pledge, Funding!Turns
      <4>6. p \in [Allocs -> 0..Threshold]
        BY <3>1, <4>0 DEF Born
      <4> QED
        BY <4>5, <4>6 DEF Funding!Next
    <3>2. ASSUME Ends(c, Reserved(c), "CANCELLED") \/ Ends(c, Holding(c), "REJECTED")
          PROVE  Funding!Drop(c)
      <4>1. c \notin children /\ c \notin children' /\ Reserved(c) = Holding(c)
        BY <3>0, <3>2 DEF Ends, Life, Settled, Reserved, Holding
      <4>2. /\ held' = [a \in Allocs |-> IF a \in Reserved(c) THEN held[a] - refs[c][a] ELSE held[a]]
            /\ spent' = spent /\ refs'[c] = refs[c]
            /\ state[c] = "PENDING_AUTHORIZATION" /\ state'[c] \in {"CANCELLED", "REJECTED"}
        BY <3>2, <4>1 DEF Ends
      <4>3. Phase(c) = "PLEDGED" /\ Phase(c)' = "DROPPED"
        BY <4>1, <4>2 DEF Phase
      <4>4. phase' = [phase EXCEPT ![c] = "DROPPED"] /\ pledge' = [pledge EXCEPT ![c] = Nothing]
        BY <3>0, <4>3 DEF Nothing
      <4>5. committed' = [a \in Allocs |-> committed[a] - pledge[c][a]]
        <5>1. pledge[c] = refs[c]
          BY <4>3
        <5>2. \A a \in Allocs : held'[a] = held[a] - refs[c][a]
          BY <1>2, <3>0, <4>2 DEF Reserved, TypeOK
        <5> QED
          BY <1>2, <3>0, <4>2, <5>1, <5>2 DEF TypeOK
      <4> QED
        BY <4>3, <4>4, <4>5 DEF Funding!Drop, Funding!Turns, Funding!Nothing, Nothing
    <3>3. CASE Approves(c)
      <4>1. Phase(c) = "PLEDGED" /\ Phase(c)' = "APPROVED"
        BY <3>0, <3>3 DEF Approves, Phase, Life
      <4>2. phase' = [phase EXCEPT ![c] = "APPROVED"] /\ pledge' = pledge /\ committed' = committed
        BY <3>0, <3>3, <4>1 DEF Approves
      <4>3. Funding!Approve(c)
        BY <4>1, <4>2 DEF Funding!Approve, Funding!Turns
      <4> QED
        BY <4>3 DEF Funding!Next
    <3>4. CASE Executes(c)
      <4>1. c \notin children
        BY <3>0, <3>4 DEF Executes, GenesisHolds, Reserved, Holding, Life
      <4>2. Phase(c) = "APPROVED" /\ Phase(c)' = "FUNDED"
        BY <3>4, <4>1 DEF Executes, Phase
      <4>3. phase' = [phase EXCEPT ![c] = "FUNDED"] /\ pledge' = pledge
        BY <3>0, <3>4, <4>2 DEF Executes
      <4>4. committed' = committed
        BY <1>2, <3>0, <3>4 DEF Executes, TypeOK
      <4>5. Total(pledge[c]) = Seed
        BY <3>4, <4>2 DEF Executes
      <4>6. Funding!Fund(c)
        BY <4>2, <4>3, <4>4, <4>5 DEF Funding!Fund, Funding!Turns
      <4> QED
        BY <4>6 DEF Funding!Next
    <3> QED
      BY <2>2, <3>1, <3>2, <3>3, <3>4 DEF Moves, Cancels, Rejects, Funding!Next
  <2> QED
    BY <1>2, <2>1, <2>2, ProposalStep
<1>3. Init => AllSettled
  BY DEF Init, AllSettled, Settled
<1>4. TypeOK /\ TypeOK' /\ Lives /\ AllSettled /\ [Next]_vars => AllSettled'
  BY SettledStep
<1> QED
  BY <1>1, <1>2, <1>3, <1>4, TypeCorrect, LivesAlways, PTL
     DEF Spec, ImplementsFunding, Funding!Spec

\* No allocation is ever promised for more than it has, by what is reserved or
\* by a plan that was made of it.
THEOREM PoolAlwaysHolds == Spec => []PoolHolds
  BY NoOvercommitment, PlansKeepTheirCash, PTL DEF PoolHolds

\* What has ended holds nothing and what was born was paid for, provided no two
\* calls share a timestamp.
THEOREM ProposalsStaySettled ==
  ASSUME ~SharedTimestamps
  PROVE  Spec => []ProposalsAreSettled
  BY TypeCorrect, ClosedHoldNothing, ChildrenAlwaysFunded, NoOrphans, PTL
     DEF ProposalsAreSettled
=============================================================================
