---------------------------- MODULE CapitalProofs ----------------------------
(***************************************************************************)
(* Proofs about the treasury and the siphon that feeds it, for any number  *)
(* of sessions, accounts, facts, configurations and allocations; about the *)
(* audit of them; and about the flywheel's sessions: whatever the feeds,   *)
(* the births and the failures are, a child has no part in the session of  *)
(* its birth, and an audit never takes a cell back to a session it has     *)
(* been in.                                                                *)
(***************************************************************************)
EXTENDS MCCapital, SumTheorems

-----------------------------------------------------------------------------
(* The siphon: the cell's stay within the profit, an account's leave a seed. *)

CallPhases == {"WAITING", "LOCKED", "COUNTED", "READY"}
Event == [qualified : Nat, target : Configs, evidence : Evidence]
Call ==
  [phase : CallPhases, evidence : Evidence, target : Configs, rows : SUBSET Facts,
   left : UNION {[T -> Nat] : T \in SUBSET Facts}, prior : Nat, reserved : Nat]

SiphonTypes ==
  /\ booked \subseteq Facts /\ target \subseteq Configs
  /\ attributed \in [Facts -> Nat]
  /\ siphons \in Seq(Event)
  /\ calls \in [Sessions -> SUBSET Call]

\* A session has one call open.
OneCall == \A s \in Sessions : calls[s] = {} \/ \E c \in calls[s] : calls[s] = {c}

\* Facts of an account are there with all earlier ones.
Early(R) == \A f \in R : \A g \in Facts : (Account[g] = Account[f] /\ g < f) => g \in R

RowsAreSettled ==
  /\ Early(booked)
  /\ \A s \in Sessions : \A c \in calls[s] :
       /\ c.rows \subseteq booked /\ Early(c.rows)
       /\ \A f \in c.rows : Account[f] \in c.evidence.accounts

\* A fact is locked by one call.
RowsAreLocked ==
  \A s, t \in Sessions : \A c \in calls[s], d \in calls[t] :
    (s # t /\ c.phase # "WAITING" /\ d.phase # "WAITING") => c.rows \cap d.rows = {}

\* What a call that has read the siphons may still take.
Right(c) ==
  IF c.phase \in {"COUNTED", "READY"} THEN AtLeastZero(Net(c.rows) - c.prior) ELSE 0
Rights(s) == IF calls[s] = {} THEN 0 ELSE Right(CHOOSE c \in calls[s] : TRUE)
RightsOf == [s \in Sessions |-> Rights(s)]

\* The siphons, with what the open calls may still take, are within the profit.
Amounts == [i \in DOMAIN siphons |-> siphons[i].qualified]
Taken == SumOf(Amounts, DOMAIN siphons)
Peaks == [a \in Accounts |-> Peak(a)]
RightsWithinProfit == Taken + SumOf(RightsOf, Sessions) <= SumOf(Peaks, Accounts)

\* A call that holds facts of its one account has read all siphons from it.
Same(A) == {i \in DOMAIN siphons : siphons[i].evidence.accounts = A}
ReservesAreRead ==
  \A s \in Sessions : \A c \in calls[s] :
    (c.phase = "READY" /\ Cardinality(c.evidence.accounts) = 1 /\ c.rows # {}) =>
      SumOf(Amounts, Same(c.evidence.accounts)) <= c.reserved

SiphonInv ==
  /\ SiphonTypes /\ OneCall /\ RowsAreSettled /\ RowsAreLocked
  /\ RightsWithinProfit /\ ReservesAreRead /\ SeedFloorProtected

-----------------------------------------------------------------------------
(* Money. *)

LEMMA TotalIs == ASSUME NEW w, NEW S PROVE Total(w, S) = SumOf(w, S)
BY DEF Total, SumOf

LEMMA FloorIs ==
  ASSUME NEW x \in Int
  PROVE  /\ FloorCents(x) \in Int /\ FloorCents(x) <= x
         /\ x >= 0 => FloorCents(x) >= 0
         /\ x = 0 => FloorCents(x) = 0
<1>1. Cent \in Nat /\ Cent > 0
  BY SiphonAssumption
<1>2. x \div Cent \in Int /\ (x \div Cent) * Cent <= x
  BY <1>1
<1>3. x >= 0 => x \div Cent >= 0
  BY <1>1
<1>4. x = 0 => x \div Cent = 0
  BY <1>1
<1>. QED  BY <1>1, <1>2, <1>3, <1>4 DEF FloorCents

LEMMA MinIs ==
  ASSUME NEW x \in Int, NEW y \in Int, NEW z \in Int
  PROVE  LET m == Min({x, y, z})
         IN  m \in {x, y, z} /\ m \in Int /\ m <= x /\ m <= y /\ m <= z
<1>. DEFINE V == {x, y, z}
<1>1. \E m \in V : \A v \in V : m <= v
  OBVIOUS
<1>2. Min(V) \in V /\ \A v \in V : Min(V) <= v
  BY <1>1 DEF Min
<1>. QED  BY <1>2

LEMMA FactsAreFinite ==
  /\ IsFiniteSet(Facts) /\ \A f \in Facts : f \in Nat /\ f > 0
  /\ \A f \in Facts : f = 1 \/ f - 1 \in Facts
BY FS_Interval, SiphonAssumption DEF Facts

\* What the facts have earned is the sum of what each has.
Gain == [f \in Facts |-> Profit[f] - Fee[f]]

LEMMA NetIs ==
  ASSUME NEW R \in SUBSET Facts
  PROVE  Net(R) = SumOf(Gain, R) /\ Net(R) \in Int /\ IsFiniteSet(R)
<1>1. IsFiniteSet(R)
  BY FactsAreFinite, FS_Subset
<1>2. \A f \in R : /\ Profit[f] \in Int /\ Fee[f] \in Int /\ Gain[f] \in Int
                   /\ Profit[f] = Gain[f] + Fee[f]
  BY SiphonAssumption DEF Gain
<1>3. SumOf(Profit, R) = SumOf(Gain, R) + SumOf(Fee, R)
  BY <1>1, <1>2, SumPlus
<1>4. SumOf(Gain, R) \in Int
  BY <1>1, <1>2, SumIsInt
<1>5. SumOf(Fee, R) \in Int
  BY <1>1, <1>2, SumIsInt
<1>6. Net(R) = SumOf(Profit, R) - SumOf(Fee, R)
  BY TotalIs DEF Net
<1>. QED  BY <1>1, <1>3, <1>4, <1>5, <1>6

LEMMA NetOfNone == Net({}) = 0
<1>1. Net({}) = SumOf(Gain, {})
  BY NetIs
<1>. QED  BY <1>1, SumEmpty

-----------------------------------------------------------------------------
(* Peaks, of any facts that are booked. *)

UptoOf(B, a, n) == {f \in B : Account[f] = a /\ f <= n}
PeakOf(B, a) == Max({0} \cup {Net(UptoOf(B, a, n)) : n \in Facts})
AccountsOf(R) == {Account[f] : f \in R}

LEMMA PeakIs ==
  ASSUME NEW B \in SUBSET Facts, NEW a
  PROVE  /\ PeakOf(B, a) \in Nat
         /\ \A n \in Facts : Net(UptoOf(B, a, n)) <= PeakOf(B, a)
         /\ PeakOf(B, a) = 0 \/ \E n \in Facts : PeakOf(B, a) = Net(UptoOf(B, a, n))
<1>. DEFINE h == [n \in Facts |-> Net(UptoOf(B, a, n))]
            V == {0} \cup {h[n] : n \in Facts}
<1>1. \A n \in Facts : h[n] \in Int
  BY NetIs DEF UptoOf
<1>2. V = {0} \cup {Net(UptoOf(B, a, n)) : n \in Facts}
  OBVIOUS
<1>3. PeakOf(B, a) = Max(V)
  BY <1>2 DEF PeakOf
<1>4. Max(V) \in V /\ Max(V) \in Nat /\ \A n \in Facts : h[n] <= Max(V)
  <2>. HIDE DEF h
  <2>. QED  BY <1>1, FactsAreFinite, MaxOfImage
<1>. QED  BY <1>3, <1>4

\* A fact more lowers no peak.
LEMMA PeakGrows ==
  ASSUME NEW B \in SUBSET Facts, Early(B), NEW f \in Facts, f \notin B,
         \A g \in 1..(f - 1) : Account[g] = Account[f] => g \in B,
         NEW a
  PROVE  Early(B \cup {f}) /\ PeakOf(B, a) <= PeakOf(B \cup {f}, a)
<1>. DEFINE C == B \cup {f}
<1>0. C \in SUBSET Facts
  OBVIOUS
<1>1. Early(C)
  <2>1. \A g \in Facts : g < f => g \in 1..(f - 1)
    BY FactsAreFinite
  <2>. QED  BY <2>1 DEF Early
<1>2. ASSUME NEW n \in Facts, PeakOf(B, a) = Net(UptoOf(B, a, n))
      PROVE  PeakOf(B, a) <= PeakOf(C, a)
  <2>1. CASE Account[f] # a \/ n < f
    <3>1. UptoOf(B, a, n) = UptoOf(C, a, n)
      BY <2>1, FactsAreFinite DEF UptoOf
    <3>. QED  BY <1>0, <1>2, <3>1, PeakIs
  <2>2. CASE Account[f] = a /\ ~(n < f)
    <3>1. \A g \in B : Account[g] = a => g < f
      <4>. SUFFICES ASSUME NEW g \in B, Account[g] = a, ~(g < f) PROVE FALSE
        OBVIOUS
      <4>1. g # f /\ g \in Nat /\ f \in Nat
        BY FactsAreFinite
      <4>2. f < g
        BY <4>1
      <4>. QED  BY <4>2, <2>2 DEF Early
    <3>2. CASE f = 1
      <4>1. \A g \in B : Account[g] # a
        <5>1. \A g \in B : g \in Nat /\ g > 0
          BY FactsAreFinite
        <5>2. \A g \in B : ~(g < 1)
          BY <5>1
        <5>. QED  BY <3>1, <3>2, <5>2
      <4>3. UptoOf(B, a, n) = {}
        BY <4>1 DEF UptoOf
      <4>2. PeakOf(B, a) = 0
        BY <4>3, <1>2, NetOfNone
      <4>. QED  BY <4>2, <1>0, PeakIs
    <3>3. CASE f - 1 \in Facts
      <4>1. UptoOf(B, a, n) = UptoOf(C, a, f - 1)
        <5>1. \A g \in C : (Account[g] = a /\ g <= f - 1) <=> (g \in B /\ Account[g] = a /\ g <= n)
          BY <2>2, <3>1, FactsAreFinite
        <5>. QED  BY <5>1 DEF UptoOf
      <4>. QED  BY <1>0, <1>2, <3>3, <4>1, PeakIs
    <3>. QED  BY <3>2, <3>3, FactsAreFinite
  <2>. QED  BY <2>1, <2>2
<1>3. PeakOf(B, a) = 0 => PeakOf(B, a) <= PeakOf(C, a)
  BY <1>0, PeakIs
<1>. QED  BY <1>1, <1>2, <1>3, PeakIs

\* Early facts show no more than the peaks of their accounts.
LEMMA NetWithinPeaks ==
  ASSUME NEW B \in SUBSET Facts, NEW R \in SUBSET B, Early(R),
         NEW peaks, \A a \in Accounts : peaks[a] = PeakOf(B, a)
  PROVE  AccountsOf(R) \in SUBSET Accounts /\ Net(R) <= SumOf(peaks, AccountsOf(R))
<1>. DEFINE A == AccountsOf(R)
            Of(a) == {f \in R : Account[f] = a}
            t == [a \in A |-> SumOf(Gain, Of(a))]
<1>1. A \in SUBSET Accounts /\ \A f \in R : Account[f] \in A
  BY SiphonAssumption DEF AccountsOf
<1>2. IsFiniteSet(A) /\ IsFiniteSet(R) /\ \A f \in R : Gain[f] \in Int
  BY <1>1, SiphonAssumption, FactsAreFinite, FS_Subset DEF Gain
<1>3. SumOf(Gain, R) = SumOf(t, A) /\ \A a \in A : SumOf(Gain, Of(a)) \in Int
  <2>. HIDE DEF A
  <2>. QED  BY <1>1, <1>2, SumByKey
<1>4. ASSUME NEW a \in A PROVE t[a] \in Int /\ peaks[a] \in Int /\ t[a] <= peaks[a]
  <2>1. Of(a) \in SUBSET Facts /\ Of(a) # {}
    BY DEF AccountsOf
  <2>. DEFINE U == {n \in Nat : \A f \in Of(a) : f <= n}
  <2>2. Last \in U
    BY <2>1, SiphonAssumption DEF Facts
  <2>3. PICK n \in U : \A m \in U : ~(m < n)
    BY <2>2, LeastNatural
  <2>4. n \in Of(a)
    <3>. SUFFICES ASSUME n \notin Of(a) PROVE FALSE
      OBVIOUS
    <3>1. \A f \in Of(a) : f \in Nat /\ f > 0 /\ f <= n /\ f # n
      BY <2>1, <2>3, FactsAreFinite
    <3>2. n - 1 \in U
      BY <2>1, <2>3, <3>1
    <3>. QED  BY <2>3, <3>2
  <2>5. Of(a) = UptoOf(B, a, n)
    <3>1. \A g \in B : (g \in R /\ Account[g] = a) => g <= n
      BY <2>3
    <3>2. \A g \in B : (Account[g] = a /\ g <= n) => g \in R
      <4>. SUFFICES ASSUME NEW g \in B, Account[g] = a, g <= n PROVE g \in R
        OBVIOUS
      <4>1. g = n \/ g < n
        BY <2>3, FactsAreFinite
      <4>. QED  BY <2>4, <4>1 DEF Early
    <3>. QED  BY <3>1, <3>2 DEF UptoOf
  <2>6. t[a] = Net(UptoOf(B, a, n)) /\ t[a] \in Int
    <3>1. Net(Of(a)) = SumOf(Gain, Of(a)) /\ Net(Of(a)) \in Int
      BY <2>1, NetIs
    <3>. QED  BY <2>5, <3>1
  <2>7. n \in Facts /\ peaks[a] = PeakOf(B, a)
    BY <1>1, <2>1, <2>4
  <2>8. PeakOf(B, a) \in Nat /\ Net(UptoOf(B, a, n)) <= PeakOf(B, a)
    <3>1. n \in Facts
      BY <2>7
    <3>. QED  BY <3>1, PeakIs
  <2>. HIDE DEF Of, t, A
  <2>. QED  BY <2>6, <2>7, <2>8
<1>5. SumOf(t, A) <= SumOf(peaks, A)
  <2>. HIDE DEF A, t
  <2>. QED  BY <1>2, <1>4, SumGrows
<1>6. Net(R) = SumOf(Gain, R)
  BY NetIs
<1>. QED  BY <1>1, <1>3, <1>5, <1>6

\* Facts of which each set is early and that share none share no account.
LEMMA AccountsApart ==
  ASSUME NEW R \in SUBSET Facts, NEW Q \in SUBSET Facts, Early(R), Early(Q), R \cap Q = {}
  PROVE  AccountsOf(R) \cap AccountsOf(Q) = {}
<1>. SUFFICES ASSUME NEW f \in R, NEW g \in Q, Account[f] = Account[g] PROVE FALSE
  BY DEF AccountsOf
<1>1. f \in Nat /\ g \in Nat
  BY FactsAreFinite
<1>2. f = g \/ f < g \/ g < f
  BY <1>1
<1>. QED  BY <1>2 DEF Early

-----------------------------------------------------------------------------
(* The parts of the invariant. *)

LEMMA TakenIs ==
  ASSUME siphons \in Seq(Event)
  PROVE  /\ Len(siphons) \in Nat /\ DOMAIN siphons = 1..Len(siphons)
         /\ IsFiniteSet(DOMAIN siphons)
         /\ \A i \in DOMAIN siphons : Amounts[i] \in Nat /\ siphons[i] \in Event
         /\ Taken \in Nat
         /\ \A A : SumOf(Amounts, Same(A)) \in Nat /\ SumOf(Amounts, Same(A)) <= Taken
<1>1. Len(siphons) \in Nat /\ DOMAIN siphons = 1..Len(siphons)
  OBVIOUS
<1>2. \A i \in DOMAIN siphons : siphons[i] \in Event
  BY <1>1
<1>3. \A i \in DOMAIN siphons : Amounts[i] \in Nat
  BY <1>2 DEF Amounts, Event
<1>4. IsFiniteSet(DOMAIN siphons)
  BY <1>1, FS_Interval
<1>5. \A A : Same(A) \in SUBSET DOMAIN siphons
  BY DEF Same
<1>. QED  BY <1>1, <1>2, <1>3, <1>4, <1>5, SumOfPart, SumIsNat DEF Taken

LEMMA SiphonedIs == Siphoned = Taken
BY DEF Siphoned, Taken, SumOf, MapThenSumSet, MapThenFoldSet, Amounts

LEMMA PeaksAre ==
  ASSUME booked \in SUBSET Facts
  PROVE  /\ \A a \in Accounts : Peaks[a] = PeakOf(booked, a) /\ Peaks[a] \in Nat
         /\ SumOf(Peaks, Accounts) \in Nat
<1>1. \A a \in Accounts : Peaks[a] = PeakOf(booked, a)
  BY DEF Peaks, Peak, PeakOf, UptoOf
<1>2. \A a \in Accounts : PeakOf(booked, a) \in Nat
  BY PeakIs
<1>. QED  BY <1>1, <1>2, SiphonAssumption, SumIsNat

LEMMA RightIs ==
  ASSUME SiphonTypes, OneCall, NEW s \in Sessions
  PROVE  /\ Rights(s) \in Nat
         /\ \A c \in calls[s] : Rights(s) = Right(c) /\ Right(c) \in Nat
<1>1. ASSUME NEW c \in calls[s] PROVE Right(c) \in Nat
  <2>1. c \in Call
    BY DEF SiphonTypes
  <2>2. Net(c.rows) \in Int /\ c.prior \in Nat
    BY <2>1, NetIs DEF Call
  <2>. QED  BY <2>2 DEF Right, AtLeastZero
<1>2. ASSUME NEW c \in calls[s] PROVE Rights(s) = Right(c)
  <2>1. calls[s] = {c}
    BY DEF OneCall
  <2>. QED  BY <2>1 DEF Rights
<1>3. calls[s] = {} => Rights(s) = 0
  BY DEF Rights
<1>. QED  BY <1>1, <1>2, <1>3

\* One session moved: the rights of the others are what they were.
LEMMA RightsMove ==
  ASSUME SiphonTypes, OneCall, SiphonTypes', OneCall', NEW s \in Sessions, NEW D,
         calls' = [calls EXCEPT ![s] = D]
  PROVE  /\ SumOf(RightsOf, Sessions)' = SumOf(RightsOf, Sessions) - Rights(s) + Rights(s)'
         /\ SumOf(RightsOf, Sessions) \in Int
         /\ Rights(s) \in Nat /\ Rights(s)' \in Nat
<1>1. \A t \in Sessions : RightsOf[t] = Rights(t) /\ Rights(t) \in Nat
  BY RightIs DEF RightsOf
<1>2. \A t \in Sessions : Rights(t)' \in Nat
  <2>. SUFFICES ASSUME NEW t \in Sessions PROVE Rights(t)' \in Nat
    OBVIOUS
  <2>1. ASSUME NEW c \in calls'[t] PROVE Right(c) \in Nat
    <3>1. c \in Call
      BY DEF SiphonTypes
    <3>2. Net(c.rows) \in Int /\ c.prior \in Nat
      BY <3>1, NetIs DEF Call
    <3>. QED  BY <3>2 DEF Right, AtLeastZero
  <2>. QED  BY <2>1 DEF Rights
<1>3. \A t \in Sessions : RightsOf'[t] = Rights(t)'
  BY DEF RightsOf
<1>4. \A t \in Sessions \ {s} : Rights(t)' = Rights(t)
  <2>1. \A t \in Sessions \ {s} : calls'[t] = calls[t]
    BY DEF SiphonTypes
  <2>. QED  BY <2>1 DEF Rights
<1>5. /\ SumOf(RightsOf', Sessions) = SumOf(RightsOf, Sessions) - RightsOf[s] + RightsOf'[s]
      /\ SumOf(RightsOf, Sessions) \in Int
  <2>1. \A t \in Sessions : RightsOf'[t] \in Int /\ RightsOf[t] \in Int
    BY <1>1, <1>2, <1>3
  <2>2. \A t \in Sessions \ {s} : RightsOf'[t] = RightsOf[t]
    BY <1>1, <1>3, <1>4
  <2>. QED  BY <2>1, <2>2, SiphonAssumption, SumChanged
<1>. QED  BY <1>1, <1>2, <1>3, <1>5

-----------------------------------------------------------------------------
(* The steps. *)

\* A call may be open in s.
Fitting(s, c) ==
  /\ c \in Call /\ c.rows \subseteq booked /\ Early(c.rows)
  /\ \A f \in c.rows : Account[f] \in c.evidence.accounts
  /\ \A t \in Sessions \ {s} : \A d \in calls[t] :
       (c.phase # "WAITING" /\ d.phase # "WAITING") => c.rows \cap d.rows = {}
  /\ (c.phase = "READY" /\ Cardinality(c.evidence.accounts) = 1 /\ c.rows # {}) =>
       SumOf(Amounts, Same(c.evidence.accounts)) <= c.reserved

LEMMA OpenCallFits ==
  ASSUME SiphonInv, NEW s \in Sessions, NEW c \in calls[s]
  PROVE  Fitting(s, c)
<1>1. \A t \in Sessions \ {s} : \A d \in calls[t] :
        (c.phase # "WAITING" /\ d.phase # "WAITING") => c.rows \cap d.rows = {}
  BY DEF SiphonInv, RowsAreLocked
<1>. QED
  BY <1>1 DEF SiphonInv, SiphonTypes, RowsAreSettled, ReservesAreRead, Fitting

\* A step of a call that writes nothing.
LEMMA CallStep ==
  ASSUME SiphonInv, NEW s \in Sessions, NEW D,
         calls' = [calls EXCEPT ![s] = D],
         UNCHANGED <<booked, target, attributed, siphons>>,
         D = {} \/ \E c : D = {c}, \A c \in D : Fitting(s, c)
  PROVE  /\ SiphonTypes' /\ OneCall' /\ RowsAreSettled' /\ RowsAreLocked'
         /\ ReservesAreRead' /\ SeedFloorProtected'
         /\ Taken' = Taken /\ Peaks' = Peaks
<1>. USE DEF SiphonInv
<1>1. \A t \in Sessions : calls'[t] = IF t = s THEN D ELSE calls[t]
  BY DEF SiphonTypes
<1>2. SiphonTypes'
  BY DEF SiphonTypes, Fitting
<1>3. OneCall'
  BY <1>1 DEF OneCall
<1>4. RowsAreSettled'
  BY <1>1 DEF RowsAreSettled, Fitting
<1>5. RowsAreLocked'
  BY <1>1 DEF RowsAreLocked, Fitting
<1>6. Amounts' = Amounts /\ \A A : Same(A)' = Same(A)
  BY DEF Amounts, Same
<1>7. ReservesAreRead'
  BY <1>1, <1>6 DEF ReservesAreRead, Fitting
<1>8. SeedFloorProtected'
  BY DEF SeedFloorProtected
<1>9. Taken' = Taken /\ Peaks' = Peaks
  BY <1>6 DEF Taken, Peaks, Peak
<1>. QED  BY <1>2, <1>3, <1>4, <1>5, <1>7, <1>8, <1>9

\* A step after which the session may take no more than before.
LEMMA CallKeepsRights ==
  ASSUME SiphonInv, NEW s \in Sessions, NEW D,
         calls' = [calls EXCEPT ![s] = D],
         UNCHANGED <<booked, target, attributed, siphons>>,
         D = {} \/ \E c : D = {c}, \A c \in D : Fitting(s, c),
         \A c \in D : Right(c) <= Rights(s)
  PROVE  SiphonInv'
<1>1. /\ SiphonTypes' /\ OneCall' /\ RowsAreSettled' /\ RowsAreLocked'
      /\ ReservesAreRead' /\ SeedFloorProtected' /\ Taken' = Taken /\ Peaks' = Peaks
  BY CallStep
<1>2. /\ SumOf(RightsOf, Sessions)' = SumOf(RightsOf, Sessions) - Rights(s) + Rights(s)'
      /\ SumOf(RightsOf, Sessions) \in Int /\ Rights(s) \in Nat /\ Rights(s)' \in Nat
  BY <1>1, RightsMove DEF SiphonInv
<1>3. Rights(s)' <= Rights(s)
  <2>1. calls'[s] = D
    BY DEF SiphonInv, SiphonTypes
  <2>2. CASE D = {}
    BY <2>1, <2>2, <1>2 DEF Rights
  <2>3. CASE \E c : D = {c}
    <3>1. PICK c : D = {c}
      BY <2>3
    <3>2. Rights(s)' = Right(c)
      BY <2>1, <3>1 DEF Rights
    <3>. QED  BY <3>1, <3>2
  <2>. QED  BY <2>2, <2>3
<1>4. RightsWithinProfit'
  <2>1. Taken \in Nat
    BY TakenIs DEF SiphonInv, SiphonTypes
  <2>2. SumOf(Peaks, Accounts) \in Int
    BY PeaksAre DEF SiphonInv, SiphonTypes
  <2>. QED  BY <1>1, <1>2, <1>3, <2>1, <2>2 DEF SiphonInv, RightsWithinProfit
<1>. QED  BY <1>1, <1>4 DEF SiphonInv

LEMMA CallMovesTo ==
  ASSUME SiphonInv, NEW s \in Sessions, NEW d,
         calls' = [calls EXCEPT ![s] = {d}],
         UNCHANGED <<booked, target, attributed, siphons>>,
         Fitting(s, d), Right(d) <= Rights(s)
  PROVE  SiphonInv'
<1>1. PICK D : D = {d}
  OBVIOUS
<1>2. /\ calls' = [calls EXCEPT ![s] = D] /\ \E c : D = {c}
      /\ \A c \in D : Fitting(s, c) /\ Right(c) <= Rights(s)
  BY <1>1
<1>. QED  BY <1>2, CallKeepsRights

LEMMA BeginStep ==
  ASSUME SiphonInv, NEW s \in Sessions, NEW e \in Evidence, Begin(s, e)
  PROVE  SiphonInv'
<1>1. PICK c \in target :
        calls' = [calls EXCEPT ![s] =
          {[phase |-> "WAITING", evidence |-> e, target |-> c, rows |-> Settled(e),
            left |-> [f \in {} |-> 0], prior |-> 0, reserved |-> 0]}]
  BY DEF Begin
<1>2. UNCHANGED <<booked, target, attributed, siphons>>
  BY DEF Begin
<1>. DEFINE d == [phase |-> "WAITING", evidence |-> e, target |-> c, rows |-> Settled(e),
                  left |-> [f \in {} |-> 0], prior |-> 0, reserved |-> 0]
<1>3. /\ d \in Call /\ d.phase = "WAITING"
      /\ d.rows = Settled(e) /\ d.evidence = e
  <2>1. c \in Configs /\ Settled(e) \in SUBSET Facts
    BY DEF SiphonInv, SiphonTypes, Settled
  <2>2. [f \in {} |-> 0] \in UNION {[T -> Nat] : T \in SUBSET Facts}
    <3>1. [f \in {} |-> 0] \in [{} -> Nat] /\ {} \in SUBSET Facts
      OBVIOUS
    <3>. QED  BY <3>1
  <2>. QED  BY <2>1, <2>2 DEF Call, CallPhases
<1>4. Settled(e) \subseteq booked /\ \A f \in Settled(e) : Account[f] \in e.accounts
  BY DEF Settled
<1>5. Early(Settled(e))
  <2>. SUFFICES ASSUME NEW f \in Settled(e), NEW g \in Facts, Account[g] = Account[f], g < f
                PROVE  g \in Settled(e)
    BY DEF Early
  <2>1. g \in booked
    BY DEF SiphonInv, RowsAreSettled, Early, Settled
  <2>2. f \in Facts /\ f <= e.upto /\ e.upto \in Int
    BY SiphonAssumption DEF Settled, SiphonInv, SiphonTypes, EvidenceType
  <2>3. f \in Int /\ g \in Int
    BY <2>2, FactsAreFinite
  <2>4. g <= e.upto
    BY <2>2, <2>3
  <2>. QED  BY <2>1, <2>4 DEF Settled
<1>6. calls' = [calls EXCEPT ![s] = {d}]
  BY <1>1
<1>. HIDE DEF d
<1>7. Fitting(s, d)
  BY <1>3, <1>4, <1>5 DEF Fitting
<1>8. Right(d) <= Rights(s)
  BY <1>3, RightIs DEF Right, SiphonInv
<1>. QED  BY <1>2, <1>6, <1>7, <1>8, CallMovesTo

LEMMA LockStep ==
  ASSUME SiphonInv, NEW s \in Sessions, Lock(s)
  PROVE  SiphonInv'
<1>. DEFINE left(c) == [f \in Sources(c) |-> AtLeastZero(Profit[f] - attributed[f])]
<1>1. PICK c \in calls[s] :
        /\ c.phase = "WAITING" /\ c.rows \cap LockedRows(s) = {}
        /\ Steps(s, c, [c EXCEPT !.phase = "LOCKED", !.left = left(c)])
  BY DEF Lock
<1>. DEFINE d == [c EXCEPT !.phase = "LOCKED", !.left = left(c)]
<1>2. Fitting(s, c)
  BY OpenCallFits
<1>3. left(c) \in UNION {[T -> Nat] : T \in SUBSET Facts}
  <2>1. Sources(c) \in SUBSET Facts
    BY <1>2 DEF Sources, Fitting, SiphonInv, SiphonTypes
  <2>2. \A f \in Sources(c) : AtLeastZero(Profit[f] - attributed[f]) \in Nat
    <3>1. \A f \in Facts : Profit[f] \in Int /\ attributed[f] \in Nat
      BY SiphonAssumption DEF SiphonInv, SiphonTypes
    <3>. QED  BY <2>1, <3>1 DEF AtLeastZero
  <2>3. left(c) \in [Sources(c) -> Nat]
    BY <2>2
  <2>. HIDE DEF left
  <2>. QED  BY <2>1, <2>3
<1>. HIDE DEF left
<1>4. d \in Call /\ d.phase = "LOCKED" /\ d.rows = c.rows /\ d.evidence = c.evidence
  BY <1>2, <1>3 DEF Fitting, Call, CallPhases
<1>5. calls' = [calls EXCEPT ![s] = {d}] /\ UNCHANGED <<booked, target, attributed, siphons>>
  BY <1>1 DEF Steps
<1>. HIDE DEF d
<1>6. \A t \in Sessions \ {s} : \A e \in calls[t] : e.phase # "WAITING" => c.rows \cap e.rows = {}
  <2>. SUFFICES ASSUME NEW t \in Sessions \ {s}, NEW e \in calls[t], e.phase # "WAITING"
                PROVE  e.rows \subseteq LockedRows(s)
    BY <1>1
  <2>1. e \in UNION {calls[u] : u \in Sessions \ {s}}
    OBVIOUS
  <2>. QED  BY <2>1 DEF LockedRows
<1>7. Fitting(s, d)
  BY <1>2, <1>4, <1>6 DEF Fitting
<1>8. Right(d) <= Rights(s)
  BY <1>4, RightIs DEF Right, SiphonInv
<1>. QED  BY <1>5, <1>7, <1>8, CallMovesTo

LEMMA ReadReservesStep ==
  ASSUME SiphonInv, NEW s \in Sessions, ReadReserves(s)
  PROVE  SiphonInv'
<1>1. PICK c \in calls[s] :
        c.phase = "COUNTED" /\ Steps(s, c, [c EXCEPT !.phase = "READY", !.reserved = Siphoned])
  BY DEF ReadReserves
<1>. DEFINE d == [c EXCEPT !.phase = "READY", !.reserved = Siphoned]
<1>2. Fitting(s, c)
  BY OpenCallFits
<1>3. Siphoned \in Nat /\ \A A : SumOf(Amounts, Same(A)) <= Siphoned
  BY TakenIs, SiphonedIs DEF SiphonInv, SiphonTypes
<1>4. /\ d \in Call /\ d.phase = "READY" /\ d.rows = c.rows /\ d.evidence = c.evidence
      /\ d.prior = c.prior /\ d.reserved = Siphoned
  BY <1>2, <1>3 DEF Fitting, Call, CallPhases
<1>5. calls' = [calls EXCEPT ![s] = {d}] /\ UNCHANGED <<booked, target, attributed, siphons>>
  BY <1>1 DEF Steps
<1>. HIDE DEF d
<1>6. Fitting(s, d)
  BY <1>1, <1>2, <1>3, <1>4 DEF Fitting
<1>7. Right(d) = Right(c)
  BY <1>1, <1>4 DEF Right
<1>8. Rights(s) = Right(c) /\ Right(c) \in Nat
  BY RightIs DEF SiphonInv
<1>9. Right(d) <= Rights(s)
  BY <1>7, <1>8
<1>. QED  BY <1>5, <1>6, <1>9, CallMovesTo

LEMMA EndStep ==
  ASSUME SiphonInv, NEW s \in Sessions, TooLittle(s) \/ RollBack(s)
  PROVE  SiphonInv'
<1>1. calls' = [calls EXCEPT ![s] = {}] /\ UNCHANGED <<booked, target, attributed, siphons>>
  BY DEF TooLittle, RollBack
<1>2. PICK D : D = {}
  OBVIOUS
<1>3. /\ calls' = [calls EXCEPT ![s] = D]
      /\ \A c \in D : Fitting(s, c) /\ Right(c) <= Rights(s)
  BY <1>1, <1>2
<1>. QED  BY <1>1, <1>2, <1>3, CallKeepsRights

\* The call reads the siphons: what it may still take is what its facts have
\* earned beyond them, and the others hold facts of other accounts.
LEMMA ReadPriorStep ==
  ASSUME SiphonInv, NEW s \in Sessions, ReadPrior(s)
  PROVE  SiphonInv'
<1>1. PICK c \in calls[s] :
        c.phase = "LOCKED" /\ Steps(s, c, [c EXCEPT !.phase = "COUNTED", !.prior = Siphoned])
  BY DEF ReadPrior
<1>. DEFINE d == [c EXCEPT !.phase = "COUNTED", !.prior = Siphoned]
<1>2. Fitting(s, c)
  BY OpenCallFits
<1>3. Siphoned = Taken /\ Taken \in Nat
  BY TakenIs, SiphonedIs DEF SiphonInv, SiphonTypes
<1>4. /\ d \in Call /\ d.phase = "COUNTED" /\ d.rows = c.rows /\ d.evidence = c.evidence
      /\ d.prior = Taken
  BY <1>2, <1>3 DEF Fitting, Call, CallPhases
<1>5. calls' = [calls EXCEPT ![s] = {d}] /\ UNCHANGED <<booked, target, attributed, siphons>>
  BY <1>1 DEF Steps
<1>. HIDE DEF d
<1>6. Fitting(s, d)
  BY <1>1, <1>2, <1>4 DEF Fitting
<1>. DEFINE net == Net(c.rows)
<1>7. net \in Int /\ c.rows \in SUBSET Facts
  BY <1>2, NetIs DEF Fitting, Call
<1>. HIDE DEF net
<1>8. CASE net - Taken <= 0
  <2>1. Right(d) = 0
    BY <1>3, <1>4, <1>7, <1>8 DEF Right, AtLeastZero, net
  <2>2. Right(d) <= Rights(s)
    BY <2>1, RightIs DEF SiphonInv
  <2>. QED  BY <1>5, <1>6, <2>2, CallMovesTo
<1>9. CASE net - Taken > 0
  <2>. DEFINE rowsOf(t) == UNION {e.rows : e \in {e \in calls[t] : e.phase # "WAITING"}}
              part == [t \in Sessions |-> AccountsOf(rowsOf(t))]
              r == [t \in Sessions |-> IF t = s THEN net ELSE RightsOf[t]]
  <2>1. ASSUME NEW t \in Sessions, NEW e \in calls[t], e.phase # "WAITING"
        PROVE  rowsOf(t) = e.rows
    <3>1. calls[t] = {e}
      BY DEF SiphonInv, OneCall
    <3>. QED  BY <2>1, <3>1
  <2>2. ASSUME NEW t \in Sessions
        PROVE  /\ rowsOf(t) \in SUBSET booked /\ rowsOf(t) \in SUBSET Facts
               /\ Early(rowsOf(t))
               /\ Rights(t) <= SumOf(Peaks, AccountsOf(rowsOf(t)))
    <3>1. CASE \E e \in calls[t] : e.phase # "WAITING"
      <4>1. PICK e \in calls[t] : e.phase # "WAITING"
        BY <3>1
      <4>2. rowsOf(t) = e.rows
        BY <2>1, <4>1
      <4>. HIDE DEF rowsOf
      <4>3. Fitting(t, e)
        BY OpenCallFits
      <4>4. e.rows \in SUBSET booked /\ e.rows \in SUBSET Facts /\ Early(e.rows) /\ e.prior \in Nat
        BY <4>3 DEF Fitting, Call
      <4>5. /\ AccountsOf(e.rows) \in SUBSET Accounts
            /\ Net(e.rows) <= SumOf(Peaks, AccountsOf(e.rows))
        BY <4>4, PeaksAre, NetWithinPeaks DEF SiphonInv, SiphonTypes
      <4>6. SumOf(Peaks, AccountsOf(e.rows)) \in Nat
        BY <4>5, PeaksAre, SiphonAssumption, SumOfPart DEF SiphonInv, SiphonTypes
      <4>7. Right(e) <= SumOf(Peaks, AccountsOf(e.rows))
        <5>1. Net(e.rows) \in Int
          BY <4>4, NetIs
        <5>. QED  BY <4>4, <4>5, <4>6, <5>1 DEF Right, AtLeastZero
      <4>. QED  BY <4>2, <4>4, <4>7, RightIs DEF SiphonInv
    <3>2. CASE \A e \in calls[t] : e.phase = "WAITING"
      <4>1. rowsOf(t) = {}
        BY <3>2
      <4>. HIDE DEF rowsOf
      <4>2. AccountsOf({}) = {}
        BY DEF AccountsOf
      <4>3. SumOf(Peaks, {}) = 0
        BY SumEmpty
      <4>4. Rights(t) = 0
        BY <3>2 DEF SiphonInv, OneCall, Rights, Right
      <4>5. Rights(t) <= SumOf(Peaks, {})
        BY <4>3, <4>4
      <4>6. Early({})
        BY DEF Early
      <4>. QED  BY <4>1, <4>2, <4>5, <4>6
    <3>. QED  BY <3>1, <3>2
  <2>3. rowsOf(s) = c.rows
    BY <1>1, <2>1
  <2>4. ASSUME NEW t \in Sessions, NEW u \in Sessions, t # u
        PROVE  rowsOf(t) \cap rowsOf(u) = {}
    BY <2>4 DEF SiphonInv, RowsAreLocked
  <2>5. net <= SumOf(Peaks, AccountsOf(c.rows))
    BY <1>2, PeaksAre, NetWithinPeaks DEF SiphonInv, SiphonTypes, Fitting, net
  <2>. HIDE DEF rowsOf
  <2>6. \A t, u \in Sessions : t # u => part[t] \cap part[u] = {}
    BY <2>2, <2>4, AccountsApart
  <2>7. \A t \in Sessions : part[t] \in SUBSET Accounts
    BY <2>2, SiphonAssumption DEF AccountsOf
  <2>8. \A t \in Sessions : RightsOf[t] = Rights(t) /\ Rights(t) \in Int
    BY RightIs DEF RightsOf, SiphonInv
  <2>9. \A t \in Sessions : r[t] \in Int /\ r[t] <= SumOf(Peaks, part[t])
    BY <1>7, <2>2, <2>3, <2>5, <2>8
  <2>10. r[s] = net /\ \A t \in Sessions \ {s} : r[t] = Rights(t)
    BY <2>8
  <2>. HIDE DEF r, part
  <2>11. SumOf(r, Sessions) <= SumOf(Peaks, Accounts)
    BY <2>6, <2>7, <2>9, PeaksAre, SiphonAssumption, SumCovers DEF SiphonInv, SiphonTypes
  <2>. DEFINE D == {d}
  <2>12. /\ SiphonTypes' /\ OneCall' /\ RowsAreSettled' /\ RowsAreLocked'
         /\ ReservesAreRead' /\ SeedFloorProtected' /\ Taken' = Taken /\ Peaks' = Peaks
    <3>1. calls' = [calls EXCEPT ![s] = D] /\ \E e : D = {e}
      BY <1>5
    <3>2. \A e \in D : Fitting(s, e)
      BY <1>6
    <3>. HIDE DEF D
    <3>. QED  BY <1>5, <3>1, <3>2, CallStep
  <2>13. Right(d) = net - Taken
    BY <1>3, <1>4, <1>7, <1>9 DEF Right, AtLeastZero, net
  <2>14. calls'[s] = {d} /\ \A t \in Sessions \ {s} : calls'[t] = calls[t]
    BY <1>5 DEF SiphonInv, SiphonTypes
  <2>15. /\ RightsOf'[s] = net - Taken
         /\ \A t \in Sessions \ {s} : RightsOf'[t] = Rights(t)
    <3>1. \A t \in Sessions : RightsOf'[t] = Rights(t)'
      BY DEF RightsOf
    <3>2. Rights(s)' = Right(d)
      BY <2>14 DEF Rights
    <3>3. ASSUME NEW t \in Sessions \ {s} PROVE Rights(t)' = Rights(t)
      <4>1. calls'[t] = calls[t]
        BY <2>14
      <4>. QED  BY <4>1 DEF Rights
    <3>. QED  BY <2>13, <3>1, <3>2, <3>3
  <2>16. SumOf(RightsOf', Sessions) = SumOf(r, Sessions) - r[s] + RightsOf'[s]
           /\ SumOf(r, Sessions) \in Int
    <3>1. \A t \in Sessions : RightsOf'[t] \in Int /\ r[t] \in Int
      BY <1>3, <1>7, <2>8, <2>9, <2>15
    <3>2. \A t \in Sessions \ {s} : RightsOf'[t] = r[t]
      BY <2>10, <2>15
    <3>. QED  BY <3>1, <3>2, SiphonAssumption, SumChanged
  <2>17. SumOf(RightsOf', Sessions) = SumOf(r, Sessions) - Taken
    BY <1>3, <1>7, <2>10, <2>15, <2>16
  <2>18. RightsWithinProfit'
    BY <1>3, <2>11, <2>12, <2>16, <2>17 DEF RightsWithinProfit
  <2>. QED  BY <2>12, <2>18 DEF SiphonInv
<1>. QED  BY <1>3, <1>7, <1>8, <1>9

\* What qualifies is within the profit that is left and the cash that is free.
LEMMA QualifiedIs ==
  ASSUME NEW c \in Call
  PROVE  /\ Qualified(c) \in Int
         /\ Qualified(c) <= AtLeastZero(Net(c.rows) - c.prior)
         /\ Qualified(c) <= Headroom(c)
         /\ c.rows = {} => Qualified(c) <= 0
<1>1. Net(c.rows) \in Int /\ c.prior \in Nat /\ c.reserved \in Nat /\ c.evidence \in EvidenceType
  BY NetIs, SiphonAssumption DEF Call
<1>2. AtLeastZero(Net(c.rows) - c.prior) \in Nat
  BY <1>1 DEF AtLeastZero
<1>3. RemainingNet(c) \in Int /\ RemainingNet(c) <= AtLeastZero(Net(c.rows) - c.prior)
  BY <1>2, FloorIs DEF RemainingNet
<1>4. Headroom(c) \in Int
  BY <1>1, SiphonAssumption DEF Headroom, AtLeastZero, EvidenceType
<1>5. Unsiphoned(c) \in Int
  <2>1. PICK T \in SUBSET Facts : c.left \in [T -> Nat]
    BY DEF Call
  <2>2. IsFiniteSet(T) /\ DOMAIN c.left = T /\ \A f \in T : c.left[f] \in Int
    BY <2>1, FactsAreFinite, FS_Subset
  <2>3. SumOf(c.left, T) \in Int
    BY <2>2, SumIsInt
  <2>. QED  BY <2>2, <2>3, TotalIs, FloorIs DEF Unsiphoned
<1>. DEFINE m == Min({Unsiphoned(c), RemainingNet(c), Headroom(c)})
<1>6. m \in Int /\ m <= RemainingNet(c) /\ m <= Headroom(c)
  BY <1>3, <1>4, <1>5, MinIs
<1>7. Qualified(c) = FloorCents(m)
  BY DEF Qualified
<1>. HIDE DEF m
<1>8. Qualified(c) \in Int /\ Qualified(c) <= m
  BY <1>6, <1>7, FloorIs
<1>9. ASSUME c.rows = {} PROVE AtLeastZero(Net(c.rows) - c.prior) = 0
  BY <1>1, <1>9, NetOfNone DEF AtLeastZero
<1>. QED  BY <1>2, <1>3, <1>4, <1>6, <1>8, <1>9

LEMMA AllocateStep ==
  ASSUME SiphonInv, NEW s \in Sessions, Allocate(s)
  PROVE  SiphonInv'
<1>1. PICK c \in calls[s] :
        /\ c.phase = "READY" /\ Qualified(c) >= MinimumSiphon /\ Accepted(c)
        /\ siphons' = Append(siphons, [qualified |-> Qualified(c), target |-> c.target,
                                        evidence |-> c.evidence])
        /\ attributed' = [f \in Facts |->
             attributed[f] + IF f \in DOMAIN c.left THEN Attribution(c)[f] ELSE 0]
        /\ calls' = [calls EXCEPT ![s] = {}]
  BY DEF Allocate
<1>2. UNCHANGED <<booked, target>>
  BY DEF Allocate
<1>3. Fitting(s, c) /\ c \in Call
  BY OpenCallFits DEF Fitting
<1>. DEFINE q == Qualified(c)
            A == c.evidence.accounts
            e == [qualified |-> q, target |-> c.target, evidence |-> c.evidence]
            n == Len(siphons)
<1>4. /\ q \in Nat /\ q > 0 /\ q <= AtLeastZero(Net(c.rows) - c.prior) /\ q <= Headroom(c)
      /\ c.rows # {}
  <2>1. /\ q \in Int /\ q <= AtLeastZero(Net(c.rows) - c.prior) /\ q <= Headroom(c)
        /\ c.rows = {} => q <= 0
    BY <1>3, QualifiedIs
  <2>2. q >= MinimumSiphon /\ MinimumSiphon \in Nat /\ MinimumSiphon > 0
    BY <1>1, SiphonAssumption
  <2>. HIDE DEF q
  <2>. QED  BY <2>1, <2>2
<1>5. /\ e \in Event /\ e.qualified = q /\ e.evidence = c.evidence
      /\ c.evidence \in EvidenceType
  BY <1>3, <1>4, SiphonAssumption DEF Event, Call
<1>6. /\ siphons \in Seq(Event) /\ n \in Nat /\ DOMAIN siphons = 1..n
      /\ IsFiniteSet(DOMAIN siphons) /\ Taken \in Nat
      /\ \A i \in DOMAIN siphons : Amounts[i] \in Nat /\ Amounts[i] = siphons[i].qualified
  BY TakenIs DEF SiphonInv, SiphonTypes, Amounts
<1>7. siphons' = Append(siphons, e)
  BY <1>1
<1>8. attributed' \in [Facts -> Nat]
  <2>1. Attribution(c) \in [DOMAIN c.left -> Nat] /\ attributed \in [Facts -> Nat]
    BY <1>1 DEF Accepted, SiphonInv, SiphonTypes
  <2>. QED  BY <1>1, <2>1
<1>. HIDE DEF q, e, n
<1>9. /\ siphons' \in Seq(Event) /\ DOMAIN siphons' = 1..(n + 1)
      /\ siphons'[n + 1] = e /\ n + 1 \notin DOMAIN siphons
      /\ \A i \in DOMAIN siphons : i \in DOMAIN siphons' /\ siphons'[i] = siphons[i]
      /\ DOMAIN siphons' = DOMAIN siphons \cup {n + 1}
  BY <1>5, <1>6, <1>7 DEF n
<1>10. \A t \in Sessions : calls'[t] = IF t = s THEN {} ELSE calls[t]
  BY <1>1 DEF SiphonInv, SiphonTypes
<1>11. SiphonTypes'
  BY <1>1, <1>2, <1>8, <1>9 DEF SiphonInv, SiphonTypes
<1>12. OneCall' /\ RowsAreSettled' /\ RowsAreLocked'
  BY <1>2, <1>10 DEF SiphonInv, OneCall, RowsAreSettled, RowsAreLocked
<1>13. /\ Amounts'[n + 1] = q
       /\ \A i \in DOMAIN siphons : Amounts'[i] = Amounts[i]
       /\ \A i \in DOMAIN siphons' : Amounts'[i] \in Nat
  <2>1. \A i \in DOMAIN siphons' : Amounts'[i] = siphons'[i].qualified
    BY DEF Amounts
  <2>. QED  BY <1>4, <1>5, <1>6, <1>9, <2>1
\* The sums, with and without the new siphon.
<1>14. ASSUME NEW S \in SUBSET DOMAIN siphons
       PROVE  /\ SumOf(Amounts', S) = SumOf(Amounts, S)
              /\ SumOf(Amounts', S \cup {n + 1}) = SumOf(Amounts, S) + q
  <2>1. IsFiniteSet(S) /\ S \in SUBSET DOMAIN siphons' /\ n + 1 \in DOMAIN siphons' \ S
    BY <1>6, <1>9, FS_Subset
  <2>2. SumOf(Amounts', S) = SumOf(Amounts, S)
    <3>1. \A i \in S : Amounts[i] \in Int /\ Amounts'[i] = Amounts[i]
      BY <1>6, <1>13
    <3>. QED  BY <2>1, <3>1, SumSame
  <2>3. IsFiniteSet(DOMAIN siphons') /\ \A i \in DOMAIN siphons' : Amounts'[i] \in Int
    BY <1>6, <1>9, <1>13, FS_AddElement
  <2>4. SumOf(Amounts', S \cup {n + 1}) = SumOf(Amounts', S) + Amounts'[n + 1]
    BY <2>1, <2>3, SumAdds
  <2>. QED  BY <1>13, <2>2, <2>4
<1>15. Taken' = Taken + q
  BY <1>9, <1>14 DEF Taken
<1>16. RightsWithinProfit'
  <2>1. /\ SumOf(RightsOf, Sessions)' = SumOf(RightsOf, Sessions) - Rights(s) + Rights(s)'
        /\ SumOf(RightsOf, Sessions) \in Int
    BY <1>1, <1>11, <1>12, RightsMove DEF SiphonInv
  <2>2. Rights(s)' = 0
    BY <1>10 DEF Rights
  <2>3. q <= Rights(s) /\ Rights(s) \in Nat
    BY <1>1, <1>4, RightIs DEF Right, SiphonInv
  <2>4. Peaks' = Peaks
    BY <1>2 DEF Peaks, Peak
  <2>5. SumOf(Peaks, Accounts) \in Int
    BY PeaksAre DEF SiphonInv, SiphonTypes
  <2>. QED
    BY <1>4, <1>6, <1>15, <2>1, <2>2, <2>3, <2>4, <2>5 DEF SiphonInv, RightsWithinProfit
<1>17. ReservesAreRead'
  <2>. SUFFICES ASSUME NEW t \in Sessions \ {s}, NEW d \in calls[t], d.phase = "READY",
                       Cardinality(d.evidence.accounts) = 1, d.rows # {}
                PROVE  SumOf(Amounts', Same(d.evidence.accounts)') <= d.reserved
    BY <1>10 DEF ReservesAreRead
  <2>1. Fitting(t, d)
    BY OpenCallFits
  <2>2. d.evidence.accounts # A
    <3>. SUFFICES ASSUME d.evidence.accounts = A PROVE FALSE
      OBVIOUS
    <3>1. A \subseteq Accounts
      BY <1>5 DEF EvidenceType
    <3>2. IsFiniteSet(A) /\ Cardinality(A) = 1
      BY <3>1, SiphonAssumption, FS_Subset
    <3>3. PICK a : A = {a}
      BY <3>2, FS_Singleton
    <3>4. PICK f \in c.rows, g \in d.rows : TRUE
      BY <1>4
    <3>5. Account[f] = Account[g]
      BY <1>3, <2>1, <3>3, <3>4 DEF Fitting
    <3>6. c.rows \cap d.rows = {}
      BY <1>1, <1>3 DEF Fitting
    <3>7. /\ c.rows \in SUBSET Facts /\ d.rows \in SUBSET Facts
          /\ Early(c.rows) /\ Early(d.rows)
      BY <1>3, <2>1 DEF Fitting, Call
    <3>8. AccountsOf(c.rows) \cap AccountsOf(d.rows) = {}
      BY <3>6, <3>7, AccountsApart
    <3>. QED  BY <3>4, <3>5, <3>8 DEF AccountsOf
  <2>3. Same(d.evidence.accounts)' = Same(d.evidence.accounts)
    BY <1>5, <1>9, <2>2 DEF Same
  <2>4. SumOf(Amounts', Same(d.evidence.accounts)) = SumOf(Amounts, Same(d.evidence.accounts))
    BY <1>14 DEF Same
  <2>. QED  BY <2>1, <2>3, <2>4 DEF Fitting
<1>18. SeedFloorProtected'
  <2>. DEFINE same(i) == {j \in 1..i : siphons'[j].evidence.accounts = siphons'[i].evidence.accounts}
              Amount(i) == [j \in same(i) |-> siphons'[j].qualified]
  <2>1. ASSUME NEW i \in DOMAIN siphons', Cardinality(siphons'[i].evidence.accounts) = 1
        PROVE  Total(Amount(i), same(i)) + siphons'[i].evidence.committed + SeedFloor
                 <= siphons'[i].evidence.cash
    <3>1. CASE i \in DOMAIN siphons
      <4>. DEFINE old == {j \in 1..i : siphons[j].evidence.accounts = siphons[i].evidence.accounts}
      <4>1. \A j \in 1..i : siphons'[j] = siphons[j]
        BY <1>6, <1>9, <3>1
      <4>2. siphons'[i] = siphons[i]
        BY <1>9, <3>1
      <4>3. same(i) = old
        BY <4>1, <4>2
      <4>4. Amount(i) = [j \in old |-> siphons[j].qualified]
        BY <4>1, <4>3
      <4>5. Total([j \in old |-> siphons[j].qualified], old) + siphons[i].evidence.committed + SeedFloor
              <= siphons[i].evidence.cash
        BY <2>1, <3>1, <4>2 DEF SiphonInv, SeedFloorProtected
      <4>. HIDE DEF old, same, Amount
      <4>. QED  BY <4>2, <4>3, <4>4, <4>5
    <3>2. CASE i = n + 1
      <4>1. siphons'[i].evidence = c.evidence
        BY <1>5, <1>9, <3>2
      <4>2. same(i) = Same(A) \cup {n + 1}
        BY <1>6, <1>9, <3>2, <4>1 DEF Same
      <4>3. \A j \in same(i) : j \in DOMAIN siphons' /\ Amount(i)[j] = Amounts'[j]
        BY <1>9, <3>2 DEF Amounts
      <4>4. same(i) \in SUBSET DOMAIN siphons' /\ IsFiniteSet(DOMAIN siphons')
        BY <1>6, <1>9, <4>3, FS_AddElement
      <4>5. IsFiniteSet(same(i)) /\ \A j \in same(i) : Amounts'[j] \in Int
        BY <1>13, <4>4, FS_Subset
      <4>. DEFINE S == same(i)
                  w == Amount(i)
      <4>. HIDE DEF S, w
      <4>6. SumOf(w, S) = SumOf(Amounts', S)
        BY <4>3, <4>5, SumSame DEF S, w
      <4>7. SumOf(Amounts', Same(A) \cup {n + 1}) = SumOf(Amounts, Same(A)) + q
        BY <1>14 DEF Same
      <4>8. Total(w, S) = SumOf(Amounts, Same(A)) + q
        BY <4>2, <4>6, <4>7, TotalIs DEF S
      <4>9. SumOf(Amounts, Same(A)) <= c.reserved
        BY <1>1, <1>3, <1>4, <2>1, <4>1 DEF Fitting
      <4>10. SumOf(Amounts, Same(A)) \in Nat /\ c.reserved \in Nat
        BY <1>3, TakenIs DEF SiphonInv, SiphonTypes, Call
      <4>11. q <= c.evidence.cash - SeedFloor - c.evidence.committed - c.reserved
        BY <1>4, <1>5, <4>10, SiphonAssumption DEF Headroom, AtLeastZero, EvidenceType
      <4>12. Total(w, S) + c.evidence.committed + SeedFloor <= c.evidence.cash
        BY <1>4, <1>5, <4>8, <4>9, <4>10, <4>11, SiphonAssumption DEF EvidenceType
      <4>. QED  BY <4>1, <4>12 DEF S, w
    <3>. QED  BY <1>9, <3>1, <3>2
  <2>. QED  BY <2>1 DEF SeedFloorProtected
<1>. QED  BY <1>11, <1>12, <1>16, <1>17, <1>18 DEF SiphonInv

\* A fact more raises the peak of its account.
LEMMA BookStep ==
  ASSUME SiphonInv, NEW f \in Facts, RecordCanonicalRealizedPnl(f)
  PROVE  SiphonInv'
<1>1. /\ f \notin booked /\ booked' = booked \cup {f}
      /\ \A g \in 1..(f - 1) : Account[g] = Account[f] => g \in booked
      /\ UNCHANGED <<target, attributed, siphons, calls>>
  BY DEF RecordCanonicalRealizedPnl
<1>2. booked \in SUBSET Facts /\ Early(booked)
  BY DEF SiphonInv, SiphonTypes, RowsAreSettled
<1>3. booked' \in SUBSET Facts
  BY <1>1, <1>2
<1>4. Early(booked') /\ \A a \in Accounts : PeakOf(booked, a) <= PeakOf(booked', a)
  <2>1. ASSUME NEW a
        PROVE  Early(booked \cup {f}) /\ PeakOf(booked, a) <= PeakOf(booked \cup {f}, a)
    BY <1>1, <1>2, PeakGrows
  <2>. QED  BY <1>1, <2>1
<1>5. SiphonTypes'
  BY <1>1, <1>3 DEF SiphonInv, SiphonTypes
<1>6. OneCall' /\ RowsAreLocked' /\ SeedFloorProtected'
  BY <1>1 DEF SiphonInv, OneCall, RowsAreLocked, SeedFloorProtected
<1>7. RowsAreSettled'
  BY <1>1, <1>4 DEF SiphonInv, RowsAreSettled
<1>8. /\ Amounts' = Amounts /\ \A A : Same(A)' = Same(A)
      /\ RightsOf' = RightsOf
  BY <1>1 DEF Amounts, Same, RightsOf, Rights
<1>9. ReservesAreRead'
  BY <1>1, <1>8 DEF SiphonInv, ReservesAreRead
<1>10. \A a \in Accounts : Peaks'[a] = PeakOf(booked', a)
  BY DEF Peaks, Peak, PeakOf, UptoOf
<1>11. \A a \in Accounts : Peaks[a] \in Int /\ Peaks'[a] \in Int /\ Peaks[a] <= Peaks'[a]
  <2>1. \A a \in Accounts : Peaks[a] = PeakOf(booked, a) /\ Peaks[a] \in Nat
    BY <1>2, PeaksAre
  <2>2. \A a \in Accounts : PeakOf(booked', a) \in Nat
    BY <1>3, PeakIs
  <2>. QED  BY <1>4, <1>10, <2>1, <2>2
<1>12. SumOf(Peaks, Accounts) <= SumOf(Peaks', Accounts)
  BY <1>11, SiphonAssumption, SumGrows
<1>13. RightsWithinProfit'
  <2>1. Taken' = Taken
    BY <1>1, <1>8 DEF Taken
  <2>2. Taken \in Nat
    BY TakenIs DEF SiphonInv, SiphonTypes
  <2>3. SumOf(RightsOf, Sessions) \in Int
    <3>1. \A s \in Sessions : RightsOf[s] \in Int
      BY RightIs DEF RightsOf, SiphonInv
    <3>. QED  BY <3>1, SiphonAssumption, SumIsInt
  <2>4. SumOf(Peaks, Accounts) \in Int /\ SumOf(Peaks', Accounts) \in Int
    <3>1. \A a \in Accounts : Peaks[a] \in Int
      BY <1>11
    <3>2. \A a \in Accounts : Peaks'[a] \in Int
      BY <1>11
    <3>. QED  BY <3>1, <3>2, SiphonAssumption, SumIsInt
  <2>. QED
    BY <1>8, <1>12, <2>1, <2>2, <2>3, <2>4 DEF SiphonInv, RightsWithinProfit
<1>. QED  BY <1>5, <1>6, <1>7, <1>9, <1>13 DEF SiphonInv

\* A step that leaves the facts, the siphons and the calls alone.
LEMMA SiphonKept ==
  ASSUME SiphonInv, UNCHANGED <<booked, attributed, siphons, calls>>, target' \subseteq Configs
  PROVE  SiphonInv'
<1>1. /\ Amounts' = Amounts /\ \A A : Same(A)' = Same(A)
      /\ RightsOf' = RightsOf /\ Peaks' = Peaks
  BY DEF Amounts, Same, RightsOf, Rights, Peaks, Peak
<1>2. Taken' = Taken
  BY <1>1 DEF Taken
<1>3. RightsWithinProfit' /\ ReservesAreRead'
  BY <1>1, <1>2 DEF SiphonInv, RightsWithinProfit, ReservesAreRead
<1>. QED
  BY <1>3 DEF SiphonInv, SiphonTypes, OneCall, RowsAreSettled, RowsAreLocked, SeedFloorProtected

-----------------------------------------------------------------------------
(* The theorems. *)

LEMMA SiphonInvInit == SiphonInit => SiphonInv
<1>. SUFFICES ASSUME SiphonInit PROVE SiphonInv
  OBVIOUS
<1>. USE DEF SiphonInit
<1>1. SiphonTypes
  BY DEF SiphonTypes
<1>2. OneCall /\ RowsAreSettled /\ RowsAreLocked /\ ReservesAreRead /\ SeedFloorProtected
  BY DEF OneCall, RowsAreSettled, RowsAreLocked, ReservesAreRead, SeedFloorProtected, Early
<1>3. Taken = 0
  <2>1. DOMAIN siphons = {}
    OBVIOUS
  <2>. QED  BY <2>1, SumEmpty DEF Taken
<1>4. SumOf(RightsOf, Sessions) = 0
  <2>1. \A s \in Sessions : RightsOf[s] = 0
    BY DEF RightsOf, Rights
  <2>. QED  BY <2>1, SiphonAssumption, SumOfZeros
<1>5. SumOf(Peaks, Accounts) \in Nat
  BY <1>1, PeaksAre DEF SiphonTypes
<1>6. RightsWithinProfit
  BY <1>3, <1>4, <1>5 DEF RightsWithinProfit
<1>. QED  BY <1>1, <1>2, <1>6 DEF SiphonInv

LEMMA SiphonInvStep == SiphonInv /\ [SiphonNext]_siphonVars => SiphonInv'
<1>. SUFFICES ASSUME SiphonInv, [SiphonNext]_siphonVars PROVE SiphonInv'
  OBVIOUS
<1>1. ASSUME NEW f \in Facts, RecordCanonicalRealizedPnl(f) PROVE SiphonInv'
  BY <1>1, BookStep
<1>2. ASSUME NEW c \in Configs, CreateTargetConfig(c) PROVE SiphonInv'
  BY <1>2, SiphonKept DEF CreateTargetConfig
<1>3. CASE DeactivateTarget
  BY <1>3, SiphonKept DEF DeactivateTarget
<1>4. ASSUME NEW s \in Sessions, QualifyAndAllocate(s) PROVE SiphonInv'
  BY <1>4, LockStep, ReadPriorStep, ReadReservesStep, EndStep, AllocateStep
     DEF QualifyAndAllocate
<1>5. ASSUME NEW s \in Sessions, NEW e \in Evidence, Begin(s, e) PROVE SiphonInv'
  BY <1>5, BeginStep
<1>6. CASE UNCHANGED siphonVars
  <2>1. target \subseteq Configs
    BY DEF SiphonInv, SiphonTypes
  <2>. QED  BY <1>6, <2>1, SiphonKept DEF siphonVars
<1>. QED  BY <1>1, <1>2, <1>3, <1>4, <1>5, <1>6 DEF SiphonNext

\* The invariant holds of the siphon by itself.
THEOREM SiphonInvariance == SiphonSpec => []SiphonInv
BY SiphonInvInit, SiphonInvStep, PTL DEF SiphonSpec

LEMMA PeaksAddUp == MapThenSumSet(Peak, Accounts) = SumOf(Peaks, Accounts)
BY DEF SumOf, MapThenSumSet, MapThenFoldSet, Peaks

LEMMA WithinMeans == SiphonInv => SiphonWithinMeans
<1>. SUFFICES ASSUME SiphonInv PROVE SiphonedWithinProfit
  BY DEF SiphonInv, SiphonWithinMeans
<1>1. MapThenSumSet(Peak, Accounts) = SumOf(Peaks, Accounts)
  BY PeaksAddUp
<1>2. SumOf(RightsOf, Sessions) \in Nat
  <2>1. \A s \in Sessions : RightsOf[s] \in Nat
    BY RightIs DEF RightsOf, SiphonInv
  <2>. QED  BY <2>1, SiphonAssumption, SumIsNat
<1>3. Taken \in Nat /\ SumOf(Peaks, Accounts) \in Nat
  BY TakenIs, PeaksAre DEF SiphonInv, SiphonTypes
<1>4. Taken <= SumOf(Peaks, Accounts)
  BY <1>2, <1>3 DEF SiphonInv, RightsWithinProfit
<1>. QED  BY <1>1, <1>4, SiphonedIs DEF SiphonedWithinProfit

\* However the calls of the accounts interleave, the siphons of the cell
\* together stay within the sum of its accounts' best net profits, and each of a
\* call for one account leaves the protected seed.
THEOREM SiphonStaysWithinMeans == SiphonSpec => []SiphonWithinMeans
BY SiphonInvariance, WithinMeans, PTL

-----------------------------------------------------------------------------
(* The treasury.                                                           *)

Phases == {"WAITING", "LOCKED", "BOUGHT", "REBUILT"}
Rowed == {"BOUGHT", "REBUILT"}

\* Calls are records.
Shaped ==
  /\ \A s \in Sessions : \A c \in calls[s] :
       DOMAIN c = {"phase", "evidence", "target", "rows", "left", "prior", "reserved"}
  /\ \A s \in Sessions : \A o \in orders[s] :
       DOMAIN o = {"phase", "quote", "fees", "seen", "total", "written"}

\* Nothing is consumed of an allocation that does not exist yet.
NothingAhead == \A i \in Slots : i \notin DOMAIN siphons => spent[i] = 0

\* What a call is going to consume still fits, until it commits.
Reserved ==
  \A s \in Sessions : \A o \in orders[s] : o.phase \in Rowed =>
    /\ Storable(o)
    /\ \A i \in DOMAIN siphons : spent[i] + Spending(o)[i] <= Allocated(i)

\* An allocation is locked by one call.
Exclusive ==
  \A s, t \in Sessions : \A o \in orders[s], p \in orders[t] :
    (s # t /\ o.phase # "WAITING" /\ p.phase # "WAITING") =>
      DOMAIN o.seen \cap DOMAIN p.seen = {}

Inv == TypeOK /\ Shaped /\ NothingAhead /\ Reserved /\ Exclusive /\ AllocationsSpentOnce

-----------------------------------------------------------------------------
(* What a call would do with the allocations it has read does not change when *)
(* further ones are made.                                                     *)

LEMMA CallStable ==
  ASSUME NEW o, DOMAIN o.seen \subseteq DOMAIN siphons,
         \A i \in DOMAIN siphons : siphons'[i] = siphons[i]
  PROVE  /\ Spending(o)' = Spending(o)
         /\ Executed(o)' = Executed(o)
         /\ Buys(o)' = Buys(o)
         /\ Storable(o)' = Storable(o)
<1>1. \A c : Rows(o, c)' = Rows(o, c)
  BY DEF Rows
<1>2. \A c : Available(o, c)' = Available(o, c)
  BY <1>1 DEF Available
<1>3. Eligible(o)' = Eligible(o)
  BY <1>1, <1>2 DEF Eligible
<1>4. Quoted(o)' = Quoted(o) /\ Gated(o)' = Gated(o)
  BY <1>3 DEF Quoted, Gated
<1>5. \A c, fee : SharesFor(o, c, fee)' = SharesFor(o, c, fee)
  BY <1>2 DEF SharesFor
<1>6. \A c, n : Gross(o, c, n)' = Gross(o, c, n)
  BY DEF Gross
<1>7. \A c : Shares(o, c)' = Shares(o, c)
  BY <1>2, <1>5, <1>6 DEF Shares
<1>8. \A c : Paid(o, c)' = Paid(o, c)
  BY <1>6, <1>7 DEF Paid
<1>9. Buys(o)' = Buys(o)
  BY <1>2, <1>4, <1>7, <1>8 DEF Buys
<1>10. \A c : Needed(o, c)' = Needed(o, c)
  BY <1>8, <1>9 DEF Needed
<1>11. \A i \in DOMAIN o.seen : Consumed(o, i)' = Consumed(o, i)
  BY <1>1, <1>10 DEF Consumed
<1>12. Spending(o)' = Spending(o)
  BY <1>11 DEF Spending, Slots
<1>13. Executed(o)' = Executed(o)
  BY <1>7, <1>8, <1>9 DEF Executed
<1>14. Storable(o)' = Storable(o)
  BY <1>6, <1>7, <1>9, <1>12, <1>13 DEF Storable, Slots
<1>. QED  BY <1>9, <1>12, <1>13, <1>14

-----------------------------------------------------------------------------
(* Steps of the siphon. *)

LEMMA CentsAreNat ==
  ASSUME NEW q \in Nat PROVE TargetPart(q) \in Nat
<1>1. TargetPct \in Nat /\ Cent \in Nat \ {0}
  BY SiphonAssumption
<1>2. q * TargetPct \in Nat
  BY <1>1
<1>3. (q * TargetPct) \div 100 \in Nat
  BY <1>2
<1>4. \A n \in Nat : n \div Cent \in Nat
  BY <1>1
<1>. QED  BY <1>1, <1>3, <1>4 DEF TargetPart, FloorCents

\* A step that makes no allocation and moves no row of the treasury.
LEMMA TreasuryKept ==
  ASSUME Inv, UNCHANGED <<siphons, treasuryVars>>
  PROVE  NothingAhead' /\ Reserved' /\ Exclusive' /\ AllocationsSpentOnce'
<1>. USE DEF Inv, treasuryVars
<1>1. \A i : Allocated(i)' = Allocated(i)
  BY DEF Allocated
<1>2. ASSUME NEW s \in Sessions, NEW o \in orders[s]
      PROVE  Spending(o)' = Spending(o) /\ Storable(o)' = Storable(o)
  BY CallStable DEF TypeOK
<1>3. NothingAhead'
  BY DEF NothingAhead, Slots
<1>4. Reserved'
  BY <1>1, <1>2 DEF Reserved, Rowed
<1>5. Exclusive'
  BY DEF Exclusive
<1>6. AllocationsSpentOnce'
  BY <1>1 DEF AllocationsSpentOnce
<1>. QED  BY <1>3, <1>4, <1>5, <1>6

\* Every step of the siphon but Allocate.
LEMMA SiphonCallStep ==
  ASSUME Inv, NEW s \in Sessions, NEW d,
         calls' = [calls EXCEPT ![s] = d],
         \A c \in d :
           /\ c.phase \in {"WAITING", "LOCKED", "COUNTED", "READY"}
           /\ c.evidence \in Evidence /\ c.target \in Configs /\ c.rows \subseteq booked
           /\ DOMAIN c = {"phase", "evidence", "target", "rows", "left", "prior", "reserved"},
         UNCHANGED <<booked, target, versions, attributed, siphons, treasuryVars>>
  PROVE  Inv'
<1>. USE DEF Inv, treasuryVars
<1>1. TypeOK'
  BY DEF TypeOK, Slots
<1>2. Shaped'
  BY DEF Shaped, TypeOK
<1>. QED  BY <1>1, <1>2, TreasuryKept

\* The siphons are a finite sequence.
LEMMA LenIsNat ==
  ASSUME TypeOK PROVE Len(siphons) \in Nat /\ DOMAIN siphons = 1..Len(siphons)
<1>. DEFINE Rec == [qualified : Nat, target : Configs, evidence : Evidence]
<1>1. siphons \in Seq(Rec)
  BY DEF TypeOK
<1>. HIDE DEF Rec
<1> QED
  BY <1>1

\* An allocation is made by one step; nothing has been consumed of it.
LEMMA AllocationStep ==
  ASSUME Inv, NEW s \in Sessions, Allocate(s), UNCHANGED treasuryVars
  PROVE  Inv'
<1>. USE DEF Inv, treasuryVars
<1>1. PICK c \in calls[s] :
        /\ Accepted(c) /\ Len(siphons) < MaxSiphons
        /\ siphons' = Append(siphons, [qualified |-> Qualified(c), target |-> c.target,
                                        evidence |-> c.evidence])
        /\ attributed' = [f \in Facts |->
             attributed[f] + IF f \in DOMAIN c.left THEN Attribution(c)[f] ELSE 0]
        /\ calls' = [calls EXCEPT ![s] = {}]
  BY DEF Allocate
<1>2. UNCHANGED <<booked, target, versions>>
  BY DEF Allocate
<1>3. /\ Qualified(c) \in Nat /\ TargetPart(Qualified(c)) > 0
      /\ Attribution(c) \in [DOMAIN c.left -> Nat]
  BY <1>1 DEF Accepted
<1>4. c.target \in Configs /\ c.evidence \in Evidence
  BY DEF TypeOK
<1>0. PICK n \in Nat : n = Len(siphons)
  BY LenIsNat
<1>. DEFINE e == [qualified |-> Qualified(c), target |-> c.target, evidence |-> c.evidence]
            Rec == [qualified : Nat, target : Configs, evidence : Evidence]
<1>5. siphons \in Seq(Rec) /\ e \in Rec /\ e.qualified = Qualified(c)
  BY <1>3, <1>4 DEF TypeOK
<1>. HIDE DEF e, Rec
<1>6. siphons' = Append(siphons, e)
  BY <1>1 DEF e
<1>7. /\ siphons' \in Seq(Rec) /\ Len(siphons') = n + 1
      /\ DOMAIN siphons = 1..n /\ DOMAIN siphons' = 1..(n + 1)
      /\ siphons'[n + 1] = e
      /\ \A i \in DOMAIN siphons : siphons'[i] = siphons[i]
  BY <1>0, <1>5, <1>6
<1>8. n + 1 \in Slots /\ n + 1 \notin DOMAIN siphons
  BY <1>0, <1>1, <1>7, SiphonAssumption DEF Slots
<1>9. attributed' \in [Facts -> Nat]
  BY <1>1, <1>3 DEF TypeOK
<1>10. TypeOK'
  BY <1>0, <1>1, <1>2, <1>7, <1>9, <1>5, SiphonAssumption DEF TypeOK, Rec, Slots
<1>11. Shaped'
  BY <1>1 DEF Shaped, TypeOK
<1>12. \A i \in DOMAIN siphons : Allocated(i)' = Allocated(i)
  BY <1>7 DEF Allocated, TargetPart, FloorCents
<1>13. Allocated(n + 1)' > 0 /\ Allocated(n + 1)' \in Nat
  BY <1>3, <1>5, <1>7, CentsAreNat DEF Allocated, TargetPart, FloorCents
<1>14. spent[n + 1] = 0
  BY <1>8 DEF NothingAhead
<1>15. ASSUME NEW t \in Sessions, NEW o \in orders[t]
       PROVE  /\ Spending(o)' = Spending(o) /\ Storable(o)' = Storable(o)
              /\ Spending(o)[n + 1] = 0
  <2>1. DOMAIN o.seen \subseteq DOMAIN siphons
    BY DEF TypeOK
  <2>2. Spending(o)' = Spending(o) /\ Storable(o)' = Storable(o)
    BY <2>1, <1>7, CallStable
  <2>3. Spending(o)[n + 1] = 0
    BY <2>1, <1>8 DEF Spending
  <2>. QED  BY <2>2, <2>3
<1>16. NothingAhead'
  BY <1>7 DEF NothingAhead, Slots
<1>17. Reserved'
  <2>. SUFFICES ASSUME NEW t \in Sessions, NEW o \in orders[t], o.phase \in Rowed,
                       NEW i \in DOMAIN siphons'
                PROVE  spent[i] + Spending(o)'[i] <= Allocated(i)'
    <3>1. ASSUME NEW t \in Sessions, NEW o \in orders[t], o.phase \in Rowed
          PROVE  Storable(o)'
      BY <1>15, <3>1 DEF Reserved
    <3>. QED  BY <3>1, Zenon DEF Reserved, Rowed
  <2>1. Storable(o) /\ \A k \in DOMAIN siphons : spent[k] + Spending(o)[k] <= Allocated(k)
    BY DEF Reserved
  <2>2. CASE i \in DOMAIN siphons
    BY <2>1, <2>2, <1>12, <1>15
  <2>3. CASE i = n + 1
    BY <2>1, <2>3, <1>13, <1>14, <1>15
  <2>. QED  BY <2>2, <2>3, <1>7
<1>18. Exclusive'
  BY DEF Exclusive
<1>19. AllocationsSpentOnce'
  <2>. SUFFICES ASSUME NEW i \in DOMAIN siphons' PROVE spent[i] <= Allocated(i)'
    BY DEF AllocationsSpentOnce
  <2>1. CASE i \in DOMAIN siphons
    BY <2>1, <1>12 DEF AllocationsSpentOnce
  <2>2. CASE i = n + 1
    BY <2>2, <1>13, <1>14
  <2>. QED  BY <2>1, <2>2, <1>7
<1>. QED  BY <1>10, <1>11, <1>16, <1>17, <1>18, <1>19

LEMMA SiphonStep ==
  ASSUME Inv, SiphonNext, UNCHANGED treasuryVars
  PROVE  Inv'
<1>. USE DEF Inv
<1>1. ASSUME NEW f \in Facts, RecordCanonicalRealizedPnl(f)
      PROVE  Inv'
  <2>1. TypeOK' /\ Shaped'
    BY <1>1 DEF RecordCanonicalRealizedPnl, TypeOK, Shaped, Slots, treasuryVars
  <2>. QED  BY <2>1, <1>1, TreasuryKept DEF RecordCanonicalRealizedPnl
<1>2. ASSUME NEW c \in Configs, CreateTargetConfig(c)
      PROVE  Inv'
  <2>1. TypeOK' /\ Shaped'
    BY <1>2 DEF CreateTargetConfig, TypeOK, Shaped, Slots, treasuryVars
  <2>. QED  BY <2>1, <1>2, TreasuryKept DEF CreateTargetConfig
<1>3. ASSUME DeactivateTarget
      PROVE  Inv'
  <2>1. TypeOK' /\ Shaped'
    BY <1>3 DEF DeactivateTarget, TypeOK, Shaped, Slots, treasuryVars
  <2>. QED  BY <2>1, <1>3, TreasuryKept DEF DeactivateTarget
<1>4. ASSUME NEW s \in Sessions, NEW e \in Evidence, Begin(s, e)
      PROVE  Inv'
  <2>1. Settled(e) \subseteq booked /\ target \subseteq Configs
    BY DEF Settled, TypeOK
  <2>2. PICK c \in target :
          calls' = [calls EXCEPT ![s] =
            {[phase |-> "WAITING", evidence |-> e, target |-> c, rows |-> Settled(e),
              left |-> [f \in {} |-> 0], prior |-> 0, reserved |-> 0]}]
    BY <1>4 DEF Begin
  <2>3. UNCHANGED <<booked, target, versions, attributed, siphons>>
    BY <1>4 DEF Begin
  <2>. DEFINE d == [phase |-> "WAITING", evidence |-> e, target |-> c, rows |-> Settled(e),
                    left |-> [f \in {} |-> 0], prior |-> 0, reserved |-> 0]
  <2>4. /\ d.phase = "WAITING" /\ d.evidence \in Evidence /\ d.target \in Configs
        /\ d.rows \subseteq booked
        /\ DOMAIN d = {"phase", "evidence", "target", "rows", "left", "prior", "reserved"}
    BY <2>1
  <2>5. calls' = [calls EXCEPT ![s] = {d}]
    BY <2>2
  <2>. HIDE DEF d
  <2>. QED  BY <2>3, <2>4, <2>5, SiphonCallStep DEF treasuryVars
<1>5. ASSUME NEW s \in Sessions, NEW c \in calls[s], NEW d, Steps(s, c, d),
             /\ d.phase \in {"LOCKED", "COUNTED", "READY"} /\ DOMAIN d = DOMAIN c
             /\ d.evidence = c.evidence /\ d.target = c.target /\ d.rows = c.rows
      PROVE  Inv'
  <2>1. /\ DOMAIN c = {"phase", "evidence", "target", "rows", "left", "prior", "reserved"}
        /\ c.evidence \in Evidence /\ c.target \in Configs /\ c.rows \subseteq booked
    BY DEF TypeOK, Shaped
  <2>2. /\ calls' = [calls EXCEPT ![s] = {d}]
        /\ UNCHANGED <<booked, target, versions, attributed, siphons>>
    BY <1>5 DEF Steps
  <2>. QED  BY <1>5, <2>1, <2>2, SiphonCallStep DEF treasuryVars
<1>6. ASSUME NEW s \in Sessions, Lock(s) \/ ReadPrior(s) \/ ReadReserves(s)
      PROVE  Inv'
  <2>1. ASSUME NEW c \in calls[s]
        PROVE  DOMAIN c = {"phase", "evidence", "target", "rows", "left", "prior", "reserved"}
    BY DEF Shaped
  <2>2. CASE Lock(s)
    <3>1. PICK c \in calls[s] :
            Steps(s, c, [c EXCEPT !.phase = "LOCKED",
                    !.left = [f \in Sources(c) |-> AtLeastZero(Profit[f] - attributed[f])]])
      BY <2>2 DEF Lock
    <3>. QED  BY <3>1, <2>1, <1>5
  <2>3. CASE ReadPrior(s)
    <3>1. PICK c \in calls[s] : Steps(s, c, [c EXCEPT !.phase = "COUNTED", !.prior = Siphoned])
      BY <2>3 DEF ReadPrior
    <3>. QED  BY <3>1, <2>1, <1>5
  <2>4. CASE ReadReserves(s)
    <3>1. PICK c \in calls[s] : Steps(s, c, [c EXCEPT !.phase = "READY", !.reserved = Siphoned])
      BY <2>4 DEF ReadReserves
    <3>. QED  BY <3>1, <2>1, <1>5
  <2>. QED  BY <1>6, <2>2, <2>3, <2>4
<1>7. ASSUME NEW s \in Sessions, TooLittle(s) \/ RollBack(s)
      PROVE  Inv'
  <2>1. /\ calls' = [calls EXCEPT ![s] = {}]
        /\ UNCHANGED <<booked, target, versions, attributed, siphons>>
    BY <1>7 DEF TooLittle, RollBack
  <2>. QED  BY <2>1, SiphonCallStep DEF treasuryVars
<1>. QED
  BY <1>1, <1>2, <1>3, <1>4, <1>6, <1>7, AllocationStep DEF SiphonNext, QualifyAndAllocate
-----------------------------------------------------------------------------
(* Steps of the treasury. *)

Shares2 == [Instruments -> [shares : Nat, basis : Nat]]

\* A call as it may be open in s.
Fits(o) == \A i \in DOMAIN siphons : spent[i] + Spending(o)[i] <= Allocated(i)
Open(s, o) ==
  /\ o.phase \in Phases /\ DOMAIN o.seen \subseteq DOMAIN siphons
  /\ o.total \in Shares2
  /\ DOMAIN o = {"phase", "quote", "fees", "seen", "total", "written"}
  /\ o.phase \in Rowed => Storable(o)
  /\ o.phase \in Rowed => Fits(o)
  /\ \A t \in Sessions \ {s} : \A p \in orders[t] :
       (o.phase # "WAITING" /\ p.phase # "WAITING") => DOMAIN o.seen \cap DOMAIN p.seen = {}

\* A step of one call that writes nothing.
LEMMA OrderStep ==
  ASSUME Inv, NEW s \in Sessions, NEW d,
         orders' = [orders EXCEPT ![s] = d],
         UNCHANGED <<siphonVars, spent, bought, holdings, blocked>>,
         \A o \in d : Open(s, o)
  PROVE  Inv'
<1>. USE DEF Inv, siphonVars, Open, Fits
<1>1. \A t \in Sessions : orders'[t] = IF t = s THEN d ELSE orders[t]
  BY DEF TypeOK
<1>2. TypeOK'
  BY <1>1 DEF TypeOK, Slots, Phases, Shares2
<1>3. Shaped'
  BY <1>1 DEF Shaped
<1>4. \A i : Allocated(i)' = Allocated(i)
  BY DEF Allocated
<1>5. ASSUME NEW t \in Sessions, NEW o \in orders'[t]
      PROVE  Spending(o)' = Spending(o) /\ Storable(o)' = Storable(o)
  <2>1. DOMAIN o.seen \subseteq DOMAIN siphons
    BY <1>1 DEF TypeOK
  <2>. QED  BY <2>1, CallStable
<1>6. NothingAhead' /\ AllocationsSpentOnce'
  BY <1>4 DEF NothingAhead, AllocationsSpentOnce, Slots
<1>7. Reserved'
  <2>1. ASSUME NEW t \in Sessions, NEW o \in orders'[t], o.phase \in Rowed
        PROVE  Storable(o)'
    BY <2>1, <1>1, <1>5 DEF Reserved
  <2>2. ASSUME NEW t \in Sessions, NEW o \in orders'[t], o.phase \in Rowed,
               NEW i \in DOMAIN siphons'
        PROVE  spent'[i] + Spending(o)'[i] <= Allocated(i)'
    BY <2>2, <1>1, <1>4, <1>5 DEF Reserved
  <2>. QED  BY <2>1, <2>2, Zenon DEF Reserved, Rowed
<1>8. Exclusive'
  BY <1>1 DEF Exclusive
<1>. QED  BY <1>2, <1>3, <1>6, <1>7, <1>8

LEMMA SelectStep ==
  ASSUME Inv, NEW s \in Sessions, NEW quote, NEW fees, Select(s, quote, fees)
  PROVE  Inv'
<1>. DEFINE d == [phase |-> "WAITING", quote |-> quote, fees |-> fees,
                  seen |-> [i \in {i \in DOMAIN siphons : Allocated(i) > spent[i]} |->
                              Allocated(i) - spent[i]],
                  total |-> bought, written |-> {}]
<1>1. /\ orders' = [orders EXCEPT ![s] = {d}]
      /\ UNCHANGED <<siphonVars, spent, bought, holdings, blocked>>
  BY DEF Select, Proceeds
<1>2. /\ d.phase = "WAITING" /\ DOMAIN d.seen \subseteq DOMAIN siphons
      /\ d.total \in Shares2
      /\ DOMAIN d = {"phase", "quote", "fees", "seen", "total", "written"}
  BY DEF Inv, TypeOK, Shares2
<1>. HIDE DEF d
<1>3. \A o \in {d} : Open(s, o)
  BY <1>2 DEF Open, Phases, Rowed
<1>4. PICK D : D = {d}
  OBVIOUS
<1>5. orders' = [orders EXCEPT ![s] = D] /\ \A o \in D : Open(s, o)
  BY <1>1, <1>3, <1>4
<1>. QED  BY <1>1, <1>5, OrderStep

LEMMA CallMoves ==
  ASSUME Inv, NEW s \in Sessions, NEW o \in orders[s], NEW d, Proceeds(s, d),
         d.phase \in Phases, DOMAIN d = DOMAIN o, d.seen = o.seen, d.total \in Shares2,
         o.phase = "WAITING" => DOMAIN o.seen \cap LockedAllocations(s) = {},
         d.phase \in Rowed => Storable(d),
         d.phase \in Rowed => Fits(d)
  PROVE  Inv'
<1>1. /\ DOMAIN o.seen \subseteq DOMAIN siphons
      /\ DOMAIN o = {"phase", "quote", "fees", "seen", "total", "written"}
  BY DEF Inv, TypeOK, Shaped
<1>2. ASSUME NEW t \in Sessions \ {s}, NEW p \in orders[t], p.phase # "WAITING"
      PROVE  DOMAIN d.seen \cap DOMAIN p.seen = {}
  <2>1. CASE o.phase = "WAITING"
    BY <1>2, <2>1 DEF LockedAllocations
  <2>2. CASE o.phase # "WAITING"
    BY <1>2, <2>2 DEF Inv, Exclusive
  <2>. QED  BY <2>1, <2>2
<1>3. /\ orders' = [orders EXCEPT ![s] = {d}]
      /\ UNCHANGED <<siphonVars, spent, bought, holdings, blocked>>
  BY DEF Proceeds
<1>4. Open(s, d)
  BY <1>1, <1>2 DEF Open
<1>5. \A q \in {d} : Open(s, q)
  BY <1>4
<1>. QED  BY <1>3, <1>5, OrderStep, ZenonT(20)

\* What a call would do depends on what it read, not on how far it is.
LEMMA PhaseFree ==
  ASSUME NEW o, NEW d, d.seen = o.seen, d.quote = o.quote, d.fees = o.fees
  PROVE  Spending(d) = Spending(o) /\ Executed(d) = Executed(o)
         /\ Buys(d) = Buys(o) /\ Storable(d) = Storable(o)
<1>1. \A c : Rows(d, c) = Rows(o, c) /\ Available(d, c) = Available(o, c)
  BY DEF Rows, Available
<1>2. Quoted(d) = Quoted(o) /\ Gated(d) = Gated(o)
  BY <1>1 DEF Eligible, Quoted, Gated
<1>3. \A c, n : Gross(d, c, n) = Gross(o, c, n)
  BY DEF Gross
<1>4. \A c, fee : SharesFor(d, c, fee) = SharesFor(o, c, fee)
  BY <1>1 DEF SharesFor
<1>5. \A c : Shares(d, c) = Shares(o, c)
  BY <1>1, <1>3, <1>4 DEF Shares
<1>6. \A c : Paid(d, c) = Paid(o, c)
  BY <1>3, <1>5 DEF Paid
<1>7. Buys(d) = Buys(o)
  BY <1>1, <1>2, <1>5, <1>6 DEF Buys
<1>8. \A i \in DOMAIN o.seen : Consumed(d, i) = Consumed(o, i)
  BY <1>1, <1>6, <1>7 DEF Consumed, Needed
<1>9. Spending(d) = Spending(o)
  BY <1>8 DEF Spending
<1>10. Executed(d) = Executed(o)
  BY <1>5, <1>6, <1>7 DEF Executed
<1>11. Storable(d) = Storable(o)
  BY <1>3, <1>5, <1>7, <1>9, <1>10 DEF Storable
<1>. QED  BY <1>7, <1>9, <1>10, <1>11

LEMMA PlusType ==
  ASSUME NEW x \in Shares2, NEW y \in Shares2
  PROVE  Plus(x, y) \in Shares2
BY DEF Shares2, Plus

LEMMA AcquireStep ==
  ASSUME Inv, NEW s \in Sessions, AcquireRows(s)
  PROVE  Inv'
<1>1. PICK o \in orders[s] :
        /\ DOMAIN o.seen \cap LockedAllocations(s) = {}
        /\ Proceeds(s, [o EXCEPT !.phase = "LOCKED"])
  BY DEF AcquireRows
<1>2. PICK d : d = [o EXCEPT !.phase = "LOCKED"]
  OBVIOUS
<1>3. /\ d.phase = "LOCKED" /\ DOMAIN d = DOMAIN o /\ d.seen = o.seen /\ d.total = o.total
      /\ o.total \in Shares2
  BY <1>2 DEF Inv, TypeOK, Shaped, Shares2
<1>. QED  BY <1>1, <1>2, <1>3, CallMoves DEF Phases, Rowed

LEMMA BuyStep ==
  ASSUME Inv, NEW s \in Sessions, Buy(s)
  PROVE  Inv'
<1>1. PICK o \in orders[s] :
        /\ o.phase = "LOCKED" /\ Storable(o)
        /\ \A i \in DOMAIN siphons : spent[i] + Spending(o)[i] <= Allocated(i)
        /\ Proceeds(s, [o EXCEPT !.phase = "BOUGHT"])
  BY DEF Buy
<1>2. PICK d : d = [o EXCEPT !.phase = "BOUGHT"]
  OBVIOUS
<1>3. /\ d.phase = "BOUGHT" /\ DOMAIN d = DOMAIN o /\ d.seen = o.seen /\ d.total = o.total
      /\ d.quote = o.quote /\ d.fees = o.fees /\ o.total \in Shares2
  BY <1>2 DEF Inv, TypeOK, Shaped, Shares2
<1>4. Storable(d) = Storable(o) /\ Spending(d) = Spending(o)
  BY <1>3, PhaseFree
<1>5. Storable(d) /\ Fits(d)
  BY <1>1, <1>4 DEF Fits
<1>. QED  BY <1>1, <1>2, <1>3, <1>5, CallMoves DEF Phases

LEMMA RebuildStep ==
  ASSUME Inv, NEW s \in Sessions, Rebuild(s)
  PROVE  Inv'
<1>1. PICK o \in orders[s] :
        /\ o.phase = "BOUGHT"
        /\ Proceeds(s, [o EXCEPT !.phase = "REBUILT", !.total = Plus(bought, Executed(o)),
             !.written = {j \in Instruments : Plus(bought, Executed(o))[j] # holdings[j]}])
  BY DEF Rebuild
<1>2. PICK d : d = [o EXCEPT !.phase = "REBUILT", !.total = Plus(bought, Executed(o)),
             !.written = {j \in Instruments : Plus(bought, Executed(o))[j] # holdings[j]}]
  OBVIOUS
<1>3. /\ d.phase = "REBUILT" /\ DOMAIN d = DOMAIN o /\ d.seen = o.seen
      /\ d.total = Plus(bought, Executed(o)) /\ d.quote = o.quote /\ d.fees = o.fees
  BY <1>2 DEF Inv, Shaped
<1>4. Storable(o) /\ Fits(o)
  BY <1>1 DEF Inv, Reserved, Rowed, Fits
<1>5. d.total \in Shares2
  <2>1. Executed(o) \in Shares2
    BY <1>4 DEF Storable, Shares2
  <2>2. bought \in Shares2
    BY DEF Inv, TypeOK, Shares2
  <2>. QED  BY <1>3, <2>1, <2>2, PlusType
<1>6. Storable(d) = Storable(o) /\ Spending(d) = Spending(o)
  BY <1>3, PhaseFree
<1>7. Storable(d) /\ Fits(d)
  BY <1>4, <1>6 DEF Fits
<1>. QED  BY <1>1, <1>2, <1>3, <1>5, <1>7, CallMoves DEF Phases

LEMMA AbortStep ==
  ASSUME Inv, NEW s \in Sessions, Abort(s)
  PROVE  Inv'
<1>1. PICK D : D = {}
  OBVIOUS
<1>2. /\ orders' = [orders EXCEPT ![s] = D] /\ \A o \in D : Open(s, o)
      /\ UNCHANGED <<siphonVars, spent, bought, holdings, blocked>>
  BY <1>1 DEF Abort
<1>. QED  BY <1>2, OrderStep

\* What other calls have reserved is of other allocations.
LEMMA CommitStep ==
  ASSUME Inv, NEW s \in Sessions, Commit(s)
  PROVE  Inv'
<1>. USE DEF Inv
<1>1. PICK o \in orders[s] :
        /\ o.phase \in Rowed
        /\ spent' = [i \in Slots |-> spent[i] + Spending(o)[i]]
        /\ bought' = Plus(bought, Executed(o))
        /\ holdings' = [j \in Instruments |-> IF j \in o.written THEN o.total[j] ELSE holdings[j]]
        /\ blocked' = blocked \cup Gated(o)
        /\ orders' = [orders EXCEPT ![s] = {}]
        /\ UNCHANGED siphonVars
  BY DEF Commit, Rowed
<1>2. Storable(o) /\ \A i \in DOMAIN siphons : spent[i] + Spending(o)[i] <= Allocated(i)
  BY <1>1 DEF Reserved
<1>3. Spending(o) \in [Slots -> Nat] /\ Executed(o) \in Shares2
  BY <1>2 DEF Storable, Shares2
<1>4. \A i \in Slots : i \notin DOMAIN o.seen => Spending(o)[i] = 0
  BY DEF Spending
<1>5. \A t \in Sessions : orders'[t] = IF t = s THEN {} ELSE orders[t]
  BY <1>1 DEF TypeOK
<1>6. bought' \in Shares2
  BY <1>1, <1>3, PlusType DEF TypeOK, Shares2
<1>7. holdings' \in Shares2
  BY <1>1 DEF TypeOK, Shares2
<1>8. blocked' \subseteq Configs
  BY <1>1 DEF TypeOK, Gated, Quoted, Eligible
<1>9. spent' \in [Slots -> Nat]
  BY <1>1, <1>3 DEF TypeOK
<1>10. UNCHANGED <<booked, target, versions, attributed, siphons, calls>>
  BY <1>1 DEF siphonVars
<1>11. TypeOK'
  BY <1>1, <1>5, <1>6, <1>7, <1>8, <1>9, <1>10 DEF TypeOK, Slots, Shares2
<1>12. Shaped' /\ Exclusive'
  BY <1>5, <1>10 DEF Shaped, Exclusive
<1>13. \A i : Allocated(i)' = Allocated(i)
  BY <1>10 DEF Allocated
<1>14. \A i \in DOMAIN siphons : i \in Slots
  BY SiphonAssumption DEF TypeOK, Slots
<1>15. NothingAhead'
  <2>1. DOMAIN o.seen \subseteq DOMAIN siphons
    BY DEF TypeOK
  <2>. QED  BY <1>1, <1>4, <1>10, <2>1 DEF NothingAhead, Slots
<1>16. AllocationsSpentOnce'
  BY <1>1, <1>2, <1>10, <1>13, <1>14 DEF AllocationsSpentOnce
<1>17. ASSUME NEW t \in Sessions \ {s}, NEW p \in orders[t], p.phase \in Rowed
       PROVE  Storable(p)' /\ \A i \in DOMAIN siphons : spent'[i] + Spending(p)'[i] <= Allocated(i)
  <2>1. Storable(p)' = Storable(p) /\ Spending(p)' = Spending(p)
    BY <1>10, CallStable DEF TypeOK
  <2>2. Storable(p)
    BY <1>17 DEF Reserved
  <2>3. Storable(p)'
    BY <2>1, <2>2
  <2>4. \A i \in DOMAIN siphons : spent[i] + Spending(p)[i] <= Allocated(i)
    BY <1>17 DEF Reserved
  <2>5. DOMAIN o.seen \cap DOMAIN p.seen = {}
    BY <1>1, <1>17 DEF Exclusive, Rowed
  <2>6. ASSUME NEW i \in DOMAIN siphons
        PROVE  spent'[i] + Spending(p)'[i] <= Allocated(i)
    <3>1. spent'[i] = spent[i] + Spending(o)[i] /\ spent[i] \in Nat /\ Spending(o)[i] \in Nat
      BY <1>1, <1>3, <1>14 DEF TypeOK
    <3>2. CASE i \in DOMAIN o.seen
      <4>1. Spending(p)[i] = 0
        BY <1>14, <2>5, <3>2 DEF Spending
      <4>. QED  BY <4>1, <3>1, <1>2, <2>1
    <3>3. CASE i \notin DOMAIN o.seen
      <4>1. Spending(o)[i] = 0
        BY <1>4, <1>14, <3>3
      <4>. QED  BY <4>1, <3>1, <2>4, <2>1
    <3>. QED  BY <3>2, <3>3
  <2>. QED  BY <2>3, <2>6
<1>18. Reserved'
  <2>1. ASSUME NEW t \in Sessions, NEW p \in orders'[t], p.phase \in Rowed
        PROVE  Storable(p)'
    BY <1>17, <1>5, <2>1
  <2>2. ASSUME NEW t \in Sessions, NEW p \in orders'[t], p.phase \in Rowed,
               NEW i \in DOMAIN siphons'
        PROVE  spent'[i] + Spending(p)'[i] <= Allocated(i)'
    BY <1>17, <1>5, <1>10, <1>13, <2>2
  <2>. QED  BY <2>1, <2>2, Zenon DEF Reserved, Rowed
<1>. QED  BY <1>11, <1>12, <1>15, <1>16, <1>18
-----------------------------------------------------------------------------
(* The theorems. *)

LEMMA InitInv == Init => Inv
BY SiphonAssumption, TreasuryAssumption
   DEF Init, SiphonInit, Inv, TypeOK, Shaped, NothingAhead, Reserved, Exclusive,
       AllocationsSpentOnce, Slots, Nothing

LEMMA StepInv == Inv /\ [Next]_vars => Inv'
<1>. SUFFICES ASSUME Inv, [Next]_vars PROVE Inv'
  OBVIOUS
<1>1. CASE SiphonNext /\ UNCHANGED treasuryVars
  BY <1>1, SiphonStep
<1>2. ASSUME NEW s \in Sessions, ExecuteAvailable(s)
      PROVE  Inv'
  BY <1>2, AcquireStep, BuyStep, RebuildStep, CommitStep, AbortStep DEF ExecuteAvailable
<1>3. ASSUME NEW s \in Sessions, NEW quote, NEW fees, Select(s, quote, fees)
      PROVE  Inv'
  BY <1>3, SelectStep
<1>4. CASE UNCHANGED vars
  <2>1. UNCHANGED <<booked, target, versions, attributed, siphons, calls, treasuryVars>>
    BY <1>4 DEF vars, siphonVars
  <2>2. TypeOK' /\ Shaped'
    BY <2>1 DEF Inv, TypeOK, Shaped, Slots, treasuryVars
  <2>. QED  BY <2>1, <2>2, TreasuryKept DEF Inv
<1>. QED  BY <1>1, <1>2, <1>3, <1>4 DEF Next

THEOREM Invariance == Spec => []Inv
BY InitInv, StepInv, PTL DEF Spec

\* Every variable keeps to the domain of its table, for every evidence and quote.
THEOREM TypeCorrect == Spec => []TypeOK
<1>1. Inv => TypeOK
  BY DEF Inv
<1>. QED  BY <1>1, Invariance, PTL

\* No allocation is ever consumed for more than it has, however many calls read
\* it at once and whatever they waited for.
THEOREM SpentOnce == Spec => []AllocationsSpentOnce
<1>1. Inv => AllocationsSpentOnce
  BY DEF Inv
<1>. QED  BY <1>1, Invariance, PTL
-----------------------------------------------------------------------------
(* The holdings. *)

\* A call that buys holds an allocation of which something was left when it
\* was read, and it has read all that had something left.
FreshOf(o) ==
  /\ o.fees \in Fees /\ DOMAIN o.seen \subseteq Slots
  /\ \A i \in DOMAIN o.seen : o.seen[i] \in Nat \ {0}
  /\ \E n \in Nat :
       /\ n <= Len(siphons) /\ DOMAIN o.seen \subseteq 1..n
       /\ \A i \in 1..n : spent[i] < Allocated(i) => i \in DOMAIN o.seen
Fresh == \A s \in Sessions : \A o \in orders[s] : FreshOf(o)

\* The sums a call has rebuilt are still those of the executions.
RebuiltOf(o) ==
  IF o.phase = "REBUILT"
  THEN /\ Buys(o) # {} /\ o.total = Plus(bought, Executed(o))
       /\ o.written = {j \in Instruments : o.total[j] # holdings[j]}
  ELSE o.written = {}
Rebuilt == \A s \in Sessions : \A o \in orders[s] : RebuiltOf(o)

LEMMA AllocatedIsNat ==
  ASSUME TypeOK, NEW i \in DOMAIN siphons PROVE Allocated(i) \in Nat
<1>. DEFINE Rec == [qualified : Nat, target : Configs, evidence : Evidence]
<1>1. siphons \in Seq(Rec)
  BY DEF TypeOK
<1>. HIDE DEF Rec
<1>2. siphons[i] \in Rec
  BY <1>1
<1>3. siphons[i].qualified \in Nat
  BY <1>2 DEF Rec
<1>. QED  BY <1>3, CentsAreNat DEF Allocated

LEMMA TotalOfNone == ASSUME NEW f PROVE Total(f, {}) = 0
  BY TotalIs, SumEmpty

\* A purchase takes something of the oldest allocation it has read.
LEMMA BuyerSpends ==
  ASSUME NEW o, FreshOf(o), Storable(o), Buys(o) # {}
  PROVE  \E i \in DOMAIN o.seen : Spending(o)[i] > 0
<1>1. PICK c \in Buys(o) : TRUE
  OBVIOUS
<1>2. c \in Eligible(o)
  BY <1>1 DEF Buys, Quoted
<1>3. Rows(o, c) # {} /\ Rows(o, c) \subseteq DOMAIN o.seen
  BY <1>2 DEF Eligible, Rows
<1>4. Rows(o, c) \subseteq Nat
  BY <1>3 DEF FreshOf, Slots
<1>5. PICK i \in Rows(o, c) : \A x \in Rows(o, c) : ~(x < i)
  BY <1>3, <1>4, LeastNatural
<1>6. siphons[i].target = c /\ i \in DOMAIN o.seen /\ i \in Slots
  BY <1>3, <1>5 DEF Rows, FreshOf
<1>7. {k \in Rows(o, c) : k < i} = {}
  BY <1>5
<1>8. Needed(o, c) \in Nat \ {0}
  BY <1>1, TreasuryAssumption DEF Needed, Paid, Storable, FreshOf
<1>9. Consumed(o, i) = Min({o.seen[i], AtLeastZero(Needed(o, c) - 0)})
  BY <1>6, <1>7, TotalOfNone DEF Consumed
<1>10. AtLeastZero(Needed(o, c) - 0) \in Nat \ {0} /\ o.seen[i] \in Nat \ {0}
  BY <1>6, <1>8 DEF AtLeastZero, FreshOf
<1>11. \A x, y \in Nat \ {0} : Min({x, y}) \in Nat \ {0}
  BY DEF Min
<1>12. Consumed(o, i) > 0
  BY <1>9, <1>10, <1>11
<1>. QED  BY <1>6, <1>12 DEF Spending

\* Two calls that have both bought would share an allocation.
LEMMA OneBuyer ==
  ASSUME Inv, Fresh, NEW s \in Sessions, NEW t \in Sessions \ {s},
         NEW o \in orders[s], NEW p \in orders[t], o.phase \in Rowed, p.phase \in Rowed,
         Buys(o) # {}
  PROVE  Buys(p) = {}
<1>. SUFFICES ASSUME Buys(p) # {} PROVE FALSE
  OBVIOUS
<1>1. FreshOf(o) /\ FreshOf(p)
  BY DEF Fresh
<1>2. Storable(o) /\ Storable(p)
  BY DEF Inv, Reserved
<1>3. /\ \A i \in DOMAIN siphons : spent[i] + Spending(o)[i] <= Allocated(i)
      /\ \A i \in DOMAIN siphons : spent[i] + Spending(p)[i] <= Allocated(i)
  BY DEF Inv, Reserved
<1>4. DOMAIN o.seen \cap DOMAIN p.seen = {}
  BY DEF Inv, Exclusive, Rowed
<1>5. PICK i \in DOMAIN o.seen : Spending(o)[i] > 0
  BY <1>1, <1>2, BuyerSpends
<1>6. PICK k \in DOMAIN p.seen : Spending(p)[k] > 0
  BY <1>1, <1>2, BuyerSpends
<1>7. PICK n \in Nat :
        /\ n <= Len(siphons) /\ DOMAIN o.seen \subseteq 1..n
        /\ \A j \in 1..n : spent[j] < Allocated(j) => j \in DOMAIN o.seen
  BY <1>1 DEF FreshOf
<1>8. PICK m \in Nat :
        /\ m <= Len(siphons) /\ DOMAIN p.seen \subseteq 1..m
        /\ \A j \in 1..m : spent[j] < Allocated(j) => j \in DOMAIN p.seen
  BY <1>1 DEF FreshOf
<1>9. /\ i \in Slots /\ k \in Slots /\ i \in DOMAIN siphons /\ k \in DOMAIN siphons
  BY <1>1 DEF FreshOf, Inv, TypeOK
<1>10. ASSUME NEW j \in DOMAIN siphons
       PROVE  Allocated(j) \in Nat
  BY AllocatedIsNat DEF Inv
<1>11. spent[i] < Allocated(i) /\ spent[k] < Allocated(k)
  <2>1. spent \in [Slots -> Nat] /\ Spending(o) \in [Slots -> Nat] /\ Spending(p) \in [Slots -> Nat]
    BY <1>2 DEF Storable, Inv, TypeOK
  <2>2. spent[i] < Allocated(i)
    BY <2>1, <1>3, <1>5, <1>9, <1>10
  <2>3. spent[k] < Allocated(k)
    BY <2>1, <1>3, <1>6, <1>9, <1>10
  <2>. QED  BY <2>2, <2>3
<1>12. CASE n <= m
  BY <1>4, <1>5, <1>7, <1>8, <1>11, <1>12
<1>13. CASE m <= n
  BY <1>4, <1>6, <1>7, <1>8, <1>11, <1>13
<1>. QED  BY <1>12, <1>13

Held == Fresh /\ Rebuilt /\ HoldingsAreExecutions

LEMMA InitHeld == Init => Held
BY DEF Init, Held, Fresh, Rebuilt, HoldingsAreExecutions

\* A step that leaves an open call alone keeps what it has read fresh: nothing
\* is given back, and a new allocation comes after all that was read.
LEMMA FreshStays ==
  ASSUME Inv, Inv', NEW o, FreshOf(o),
         Len(siphons') >= Len(siphons),
         \A i \in DOMAIN siphons : siphons'[i] = siphons[i],
         \A i \in Slots : spent'[i] >= spent[i]
  PROVE  FreshOf(o)'
<1>1. PICK n \in Nat :
        /\ n <= Len(siphons) /\ DOMAIN o.seen \subseteq 1..n
        /\ \A i \in 1..n : spent[i] < Allocated(i) => i \in DOMAIN o.seen
  BY DEF FreshOf
<1>2. /\ Len(siphons) \in Nat /\ Len(siphons') \in Nat /\ Len(siphons) <= MaxSiphons
      /\ DOMAIN siphons = 1..Len(siphons)
  BY DEF Inv, TypeOK
<1>3. \A i \in 1..n : i \in DOMAIN siphons /\ i \in Slots
  BY <1>1, <1>2, SiphonAssumption DEF Slots
<1>4. \A i \in 1..n : Allocated(i)' = Allocated(i) /\ Allocated(i) \in Nat
  BY <1>3, AllocatedIsNat DEF Allocated, Inv
<1>5. \A i \in 1..n : spent[i] \in Nat /\ spent'[i] \in Nat
  BY <1>3 DEF Inv, TypeOK, Slots
<1>6. ASSUME NEW i \in 1..n, spent'[i] < Allocated(i)' PROVE i \in DOMAIN o.seen
  <2>1. spent'[i] >= spent[i] /\ Allocated(i)' = Allocated(i) /\ Allocated(i) \in Nat
    BY <1>3, <1>4
  <2>2. spent[i] < Allocated(i)
    BY <1>5, <1>6, <2>1
  <2>. QED  BY <1>1, <2>2
<1>7. n <= Len(siphons')
  BY <1>1, <1>2
<1>8. \E k \in Nat :
        /\ k <= Len(siphons') /\ DOMAIN o.seen \subseteq 1..k
        /\ \A i \in 1..k : spent'[i] < Allocated(i)' => i \in DOMAIN o.seen
  BY <1>1, <1>6, <1>7
<1>. QED  BY <1>8 DEF FreshOf, Slots

LEMMA SiphonsGrow ==
  ASSUME Inv, SiphonNext
  PROVE  /\ Len(siphons') >= Len(siphons)
         /\ \A i \in DOMAIN siphons : siphons'[i] = siphons[i]
<1>. DEFINE Rec == [qualified : Nat, target : Configs, evidence : Evidence]
<1>1. siphons \in Seq(Rec)
  BY DEF Inv, TypeOK
<1>2. ASSUME NEW s \in Sessions, Allocate(s)
      PROVE  \E e : siphons' = Append(siphons, e)
  BY <1>2 DEF Allocate
<1>3. (\E e : siphons' = Append(siphons, e)) \/ siphons' = siphons
  BY <1>2 DEF SiphonNext, RecordCanonicalRealizedPnl, CreateTargetConfig, DeactivateTarget,
     QualifyAndAllocate, Begin, Lock, ReadPrior, ReadReserves, TooLittle, RollBack, Steps
<1>. HIDE DEF Rec
<1>. QED  BY <1>1, <1>3

\* The siphon reads and writes nothing of the holdings.
LEMMA SiphonHeld ==
  ASSUME Inv, Inv', Held, SiphonNext, UNCHANGED treasuryVars
  PROVE  Held'
<1>. USE DEF treasuryVars, Held
<1>1. HoldingsAreExecutions'
  BY DEF HoldingsAreExecutions
<1>2. ASSUME NEW s \in Sessions, NEW o \in orders[s]
      PROVE  /\ FreshOf(o)'
             /\ Executed(o)' = Executed(o) /\ Buys(o)' = Buys(o)
  <2>1. DOMAIN o.seen \subseteq DOMAIN siphons
    BY DEF Inv, TypeOK
  <2>2. Executed(o)' = Executed(o) /\ Buys(o)' = Buys(o)
    BY <2>1, CallStable, SiphonsGrow
  <2>3. \A i \in Slots : spent[i] \in Nat /\ spent'[i] = spent[i]
    BY DEF Inv, TypeOK
  <2>4. \A i \in Slots : spent'[i] >= spent[i]
    BY <2>3
  <2>5. FreshOf(o)
    BY DEF Fresh
  <2>6. FreshOf(o)'
    BY <2>4, <2>5, SiphonsGrow, FreshStays
  <2>. QED  BY <2>2, <2>6
<1>3. Fresh'
  BY <1>2 DEF Fresh
<1>4. Rebuilt'
  BY <1>2 DEF Rebuilt, RebuiltOf, Plus
<1>. QED  BY <1>1, <1>3, <1>4

\* Steps of a call that write nothing, given the calls it leaves open.
LEMMA OrderHeld ==
  ASSUME Inv, Inv', Held, NEW s \in Sessions, NEW D,
         orders' = [orders EXCEPT ![s] = D],
         UNCHANGED <<siphonVars, spent, bought, holdings, blocked>>,
         \A o \in D : FreshOf(o),
         \A o \in D : RebuiltOf(o)
  PROVE  Held'
<1>. USE DEF Held
<1>1. UNCHANGED <<siphons, spent, bought, holdings>>
  BY DEF siphonVars
<1>2. \A t \in Sessions : orders'[t] = IF t = s THEN D ELSE orders[t]
  BY DEF Inv, TypeOK
<1>3. HoldingsAreExecutions'
  BY <1>1 DEF HoldingsAreExecutions
<1>4. ASSUME NEW o
      PROVE  FreshOf(o)' = FreshOf(o)
  BY <1>1 DEF FreshOf, Allocated, Slots
<1>5. Fresh'
  BY <1>2, <1>4 DEF Fresh
<1>6. ASSUME NEW t \in Sessions, NEW o \in orders'[t]
      PROVE  Executed(o)' = Executed(o) /\ Buys(o)' = Buys(o)
  <2>1. DOMAIN o.seen \subseteq DOMAIN siphons
    BY <1>1 DEF Inv, TypeOK
  <2>. QED  BY <1>1, <2>1, CallStable
<1>7. Rebuilt'
  BY <1>1, <1>2, <1>6 DEF Rebuilt, RebuiltOf, Plus
<1>. QED  BY <1>3, <1>5, <1>7

LEMMA SelectHeld ==
  ASSUME Inv, Inv', Held, NEW s \in Sessions, NEW quote, NEW fees \in Fees,
         Select(s, quote, fees)
  PROVE  Held'
<1>. DEFINE seen == [i \in {i \in DOMAIN siphons : Allocated(i) > spent[i]} |->
                       Allocated(i) - spent[i]]
<1>1. PICK d : d = [phase |-> "WAITING", quote |-> quote, fees |-> fees, seen |-> seen,
                    total |-> bought, written |-> {}]
  OBVIOUS
<1>2. PICK D : D = {d}
  OBVIOUS
<1>3. /\ orders' = [orders EXCEPT ![s] = D]
      /\ UNCHANGED <<siphonVars, spent, bought, holdings, blocked>>
  BY <1>1, <1>2 DEF Select, Proceeds
<1>4. /\ Len(siphons) \in Nat /\ DOMAIN siphons = 1..Len(siphons)
      /\ \A i \in DOMAIN siphons : i \in Slots
  <2>1. TypeOK /\ Len(siphons) <= MaxSiphons
    BY DEF Inv, TypeOK
  <2>. QED  BY <2>1, LenIsNat, SiphonAssumption DEF Slots
<1>5. \A i \in DOMAIN siphons : Allocated(i) \in Nat /\ spent[i] \in Nat
  BY <1>4, AllocatedIsNat DEF Inv, TypeOK
<1>6. d.seen = seen /\ d.fees \in Fees /\ d.phase = "WAITING" /\ d.written = {}
  BY <1>1
<1>7. DOMAIN seen = {i \in DOMAIN siphons : Allocated(i) > spent[i]}
  OBVIOUS
<1>8. \A i \in DOMAIN seen : seen[i] \in Nat \ {0}
  BY <1>5
<1>9. \A i \in 1..Len(siphons) : spent[i] < Allocated(i) => i \in DOMAIN seen
  BY <1>4, <1>5, <1>7
<1>. HIDE DEF seen
<1>10. FreshOf(d)
  BY <1>4, <1>6, <1>7, <1>8, <1>9 DEF FreshOf
<1>11. /\ \A o \in D : FreshOf(o)
       /\ \A o \in D : RebuiltOf(o)
  BY <1>2, <1>6, <1>10 DEF RebuiltOf
<1>. QED  BY <1>3, <1>11, OrderHeld

\* Of the call, neither what it has read nor its fees change.
LEMMA CallHeld ==
  ASSUME Inv, Inv', Held, NEW s \in Sessions, NEW o \in orders[s], NEW d, Proceeds(s, d),
         d.seen = o.seen, d.fees = o.fees,
         RebuiltOf(d)
  PROVE  Held'
<1>1. FreshOf(o)
  BY DEF Held, Fresh
<1>2. FreshOf(d)
  BY <1>1 DEF FreshOf
<1>3. PICK D : D = {d}
  OBVIOUS
<1>4. /\ orders' = [orders EXCEPT ![s] = D]
      /\ UNCHANGED <<siphonVars, spent, bought, holdings, blocked>>
  BY <1>3 DEF Proceeds
<1>. QED  BY <1>2, <1>3, <1>4, OrderHeld

LEMMA MovesHeld ==
  ASSUME Inv, Inv', Held, NEW s \in Sessions, AcquireRows(s) \/ Buy(s)
  PROVE  Held'
<1>1. ASSUME NEW o \in orders[s], NEW ph, ph \in {"LOCKED", "BOUGHT"}, o.phase # "REBUILT",
             Proceeds(s, [o EXCEPT !.phase = ph])
      PROVE  Held'
  <2>1. PICK d : d = [o EXCEPT !.phase = ph]
    OBVIOUS
  <2>2. o.written = {}
    BY <1>1 DEF Held, Rebuilt, RebuiltOf
  <2>3. /\ d.phase = ph /\ d.seen = o.seen /\ d.fees = o.fees /\ d.written = {}
    BY <2>1, <2>2 DEF Inv, Shaped
  <2>4. RebuiltOf(d)
    BY <1>1, <2>3 DEF RebuiltOf
  <2>. QED  BY <1>1, <2>1, <2>3, <2>4, CallHeld
<1>2. CASE AcquireRows(s)
  <2>1. PICK o \in orders[s] : o.phase = "WAITING" /\ Proceeds(s, [o EXCEPT !.phase = "LOCKED"])
    BY <1>2 DEF AcquireRows
  <2>. QED  BY <2>1, <1>1
<1>3. CASE Buy(s)
  <2>1. PICK o \in orders[s] : o.phase = "LOCKED" /\ Proceeds(s, [o EXCEPT !.phase = "BOUGHT"])
    BY <1>3 DEF Buy
  <2>. QED  BY <2>1, <1>1
<1>. QED  BY <1>2, <1>3

LEMMA RebuildHeld ==
  ASSUME Inv, Inv', Held, NEW s \in Sessions, Rebuild(s)
  PROVE  Held'
<1>1. PICK o \in orders[s] :
        /\ Buys(o) # {}
        /\ Proceeds(s, [o EXCEPT !.phase = "REBUILT", !.total = Plus(bought, Executed(o)),
             !.written = {j \in Instruments : Plus(bought, Executed(o))[j] # holdings[j]}])
  BY DEF Rebuild
<1>2. PICK d : d = [o EXCEPT !.phase = "REBUILT", !.total = Plus(bought, Executed(o)),
             !.written = {j \in Instruments : Plus(bought, Executed(o))[j] # holdings[j]}]
  OBVIOUS
<1>3. /\ d.phase = "REBUILT" /\ d.seen = o.seen /\ d.fees = o.fees /\ d.quote = o.quote
      /\ d.total = Plus(bought, Executed(o))
      /\ d.written = {j \in Instruments : Plus(bought, Executed(o))[j] # holdings[j]}
  BY <1>2 DEF Inv, Shaped
<1>4. Buys(d) = Buys(o) /\ Executed(d) = Executed(o)
  BY <1>3, PhaseFree
<1>5. RebuiltOf(d)
  BY <1>1, <1>3, <1>4 DEF RebuiltOf
<1>. QED  BY <1>1, <1>2, <1>3, <1>5, CallHeld

LEMMA AbortHeld ==
  ASSUME Inv, Inv', Held, NEW s \in Sessions, Abort(s)
  PROVE  Held'
<1>1. PICK D : D = {}
  OBVIOUS
<1>2. /\ orders' = [orders EXCEPT ![s] = D]
      /\ \A o \in D : FreshOf(o) /\ RebuiltOf(o)
      /\ UNCHANGED <<siphonVars, spent, bought, holdings, blocked>>
  BY <1>1 DEF Abort
<1>. QED  BY <1>2, OrderHeld

LEMMA NothingExecuted ==
  ASSUME NEW o, Buys(o) = {}, NEW x \in Shares2
  PROVE  Plus(x, Executed(o)) = x
<1>1. \A j \in Instruments : {c \in Buys(o) : InstrumentOf[c] = j} = {}
  OBVIOUS
<1>2. Executed(o) = [j \in Instruments |-> Nothing]
  BY <1>1, TotalOfNone DEF Executed, Nothing
<1>3. \A j \in Instruments :
        [shares |-> x[j].shares + 0, basis |-> x[j].basis + 0] = x[j]
  BY DEF Shares2
<1>. QED  BY <1>2, <1>3 DEF Plus, Nothing, Shares2

\* The executions of a call become part of the sums and of the holdings in one
\* step, in which no other call has sums it could write later.
LEMMA CommitHeld ==
  ASSUME Inv, Inv', Held, NEW s \in Sessions, Commit(s)
  PROVE  Held'
<1>1. PICK o \in orders[s] :
        /\ o.phase = IF Buys(o) = {} THEN "BOUGHT" ELSE "REBUILT"
        /\ spent' = [i \in Slots |-> spent[i] + Spending(o)[i]]
        /\ bought' = Plus(bought, Executed(o))
        /\ holdings' = [j \in Instruments |-> IF j \in o.written THEN o.total[j] ELSE holdings[j]]
        /\ orders' = [orders EXCEPT ![s] = {}]
        /\ UNCHANGED siphonVars
  BY DEF Commit
<1>2. \A t \in Sessions : orders'[t] = IF t = s THEN {} ELSE orders[t]
  BY <1>1 DEF Inv, TypeOK
<1>3. bought \in Shares2 /\ holdings = bought
  BY DEF Inv, TypeOK, Shares2, Held, HoldingsAreExecutions
<1>4. RebuiltOf(o) /\ o.phase \in Rowed
  BY <1>1 DEF Held, Rebuilt, Rowed
<1>5. Storable(o)
  BY <1>4 DEF Inv, Reserved
<1>6. Fresh'
  <2>. SUFFICES ASSUME NEW t \in Sessions \ {s}, NEW p \in orders[t]
                PROVE  FreshOf(p)'
    BY <1>2 DEF Fresh
  <2>1. \A i \in Slots : spent[i] \in Nat /\ Spending(o)[i] \in Nat
    BY <1>5 DEF Storable, Inv, TypeOK
  <2>2. \A i \in Slots : spent'[i] >= spent[i]
    BY <2>1, <1>1
  <2>3. siphons' = siphons /\ Len(siphons) \in Nat
    BY <1>1, LenIsNat DEF siphonVars, Inv
  <2>. QED  BY <2>2, <2>3, FreshStays DEF Held, Fresh
<1>7. CASE Buys(o) = {}
  <2>1. bought' = bought /\ o.written = {}
    BY <1>1, <1>3, <1>4, <1>7, NothingExecuted DEF RebuiltOf
  <2>2. holdings' = holdings
    BY <1>1, <1>3, <2>1 DEF Shares2
  <2>3. HoldingsAreExecutions'
    BY <1>3, <2>1, <2>2 DEF HoldingsAreExecutions
  <2>4. ASSUME NEW t \in Sessions \ {s}, NEW p \in orders[t]
        PROVE  RebuiltOf(p)'
    <3>1. Executed(p)' = Executed(p) /\ Buys(p)' = Buys(p)
      BY <1>1, CallStable DEF Inv, TypeOK, siphonVars
    <3>2. RebuiltOf(p)
      BY DEF Held, Rebuilt
    <3>. QED  BY <2>1, <2>2, <3>1, <3>2 DEF RebuiltOf, Plus
  <2>5. Rebuilt'
    BY <1>2, <2>4 DEF Rebuilt
  <2>. QED  BY <1>6, <2>3, <2>5 DEF Held
<1>8. CASE Buys(o) # {}
  <2>1. /\ o.total = bought'
        /\ o.written = {j \in Instruments : o.total[j] # holdings[j]}
    BY <1>1, <1>4, <1>8 DEF RebuiltOf
  <2>2. bought' \in Shares2
    BY DEF Inv, TypeOK, Shares2
  <2>3. holdings' = bought'
    BY <1>1, <2>1, <2>2 DEF Shares2
  <2>4. ASSUME NEW t \in Sessions \ {s}, NEW p \in orders[t]
        PROVE  RebuiltOf(p)'
    <3>1. p.phase # "REBUILT"
      BY <1>4, <1>8, OneBuyer DEF Held, Rebuilt, RebuiltOf, Rowed
    <3>2. p.written = {}
      BY <3>1 DEF Held, Rebuilt, RebuiltOf
    <3>. QED  BY <3>1, <3>2 DEF RebuiltOf
  <2>5. Rebuilt'
    BY <1>2, <2>4 DEF Rebuilt
  <2>. QED  BY <1>6, <2>3, <2>5 DEF Held, HoldingsAreExecutions
<1>. QED  BY <1>7, <1>8

LEMMA StepHeld == Inv /\ Inv' /\ Held /\ [Next]_vars => Held'
<1>. SUFFICES ASSUME Inv, Inv', Held, [Next]_vars PROVE Held'
  OBVIOUS
<1>1. CASE SiphonNext /\ UNCHANGED treasuryVars
  BY <1>1, SiphonHeld
<1>2. ASSUME NEW s \in Sessions, ExecuteAvailable(s)
      PROVE  Held'
  BY <1>2, MovesHeld, RebuildHeld, CommitHeld, AbortHeld DEF ExecuteAvailable
<1>3. ASSUME NEW s \in Sessions, NEW quote, NEW fees \in Fees, Select(s, quote, fees)
      PROVE  Held'
  BY <1>3, SelectHeld
<1>4. CASE UNCHANGED vars
  <2>1. UNCHANGED <<siphons, spent, bought, holdings, orders>>
    BY <1>4 DEF vars, siphonVars, treasuryVars
  <2>2. HoldingsAreExecutions'
    BY <2>1 DEF Held, HoldingsAreExecutions
  <2>3. Fresh'
    BY <2>1 DEF Held, Fresh, FreshOf, Allocated, Slots
  <2>4. ASSUME NEW s \in Sessions, NEW o \in orders[s]
        PROVE  Executed(o)' = Executed(o) /\ Buys(o)' = Buys(o)
    BY <2>1, CallStable DEF Inv, TypeOK
  <2>5. Rebuilt'
    BY <2>1, <2>4 DEF Held, Rebuilt, RebuiltOf, Plus
  <2>. QED  BY <2>2, <2>3, <2>5 DEF Held
<1>. QED  BY <1>1, <1>2, <1>3, <1>4 DEF Next

\* The holdings are the sum of the executions after every commit, although
\* they are rebuilt from a read that no lock of theirs protects: two calls that
\* both buy would have read a common allocation, and cannot both have locked it.
THEOREM HoldingsExact == Spec => []HoldingsAreExecutions
<1>1. Held => HoldingsAreExecutions
  BY DEF Held
<1>. QED  BY <1>1, InitHeld, StepHeld, Invariance, PTL DEF Spec

\* Whatever calls run at the same time, a dollar is spent once and what it
\* bought is held.
THEOREM SpendingAlwaysHeld == Spec => []SpendingIsHeld
  BY SpentOnce, HoldingsExact, PTL DEF SpendingIsHeld

-----------------------------------------------------------------------------
(* The purchases. *)

\* What a call has read of an allocation is no less than what is left of it.
EnoughOf(o) == \A i \in DOMAIN o.seen : Allocated(i) <= spent[i] + o.seen[i]
Enough == \A s \in Sessions : \A o \in orders[s] : EnoughOf(o)

Basis(x) == [j \in Instruments |-> x[j].basis]
PaidFor(o) == SumOf(Spending(o), Slots) = SumOf(Basis(Executed(o)), Instruments)
Due == Enough /\ SumOf(Basis(bought), Instruments) = SumOf(spent, Slots) /\ OldestFirst

LEMMA ExecutionsAre ==
  MapThenSumSet(LAMBDA j : bought[j].basis, Instruments) = SumOf(Basis(bought), Instruments)
BY DEF SumOf, MapThenSumSet, MapThenFoldSet, Basis

LEMMA MinOfTwo ==
  ASSUME NEW x \in Nat, NEW y \in Int
  PROVE  Min({x, AtLeastZero(y)}) = IF y <= 0 THEN 0 ELSE IF y < x THEN y ELSE x
<1>1. \A u, v \in Int : Min({u, v}) = IF u <= v THEN u ELSE v
  <2>. TAKE u, v \in Int
  <2>. DEFINE m == IF u <= v THEN u ELSE v
  <2>1. m \in {u, v} /\ \A z \in {u, v} : m <= z
    OBVIOUS
  <2>2. \A z \in {u, v} : (\A w \in {u, v} : z <= w) => z = m
    OBVIOUS
  <2>. HIDE DEF m
  <2>3. Min({u, v}) = m
    BY <2>1, <2>2 DEF Min
  <2>. QED  BY <2>3 DEF m
<1>. QED  BY <1>1 DEF AtLeastZero

\* What a call consumes of the allocations of one configuration is what it pays
\* for it, taken from the oldest first.
LEMMA RowsTake ==
  ASSUME NEW o, FreshOf(o), Storable(o), NEW c \in Configs
  PROVE  /\ Numbered(Rows(o, c)) /\ \A i \in Rows(o, c) : o.seen[i] \in Nat /\ i \in Slots
         /\ Needed(o, c) \in Nat /\ Needed(o, c) <= SumOf(o.seen, Rows(o, c))
         /\ Takes(Spending(o), o.seen, Rows(o, c), Needed(o, c))
<1>0. MaxSiphons \in Nat
  BY SiphonAssumption
<1>1. Rows(o, c) \subseteq Slots /\ \A i \in Rows(o, c) : o.seen[i] \in Nat
  BY DEF FreshOf, Rows
<1>2. IsFiniteSet(Rows(o, c))
  <2>1. IsFiniteSet(Slots)
    BY <1>0, FS_Interval DEF Slots
  <2>. QED  BY <1>1, <2>1, FS_Subset
<1>3. Numbered(Rows(o, c))
  BY <1>0, <1>1, <1>2 DEF Numbered, Slots
<1>4. SumOf(o.seen, Rows(o, c)) \in Nat /\ Available(o, c) = SumOf(o.seen, Rows(o, c))
  BY <1>1, <1>2, SumIsNat, TotalIs DEF Available
<1>5. Needed(o, c) \in Nat /\ Needed(o, c) <= SumOf(o.seen, Rows(o, c))
  <2>1. CASE c \notin Buys(o)
    BY <2>1, <1>4 DEF Needed
  <2>2. CASE c \in Buys(o)
    <3>1. Paid(o, c) <= Available(o, c)
      BY <2>2 DEF Buys
    <3>2. Paid(o, c) \in Nat
      BY <2>2, TreasuryAssumption DEF Paid, Storable, FreshOf
    <3>. QED  BY <2>2, <3>1, <3>2, <1>4 DEF Needed
  <2>. QED  BY <2>1, <2>2
<1>6. ASSUME NEW i \in Rows(o, c)
      PROVE  Spending(o)[i] =
               LET y == Needed(o, c) - SumOf(o.seen, Below(Rows(o, c), i))
               IN IF y <= 0 THEN 0 ELSE IF y < o.seen[i] THEN y ELSE o.seen[i]
  <2>1. i \in DOMAIN o.seen /\ i \in Slots /\ siphons[i].target = c
    BY <1>1 DEF Rows
  <2>2. Spending(o)[i] = Consumed(o, i)
    BY <2>1 DEF Spending
  <2>3. Below(Rows(o, c), i) = {k \in Rows(o, c) : k < i}
    BY DEF Below
  <2>4. Consumed(o, i) = Min({o.seen[i],
            AtLeastZero(Needed(o, c) - SumOf(o.seen, Below(Rows(o, c), i)))})
    BY <2>1, <2>3, TotalIs DEF Consumed
  <2>5. SumOf(o.seen, Below(Rows(o, c), i)) \in Int
    <3>1. i \in Nat /\ \A k \in Rows(o, c) : o.seen[k] \in Int
      BY <1>0, <1>1 DEF Slots
    <3>. QED  BY <1>3, <3>1, BelowGrows
  <2>6. PICK y \in Int : y = Needed(o, c) - SumOf(o.seen, Below(Rows(o, c), i))
    BY <1>5, <2>5
  <2>7. PICK x \in Nat : x = o.seen[i]
    BY <1>1
  <2>8. Spending(o)[i] = Min({x, AtLeastZero(y)})
    BY <2>2, <2>4, <2>6, <2>7
  <2>. QED  BY <2>6, <2>7, <2>8, MinOfTwo
<1>. QED  BY <1>1, <1>3, <1>5, <1>6 DEF Takes

\* What a call consumes adds up to what it executes.
LEMMA CallIsPaid ==
  ASSUME NEW o, FreshOf(o), Storable(o), DOMAIN o.seen \subseteq DOMAIN siphons,
         \A i \in DOMAIN siphons : siphons[i].target \in Configs
  PROVE  PaidFor(o)
<1>. DEFINE W == [c \in Configs |-> Needed(o, c)]
            key == [i \in DOMAIN o.seen |-> siphons[i].target]
            t == [c \in Configs |-> SumOf(Spending(o), {i \in DOMAIN o.seen : key[i] = c})]
<1>0. IsFiniteSet(Configs) /\ IsFiniteSet(Instruments) /\ InstrumentOf \in [Configs -> Instruments]
  BY TreasuryAssumption
<1>1. IsFiniteSet(Slots)
  BY SiphonAssumption, FS_Interval DEF Slots
<1>2. Spending(o) \in [Slots -> Nat] /\ Executed(o) \in Shares2
  BY DEF Storable, Shares2
<1>3. SumOf(Spending(o), Slots) = SumOf(Spending(o), DOMAIN o.seen)
  <2>1. DOMAIN o.seen \in SUBSET Slots
    BY DEF FreshOf
  <2>2. \A i \in Slots \ DOMAIN o.seen : Spending(o)[i] = 0
    BY DEF Spending
  <2>3. SumOf(Spending(o), Slots \ DOMAIN o.seen) = 0
    BY <1>1, <2>2, FS_Subset, SumOfZeros
  <2>4. SumOf(Spending(o), DOMAIN o.seen) \in Int
    BY <1>1, <1>2, <2>1, FS_Subset, SumIsInt
  <2>5. SumOf(Spending(o), Slots)
          = SumOf(Spending(o), DOMAIN o.seen) + SumOf(Spending(o), Slots \ DOMAIN o.seen)
    BY <1>1, <1>2, <2>1, SumParts
  <2>. QED  BY <2>3, <2>4, <2>5
<1>4. \A c \in Configs : t[c] = W[c] /\ W[c] \in Int
  <2>. TAKE c \in Configs
  <2>1. {i \in DOMAIN o.seen : key[i] = c} = Rows(o, c)
    BY DEF Rows
  <2>2. SumOf(Spending(o), Rows(o, c)) = Needed(o, c) /\ Needed(o, c) \in Nat
    BY RowsTake, TakesWhatIsNeeded
  <2>3. t[c] = SumOf(Spending(o), {i \in DOMAIN o.seen : key[i] = c}) /\ W[c] = Needed(o, c)
    OBVIOUS
  <2>4. t[c] = SumOf(Spending(o), Rows(o, c))
    BY <2>1, <2>3, Zenon
  <2>. QED  BY <2>2, <2>3, <2>4
<1>5. SumOf(Spending(o), DOMAIN o.seen) = SumOf(t, Configs)
  <2>1. IsFiniteSet(DOMAIN o.seen) /\ \A i \in DOMAIN o.seen : Spending(o)[i] \in Int
    BY <1>1, <1>2, FS_Subset DEF FreshOf
  <2>2. \A i \in DOMAIN o.seen : key[i] \in Configs
    OBVIOUS
  <2>. HIDE DEF key
  <2>. QED  BY <1>0, <2>1, <2>2, SumByKey
<1>6. SumOf(t, Configs) = SumOf(W, Configs)
  <2>. HIDE DEF t, W
  <2>. QED  BY <1>0, <1>4, SumSame
<1>. DEFINE B == Buys(o)
            G(j) == {c \in B : InstrumentOf[c] = j}
            u == [j \in Instruments |-> SumOf(W, G(j))]
<1>7. B \in SUBSET Configs
  BY DEF Buys, Quoted, Eligible
<1>8. SumOf(W, Configs) = SumOf(W, B)
  <2>1. \A c \in Configs \ B : W[c] = 0
    BY DEF Needed
  <2>. HIDE DEF W, B, t
  <2>2. SumOf(W, Configs \ B) = 0
    BY <1>0, <2>1, FS_Subset, SumOfZeros
  <2>3. SumOf(W, B) \in Int
    BY <1>0, <1>4, <1>7, FS_Subset, SumIsInt
  <2>4. SumOf(W, Configs) = SumOf(W, B) + SumOf(W, Configs \ B)
    BY <1>0, <1>4, <1>7, SumParts
  <2>. QED  BY <2>2, <2>3, <2>4
<1>9. SumOf(W, B) = SumOf(u, Instruments)
  <2>1. IsFiniteSet(B) /\ \A c \in B : W[c] \in Int /\ InstrumentOf[c] \in Instruments
    BY <1>0, <1>4, <1>7, FS_Subset
  <2>. HIDE DEF W, B
  <2>. QED  BY <1>0, <2>1, SumByKey
<1>10. \A j \in Instruments : u[j] = Basis(Executed(o))[j] /\ u[j] \in Int
  <2>. TAKE j \in Instruments
  <2>. DEFINE pay == [c \in G(j) |-> Paid(o, c)]
  <2>1. G(j) \in SUBSET Configs /\ IsFiniteSet(G(j))
    BY <1>0, <1>7, FS_Subset
  <2>2. \A c \in G(j) : pay[c] = W[c] /\ W[c] \in Int
    BY <1>4, <2>1 DEF Needed
  <2>3. Basis(Executed(o))[j] = SumOf(pay, G(j))
    BY TotalIs DEF Basis, Executed
  <2>. HIDE DEF pay, W, G
  <2>4. SumOf(pay, G(j)) = SumOf(W, G(j)) /\ SumOf(W, G(j)) \in Int
    BY <2>1, <2>2, SumSame, SumIsInt
  <2>. QED  BY <2>3, <2>4
<1>11. SumOf(u, Instruments) = SumOf(Basis(Executed(o)), Instruments)
  <2>. HIDE DEF u
  <2>. QED  BY <1>0, <1>10, SumSame
<1>. QED  BY <1>3, <1>5, <1>6, <1>8, <1>9, <1>11 DEF PaidFor

LEMMA TargetsAre ==
  TypeOK => \A i \in DOMAIN siphons : siphons[i].target \in Configs /\ i \in Slots
<1>. SUFFICES ASSUME TypeOK, NEW i \in DOMAIN siphons
              PROVE  siphons[i].target \in Configs /\ i \in Slots
  OBVIOUS
<1>. DEFINE Rec == [qualified : Nat, target : Configs, evidence : Evidence]
<1>1. siphons \in Seq(Rec) /\ Len(siphons) <= MaxSiphons
  BY DEF TypeOK
<1>. HIDE DEF Rec
<1>2. siphons[i] \in Rec
  BY <1>1
<1>3. siphons[i].target \in Configs
  BY <1>2 DEF Rec
<1>4. i \in Slots
  BY <1>1, LenIsNat, SiphonAssumption DEF Slots
<1>. QED  BY <1>3, <1>4

LEMMA InitDue == Init => Due
<1>. SUFFICES ASSUME Init PROVE Due
  OBVIOUS
<1>1. Enough /\ OldestFirst
  BY DEF Init, SiphonInit, Enough, OldestFirst
<1>2. SumOf(spent, Slots) = 0
  <2>1. IsFiniteSet(Slots)
    BY SiphonAssumption, FS_Interval DEF Slots
  <2>2. \A i \in Slots : spent[i] = 0
    BY DEF Init
  <2>. QED  BY <2>1, <2>2, SumOfZeros
<1>3. SumOf(Basis(bought), Instruments) = 0
  <2>1. \A j \in Instruments : Basis(bought)[j] = 0
    BY DEF Init, Basis, Nothing
  <2>. QED  BY <2>1, TreasuryAssumption, SumOfZeros
<1>. QED  BY <1>1, <1>2, <1>3 DEF Due

\* Nothing is given back, so what a call has read stays enough.
LEMMA EnoughStays ==
  ASSUME Inv, NEW o, EnoughOf(o), FreshOf(o), DOMAIN o.seen \subseteq DOMAIN siphons,
         \A i \in DOMAIN siphons : siphons'[i] = siphons[i],
         \A i \in Slots : spent'[i] \in Nat /\ spent'[i] >= spent[i]
  PROVE  EnoughOf(o)'
<1>. SUFFICES ASSUME NEW i \in DOMAIN o.seen PROVE Allocated(i)' <= spent'[i] + o.seen[i]
  BY DEF EnoughOf
<1>1. i \in DOMAIN siphons /\ i \in Slots /\ o.seen[i] \in Nat
  BY DEF FreshOf
<1>2. Allocated(i)' = Allocated(i)
  BY <1>1 DEF Allocated
<1>3. Allocated(i) \in Nat /\ spent[i] \in Nat /\ spent'[i] \in Nat /\ spent'[i] >= spent[i]
  BY <1>1, AllocatedIsNat DEF Inv, TypeOK
<1>4. Allocated(i) <= spent[i] + o.seen[i]
  BY DEF EnoughOf
<1>. QED  BY <1>1, <1>2, <1>3, <1>4

\* A step that buys and spends nothing, given the calls it leaves open.
LEMMA UnspentDue ==
  ASSUME Inv, Inv', Held, Due, UNCHANGED <<spent, bought>>,
         Len(siphons') >= Len(siphons),
         \A i \in DOMAIN siphons : siphons'[i] = siphons[i],
         \A s \in Sessions : \A o \in orders'[s] :
           EnoughOf(o)' \/ \E p \in orders[s] : p.seen = o.seen
  PROVE  Due'
<1>1. \A i \in Slots : spent[i] \in Nat /\ spent'[i] \in Nat /\ spent'[i] >= spent[i]
  BY DEF Inv, TypeOK
<1>2. Enough'
  <2>. SUFFICES ASSUME NEW s \in Sessions, NEW o \in orders'[s] PROVE EnoughOf(o)'
    BY DEF Enough
  <2>1. ASSUME NEW p \in orders[s], p.seen = o.seen PROVE EnoughOf(o)'
    <3>1. EnoughOf(p) /\ FreshOf(p) /\ DOMAIN p.seen \subseteq DOMAIN siphons
      BY DEF Due, Enough, Held, Fresh, Inv, TypeOK
    <3>2. EnoughOf(p)'
      BY <1>1, <3>1, EnoughStays
    <3>. QED  BY <2>1, <3>2 DEF EnoughOf
  <2>. QED  BY <2>1
<1>3. SumOf(Basis(bought'), Instruments) = SumOf(spent', Slots)
  BY DEF Due
<1>4. OldestFirst'
  <2>. SUFFICES ASSUME NEW i \in DOMAIN siphons', NEW k \in DOMAIN siphons', i < k,
                       siphons'[i].target = siphons'[k].target, spent[k] > 0
                PROVE  spent[i] = Allocated(i)'
    BY DEF OldestFirst
  <2>. DEFINE Rec == [qualified : Nat, target : Configs, evidence : Evidence]
  <2>0. siphons' \in Seq(Rec) /\ Len(siphons') <= MaxSiphons
    BY DEF Inv, TypeOK
  <2>. HIDE DEF Rec
  <2>1. k \in Slots
    BY <2>0, SiphonAssumption DEF Slots
  <2>2. k \in DOMAIN siphons
    BY <2>1 DEF Inv, NothingAhead
  <2>3. i \in DOMAIN siphons
    BY <2>2, LenIsNat DEF Inv
  <2>4. spent[i] = Allocated(i)
    BY <2>2, <2>3 DEF Due, OldestFirst
  <2>. QED  BY <2>3, <2>4 DEF Allocated
<1>. QED  BY <1>2, <1>3, <1>4 DEF Due, Slots, Basis

\* A commit spends what it executes, in the order of the allocations: all that
\* is older than one it touches was used up before or is used up with it.
LEMMA CommitDue ==
  ASSUME Inv, Inv', Held, Due, NEW s \in Sessions, Commit(s)
  PROVE  Due'
<1>1. PICK o \in orders[s] :
        /\ o.phase \in Rowed
        /\ spent' = [i \in Slots |-> spent[i] + Spending(o)[i]]
        /\ bought' = Plus(bought, Executed(o))
        /\ orders' = [orders EXCEPT ![s] = {}]
        /\ UNCHANGED siphonVars
  BY DEF Commit, Rowed
<1>2. siphons' = siphons /\ \A i : Allocated(i)' = Allocated(i)
  BY <1>1 DEF siphonVars, Allocated
<1>3. Storable(o) /\ FreshOf(o) /\ EnoughOf(o) /\ DOMAIN o.seen \subseteq DOMAIN siphons
  BY <1>1 DEF Inv, TypeOK, Reserved, Held, Fresh, Due, Enough
<1>4. /\ \A i \in Slots : /\ spent[i] \in Nat /\ Spending(o)[i] \in Nat
                          /\ spent'[i] = spent[i] + Spending(o)[i]
      /\ \A i \in Slots : i \notin DOMAIN o.seen => Spending(o)[i] = 0
  BY <1>1, <1>3 DEF Inv, TypeOK, Storable, Spending
<1>5. Enough'
  <2>. SUFFICES ASSUME NEW t \in Sessions, NEW p \in orders[t], p \in orders'[t]
                PROVE  EnoughOf(p)'
    BY <1>1 DEF Enough, Inv, TypeOK
  <2>1. EnoughOf(p) /\ FreshOf(p) /\ DOMAIN p.seen \subseteq DOMAIN siphons
    BY DEF Due, Enough, Held, Fresh, Inv, TypeOK
  <2>2. \A i \in Slots : spent'[i] \in Nat /\ spent'[i] >= spent[i]
    BY <1>4
  <2>. QED  BY <1>2, <2>1, <2>2, EnoughStays
<1>6. SumOf(Basis(bought'), Instruments) = SumOf(spent', Slots)
  <2>1. SumOf(spent', Slots) = SumOf(spent, Slots) + SumOf(Spending(o), Slots)
    <3>1. IsFiniteSet(Slots)
      BY SiphonAssumption, FS_Interval DEF Slots
    <3>2. \A i \in Slots : spent[i] \in Int /\ Spending(o)[i] \in Int
                            /\ spent'[i] = spent[i] + Spending(o)[i]
      BY <1>4
    <3>. QED  BY <3>1, <3>2, SumPlus
  <2>2. SumOf(Basis(bought'), Instruments)
          = SumOf(Basis(bought), Instruments) + SumOf(Basis(Executed(o)), Instruments)
    <3>1. bought \in Shares2 /\ Executed(o) \in Shares2
      BY <1>3 DEF Inv, TypeOK, Shares2, Storable
    <3>2. \A j \in Instruments :
            /\ Basis(bought)[j] \in Int /\ Basis(Executed(o))[j] \in Int
            /\ Basis(bought')[j] = Basis(bought)[j] + Basis(Executed(o))[j]
      BY <1>1, <3>1 DEF Basis, Plus, Shares2
    <3>. QED  BY <3>2, TreasuryAssumption, SumPlus
  <2>3. PaidFor(o)
    BY <1>3, CallIsPaid, TargetsAre DEF Inv
  <2>. QED  BY <2>1, <2>2, <2>3 DEF Due, PaidFor
<1>7. OldestFirst'
  <2>. SUFFICES ASSUME NEW i \in DOMAIN siphons, NEW k \in DOMAIN siphons, i < k,
                       siphons[i].target = siphons[k].target, spent'[k] > 0
                PROVE  spent'[i] = Allocated(i)
    BY <1>2 DEF OldestFirst
  <2>1. i \in Slots /\ k \in Slots /\ siphons[i].target \in Configs
    BY TargetsAre DEF Inv
  <2>2. Allocated(i) \in Nat /\ spent[i] <= Allocated(i) /\ spent'[i] <= Allocated(i)
    BY <1>2, AllocatedIsNat DEF Inv, AllocationsSpentOnce
  <2>. SUFFICES spent'[i] >= Allocated(i)
    BY <2>1, <2>2, <1>4
  <2>3. CASE spent[k] > 0
    <3>1. spent[i] = Allocated(i)
      BY <2>3 DEF Due, OldestFirst
    <3>. QED  BY <3>1, <2>1, <2>2, <1>4
  <2>4. CASE Spending(o)[k] > 0 /\ i \in DOMAIN o.seen
    <3>1. k \in DOMAIN o.seen
      BY <2>4, <2>1, <1>4
    <3>2. PICK c \in Configs : i \in Rows(o, c) /\ k \in Rows(o, c)
      BY <2>1, <2>4, <3>1 DEF Rows
    <3>3. Spending(o)[i] = o.seen[i]
      <4>1. /\ Numbered(Rows(o, c)) /\ \A x \in Rows(o, c) : o.seen[x] \in Nat
            /\ Needed(o, c) \in Nat
            /\ Takes(Spending(o), o.seen, Rows(o, c), Needed(o, c))
        BY <1>3, RowsTake
      <4>. QED  BY <2>4, <3>2, <4>1, TakesInOrder
    <3>4. Allocated(i) <= spent[i] + o.seen[i]
      BY <2>4, <1>3 DEF EnoughOf
    <3>. QED  BY <3>3, <3>4, <2>1, <1>4
  <2>5. CASE Spending(o)[k] > 0 /\ i \notin DOMAIN o.seen
    <3>1. k \in DOMAIN o.seen
      BY <2>5, <2>1, <1>4
    <3>2. ~(spent[i] < Allocated(i))
      BY <1>3, <2>1, <2>5, <3>1, SiphonAssumption DEF FreshOf, Slots
    <3>. QED  BY <3>2, <2>1, <2>2, <1>4
  <2>. QED  BY <2>1, <2>3, <2>4, <2>5, <1>4
<1>. QED  BY <1>5, <1>6, <1>7 DEF Due, Slots, Basis

LEMMA StepDue == Inv /\ Inv' /\ Held /\ Due /\ [Next]_vars => Due'
<1>. SUFFICES ASSUME Inv, Inv', Held, Due, [Next]_vars PROVE Due'
  OBVIOUS
<1>0. Len(siphons) \in Nat
  BY LenIsNat DEF Inv
<1>1. CASE SiphonNext /\ UNCHANGED treasuryVars
  <2>1. UNCHANGED <<spent, bought, orders>>
    BY <1>1 DEF treasuryVars
  <2>. QED  BY <1>1, <2>1, SiphonsGrow, UnspentDue
<1>2. ASSUME NEW s \in Sessions, NEW o \in orders[s], NEW d, Proceeds(s, d), d.seen = o.seen
      PROVE  Due'
  <2>1. /\ orders' = [orders EXCEPT ![s] = {d}]
        /\ UNCHANGED <<siphons, spent, bought>>
    BY <1>2 DEF Proceeds, siphonVars
  <2>2. \A t \in Sessions : \A p \in orders'[t] : \E q \in orders[t] : q.seen = p.seen
    BY <1>2, <2>1 DEF Inv, TypeOK
  <2>. QED  BY <1>0, <2>1, <2>2, UnspentDue
<1>3. ASSUME NEW s \in Sessions, AcquireRows(s) \/ Buy(s) \/ Rebuild(s)
      PROVE  Due'
  <2>1. CASE AcquireRows(s)
    <3>1. PICK o \in orders[s] : Proceeds(s, [o EXCEPT !.phase = "LOCKED"])
      BY <2>1 DEF AcquireRows
    <3>2. PICK d : d = [o EXCEPT !.phase = "LOCKED"]
      OBVIOUS
    <3>3. d.seen = o.seen
      BY <3>2 DEF Inv, Shaped
    <3>. QED  BY <3>1, <3>2, <3>3, <1>2
  <2>2. CASE Buy(s)
    <3>1. PICK o \in orders[s] : Proceeds(s, [o EXCEPT !.phase = "BOUGHT"])
      BY <2>2 DEF Buy
    <3>2. PICK d : d = [o EXCEPT !.phase = "BOUGHT"]
      OBVIOUS
    <3>3. d.seen = o.seen
      BY <3>2 DEF Inv, Shaped
    <3>. QED  BY <3>1, <3>2, <3>3, <1>2
  <2>3. CASE Rebuild(s)
    <3>1. PICK o \in orders[s] :
            Proceeds(s, [o EXCEPT !.phase = "REBUILT", !.total = Plus(bought, Executed(o)),
              !.written = {j \in Instruments : Plus(bought, Executed(o))[j] # holdings[j]}])
      BY <2>3 DEF Rebuild
    <3>2. PICK d : d = [o EXCEPT !.phase = "REBUILT", !.total = Plus(bought, Executed(o)),
              !.written = {j \in Instruments : Plus(bought, Executed(o))[j] # holdings[j]}]
      OBVIOUS
    <3>3. d.seen = o.seen
      BY <3>2 DEF Inv, Shaped
    <3>. QED  BY <3>1, <3>2, <3>3, <1>2
  <2>. QED  BY <1>3, <2>1, <2>2, <2>3
<1>4. ASSUME NEW s \in Sessions, Abort(s)
      PROVE  Due'
  <2>1. /\ orders' = [orders EXCEPT ![s] = {}]
        /\ UNCHANGED <<siphons, spent, bought>>
    BY <1>4 DEF Abort, siphonVars
  <2>2. \A t \in Sessions : \A p \in orders'[t] : p \in orders[t]
    BY <2>1 DEF Inv, TypeOK
  <2>. QED  BY <1>0, <2>1, <2>2, UnspentDue
<1>5. ASSUME NEW s \in Sessions, NEW quote, NEW fees, Select(s, quote, fees)
      PROVE  Due'
  <2>1. PICK d : /\ d.seen = [i \in {i \in DOMAIN siphons : Allocated(i) > spent[i]} |->
                               Allocated(i) - spent[i]]
                 /\ orders' = [orders EXCEPT ![s] = {d}]
                 /\ UNCHANGED <<siphons, spent, bought>>
    BY <1>5 DEF Select, Proceeds, siphonVars
  <2>2. \A i \in DOMAIN siphons : Allocated(i)' = Allocated(i) /\ Allocated(i) \in Nat
                                    /\ spent[i] \in Nat
    BY <2>1, AllocatedIsNat, TargetsAre DEF Inv, TypeOK, Allocated
  <2>3. EnoughOf(d)'
    BY <2>1, <2>2 DEF EnoughOf
  <2>4. \A t \in Sessions : \A p \in orders'[t] : p = d \/ p \in orders[t]
    BY <2>1 DEF Inv, TypeOK
  <2>5. \A t \in Sessions : \A p \in orders'[t] :
          EnoughOf(p)' \/ \E q \in orders[t] : q.seen = p.seen
    BY <2>3, <2>4
  <2>. QED  BY <1>0, <2>1, <2>5, UnspentDue
<1>6. CASE UNCHANGED vars
  <2>1. UNCHANGED <<siphons, spent, bought, orders>>
    BY <1>6 DEF vars, siphonVars, treasuryVars
  <2>. QED  BY <1>0, <2>1, UnspentDue
<1>. QED
  BY <1>1, <1>3, <1>4, <1>5, <1>6, CommitDue DEF Next, ExecuteAvailable

\* Every execution is paid out of allocations to the cent, and the older
\* allocations of a target are used up before a newer one is touched, whatever
\* a call has waited for since it read them.
THEOREM PurchasesAlwaysDue == Spec => []PurchasesAreDue
<1>1. Inv /\ Due => PurchasesAreDue
  BY ExecutionsAre, TotalIs DEF Due, PurchasesAreDue, ExecutionsArePaid
<1>. QED  BY <1>1, InitDue, StepDue, InitHeld, StepHeld, Invariance, PTL DEF Spec

-----------------------------------------------------------------------------
(* The siphon goes on beside the treasury as it does alone. *)

\* Every step of the cell's treasury is a step of its siphon or none.
THEOREM TreasuryKeepsSiphon == Spec => SiphonSpec
<1>1. Init => SiphonInit
  BY DEF Init
<1>2. [Next]_vars => [SiphonNext]_siphonVars
  BY DEF Next, vars, ExecuteAvailable, AcquireRows, Buy, Rebuild, Commit, Abort, Select, Proceeds
<1>. QED  BY <1>1, <1>2, PTL DEF Spec, SiphonSpec

\* So, also while the treasury spends, all siphons of the cell together stay
\* within the sum of its accounts' best net profits, and each siphon of a call
\* for one account leaves the seed in the cash it was based on.
THEOREM CellStaysWithinMeans == Spec => []SiphonWithinMeans
  BY TreasuryKeepsSiphon, SiphonStaysWithinMeans, PTL

-----------------------------------------------------------------------------
(* The audit. *)

ReserveOf == [i \in DOMAIN siphons |-> ReservePart(siphons[i].qualified)]
TargetOf == [i \in DOMAIN siphons |-> TargetPart(siphons[i].qualified)]
PoolOf == [i \in DOMAIN siphons |-> PoolPart(siphons[i].qualified)]

LEMMA BucketsAre ==
  /\ BucketTotals.SAFETY_RESERVE = SumOf(ReserveOf, DOMAIN siphons)
  /\ BucketTotals.TARGET_TREASURY = SumOf(TargetOf, DOMAIN siphons)
  /\ BucketTotals.REPLICATION_POOL = SumOf(PoolOf, DOMAIN siphons)
<1>1. MapThenSumSet(LAMBDA i : ReservePart(siphons[i].qualified), DOMAIN siphons)
        = SumOf(ReserveOf, DOMAIN siphons)
  BY DEF SumOf, MapThenSumSet, MapThenFoldSet, ReserveOf
<1>2. MapThenSumSet(LAMBDA i : TargetPart(siphons[i].qualified), DOMAIN siphons)
        = SumOf(TargetOf, DOMAIN siphons)
  BY DEF SumOf, MapThenSumSet, MapThenFoldSet, TargetOf
<1>3. MapThenSumSet(LAMBDA i : PoolPart(siphons[i].qualified), DOMAIN siphons)
        = SumOf(PoolOf, DOMAIN siphons)
  BY DEF SumOf, MapThenSumSet, MapThenFoldSet, PoolOf
<1>4. /\ BucketTotals.SAFETY_RESERVE
           = MapThenSumSet(LAMBDA i : ReservePart(siphons[i].qualified), DOMAIN siphons)
      /\ BucketTotals.TARGET_TREASURY
           = MapThenSumSet(LAMBDA i : TargetPart(siphons[i].qualified), DOMAIN siphons)
      /\ BucketTotals.REPLICATION_POOL
           = MapThenSumSet(LAMBDA i : PoolPart(siphons[i].qualified), DOMAIN siphons)
  BY DEF BucketTotals
<1>. QED  BY <1>1, <1>2, <1>3, <1>4

\* The shares of a siphon.
LEMMA PartsAre ==
  ASSUME siphons \in Seq(Event), NEW i \in DOMAIN siphons
  PROVE  LET q == siphons[i].qualified
         IN  /\ q \in Nat /\ ReservePart(q) \in Int /\ TargetPart(q) \in Int
             /\ PoolPart(q) \in Int /\ q = ReservePart(q) + TargetPart(q) + PoolPart(q)
<1>0. siphons[i] \in Event
  BY TakenIs
<1>1. PICK q \in Nat : q = siphons[i].qualified
  BY <1>0 DEF Event
<1>2. (q * ReservePct) \div 100 \in Int /\ (q * TargetPct) \div 100 \in Int
  BY SiphonAssumption
<1>3. ReservePart(q) \in Int /\ TargetPart(q) \in Int
  BY <1>2, FloorIs DEF ReservePart, TargetPart
<1>. QED  BY <1>1, <1>3 DEF PoolPart

\* The buckets hold what was siphoned.
LEMMA BucketsAddUp ==
  ASSUME siphons \in Seq(Event)
  PROVE  Siphoned = BucketTotals.SAFETY_RESERVE + BucketTotals.TARGET_TREASURY
                      + BucketTotals.REPLICATION_POOL
<1>. DEFINE D == DOMAIN siphons
            r == ReserveOf
            t == TargetOf
            p == PoolOf
            rt == [i \in D |-> r[i] + t[i]]
<1>1. IsFiniteSet(D) /\ \A i \in D : Amounts[i] \in Nat
  BY TakenIs
<1>2. \A i \in D : /\ r[i] \in Int /\ t[i] \in Int /\ p[i] \in Int
                   /\ Amounts[i] = r[i] + t[i] + p[i]
  BY PartsAre DEF ReserveOf, TargetOf, PoolOf, Amounts
<1>3. \A i \in D : rt[i] = r[i] + t[i] /\ rt[i] \in Int /\ Amounts[i] = rt[i] + p[i]
  BY <1>2
<1>. HIDE DEF D, r, t, p, rt
<1>4. SumOf(Amounts, D) = SumOf(rt, D) + SumOf(p, D)
  BY <1>1, <1>2, <1>3, SumPlus
<1>5. SumOf(rt, D) = SumOf(r, D) + SumOf(t, D)
  BY <1>1, <1>2, <1>3, SumPlus
<1>6. Siphoned = SumOf(Amounts, D)
  BY SiphonedIs DEF Taken, D
<1>7. /\ BucketTotals.SAFETY_RESERVE = SumOf(r, D)
      /\ BucketTotals.TARGET_TREASURY = SumOf(t, D)
      /\ BucketTotals.REPLICATION_POOL = SumOf(p, D)
  BY BucketsAre DEF D, r, t, p
<1>. QED  BY <1>4, <1>5, <1>6, <1>7

\* Nothing of the target bucket is consumed twice.
LEMMA BucketLasts ==
  ASSUME siphons \in Seq(Event), TypeOK, AllocationsSpentOnce
  PROVE  BucketTotals.TARGET_TREASURY - Total(spent, DOMAIN siphons) >= 0
<1>. DEFINE D == DOMAIN siphons
            t == TargetOf
<1>1. IsFiniteSet(D)
  BY TakenIs
<1>2. \A i \in D : t[i] = Allocated(i) /\ i \in Slots
  BY TargetsAre DEF TargetOf, Allocated
<1>3. \A i \in D : spent[i] \in Int /\ t[i] \in Int /\ spent[i] <= t[i]
  BY <1>2, AllocatedIsNat DEF TypeOK, AllocationsSpentOnce
<1>. HIDE DEF D, t
<1>4. SumOf(spent, D) <= SumOf(t, D) /\ SumOf(spent, D) \in Int /\ SumOf(t, D) \in Int
  BY <1>1, <1>3, SumGrows, SumIsInt
<1>. QED  BY <1>4, BucketsAre, TotalIs DEF D, t

\* The percentages the audit has written down are those of the policy.
LEMMA EventsAreExact ==
  ASSUME siphons \in Seq(Event), ReservePct = 40, TargetPct = 40
  PROVE  ExactEvents
<1>1. \A q \in Nat : (q * 40) \div 100 = (2 * q) \div 5
  OBVIOUS
<1>. SUFFICES ASSUME NEW i \in DOMAIN siphons, NEW q, q = siphons[i].qualified
              PROVE  /\ q = ReservePart(q) + TargetPart(q) + PoolPart(q)
                     /\ ReservePart(q) = FloorCents((2 * q) \div 5)
                     /\ TargetPart(q) = FloorCents((2 * q) \div 5)
  BY DEF ExactEvents
<1>2. q \in Nat /\ q = ReservePart(q) + TargetPart(q) + PoolPart(q)
  BY PartsAre
<1>3. (q * ReservePct) \div 100 = (2 * q) \div 5 /\ (q * TargetPct) \div 100 = (2 * q) \div 5
  BY <1>1, <1>2
<1>. QED  BY <1>2, <1>3 DEF ReservePart, TargetPart

\* What replications hold and have spent of the pools is less than the bucket.
LEMMA BucketFunds ==
  ASSUME siphons \in Seq(Event), TypeOK, NEW r \in Reports, GoodReport(r)
  PROVE  ReplicationUncommitted(r) >= 0
<1>. DEFINE D == DOMAIN siphons
            h == r.held
            u == r.spent
            p == PoolOf
            hu == [i \in D |-> u[i] + h[i]]
<1>1. IsFiniteSet(D)
  BY TakenIs
<1>2. D \in SUBSET Slots
  <2>1. /\ Len(siphons) \in Nat /\ D = 1..Len(siphons)
        /\ Len(siphons) <= MaxSiphons /\ MaxSiphons \in Nat
    BY TakenIs, SiphonAssumption DEF TypeOK
  <2>. QED  BY <2>1 DEF Slots
<1>3. \A i \in D : h[i] \in Int /\ u[i] \in Int /\ hu[i] \in Int /\ hu[i] = u[i] + h[i]
  BY <1>2, ReportAssumption
<1>4. \A i \in D : p[i] \in Int /\ hu[i] <= p[i]
  BY PartsAre DEF PoolOf, GoodReport
<1>5. Total(u, D) = SumOf(u, D) /\ Total(h, D) = SumOf(h, D)
  BY TotalIs
<1>6. ReplicationUncommitted(r) = SumOf(p, D) - SumOf(u, D) - SumOf(h, D)
  BY <1>5, BucketsAre DEF ReplicationUncommitted
<1>. HIDE DEF D, h, u, p, hu
<1>7. SumOf(hu, D) = SumOf(u, D) + SumOf(h, D)
  BY <1>1, <1>3, SumPlus
<1>8. SumOf(hu, D) <= SumOf(p, D)
  BY <1>1, <1>3, <1>4, SumGrows
<1>9. SumOf(u, D) \in Int /\ SumOf(h, D) \in Int /\ SumOf(p, D) \in Int
  BY <1>1, <1>3, <1>4, SumIsInt
<1>. QED  BY <1>6, <1>7, <1>8, <1>9

\* A cell whose accounts all stand at their peak still has what it siphoned.
LEMMA PeakCoversSiphons ==
  ASSUME SiphonInv, Net(booked) >= MapThenSumSet(Peak, Accounts)
  PROVE  AuditQualified <= NetPnl
<1>1. booked \in SUBSET Facts /\ siphons \in Seq(Event)
  BY DEF SiphonInv, SiphonTypes
<1>2. Siphoned <= MapThenSumSet(Peak, Accounts)
  BY WithinMeans DEF SiphonWithinMeans, SiphonedWithinProfit
<1>3. MapThenSumSet(Peak, Accounts) = SumOf(Peaks, Accounts)
  BY PeaksAddUp
<1>4. Siphoned \in Nat /\ SumOf(Peaks, Accounts) \in Nat /\ Net(booked) \in Int
  BY <1>1, TakenIs, SiphonedIs, PeaksAre, NetIs
<1>5. AuditQualified = Siphoned
  BY DEF AuditQualified, Siphoned
<1>. QED  BY <1>2, <1>3, <1>4, <1>5 DEF NetPnl

\* Under the policy of the code, 40 percent to the reserve and 40 to the
\* target, the conservation proof holds of every cell whose accounts stand at
\* the most they have made, whatever replications that keep within their
\* allocations have taken: it fails after losses only.
THEOREM AuditFailsOnlyByLosses ==
  ASSUME ReservePct = 40, TargetPct = 40
  PROVE  Spec => []ProofFailsOnlyByLosses
<1>1. /\ TypeOK /\ AllocationsSpentOnce /\ HoldingsAreExecutions /\ SiphonInv
      => ProofFailsOnlyByLosses
  <2>. SUFFICES ASSUME TypeOK, AllocationsSpentOnce, HoldingsAreExecutions, SiphonInv,
                       Net(booked) >= MapThenSumSet(Peak, Accounts),
                       NEW r \in Reports, GoodReport(r)
                PROVE  ConservationProofPassed(r)
    BY DEF ProofFailsOnlyByLosses
  <2>1. siphons \in Seq(Event)
    BY DEF SiphonInv, SiphonTypes
  <2>2. ExactEvents
    BY <2>1, EventsAreExact
  <2>3. AuditQualified = Siphoned
    BY DEF AuditQualified, Siphoned
  <2>4. ProjectionEquivalent
    BY DEF ProjectionEquivalent, HoldingsAreExecutions
  <2>5. r.zeroOrphans
    BY DEF GoodReport
  <2>6. AuditQualified <= NetPnl
    BY PeakCoversSiphons
  <2>7. ReplicationUncommitted(r) >= 0
    BY <2>1, BucketFunds
  <2>. QED
    BY <2>1, <2>2, <2>3, <2>4, <2>5, <2>6, <2>7, BucketsAddUp, BucketLasts
       DEF ConservationProofPassed, CellPassed
<1>. QED
  BY <1>1, TypeCorrect, SpentOnce, HoldingsExact, TreasuryKeepsSiphon, SiphonInvariance, PTL

-----------------------------------------------------------------------------
(* The sessions of the flywheel. *)

States == {"DISARMED", "ARMED", "HALTED_HARD"}

\* The line-ups, the cells a slice has yet to step and the trace are of cells
\* that exist and were born before the session opened; a cell that exists is
\* never born again, so this lasts.
BornBefore(c, s) == status[c] # "NONE" /\ \A at \in born[c] : at < Opens[s]

QuarantineInv ==
  /\ status \in [Cells -> Canonical \cup {"NONE", "RETIRED"}]
  /\ born \in [Cells -> SUBSET Nat] /\ previous \in Nat /\ session \in ReplayDays
  /\ \A e \in trace : e.cell \in Cells /\ e.session \in ReplayDays /\ BornBefore(e.cell, e.session)
  /\ \A s, c : <<s, c>> \in lineup => s \in ReplayDays /\ c \in Cells /\ BornBefore(c, s)
  /\ steps \subseteq Cells /\ \A c \in steps : <<session, c>> \in lineup
  /\ todo \subseteq Cells /\ \A c \in todo : status[c] # "NONE"
  /\ ~running => steps = {} /\ todo = {}

LEMMA TimesAreNat == Times \subseteq Nat
BY FlywheelAssumption DEF Times

LEMMA QuarantineInit == FlywheelInit => QuarantineInv
BY DEF FlywheelInit, QuarantineInv, Canonical

\* A genesis is of a cell that has no part in anything yet.
LEMMA GenesisStep ==
  ASSUME QuarantineInv, NEW d \in Cells, NEW at \in Nat, Genesis(d, at)
  PROVE  /\ status' \in [Cells -> Canonical \cup {"NONE", "RETIRED"}]
         /\ born' \in [Cells -> SUBSET Nat]
         /\ \A c \in Cells : \A s : BornBefore(c, s) => BornBefore(c, s)'
         /\ \A c \in Cells : status[c] # "NONE" => status'[c] # "NONE"
BY DEF QuarantineInv, Genesis, BornBefore, Canonical

\* Where the births stand and a cell that exists goes on existing, nothing
\* that was said of a line-up changes.
LEMMA Lasts ==
  ASSUME NEW c \in Cells, NEW s, BornBefore(c, s), born' = born, status'[c] # "NONE"
  PROVE  BornBefore(c, s)'
BY DEF BornBefore

LEMMA QuarantineStep == QuarantineInv /\ [FlywheelNext]_flywheelVars => QuarantineInv'
<1> SUFFICES ASSUME QuarantineInv, [FlywheelNext]_flywheelVars PROVE QuarantineInv'
  OBVIOUS
<1>1. CASE UNCHANGED flywheelVars
  BY <1>1 DEF flywheelVars, cellVars, replayVars, QuarantineInv, BornBefore
<1>2. CASE StartRun
  BY <1>2 DEF StartRun, cellVars, QuarantineInv, BornBefore
<1>3. CASE Finish \/ FailRun
  BY <1>3 DEF Finish, FailRun, Ends, cellVars, QuarantineInv, BornBefore
<1>4. CASE \E c \in Cells : InitializeCell(c)
  <2> PICK c \in Cells : InitializeCell(c)
    BY <1>4
  <2>1. c \in todo /\ born' = born /\ session' = session /\ previous' = previous
        /\ trace' = trace /\ running' = running
    BY DEF InitializeCell, First
  <2>2. /\ status' \in [Cells -> Canonical \cup {"NONE", "RETIRED"}]
        /\ \A d \in Cells : status[d] # "NONE" => status'[d] # "NONE"
    BY DEF InitializeCell, QuarantineInv, Canonical
  <2>3. PICK joined : Turn(c, joined) /\ (joined = {} \/ (~Quarantined(c) /\ joined = {<<session, c>>}))
    BY DEF InitializeCell
  <2>4. joined = {<<session, c>>} => BornBefore(c, session)'
    <3> SUFFICES ASSUME joined = {<<session, c>>} PROVE BornBefore(c, session)'
      OBVIOUS
    <3>1. ~Quarantined(c)
      BY <2>3
    <3>2. Opens[session] \in Nat /\ born[c] \subseteq Nat
      BY FlywheelAssumption DEF QuarantineInv
    <3>3. \A at \in born[c] : at < Opens[session]
      BY <3>1, <3>2 DEF Quarantined
    <3>4. status'[c] # "NONE"
      BY <2>1, <2>2 DEF QuarantineInv
    <3> QED
      BY <2>1, <3>3, <3>4 DEF BornBefore
  <2>5. \A s, d : <<s, d>> \in lineup' => s \in ReplayDays /\ d \in Cells /\ BornBefore(d, s)'
    <3> SUFFICES ASSUME NEW s, NEW d, <<s, d>> \in lineup'
                 PROVE  s \in ReplayDays /\ d \in Cells /\ BornBefore(d, s)'
      OBVIOUS
    <3>1. CASE <<s, d>> \in lineup
      <4>1. s \in ReplayDays /\ d \in Cells /\ BornBefore(d, s)
        BY <3>1 DEF QuarantineInv
      <4>2. status'[d] # "NONE"
        BY <4>1, <2>2 DEF BornBefore
      <4> QED
        BY <4>1, <4>2, <2>1, Lasts
    <3>2. CASE <<s, d>> \notin lineup
      <4>1. joined = {<<session, c>>} /\ s = session /\ d = c
        BY <3>2, <2>3 DEF Turn
      <4> QED
        BY <4>1, <2>1, <2>4 DEF QuarantineInv, BornBefore
    <3> QED
      BY <3>1, <3>2
  <2>6. \A e \in trace' : e.cell \in Cells /\ e.session \in ReplayDays
                            /\ BornBefore(e.cell, e.session)'
    BY <2>1, <2>2, Lasts DEF QuarantineInv, BornBefore
  <2>7. steps' \subseteq Cells /\ \A d \in steps' : <<session', d>> \in lineup'
    BY <2>1, <2>3 DEF Turn, QuarantineInv
  <2>8. todo' \subseteq Cells /\ \A d \in todo' : status'[d] # "NONE"
    BY <2>2, <2>3 DEF Turn, QuarantineInv
  <2>9. running
    BY <2>1 DEF QuarantineInv
  <2> QED
    BY <2>1, <2>2, <2>5, <2>6, <2>7, <2>8, <2>9 DEF QuarantineInv
<1>5. CASE \E c \in Cells : StepCell(c)
  <2> PICK c \in Cells : StepCell(c)
    BY <1>5
  <2>1. /\ c \in steps /\ steps' = steps \ {c} /\ running' = running
        /\ trace' = trace \cup {[session |-> session, cell |-> c]}
        /\ todo' = todo /\ lineup' = lineup /\ session' = session /\ previous' = previous
    BY DEF StepCell, First, replayVars
  <2>2. /\ status' \in [Cells -> Canonical \cup {"NONE", "RETIRED"}]
        /\ born' \in [Cells -> SUBSET Nat]
        /\ \A d \in Cells : \A s : BornBefore(d, s) => BornBefore(d, s)'
        /\ \A d \in Cells : status[d] # "NONE" => status'[d] # "NONE"
    <3>1. CASE UNCHANGED <<status, born>>
      BY <3>1 DEF BornBefore, QuarantineInv
    <3>2. CASE \E d \in Children : Genesis(d, previous)
      <4> PICK d \in Children : Genesis(d, previous)
        BY <3>2
      <4>1. d \in Cells /\ previous \in Nat
        BY FlywheelAssumption DEF QuarantineInv
      <4> QED
        BY <4>1, GenesisStep
    <3> QED
      BY <3>1, <3>2 DEF StepCell
  <2>3. <<session, c>> \in lineup
    BY <2>1 DEF QuarantineInv
  <2>4. \A e \in trace' : e.cell \in Cells /\ e.session \in ReplayDays
                            /\ BornBefore(e.cell, e.session)'
    <3> SUFFICES ASSUME NEW e \in trace'
                 PROVE  e.cell \in Cells /\ e.session \in ReplayDays /\ BornBefore(e.cell, e.session)'
      OBVIOUS
    <3>1. e.cell \in Cells /\ e.session \in ReplayDays /\ BornBefore(e.cell, e.session)
      BY <2>1, <2>3 DEF QuarantineInv
    <3> QED
      BY <3>1, <2>2
  <2>5. \A s, d : <<s, d>> \in lineup' => s \in ReplayDays /\ d \in Cells /\ BornBefore(d, s)'
    BY <2>1, <2>2 DEF QuarantineInv
  <2> QED
    BY <2>1, <2>2, <2>4, <2>5 DEF QuarantineInv
<1>6. CASE \E s \in ReplayDays, time \in Times, cells \in ArmLists : TakeSlice(s, time, cells)
  <2> PICK s \in ReplayDays, time \in Times, cells \in ArmLists : TakeSlice(s, time, cells)
    BY <1>6
  <2>1. /\ status' = status /\ born' = born /\ lineup' = lineup /\ trace' = trace
        /\ running /\ running' = running /\ steps = {} /\ todo = {}
        /\ previous' = time /\ session' = s
    BY DEF TakeSlice, Ready, cellVars
  <2>2. previous' \in Nat
    BY <2>1, TimesAreNat
  <2>3. steps' \subseteq Cells /\ \A c \in steps' : <<session', c>> \in lineup'
    BY <2>1 DEF TakeSlice
  <2>4. todo' \subseteq Cells /\ \A c \in todo' : status'[c] # "NONE"
    BY <2>1 DEF TakeSlice, CanonicalCells, Canonical
  <2> QED
    BY <2>1, <2>2, <2>3, <2>4 DEF QuarantineInv, BornBefore
<1>7. CASE \E c \in Children, at \in Times : GenesisElsewhere(c, at)
  <2> PICK c \in Children, at \in Times : GenesisElsewhere(c, at)
    BY <1>7
  <2>1. c \in Cells /\ at \in Nat /\ Genesis(c, at)
    BY FlywheelAssumption, TimesAreNat DEF GenesisElsewhere
  <2>2. /\ status' \in [Cells -> Canonical \cup {"NONE", "RETIRED"}]
        /\ born' \in [Cells -> SUBSET Nat]
        /\ \A d \in Cells : \A s : BornBefore(d, s) => BornBefore(d, s)'
        /\ \A d \in Cells : status[d] # "NONE" => status'[d] # "NONE"
    BY <2>1, GenesisStep
  <2> QED
    BY <2>2 DEF GenesisElsewhere, replayVars, QuarantineInv
<1>8. CASE \E c \in Cells : Operate(c, "PAUSED") \/ Operate(c, "RETIRED")
  <2>1. /\ born' = born /\ status' \in [Cells -> Canonical \cup {"NONE", "RETIRED"}]
        /\ \A d \in Cells : status[d] # "NONE" => status'[d] # "NONE"
    BY <1>8 DEF Operate, QuarantineInv, Canonical
  <2>2. \A d \in Cells : \A s : BornBefore(d, s) => BornBefore(d, s)'
    BY <2>1 DEF BornBefore
  <2> QED
    BY <1>8, <2>1, <2>2 DEF Operate, replayVars, QuarantineInv
<1> QED
  BY <1>1, <1>2, <1>3, <1>4, <1>5, <1>6, <1>7, <1>8 DEF FlywheelNext

\* A child has no part in the session it was born in, whenever and however
\* often the session is replayed.
THEOREM BirthSessionTheorem == FlywheelSpec => []BirthSessionQuarantined
<1>1. QuarantineInv => BirthSessionQuarantined
  BY DEF QuarantineInv, BornBefore, BirthSessionQuarantined
<1> QED
  BY <1>1, QuarantineInit, QuarantineStep, PTL DEF FlywheelSpec

-----------------------------------------------------------------------------
(* No audit rewinds a cell. *)

RiskRows == [session : ReplayDays, state : States]

\* A cell has one row of risk state.
RiskInv ==
  /\ session \in ReplayDays
  /\ risk \in [Cells -> SUBSET RiskRows]
  /\ \A c \in Cells : \A r, q \in risk[c] : r.session = q.session

NeverRewinds ==
  \A c \in Cells : \A r \in risk[c], q \in risk'[c] :
    Opens[q.session] < Opens[r.session] =>
      <<q.session, c>> \notin known /\ (q.state = "ARMED" => c \in arm)

LEMMA RiskInit == FlywheelInit => RiskInv
BY DEF FlywheelInit, RiskInv

LEMMA RowsOpen ==
  ASSUME RiskInv, NEW c \in Cells, NEW r \in risk[c]
  PROVE  Opens[r.session] \in Nat
<1>1. r \in RiskRows
  BY DEF RiskInv
<1>2. r.session \in ReplayDays
  BY <1>1 DEF RiskRows
<1> QED
  BY <1>2, FlywheelAssumption

\* What initialize_session and the order to arm make of the row.
LEMMA ArmedRow ==
  ASSUME RiskInv, NEW c \in Cells
  PROVE  /\ Armed(c) \subseteq RiskRows
         /\ \A q \in Armed(c) : q.session = session
         /\ \A q \in Armed(c) : q.state = "ARMED" =>
              c \in arm \/ \E r \in risk[c] : r.session = session
<1>1. /\ Initialized(c) \subseteq RiskRows
      /\ \A q \in Initialized(c) : q.session = session
      /\ \A q \in Initialized(c) :
           q.state = "ARMED" => \E r \in risk[c] : r.session = session
  BY DEF Initialized, RiskInv, RiskRows, States
<1>2. CASE c \notin arm
  BY <1>1, <1>2 DEF Armed
<1>3. CASE c \in arm
  <2>1. \A r \in Initialized(c) :
          /\ [r EXCEPT !.state = "ARMED"] \in RiskRows
          /\ [r EXCEPT !.state = "ARMED"].session = session
    BY <1>1 DEF RiskRows, States
  <2> QED
    BY <1>1, <1>3, <2>1 DEF Armed
<1> QED
  BY <1>2, <1>3

\* Where a row is only changed in its state, or not at all, nothing rewinds.
LEMMA SameSessions ==
  ASSUME RiskInv, risk' \in [Cells -> SUBSET RiskRows], session' \in ReplayDays,
         \A c \in Cells : \A q \in risk'[c] : \E r \in risk[c] : q.session = r.session
  PROVE  RiskInv' /\ NeverRewinds
<1>1. \A c \in Cells : \A r \in risk[c], q \in risk'[c] : q.session = r.session
  BY DEF RiskInv
<1>2. \A c \in Cells : \A r, q \in risk'[c] : r.session = q.session
  BY <1>1
<1>3. \A c \in Cells : \A r \in risk[c] : Opens[r.session] \in Nat
  BY RowsOpen
<1>4. NeverRewinds
  BY <1>1, <1>3 DEF NeverRewinds
<1> QED
  BY <1>2, <1>4 DEF RiskInv

LEMMA RiskStep == RiskInv /\ [FlywheelNext]_flywheelVars => RiskInv' /\ NeverRewinds
<1> SUFFICES ASSUME RiskInv, [FlywheelNext]_flywheelVars PROVE RiskInv' /\ NeverRewinds
  OBVIOUS
<1>1. CASE risk' = risk /\ session' \in ReplayDays
  BY <1>1, SameSessions DEF RiskInv
<1>2. CASE \E c \in Cells : InitializeCell(c) /\ risk' = [risk EXCEPT ![c] = Armed(c)] /\ ~Audited(c)
  <2> PICK c \in Cells : InitializeCell(c) /\ risk' = [risk EXCEPT ![c] = Armed(c)] /\ ~Audited(c)
    BY <1>2
  <2>1. session' = session
    BY DEF InitializeCell
  <2>2. /\ Armed(c) \subseteq RiskRows
        /\ \A q \in Armed(c) : q.session = session
        /\ \A q \in Armed(c) : q.state = "ARMED" =>
             c \in arm \/ \E r \in risk[c] : r.session = session
    BY ArmedRow
  <2>3. \A d \in Cells : risk'[d] = IF d = c THEN Armed(c) ELSE risk[d]
    BY DEF RiskInv
  <2>4. RiskInv'
    <3>1. risk' \in [Cells -> SUBSET RiskRows]
      BY <2>2 DEF RiskInv
    <3> QED
      BY <2>1, <2>2, <2>3, <3>1 DEF RiskInv
  <2>5. \A d \in Cells : \A r \in risk[d] : Opens[r.session] \in Nat
    BY RowsOpen
  <2>6. ASSUME NEW d \in Cells, NEW r \in risk[d], NEW q \in risk'[d],
               Opens[q.session] < Opens[r.session]
        PROVE  <<q.session, d>> \notin known /\ (q.state = "ARMED" => d \in arm)
    <3>1. CASE d # c
      <4>1. q.session = r.session
        BY <3>1, <2>3 DEF RiskInv
      <4> QED
        BY <4>1, <2>5, <2>6
    <3>2. CASE d = c
      <4>1. q.session = session /\ r.session # session /\ Opens[r.session] > Opens[session]
        BY <3>2, <2>2, <2>3, <2>5, <2>6, FlywheelAssumption DEF RiskInv
      <4>2. <<session, c>> \notin known
        BY <3>2, <4>1 DEF Audited
      <4>3. \A u \in risk[c] : u.session # session
        BY <3>2, <4>1 DEF RiskInv
      <4> QED
        BY <3>2, <4>1, <4>2, <4>3, <2>2, <2>3
    <3> QED
      BY <3>1, <3>2
  <2> QED
    BY <2>4, <2>6 DEF NeverRewinds
<1>3. CASE \E c \in Cells : StepCell(c) /\ CanTrade(c)
             /\ risk' = [risk EXCEPT ![c] = {Halted(r) : r \in @}]
  <2> PICK c \in Cells : StepCell(c) /\ CanTrade(c)
             /\ risk' = [risk EXCEPT ![c] = {Halted(r) : r \in @}]
    BY <1>3
  <2>1. session' = session
    BY DEF StepCell, replayVars
  <2>2. \A r \in risk[c] : /\ Halted(r) \in RiskRows
                           /\ Halted(r).session = r.session
    BY DEF RiskInv, RiskRows, States, Halted
  <2>3. \A d \in Cells :
          risk'[d] = IF d = c THEN {Halted(r) : r \in risk[c]} ELSE risk[d]
    BY DEF RiskInv
  <2>4. risk' \in [Cells -> SUBSET RiskRows]
    BY <2>2 DEF RiskInv
  <2>5. \A d \in Cells : \A q \in risk'[d] : \E r \in risk[d] : q.session = r.session
    <3> SUFFICES ASSUME NEW d \in Cells, NEW q \in risk'[d]
                 PROVE  \E r \in risk[d] : q.session = r.session
      OBVIOUS
    <3>1. CASE d = c
      <4>1. risk'[d] = {Halted(r) : r \in risk[c]}
        BY <3>1, <2>3, Zenon
      <4>2. q \in {Halted(r) : r \in risk[c]}
        BY <4>1
      <4>3. PICK r \in risk[c] : q = Halted(r)
        BY <4>2, Zenon
      <4> QED
        BY <3>1, <4>3, <2>2
    <3>2. CASE d # c
      BY <3>2, <2>3
    <3> QED
      BY <3>1, <3>2
  <2> QED
    BY <2>1, <2>4, <2>5, SameSessions DEF RiskInv
<1>4. ASSUME FlywheelNext
      PROVE  \/ risk' = risk /\ session' \in ReplayDays
             \/ \E c \in Cells : InitializeCell(c) /\ risk' = [risk EXCEPT ![c] = Armed(c)]
                                   /\ ~Audited(c)
             \/ \E c \in Cells : StepCell(c) /\ CanTrade(c)
                  /\ risk' = [risk EXCEPT ![c] = {Halted(r) : r \in @}]
  <2>1. CASE StartRun \/ Finish \/ FailRun
    BY <2>1 DEF StartRun, Finish, FailRun, Ends, cellVars, RiskInv
  <2>2. CASE \E c \in Cells : InitializeCell(c)
    BY <2>2 DEF InitializeCell, RiskInv
  <2>3. CASE \E c \in Cells : StepCell(c)
    BY <2>3 DEF StepCell, replayVars, RiskInv
  <2>4. CASE \E s \in ReplayDays, time \in Times, cells \in ArmLists : TakeSlice(s, time, cells)
    BY <2>4 DEF TakeSlice, cellVars
  <2>5. CASE \E c \in Children, at \in Times : GenesisElsewhere(c, at)
    BY <2>5 DEF GenesisElsewhere, replayVars, RiskInv
  <2>6. CASE \E c \in Cells : Operate(c, "PAUSED") \/ Operate(c, "RETIRED")
    BY <2>6 DEF Operate, replayVars, RiskInv
  <2> QED
    BY <1>4, <2>1, <2>2, <2>3, <2>4, <2>5, <2>6 DEF FlywheelNext
<1>5. CASE UNCHANGED flywheelVars
  BY <1>5, <1>1 DEF flywheelVars, cellVars, replayVars, RiskInv
<1> QED
  BY <1>1, <1>2, <1>3, <1>4, <1>5

\* A cell is only ever taken back to a session it has never been in, and it
\* begins that one disarmed unless it was ordered to be armed.
THEOREM NeverRewindsTheorem == FlywheelSpec => AuditsNeverRewind
<1>1. RiskInv /\ [FlywheelNext]_flywheelVars => [NeverRewinds]_flywheelVars
  BY RiskStep
<1>2. [NeverRewinds]_flywheelVars => [\A c \in Cells : \A r \in risk[c], q \in risk'[c] :
       Opens[q.session] < Opens[r.session] =>
         <<q.session, c>> \notin known /\ (q.state = "ARMED" => c \in arm)]_flywheelVars
  BY DEF NeverRewinds
<1> QED
  BY <1>1, <1>2, RiskInit, RiskStep, PTL DEF FlywheelSpec, AuditsNeverRewind

-----------------------------------------------------------------------------
(* Types. *)

\* A cell has one row of risk state, of a session it is known in, and was born
\* once.
OneRow ==
  /\ known \subseteq ReplayDays \X Cells
  /\ \A c \in Cells : \A r, q \in risk[c] : r = q
  /\ \A c \in Cells : \A x, y \in born[c] : x = y
  /\ \A c \in Cells : \A r \in risk[c] : <<r.session, c>> \in known

LEMMA OneRowInit == FlywheelInit => OneRow
BY DEF FlywheelInit, OneRow

LEMMA OneRowStep ==
  QuarantineInv /\ RiskInv /\ OneRow /\ [FlywheelNext]_flywheelVars => OneRow'
<1> SUFFICES ASSUME QuarantineInv, RiskInv, OneRow, [FlywheelNext]_flywheelVars
             PROVE  OneRow'
  OBVIOUS
<1>1. CASE UNCHANGED <<known, risk, born>>
  BY <1>1 DEF OneRow
<1>2. ASSUME NEW d \in Cells, NEW at, born' = [born EXCEPT ![d] = {at}],
             UNCHANGED <<known, risk>>
      PROVE  OneRow'
  BY <1>2 DEF OneRow, QuarantineInv
<1>3. ASSUME NEW c \in Cells, StepCell(c)
      PROVE  OneRow'
  <2>1. CASE UNCHANGED <<status, born, risk>>
    BY <1>3, <2>1, <1>1 DEF StepCell
  <2>2. CASE UNCHANGED <<status, born>> /\ risk' = [risk EXCEPT ![c] = {Halted(r) : r \in @}]
    <3>1. \A r \in risk[c] : Halted(r).session = r.session
      BY DEF RiskInv, RiskRows, Halted
    <3>2. \A d \in Cells : risk'[d] = IF d = c THEN {Halted(r) : r \in risk[c]} ELSE risk[d]
      BY <2>2 DEF RiskInv
    <3>. PICK H : H = {Halted(r) : r \in risk[c]}
      OBVIOUS
    <3>a. \A r, q \in H : r = q
      BY DEF OneRow
    <3>b. \A r \in H : <<r.session, c>> \in known
      BY <3>1 DEF OneRow
    <3>c. \A d \in Cells : risk'[d] = IF d = c THEN H ELSE risk[d]
      BY <3>2
    <3>3. \A d \in Cells : \A r, q \in risk'[d] : r = q
      BY <3>a, <3>c DEF OneRow
    <3>4. \A d \in Cells : \A r \in risk'[d] : <<r.session, d>> \in known
      BY <3>b, <3>c DEF OneRow
    <3>. QED  BY <1>3, <2>2, <3>3, <3>4 DEF OneRow, StepCell
  <2>3. CASE UNCHANGED risk /\ \E d \in Children : Genesis(d, previous)
    <3>1. Children \subseteq Cells
      BY FlywheelAssumption
    <3>. QED  BY <1>3, <2>3, <3>1, <1>2 DEF StepCell, Genesis
  <2>. QED  BY <1>3, <2>1, <2>2, <2>3 DEF StepCell
<1>4. ASSUME NEW c \in Cells, InitializeCell(c)
      PROVE  OneRow'
  <2>1. born' = born
    BY <1>4 DEF InitializeCell
  <2>2. CASE UNCHANGED <<known, risk>>
    BY <2>1, <2>2, <1>1
  <2>3. CASE known' = known \cup {<<session, c>>} /\ risk' = [risk EXCEPT ![c] = Armed(c)]
    <3>1. \A d \in Cells : risk'[d] = IF d = c THEN Armed(c) ELSE risk[d]
      BY <2>3 DEF RiskInv
    <3>2. \A r, q \in Initialized(c) : r = q
      BY DEF OneRow, Initialized
    <3>3. \A r, q \in Armed(c) : r = q
      BY <3>2 DEF Armed
    <3>4. \A q \in Armed(c) : q.session = session
      BY ArmedRow
    <3>5. session \in ReplayDays
      BY DEF RiskInv
    <3>6. known' \subseteq ReplayDays \X Cells
      BY <2>3, <3>5 DEF OneRow
    <3>7. \A d \in Cells : \A r, q \in risk'[d] : r = q
      BY <3>1, <3>3 DEF OneRow
    <3>8. \A d \in Cells : \A r \in risk'[d] : <<r.session, d>> \in known'
      <4>1. \A r \in Armed(c) : <<r.session, c>> \in known'
        BY <2>3, <3>4
      <4>2. \A d \in Cells : \A r \in risk[d] : <<r.session, d>> \in known'
        BY <2>3 DEF OneRow
      <4>. HIDE DEF Armed
      <4>. QED  BY <3>1, <4>1, <4>2
    <3>. QED  BY <2>1, <3>6, <3>7, <3>8 DEF OneRow
  <2>. QED  BY <1>4, <2>2, <2>3 DEF InitializeCell
<1>5. CASE StartRun \/ Finish \/ FailRun
  BY <1>5, <1>1 DEF StartRun, Finish, FailRun, Ends, cellVars
<1>6. ASSUME NEW s, NEW time, NEW cells, TakeSlice(s, time, cells)
      PROVE  OneRow'
  BY <1>6, <1>1 DEF TakeSlice, cellVars
<1>7. ASSUME NEW c \in Children, NEW at, GenesisElsewhere(c, at)
      PROVE  OneRow'
  <2>1. c \in Cells
    BY FlywheelAssumption
  <2>. QED  BY <1>7, <2>1, <1>2 DEF GenesisElsewhere, Genesis
<1>8. ASSUME NEW c \in Cells, Operate(c, "PAUSED") \/ Operate(c, "RETIRED")
      PROVE  OneRow'
  BY <1>8, <1>1 DEF Operate
<1>9. CASE UNCHANGED flywheelVars
  BY <1>9, <1>1 DEF flywheelVars, cellVars
<1>. QED  BY <1>3, <1>4, <1>5, <1>6, <1>7, <1>8, <1>9 DEF FlywheelNext

LEMMA OneAtMost ==
  ASSUME NEW S, \A x, y \in S : x = y PROVE Cardinality(S) <= 1
<1>1. CASE S = {}
  BY <1>1, FS_EmptySet
<1>2. ASSUME NEW x \in S PROVE Cardinality(S) <= 1
  <2>1. S = {x}
    OBVIOUS
  <2>. QED  BY <2>1, FS_Singleton
<1>. QED  BY <1>1, <1>2

LEMMA TypesOfSessions == QuarantineInv /\ RiskInv /\ OneRow => FlywheelTypeOK
<1>. SUFFICES ASSUME QuarantineInv, RiskInv, OneRow PROVE FlywheelTypeOK
  OBVIOUS
<1>1. \A c \in Cells : Cardinality(risk[c]) <= 1 /\ Cardinality(born[c]) <= 1
  BY OneAtMost DEF OneRow
<1>2. \A c \in Cells : \A r \in risk[c] : r.state \in {"DISARMED", "ARMED", "HALTED_HARD"}
  BY DEF RiskInv, RiskRows, States
<1>. QED  BY <1>1, <1>2 DEF FlywheelTypeOK, QuarantineInv, OneRow

\* Every variable of the sessions holds a value of its domain; the state of a
\* cell's risk is that of a session it is known in.
THEOREM SessionTypesCorrect == FlywheelSpec => []FlywheelTypeOK
  BY TypesOfSessions, QuarantineInit, QuarantineStep, RiskInit, RiskStep, OneRowInit,
     OneRowStep, PTL DEF FlywheelSpec

\* So it is where the treasury and the flywheel are run side by side.
THEOREM CapitalTypesCorrect == MCSpec => []CapitalTypeOK
<1>1. MCInit => Init /\ FlywheelInit
  BY DEF MCInit
<1>2. [MCNext]_<<vars, flywheelVars, scenario>> =>
        [Next]_vars /\ [FlywheelNext]_flywheelVars
  BY DEF MCNext
<1>3. MCSpec => Spec /\ FlywheelSpec
  BY <1>1, <1>2, PTL DEF MCSpec, Spec, FlywheelSpec
<1>. QED  BY <1>3, TypeCorrect, SessionTypesCorrect, PTL DEF CapitalTypeOK
=============================================================================
