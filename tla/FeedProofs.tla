------------------------------ MODULE FeedProofs ------------------------------
(***************************************************************************)
(* Proofs about FeedPoller: what a round leaves in the ledger.             *)
(*                                                                         *)
(* A poller is looked at as one record.  Whatever it does it becomes some  *)
(* other record, while the committed rows only grow under it; the          *)
(* invariant says of the record what it carries: of a document whose facts *)
(* it has written or parsed, every fact is written, parsed or in the       *)
(* ledger, as it is or as a row that is the same event.                    *)
(***************************************************************************)
EXTENDS FeedPoller, SumTheorems

Ingesting == {"FIND", "LOOK", "STORE", "EVENT"}
Polling == Ingesting \cup {"GET"}

PollerStates ==
  [phase : PhaseType, round : Seq(Seq(Urls)), requests : Seq([url : Urls, dated : BOOLEAN]),
   attempt : 0..Max429Retries, payloads : Seq(Facts), written : RowSets, savepoint : RowSets]

\* A poller.
At(p) ==
  [phase |-> phase[p], round |-> round[p], requests |-> requests[p], attempt |-> attempt[p],
   payloads |-> payloads[p], written |-> written[p], savepoint |-> savepoint[p]]

Becomes(p, st) ==
  /\ phase' = [phase EXCEPT ![p] = st.phase] /\ round' = [round EXCEPT ![p] = st.round]
  /\ requests' = [requests EXCEPT ![p] = st.requests]
  /\ attempt' = [attempt EXCEPT ![p] = st.attempt]
  /\ payloads' = [payloads EXCEPT ![p] = st.payloads]
  /\ written' = [written EXCEPT ![p] = st.written]
  /\ savepoint' = [savepoint EXCEPT ![p] = st.savepoint]

Left(how, rows) ==
  [phase |-> how, round |-> << >>, requests |-> << >>, attempt |-> 0, payloads |-> << >>,
   written |-> rows, savepoint |-> Nothing]

Begun(adapters, rows) ==
  [phase |-> "GET", round |-> adapters,
   requests |-> [i \in DOMAIN Head(adapters) |-> Get(Head(adapters)[i])], attempt |-> 0,
   payloads |-> << >>, written |-> rows, savepoint |-> rows]

-----------------------------------------------------------------------------
(* The invariant. *)

Elems(s) == {s[i] : i \in DOMAIN s}
Stored == {f \in Facts : ledger[f] > 0}
Carried(st) == st.written.events \cup Elems(st.payloads)

\* An event is there: as this fact or as one that is the same event.
Covers(E, g) == \E h \in E : EventKey(h) = EventKey(g)

SameDocument(f, g) == f.uri = g.uri /\ f.bytes = g.bytes

\* The documents of some facts are there as a whole.
Whole(E, D) == \A f \in E, g \in Facts : SameDocument(f, g) => Covers(D, g)

\* Rows of an open transaction, over the artifacts and the contents on disk.
Backed(rows, A, D) ==
  rows.artifacts \subseteq D /\ \A f \in rows.events : f.bytes \in A \cup rows.artifacts

\* What is set at which step of a round.
Fits(st) ==
  /\ st \in PollerStates
  /\ \A i \in DOMAIN st.round : st.round[i] # << >>
  /\ st.phase \in Polling => st.round # << >>
  /\ st.phase = "GET" => st.requests # << >>
  /\ st.phase \in Ingesting => st.payloads # << >>
  /\ st.phase \notin Polling => st.payloads = << >> /\ st.savepoint = Nothing
  /\ st.phase = "IDLE" => st.written = Nothing

\* What it carries, over the facts, the artifacts and the contents that are there.
Holds(st, S, A, D) ==
  /\ Backed(st.written, A, D) /\ Backed(st.savepoint, A, D)
  /\ st.savepoint.events \subseteq st.written.events
  /\ Whole(st.savepoint.events, S \cup st.savepoint.events)
  /\ Whole(Carried(st), S \cup Carried(st))
  /\ st.phase = "EVENT" => Head(st.payloads).bytes \in A \cup st.written.artifacts

\* A poller that has written a fact, or did not find it when it looked.
Seeks(st, f) ==
  \/ f \in st.written.events
  \/ st.phase \in {"LOOK", "STORE", "EVENT"} /\ Head(st.payloads) = f

Seeking(f) == {p \in Pollers : Seeks(At(p), f)}

\* Every row of a fact has a poller of its own.
Counted == \A f \in Facts : ledger[f] + Cardinality(Seeking(f)) <= Cardinality(Pollers)

\* The document a poller's validators of a URL are of.
Validated(u, v, f) == f.uri = u /\ f.bytes = Content[u][v]

\* While no round has failed they are of documents it carries or that are stored.
Valid ==
  ~failed => \A p \in Pollers, u \in Urls :
    phase[p] # "RAISED" /\ cache[p][u] > 0 =>
      \A f \in Facts : Validated(u, cache[p][u], f) => Covers(Stored \cup Carried(At(p)), f)

Ledger ==
  /\ \A f \in Stored : f.bytes \in artifacts
  /\ artifacts \subseteq storage
  /\ Whole(Stored, Stored)

Pollable == \A p \in Pollers : Fits(At(p)) /\ Holds(At(p), Stored, artifacts, storage)

Offered == \A u \in Urls : published[u] <= Len(Content[u])

FeedInv == TypeOK /\ Offered /\ Pollable /\ Ledger /\ Counted /\ Valid

-----------------------------------------------------------------------------
(* Sequences. *)

LEMMA TakenFirst ==
  ASSUME NEW S, NEW s \in Seq(S), s # << >>
  PROVE  /\ Head(s) \in S /\ Tail(s) \in Seq(S) /\ Elems(s) \in SUBSET S
         /\ Elems(s) = {Head(s)} \cup Elems(Tail(s))
         /\ Len(s) = 1 => Elems(s) = {Head(s)}
         /\ Len(s) # 1 => Tail(s) # << >>
         /\ \A i \in DOMAIN Tail(s) : i + 1 \in DOMAIN s /\ Tail(s)[i] = s[i + 1]
<1>1. Len(s) \in Nat /\ Len(s) >= 1 /\ DOMAIN s = 1..Len(s)
  OBVIOUS
<1>2. Head(s) = s[1] /\ Tail(s) \in Seq(S) /\ Len(Tail(s)) = Len(s) - 1
      /\ \A i \in 1..(Len(s) - 1) : Tail(s)[i] = s[i + 1]
  BY <1>1
<1>3. DOMAIN Tail(s) = 1..(Len(s) - 1)
  BY <1>1, <1>2
<1>4. \A i \in DOMAIN s : s[i] \in S
  BY <1>1
<1>5. ASSUME NEW x \in Elems(s) PROVE x = Head(s) \/ x \in Elems(Tail(s))
  <2>1. PICK i \in 1..Len(s) : x = s[i]
    BY <1>1 DEF Elems
  <2>2. CASE i = 1
    BY <2>1, <2>2, <1>2
  <2>3. CASE i # 1
    <3>1. i - 1 \in 1..(Len(s) - 1) /\ (i - 1) + 1 = i
      BY <1>1, <2>3
    <3>2. Tail(s)[i - 1] = x
      BY <1>2, <2>1, <3>1
    <3>. QED  BY <1>3, <3>1, <3>2 DEF Elems
  <2>. QED  BY <2>2, <2>3
<1>6. ASSUME NEW x \in Elems(Tail(s)) PROVE x \in Elems(s)
  <2>1. PICK i \in 1..(Len(s) - 1) : x = Tail(s)[i]
    BY <1>3 DEF Elems
  <2>2. i + 1 \in DOMAIN s /\ x = s[i + 1]
    BY <1>1, <1>2, <2>1
  <2>. QED  BY <2>2 DEF Elems
<1>7. Head(s) \in Elems(s) /\ Head(s) \in S
  BY <1>1, <1>2, <1>4 DEF Elems
<1>8. Elems(s) = {Head(s)} \cup Elems(Tail(s))
  BY <1>5, <1>6, <1>7
<1>9. Elems(s) \in SUBSET S
  BY <1>4 DEF Elems
<1>10. Len(s) = 1 => Elems(s) = {Head(s)}
  <2>1. Len(s) = 1 => DOMAIN s = {1}
    BY <1>1
  <2>. QED  BY <1>2, <2>1 DEF Elems
<1>11. Len(s) # 1 => Tail(s) # << >>
  <2>1. Len(s) # 1 => Len(Tail(s)) # 0
    BY <1>1, <1>2
  <2>. QED  BY <2>1
<1>12. \A i \in DOMAIN Tail(s) : i + 1 \in DOMAIN s /\ Tail(s)[i] = s[i + 1]
  BY <1>1, <1>2, <1>3
<1>. QED  BY <1>2, <1>7, <1>8, <1>9, <1>10, <1>11, <1>12

LEMMA Joined ==
  ASSUME NEW S, NEW s \in Seq(S), NEW t \in Seq(S)
  PROVE  /\ s \o t \in Seq(S) /\ Elems(s \o t) = Elems(s) \cup Elems(t)
         /\ s \o t = << >> => s = << >> /\ t = << >>
<1>1. /\ s \o t \in Seq(S) /\ Len(s \o t) = Len(s) + Len(t)
      /\ Len(s) \in Nat /\ Len(t) \in Nat
      /\ DOMAIN s = 1..Len(s) /\ DOMAIN t = 1..Len(t) /\ DOMAIN (s \o t) = 1..Len(s \o t)
  OBVIOUS
<1>2. \A i \in 1..(Len(s) + Len(t)) :
        (s \o t)[i] = IF i <= Len(s) THEN s[i] ELSE t[i - Len(s)]
  BY <1>1
<1>3. ASSUME NEW x \in Elems(s \o t) PROVE x \in Elems(s) \cup Elems(t)
  <2>1. PICK i \in 1..(Len(s) + Len(t)) : x = (s \o t)[i]
    BY <1>1 DEF Elems
  <2>2. CASE i <= Len(s)
    <3>1. i \in DOMAIN s /\ x = s[i]
      BY <1>1, <1>2, <2>1, <2>2
    <3>. QED  BY <3>1 DEF Elems
  <2>3. CASE ~(i <= Len(s))
    <3>1. i - Len(s) \in DOMAIN t /\ x = t[i - Len(s)]
      BY <1>1, <1>2, <2>1, <2>3
    <3>. QED  BY <3>1 DEF Elems
  <2>. QED  BY <2>2, <2>3
<1>4. ASSUME NEW x \in Elems(s) PROVE x \in Elems(s \o t)
  <2>1. PICK i \in 1..Len(s) : x = s[i]
    BY <1>1 DEF Elems
  <2>2. i \in DOMAIN (s \o t) /\ (s \o t)[i] = x
    BY <1>1, <1>2, <2>1
  <2>. QED  BY <2>2 DEF Elems
<1>5. ASSUME NEW x \in Elems(t) PROVE x \in Elems(s \o t)
  <2>1. PICK i \in 1..Len(t) : x = t[i]
    BY <1>1 DEF Elems
  <2>2. i + Len(s) \in DOMAIN (s \o t) /\ (s \o t)[i + Len(s)] = t[(i + Len(s)) - Len(s)]
        /\ (i + Len(s)) - Len(s) = i
    BY <1>1, <1>2
  <2>. QED  BY <2>1, <2>2 DEF Elems
<1>6. s \o t = << >> => s = << >> /\ t = << >>
  BY <1>1
<1>. QED  BY <1>1, <1>3, <1>4, <1>5, <1>6

LEMMA IsSequence ==
  ASSUME NEW S, NEW n \in Nat, NEW s \in [1..n -> S]
  PROVE  s \in Seq(S) /\ Len(s) = n /\ (n # 0 => s # << >>)
<1>1. s \in Seq(S) /\ Len(s) = n
  OBVIOUS
<1>. QED  BY <1>1

LEMMA NoElems == Elems(<< >>) = {}
BY DEF Elems

-----------------------------------------------------------------------------
(* Facts and what covers them. *)

LEMMA FactIs ==
  /\ \A f \in Facts : \E u \in Urls : \E v \in 1..Len(Content[u]) :
       \E i \in 1..Len(Rows[Content[u][v]]) :
         f = [uri |-> u, bytes |-> Content[u][v], row |-> i]
  /\ \A u \in Urls : \A v \in 1..Len(Content[u]) : \A i \in 1..Len(Rows[Content[u][v]]) :
       [uri |-> u, bytes |-> Content[u][v], row |-> i] \in Facts
<1>. DEFINE fact(u, v, i) == [uri |-> u, bytes |-> Content[u][v], row |-> i]
            Of(u, v) == {fact(u, v, i) : i \in 1..Len(Rows[Content[u][v]])}
            FromUrl(u) == UNION {Of(u, v) : v \in 1..Len(Content[u])}
<1>1. Facts = UNION {FromUrl(u) : u \in Urls}
  BY DEF Facts
<1>2. \A f \in Facts : \E u \in Urls : f \in FromUrl(u)
  <2>. HIDE DEF FromUrl
  <2>. QED  BY <1>1
<1>3. \A u \in Urls : \A f \in FromUrl(u) : \E v \in 1..Len(Content[u]) : f \in Of(u, v)
  <2>. HIDE DEF Of
  <2>. QED  OBVIOUS
<1>4. \A u \in Urls : FromUrl(u) \subseteq Facts
  <2>. HIDE DEF FromUrl
  <2>. QED  BY <1>1
<1>5. \A u \in Urls : \A v \in 1..Len(Content[u]) : Of(u, v) \subseteq FromUrl(u)
  <2>. HIDE DEF Of
  <2>. QED  OBVIOUS
<1>6. \A f \in Facts : \E u \in Urls : \E v \in 1..Len(Content[u]) :
        \E i \in 1..Len(Rows[Content[u][v]]) : f = fact(u, v, i)
  <2>. TAKE f \in Facts
  <2>1. PICK u \in Urls : f \in FromUrl(u)
    BY <1>2
  <2>2. PICK v \in 1..Len(Content[u]) : f \in Of(u, v)
    BY <1>3, <2>1
  <2>3. \E i \in 1..Len(Rows[Content[u][v]]) : f = fact(u, v, i)
    BY <2>2
  <2>. QED  BY <2>2, <2>3
<1>7. \A u \in Urls : \A v \in 1..Len(Content[u]) : \A i \in 1..Len(Rows[Content[u][v]]) :
        fact(u, v, i) \in Of(u, v)
  OBVIOUS
<1>. QED  BY <1>4, <1>5, <1>6, <1>7

\* The facts of a document are all facts of its bytes at its URL.
LEMMA FactsOfDocument ==
  ASSUME NEW u \in Urls, NEW v \in 1..Len(Content[u])
  PROVE  /\ FactsOf(u, Content[u][v]) \in Seq(Facts)
         /\ \A f \in Facts : Validated(u, v, f) <=> f \in Elems(FactsOf(u, Content[u][v]))
<1>. DEFINE b == Content[u][v]
            fs == FactsOf(u, b)
<1>1. b \in Bytes /\ Rows[b] \in Seq(FeedRows)
  BY FeedAssumption
<1>2. DOMAIN Rows[b] = 1..Len(Rows[b]) /\ Len(Rows[b]) \in Nat
  BY <1>1
<1>3. fs = [i \in 1..Len(Rows[b]) |-> [uri |-> u, bytes |-> b, row |-> i]]
  BY <1>2 DEF FactsOf
<1>4. \A i \in 1..Len(Rows[b]) : fs[i] \in Facts
  <2>. TAKE i \in 1..Len(Rows[b])
  <2>1. fs[i] = [uri |-> u, bytes |-> Content[u][v], row |-> i]
    BY <1>3
  <2>2. [uri |-> u, bytes |-> Content[u][v], row |-> i] \in Facts
    BY FactIs
  <2>. QED  BY <2>1, <2>2
<1>5. fs \in Seq(Facts)
  <2>1. fs \in [1..Len(Rows[b]) -> Facts]
    <3>1. fs = [i \in 1..Len(Rows[b]) |-> fs[i]]
      BY <1>3
    <3>. HIDE DEF fs
    <3>. QED  BY <1>4, <3>1
  <2>. HIDE DEF fs, b
  <2>. QED  BY <1>2, <2>1, IsSequence
<1>6. ASSUME NEW f \in Facts, Validated(u, v, f) PROVE f \in Elems(fs)
  <2>0. PICK x \in Urls : \E y \in 1..Len(Content[x]) : \E i \in 1..Len(Rows[Content[x][y]]) :
          f = [uri |-> x, bytes |-> Content[x][y], row |-> i]
    BY FactIs
  <2>1. PICK y \in 1..Len(Content[x]) : \E i \in 1..Len(Rows[Content[x][y]]) :
          f = [uri |-> x, bytes |-> Content[x][y], row |-> i]
    BY <2>0
  <2>2. PICK i \in 1..Len(Rows[Content[x][y]]) :
          f = [uri |-> x, bytes |-> Content[x][y], row |-> i]
    BY <2>1
  <2>3. x = u /\ Content[x][y] = b
    BY <1>6, <2>2 DEF Validated
  <2>4. i \in 1..Len(Rows[b]) /\ f = fs[i]
    BY <1>3, <2>2, <2>3
  <2>5. DOMAIN fs = 1..Len(Rows[b])
    BY <1>3
  <2>. QED  BY <2>4, <2>5 DEF Elems
<1>7. ASSUME NEW f \in Elems(fs) PROVE Validated(u, v, f)
  <2>1. PICK i \in 1..Len(Rows[b]) : f = fs[i]
    BY <1>3, <1>7 DEF Elems
  <2>. QED  BY <1>3, <2>1 DEF Validated
<1>. QED  BY <1>5, <1>6, <1>7

LEMMA CoversGrows ==
  ASSUME NEW E, NEW D, NEW g, E \subseteq D, Covers(E, g) PROVE Covers(D, g)
BY DEF Covers

\* What covers the events that cover another covers that one too.
LEMMA CoversAll ==
  ASSUME NEW E, NEW D, NEW g, Covers(E, g), \A h \in E : Covers(D, h) PROVE Covers(D, g)
BY DEF Covers

LEMMA WholeGrows ==
  ASSUME NEW E, NEW D, NEW G, Whole(E, D), D \subseteq G PROVE Whole(E, G)
BY CoversGrows DEF Whole

\* More facts, artifacts and contents under a poller take nothing from it.
LEMMA HoldsGrows ==
  ASSUME NEW st, NEW S, NEW A, NEW D, Holds(st, S, A, D),
         NEW T, NEW B, NEW G, S \subseteq T, A \subseteq B, D \subseteq G
  PROVE  Holds(st, T, B, G)
<1>1. Whole(st.savepoint.events, T \cup st.savepoint.events)
  <2>1. S \cup st.savepoint.events \subseteq T \cup st.savepoint.events
    OBVIOUS
  <2>. QED  BY <2>1, WholeGrows DEF Holds
<1>2. Whole(Carried(st), T \cup Carried(st))
  <2>1. S \cup Carried(st) \subseteq T \cup Carried(st)
    OBVIOUS
  <2>. QED  BY <2>1, WholeGrows DEF Holds
<1>. QED  BY <1>1, <1>2 DEF Holds, Backed

-----------------------------------------------------------------------------
(* A poller becomes another record. *)

LEMMA AtNext ==
  ASSUME TypeOK, NEW p \in Pollers, NEW st \in PollerStates, Becomes(p, st)
  PROVE  /\ At(p)' = st /\ \A q \in Pollers \ {p} : At(q)' = At(q)
         /\ phase' \in [Pollers -> PhaseType] /\ round' \in [Pollers -> Seq(Seq(Urls))]
         /\ requests' \in [Pollers -> Seq([url : Urls, dated : BOOLEAN])]
         /\ attempt' \in [Pollers -> 0..Max429Retries] /\ payloads' \in [Pollers -> Seq(Facts)]
         /\ written' \in [Pollers -> RowSets] /\ savepoint' \in [Pollers -> RowSets]
<1>1. /\ st.phase \in PhaseType /\ st.round \in Seq(Seq(Urls))
      /\ st.requests \in Seq([url : Urls, dated : BOOLEAN])
      /\ st.attempt \in 0..Max429Retries /\ st.payloads \in Seq(Facts)
      /\ st.written \in RowSets /\ st.savepoint \in RowSets
  BY DEF PollerStates
<1>2. st = [phase |-> st.phase, round |-> st.round, requests |-> st.requests,
            attempt |-> st.attempt, payloads |-> st.payloads, written |-> st.written,
            savepoint |-> st.savepoint]
  BY DEF PollerStates
<1>3. /\ phase \in [Pollers -> PhaseType] /\ round \in [Pollers -> Seq(Seq(Urls))]
      /\ requests \in [Pollers -> Seq([url : Urls, dated : BOOLEAN])]
      /\ attempt \in [Pollers -> 0..Max429Retries] /\ payloads \in [Pollers -> Seq(Facts)]
      /\ written \in [Pollers -> RowSets] /\ savepoint \in [Pollers -> RowSets]
  BY DEF TypeOK
<1>4. /\ phase'[p] = st.phase /\ round'[p] = st.round /\ requests'[p] = st.requests
      /\ attempt'[p] = st.attempt /\ payloads'[p] = st.payloads
      /\ written'[p] = st.written /\ savepoint'[p] = st.savepoint
  BY <1>3 DEF Becomes
<1>5. \A q \in Pollers \ {p} :
        /\ phase'[q] = phase[q] /\ round'[q] = round[q] /\ requests'[q] = requests[q]
        /\ attempt'[q] = attempt[q] /\ payloads'[q] = payloads[q]
        /\ written'[q] = written[q] /\ savepoint'[q] = savepoint[q]
  BY <1>3 DEF Becomes
<1>6. /\ phase' \in [Pollers -> PhaseType] /\ round' \in [Pollers -> Seq(Seq(Urls))]
      /\ requests' \in [Pollers -> Seq([url : Urls, dated : BOOLEAN])]
      /\ attempt' \in [Pollers -> 0..Max429Retries] /\ payloads' \in [Pollers -> Seq(Facts)]
      /\ written' \in [Pollers -> RowSets] /\ savepoint' \in [Pollers -> RowSets]
  BY <1>1, <1>3 DEF Becomes
<1>7. At(p)' = st
  BY <1>2, <1>4, Zenon DEF At
<1>8. \A q \in Pollers \ {p} : At(q)' = At(q)
  BY <1>5, Zenon DEF At
<1>. QED  BY <1>6, <1>7, <1>8

\* What a poller may become while nothing is committed: it carries whole
\* documents, claims no event that is in the ledger, and drops only what is
\* there as well, unless it has raised.
Advances(p, st) ==
  /\ Becomes(p, st) /\ Fits(st) /\ Holds(st, Stored, artifacts, storage')
  /\ \A f \in Facts : Seeks(st, f) => Seeks(At(p), f) \/ ledger[f] = 0
  /\ st.phase = "RAISED" \/
       \A f \in Facts : Covers(Stored \cup Carried(At(p)), f) => Covers(Stored \cup Carried(st), f)

\* It keeps the validators it had, or takes those of documents it carries.
Revalidates(p, st) ==
  /\ cache' \in [Pollers -> [Urls -> Nat]]
  /\ \A q \in Pollers \ {p} : cache'[q] = cache[q]
  /\ \A u \in Urls :
       \/ cache'[p][u] = cache[p][u]
       \/ st.phase = "RAISED"
       \/ \A f \in Facts : Validated(u, cache'[p][u], f) => Covers(Stored \cup Carried(st), f)

LEMMA AdvanceKeeps ==
  ASSUME FeedInv, NEW p \in Pollers, phase[p] # "RAISED",
         NEW st, Advances(p, st), Revalidates(p, st),
         storage \subseteq storage', storage' \subseteq Bytes,
         UNCHANGED <<published, artifacts, ledger, failed, restarts>>
  PROVE  FeedInv'
<1>0. st \in PollerStates /\ Becomes(p, st) /\ TypeOK
  BY DEF Advances, Fits, FeedInv
<1>1. At(p)' = st /\ \A q \in Pollers \ {p} : At(q)' = At(q)
  BY <1>0, AtNext
<1>2. TypeOK'
  <2>1. /\ phase' \in [Pollers -> PhaseType] /\ round' \in [Pollers -> Seq(Seq(Urls))]
        /\ requests' \in [Pollers -> Seq([url : Urls, dated : BOOLEAN])]
        /\ attempt' \in [Pollers -> 0..Max429Retries] /\ payloads' \in [Pollers -> Seq(Facts)]
        /\ written' \in [Pollers -> RowSets] /\ savepoint' \in [Pollers -> RowSets]
    BY <1>0, AtNext
  <2>2. cache' \in [Pollers -> [Urls -> Nat]]
    BY DEF Revalidates
  <2>. QED  BY <1>0, <2>1, <2>2 DEF TypeOK
<1>3. Offered'
  BY DEF FeedInv, Offered
<1>4. Stored' = Stored
  BY DEF Stored
<1>5. Pollable'
  <2>. SUFFICES ASSUME NEW q \in Pollers
                PROVE  Fits(At(q)') /\ Holds(At(q)', Stored, artifacts, storage')
    BY <1>4 DEF Pollable
  <2>1. CASE q = p
    BY <2>1, <1>1 DEF Advances
  <2>2. CASE q # p
    <3>1. At(q)' = At(q) /\ Fits(At(q)) /\ Holds(At(q), Stored, artifacts, storage)
      BY <2>2, <1>1 DEF FeedInv, Pollable
    <3>2. Holds(At(q), Stored, artifacts, storage')
      BY <3>1, HoldsGrows
    <3>. QED  BY <3>1, <3>2
  <2>. QED  BY <2>1, <2>2
<1>6. Ledger'
  BY <1>4 DEF FeedInv, Ledger
<1>7. Counted'
  <2>. SUFFICES ASSUME NEW f \in Facts
                PROVE  ledger[f] + Cardinality(Seeking(f)') <= Cardinality(Pollers)
    BY DEF Counted
  <2>1. IsFiniteSet(Pollers) /\ Seeking(f) \subseteq Pollers /\ Seeking(f)' \subseteq Pollers
    BY FeedAssumption DEF Seeking
  <2>2. /\ IsFiniteSet(Seeking(f)) /\ IsFiniteSet(Seeking(f)')
        /\ Cardinality(Seeking(f)) \in Nat /\ Cardinality(Seeking(f)') \in Nat
        /\ Cardinality(Pollers) \in Nat /\ Cardinality(Seeking(f)') <= Cardinality(Pollers)
    BY <2>1, FS_Subset, FS_CardinalityType
  <2>3. ledger[f] \in Nat
    BY <1>0 DEF TypeOK
  <2>4. CASE ledger[f] = 0
    BY <2>2, <2>4
  <2>5. CASE ledger[f] # 0
    <3>1. \A q \in Pollers : Seeks(At(q)', f) => Seeks(At(q), f)
      BY <1>1, <2>5 DEF Advances
    <3>2. Seeking(f)' \subseteq Seeking(f)
      BY <3>1 DEF Seeking
    <3>3. Cardinality(Seeking(f)') <= Cardinality(Seeking(f))
      BY <2>2, <3>2, FS_Subset
    <3>4. ledger[f] + Cardinality(Seeking(f)) <= Cardinality(Pollers)
      BY DEF FeedInv, Counted
    <3>. QED  BY <2>2, <2>3, <3>3, <3>4
  <2>. QED  BY <2>4, <2>5
<1>8. Valid'
  <2>. SUFFICES ASSUME ~failed, NEW q \in Pollers, NEW u \in Urls,
                       phase'[q] # "RAISED", cache'[q][u] > 0,
                       NEW f \in Facts, Validated(u, cache'[q][u], f)
                PROVE  Covers(Stored \cup Carried(At(q)'), f)
    BY <1>4 DEF Valid
  <2>1. \A r \in Pollers : phase[r] = At(r).phase /\ phase'[r] = (At(r)').phase
    BY DEF At
  <2>2. CASE q # p
    <3>1. At(q)' = At(q) /\ cache'[q] = cache[q] /\ phase[q] # "RAISED"
      BY <2>1, <2>2, <1>1 DEF Revalidates
    <3>. QED  BY <3>1 DEF FeedInv, Valid
  <2>3. CASE q = p
    <3>1. st.phase # "RAISED"
      BY <2>1, <2>3, <1>1
    <3>2. CASE cache'[p][u] = cache[p][u]
      <4>1. Covers(Stored \cup Carried(At(p)), f)
        BY <2>3, <3>2 DEF FeedInv, Valid
      <4>. QED  BY <1>1, <2>3, <3>1, <4>1 DEF Advances
    <3>3. CASE cache'[p][u] # cache[p][u]
      BY <1>1, <2>3, <3>1, <3>3 DEF Revalidates
    <3>. QED  BY <3>2, <3>3
  <2>. QED  BY <2>2, <2>3
<1>. QED  BY <1>2, <1>3, <1>5, <1>6, <1>7, <1>8 DEF FeedInv

-----------------------------------------------------------------------------
(* What leaves a poll. *)

LEMMA IsState ==
  ASSUME NEW step \in PhaseType, NEW adapters \in Seq(Seq(Urls)),
         NEW gets \in Seq([url : Urls, dated : BOOLEAN]), NEW n \in 0..Max429Retries,
         NEW facts \in Seq(Facts), NEW rows \in RowSets, NEW kept \in RowSets
  PROVE  [phase |-> step, round |-> adapters, requests |-> gets, attempt |-> n,
          payloads |-> facts, written |-> rows, savepoint |-> kept] \in PollerStates
<1>. DEFINE R == Seq(Seq(Urls))
            G == Seq([url : Urls, dated : BOOLEAN])
            F == Seq(Facts)
<1>1. adapters \in R /\ gets \in G /\ facts \in F
  OBVIOUS
<1>2. PollerStates = [phase : PhaseType, round : R, requests : G, attempt : 0..Max429Retries,
                      payloads : F, written : RowSets, savepoint : RowSets]
  BY DEF PollerStates
<1>. HIDE DEF R, G, F
<1>. QED  BY <1>1, <1>2

LEMMA NoneYet ==
  /\ << >> \in Seq(Seq(Urls)) /\ << >> \in Seq([url : Urls, dated : BOOLEAN])
  /\ << >> \in Seq(Facts) /\ 0 \in 0..Max429Retries
BY FeedAssumption

\* What the invariant says of one poller.
LEMMA OfPoller ==
  ASSUME FeedInv, NEW p \in Pollers
  PROVE  /\ phase[p] \in PhaseType /\ round[p] \in Seq(Seq(Urls))
         /\ requests[p] \in Seq([url : Urls, dated : BOOLEAN])
         /\ attempt[p] \in 0..Max429Retries /\ payloads[p] \in Seq(Facts)
         /\ written[p] \in RowSets /\ savepoint[p] \in RowSets
         /\ Fits(At(p)) /\ Holds(At(p), Stored, artifacts, storage)
         /\ artifacts \subseteq storage /\ storage \subseteq Bytes
BY DEF FeedInv, TypeOK, Pollable, Ledger

LEMMA NothingIsBacked ==
  ASSUME NEW A, NEW D
  PROVE  /\ Nothing \in RowSets /\ Nothing.events = {} /\ Nothing.artifacts = {}
         /\ Backed(Nothing, A, D) /\ \A G : Whole({}, G)
BY DEF Nothing, RowSets, Backed, Whole

\* A poller that carries nothing new, and covers what it covered, carries
\* whole documents.
LEMMA StaysWhole ==
  ASSUME FeedInv, NEW p \in Pollers, NEW E, E \subseteq Carried(At(p)),
         \A f \in Facts : Covers(Stored \cup Carried(At(p)), f) => Covers(Stored \cup E, f)
  PROVE  Whole(E, Stored \cup E)
<1>1. Whole(Carried(At(p)), Stored \cup Carried(At(p)))
  BY OfPoller DEF Holds
<1>. QED  BY <1>1 DEF Whole

\* An exception takes the rows back to the savepoint.
LEMMA RaisedKeeps ==
  ASSUME FeedInv, NEW p \in Pollers, phase[p] \in Polling, Raised(p),
         cache' \in [Pollers -> [Urls -> Nat]], \A q \in Pollers \ {p} : cache'[q] = cache[q],
         storage \subseteq storage', storage' \subseteq Bytes,
         UNCHANGED <<published, artifacts, ledger, failed, restarts>>
  PROVE  FeedInv'
<1>. DEFINE st == Left("RAISED", savepoint[p])
<1>1. Becomes(p, st)
  BY DEF Raised, Leave, Left, Becomes
<1>2. /\ st.phase = "RAISED" /\ st.round = << >> /\ st.requests = << >> /\ st.attempt = 0
      /\ st.payloads = << >> /\ st.written = savepoint[p] /\ st.savepoint = Nothing
  BY DEF Left
<1>3. Fits(st)
  <2>1. savepoint[p] \in RowSets /\ Nothing \in RowSets /\ "RAISED" \in PhaseType
    BY OfPoller, NothingIsBacked DEF PhaseType
  <2>2. st \in PollerStates
    BY <2>1, NoneYet, IsState, Zenon DEF Left
  <2>. QED  BY <1>2, <2>2 DEF Fits, Polling, Ingesting
<1>4. Carried(st) = savepoint[p].events
  BY <1>2, NoElems DEF Carried
<1>5. At(p).savepoint = savepoint[p] /\ At(p).written = written[p]
  BY DEF At
<1>6. /\ Backed(savepoint[p], artifacts, storage)
      /\ savepoint[p].events \subseteq written[p].events
      /\ Whole(savepoint[p].events, Stored \cup savepoint[p].events)
  BY <1>5, OfPoller DEF Holds
<1>7. Holds(st, Stored, artifacts, storage')
  <2>1. Backed(savepoint[p], artifacts, storage')
    BY <1>6 DEF Backed
  <2>. QED  BY <1>2, <1>4, <1>6, <2>1, NothingIsBacked DEF Holds
<1>8. \A f \in Facts : Seeks(st, f) => Seeks(At(p), f)
  BY <1>2, <1>5, <1>6 DEF Seeks
<1>9. Advances(p, st) /\ Revalidates(p, st) /\ phase[p] # "RAISED"
  BY <1>1, <1>2, <1>3, <1>7, <1>8 DEF Advances, Revalidates, Polling, Ingesting
<1>. HIDE DEF st
<1>. QED  BY <1>9, AdvanceKeeps

\* The poll returns: its rows stay, and cover what it carried.
Done(p, rows) ==
  IF Len(round[p]) = 1 THEN Left("RETURNED", rows) ELSE Begun(Tail(round[p]), rows)

LEMMA RestOfRound ==
  ASSUME NEW s \in Seq(Seq(Urls)), s # << >>, Len(s) # 1, \A i \in DOMAIN s : s[i] # << >>
  PROVE  /\ Tail(s) \in Seq(Seq(Urls)) /\ Tail(s) # << >>
         /\ \A i \in DOMAIN Tail(s) : Tail(s)[i] # << >>
<1>. DEFINE S == Seq(Urls)
<1>1. s \in Seq(S)
  OBVIOUS
<1>. HIDE DEF S
<1>2. /\ Tail(s) \in Seq(S) /\ (Len(s) # 1 => Tail(s) # << >>)
      /\ \A i \in DOMAIN Tail(s) : i + 1 \in DOMAIN s /\ Tail(s)[i] = s[i + 1]
  BY <1>1, TakenFirst
<1>. QED  BY <1>2 DEF S

LEMMA BegunFits ==
  ASSUME NEW adapters \in Seq(Seq(Urls)), adapters # << >>, NEW rows \in RowSets,
         \A i \in DOMAIN adapters : adapters[i] # << >>
  PROVE  Fits(Begun(adapters, rows))
<1>. DEFINE st == Begun(adapters, rows)
<1>1. Head(adapters) \in Seq(Urls) /\ Head(adapters) # << >>
  OBVIOUS
<1>. DEFINE urls == Head(adapters)
            T == [url : Urls, dated : BOOLEAN]
<1>2. DOMAIN urls = 1..Len(urls) /\ Len(urls) \in Nat /\ Len(urls) # 0
      /\ \A i \in 1..Len(urls) : urls[i] \in Urls
  BY <1>1
<1>3. st.requests = [i \in 1..Len(urls) |-> Get(urls[i])]
  BY <1>2 DEF Begun
<1>4. \A i \in 1..Len(urls) : Get(urls[i]) \in T
  BY <1>2 DEF Get
<1>5. st.requests \in [1..Len(urls) -> T]
  <2>. HIDE DEF T, st
  <2>. QED  BY <1>3, <1>4
<1>6. st.requests \in Seq(T) /\ st.requests # << >>
  <2>. HIDE DEF T, st, urls
  <2>. QED  BY <1>2, <1>5, IsSequence
<1>7. /\ st.phase = "GET" /\ st.round = adapters /\ st.attempt = 0
      /\ st.payloads = << >> /\ st.written = rows /\ st.savepoint = rows
  BY DEF Begun
<1>8. "GET" \in PhaseType
  BY DEF PhaseType
<1>9. st = [phase |-> "GET", round |-> adapters, requests |-> st.requests, attempt |-> 0,
            payloads |-> << >>, written |-> rows, savepoint |-> rows]
  BY DEF Begun
<1>. HIDE DEF st
<1>10. st \in PollerStates
  <2>. DEFINE gets == st.requests
  <2>1. gets \in Seq([url : Urls, dated : BOOLEAN])
    BY <1>6
  <2>. HIDE DEF gets
  <2>2. [phase |-> "GET", round |-> adapters, requests |-> gets, attempt |-> 0,
         payloads |-> << >>, written |-> rows, savepoint |-> rows] \in PollerStates
    BY <1>8, <2>1, NoneYet, IsState, Zenon
  <2>. QED  BY <1>9, <2>2 DEF gets
<1>. QED  BY <1>6, <1>7, <1>10 DEF Fits, Polling, Ingesting, st

LEMMA ReturnKeeps ==
  ASSUME FeedInv, NEW p \in Pollers, phase[p] \in Polling,
         NEW rows \in RowSets, PollReturns(p, rows), Backed(rows, artifacts, storage),
         rows.events \subseteq Carried(At(p)), \A f \in rows.events : Seeks(At(p), f),
         \A f \in Facts :
           Covers(Stored \cup Carried(At(p)), f) => Covers(Stored \cup rows.events, f),
         cache' \in [Pollers -> [Urls -> Nat]], \A q \in Pollers \ {p} : cache'[q] = cache[q],
         \A u \in Urls : \/ cache'[p][u] = cache[p][u]
                        \/ \A f \in Facts : ~Validated(u, cache'[p][u], f),
         UNCHANGED <<published, store, seen>>
  PROVE  FeedInv'
<1>. DEFINE st == Done(p, rows)
<1>1. Becomes(p, st)
  <2>1. CASE Len(round[p]) = 1
    BY <2>1 DEF PollReturns, Leave, Done, Left, Becomes
  <2>2. CASE Len(round[p]) # 1
    BY <2>2 DEF PollReturns, BeginPoll, Done, Begun, Becomes
  <2>. QED  BY <2>1, <2>2
<1>2. Whole(rows.events, Stored \cup rows.events)
  BY StaysWhole
<1>3. /\ st.phase \in {"RETURNED", "GET"} /\ st.payloads = << >> /\ st.written = rows
      /\ st.savepoint \in {Nothing, rows}
  BY DEF Done, Left, Begun
<1>4. Fits(st)
  <2>1. round[p] \in Seq(Seq(Urls)) /\ round[p] # << >>
        /\ \A i \in DOMAIN round[p] : round[p][i] # << >>
    BY OfPoller DEF Fits, At
  <2>2. CASE Len(round[p]) = 1
    <3>1. Nothing \in RowSets /\ "RETURNED" \in PhaseType
      BY NothingIsBacked DEF PhaseType
    <3>2. st = [phase |-> "RETURNED", round |-> << >>, requests |-> << >>, attempt |-> 0,
                payloads |-> << >>, written |-> rows, savepoint |-> Nothing]
      BY <2>2 DEF Done, Left
    <3>3. st \in PollerStates
      <4>1. [phase |-> "RETURNED", round |-> << >>, requests |-> << >>, attempt |-> 0,
             payloads |-> << >>, written |-> rows, savepoint |-> Nothing] \in PollerStates
        BY <3>1, NoneYet, IsState, Zenon
      <4>. HIDE DEF st
      <4>. QED  BY <3>2, <4>1
    <3>. QED  BY <3>2, <3>3 DEF Fits, Polling, Ingesting
  <2>3. CASE Len(round[p]) # 1
    <3>1. Tail(round[p]) \in Seq(Seq(Urls)) /\ Tail(round[p]) # << >>
          /\ \A i \in DOMAIN Tail(round[p]) : Tail(round[p])[i] # << >>
      BY <2>1, <2>3, RestOfRound
    <3>2. Fits(Begun(Tail(round[p]), rows))
      BY <3>1, BegunFits
    <3>. QED  BY <2>3, <3>2 DEF Done
  <2>. QED  BY <2>2, <2>3
<1>5. Carried(st) = rows.events
  BY <1>3, NoElems DEF Carried
<1>6. Holds(st, Stored, artifacts, storage') /\ storage' = storage
  BY <1>2, <1>3, <1>5, NothingIsBacked DEF Holds, store
<1>7. \A f \in Facts : Seeks(st, f) => Seeks(At(p), f)
  BY <1>3 DEF Seeks
<1>8. Advances(p, st)
  BY <1>1, <1>4, <1>5, <1>6, <1>7 DEF Advances
<1>9. Revalidates(p, st) /\ phase[p] # "RAISED" /\ storage \subseteq Bytes
      /\ UNCHANGED <<published, artifacts, ledger, failed, restarts>>
  BY OfPoller DEF Revalidates, Polling, Ingesting, store, seen
<1>. HIDE DEF st
<1>. QED  BY <1>6, <1>8, <1>9, AdvanceKeeps

-----------------------------------------------------------------------------
(* Requests. *)

\* A poll goes on with whole documents more than it had.
LEMMA OnKeeps ==
  ASSUME FeedInv, NEW p \in Pollers, phase[p] = "GET",
         NEW gets \in Seq([url : Urls, dated : BOOLEAN]), NEW facts \in Seq(Facts),
         PollOn(p, gets, facts), Elems(payloads[p]) \subseteq Elems(facts),
         \A f \in Elems(facts) \ Elems(payloads[p]), g \in Facts :
           SameDocument(f, g) => g \in Elems(facts),
         cache' \in [Pollers -> [Urls -> Nat]], \A q \in Pollers \ {p} : cache'[q] = cache[q],
         \A u \in Urls : \/ cache'[p][u] = cache[p][u]
                        \/ \A f \in Facts : Validated(u, cache'[p][u], f) => f \in Elems(facts),
         UNCHANGED <<published, store, seen>>
  PROVE  FeedInv'
<1>0. /\ At(p).phase = "GET" /\ At(p).written = written[p] /\ At(p).savepoint = savepoint[p]
      /\ At(p).payloads = payloads[p] /\ At(p).round = round[p]
  BY DEF At
<1>1. CASE gets = << >> /\ facts = << >> /\ PollReturns(p, written[p])
  <2>1. Elems(facts) = {}
    BY <1>1, NoElems
  <2>2. Carried(At(p)) = written[p].events
    BY <1>0, <2>1 DEF Carried
  <2>3. phase[p] \in Polling /\ written[p] \in RowSets /\ Backed(written[p], artifacts, storage)
    BY <1>0, OfPoller DEF Polling, Holds
  <2>4. \A f \in written[p].events : Seeks(At(p), f)
    BY <1>0 DEF Seeks
  <2>5. \A u \in Urls : \/ cache'[p][u] = cache[p][u]
                       \/ \A f \in Facts : ~Validated(u, cache'[p][u], f)
    BY <2>1
  <2>. QED  BY <1>1, <2>2, <2>3, <2>4, <2>5, ReturnKeeps
<1>2. CASE /\ gets # << >> \/ facts # << >>
           /\ requests' = [requests EXCEPT ![p] = gets]
           /\ attempt' = [attempt EXCEPT ![p] = 0]
           /\ payloads' = [payloads EXCEPT ![p] = facts]
           /\ phase' = [phase EXCEPT ![p] = IF gets = << >> THEN "FIND" ELSE "GET"]
           /\ UNCHANGED <<round, session>>
  <2>. DEFINE step == IF gets = << >> THEN "FIND" ELSE "GET"
              st == [phase |-> step, round |-> round[p], requests |-> gets, attempt |-> 0,
                     payloads |-> facts, written |-> written[p], savepoint |-> savepoint[p]]
  <2>1. Becomes(p, st)
    <3>1. round' = [round EXCEPT ![p] = round[p]] /\ written' = [written EXCEPT ![p] = written[p]]
          /\ savepoint' = [savepoint EXCEPT ![p] = savepoint[p]]
      BY <1>2 DEF FeedInv, TypeOK, session
    <3>. QED  BY <1>2, <3>1 DEF Becomes
  <2>2. /\ st.phase = step /\ st.round = round[p] /\ st.requests = gets
        /\ st.payloads = facts /\ st.written = written[p] /\ st.savepoint = savepoint[p]
    OBVIOUS
  <2>3. st \in PollerStates
    <3>1. step \in PhaseType
      BY DEF PhaseType
    <3>. HIDE DEF step
    <3>. QED  BY <3>1, NoneYet, OfPoller, IsState, Zenon
  <2>4. step \in {"FIND", "GET"} /\ (step = "GET" => gets # << >>)
        /\ (step = "FIND" => facts # << >>)
    BY <1>2
  <2>. HIDE DEF st, step
  <2>5. Fits(st)
    <3>1. round[p] # << >> /\ \A i \in DOMAIN round[p] : round[p][i] # << >>
      BY <1>0, OfPoller DEF Fits, Polling
    <3>. QED  BY <2>2, <2>3, <2>4, <3>1 DEF Fits, Polling, Ingesting
  <2>6. /\ Carried(st) = written[p].events \cup Elems(facts)
        /\ Carried(At(p)) = written[p].events \cup Elems(payloads[p])
    BY <1>0, <2>2 DEF Carried
  <2>7. Whole(Carried(st), Stored \cup Carried(st))
    <3>. SUFFICES ASSUME NEW f \in Carried(st), NEW g \in Facts, SameDocument(f, g)
                  PROVE  Covers(Stored \cup Carried(st), g)
      BY DEF Whole
    <3>1. CASE f \in Carried(At(p))
      <4>1. Covers(Stored \cup Carried(At(p)), g)
        BY <3>1, OfPoller DEF Holds, Whole
      <4>. QED  BY <2>6, <4>1, CoversGrows
    <3>2. CASE f \notin Carried(At(p))
      <4>1. g \in Elems(facts)
        BY <2>6, <3>2
      <4>. QED  BY <2>6, <4>1 DEF Covers
    <3>. QED  BY <3>1, <3>2
  <2>8. Holds(st, Stored, artifacts, storage') /\ storage' = storage
    BY <1>0, <2>2, <2>4, <2>7, OfPoller DEF Holds, store
  <2>9. Advances(p, st)
    <3>1. \A f \in Facts : Seeks(st, f) => Seeks(At(p), f)
      BY <1>0, <2>2, <2>4 DEF Seeks
    <3>2. \A f \in Facts :
            Covers(Stored \cup Carried(At(p)), f) => Covers(Stored \cup Carried(st), f)
      BY <2>6, CoversGrows
    <3>. QED  BY <2>1, <2>5, <2>8, <3>1, <3>2 DEF Advances
  <2>10. Revalidates(p, st)
    <3>1. \A f \in Elems(facts) : Covers(Stored \cup Carried(st), f)
      BY <2>6 DEF Covers
    <3>. QED  BY <3>1 DEF Revalidates
  <2>11. phase[p] # "RAISED" /\ storage \subseteq Bytes
         /\ UNCHANGED <<published, artifacts, ledger, failed, restarts>>
    BY OfPoller DEF store, seen
  <2>. QED  BY <2>8, <2>9, <2>10, <2>11, AdvanceKeeps
<1>. QED  BY <1>1, <1>2 DEF PollOn

LEMMA NoCacheChange ==
  ASSUME FeedInv, UNCHANGED cache
  PROVE  /\ cache' \in [Pollers -> [Urls -> Nat]]
         /\ \A q \in Pollers : cache'[q] = cache[q]
         /\ \A p \in Pollers : \A st : Revalidates(p, st)
BY DEF FeedInv, TypeOK, Revalidates

\* The request a poller is at, and those after it.
LEMMA AtRequest ==
  ASSUME FeedInv, NEW p \in Pollers, phase[p] = "GET"
  PROVE  /\ Request(p).url \in Urls
         /\ Tail(requests[p]) \in Seq([url : Urls, dated : BOOLEAN])
         /\ phase[p] \in Polling
<1>. DEFINE T == [url : Urls, dated : BOOLEAN]
<1>1. requests[p] \in Seq(T) /\ requests[p] # << >>
  BY OfPoller DEF Fits, At
<1>2. Head(requests[p]) \in T /\ Tail(requests[p]) \in Seq(T)
  <2>. HIDE DEF T
  <2>. QED  BY <1>1, TakenFirst
<1>. QED  BY <1>2 DEF Request, Polling

LEMMA NotModifiedKeeps ==
  ASSUME FeedInv, NEW p \in Pollers, NotModified(p) PROVE FeedInv'
<1>1. /\ phase[p] = "GET" /\ PollOn(p, Tail(requests[p]), payloads[p])
      /\ UNCHANGED <<published, cache, store, seen>>
  BY DEF NotModified, Asking
<1>2. payloads[p] \in Seq(Facts) /\ Tail(requests[p]) \in Seq([url : Urls, dated : BOOLEAN])
  BY <1>1, OfPoller, AtRequest
<1>. QED  BY <1>1, <1>2, NoCacheChange, OnKeeps

LEMMA FailedKeeps ==
  ASSUME FeedInv, NEW p \in Pollers, Failed(p) PROVE FeedInv'
<1>1. phase[p] \in Polling /\ Raised(p) /\ UNCHANGED <<published, cache, store, seen>>
  BY DEF Failed, Asking, Polling
<1>2. storage \subseteq Bytes
  BY OfPoller
<1>. QED  BY <1>1, <1>2, NoCacheChange, RaisedKeeps DEF store, seen

LEMMA RateLimitedKeeps ==
  ASSUME FeedInv, NEW p \in Pollers, RateLimited(p) PROVE FeedInv'
<1>0. phase[p] = "GET" /\ UNCHANGED <<published, cache, store, seen>>
  BY DEF RateLimited, Asking
<1>1. CASE Raised(p)
  <2>1. phase[p] \in Polling /\ storage \subseteq Bytes
    BY <1>0, OfPoller DEF Polling
  <2>. QED  BY <1>0, <1>1, <2>1, NoCacheChange, RaisedKeeps DEF store, seen
<1>2. CASE /\ attempt[p] < Max429Retries /\ attempt' = [attempt EXCEPT ![p] = @ + 1]
           /\ UNCHANGED <<phase, round, requests, payloads, session>>
  <2>. DEFINE st == [At(p) EXCEPT !.attempt = attempt[p] + 1]
  <2>0. attempt[p] + 1 \in 0..Max429Retries /\ storage \subseteq Bytes
    BY <1>2, OfPoller, FeedAssumption
  <2>1. st = [phase |-> phase[p], round |-> round[p], requests |-> requests[p],
              attempt |-> attempt[p] + 1, payloads |-> payloads[p], written |-> written[p],
              savepoint |-> savepoint[p]]
    BY DEF At
  <2>2. st \in PollerStates
    <3>. DEFINE n == attempt[p] + 1
    <3>. HIDE DEF n, st
    <3>. QED  BY <2>0, <2>1, OfPoller, IsState, Zenon DEF n
  <2>3. /\ st.phase = phase[p] /\ st.round = round[p] /\ st.requests = requests[p]
        /\ st.attempt = attempt[p] + 1 /\ st.payloads = payloads[p] /\ st.written = written[p]
        /\ st.savepoint = savepoint[p]
    BY <2>1
  <2>4. /\ At(p).phase = phase[p] /\ At(p).round = round[p] /\ At(p).requests = requests[p]
        /\ At(p).payloads = payloads[p] /\ At(p).written = written[p]
        /\ At(p).savepoint = savepoint[p]
    BY DEF At
  <2>. HIDE DEF st
  <2>5. Becomes(p, st)
    <3>1. /\ phase' = [phase EXCEPT ![p] = phase[p]] /\ round' = [round EXCEPT ![p] = round[p]]
          /\ requests' = [requests EXCEPT ![p] = requests[p]]
          /\ payloads' = [payloads EXCEPT ![p] = payloads[p]]
          /\ written' = [written EXCEPT ![p] = written[p]]
          /\ savepoint' = [savepoint EXCEPT ![p] = savepoint[p]]
      BY <1>2 DEF FeedInv, TypeOK, session
    <3>. QED  BY <1>2, <2>3, <3>1 DEF Becomes
  <2>6. Fits(st) /\ Carried(st) = Carried(At(p))
    BY <2>2, <2>3, <2>4, OfPoller DEF Fits, Carried
  <2>7. Holds(st, Stored, artifacts, storage')
    <3>1. storage' = storage
      BY <1>0 DEF store
    <3>. QED  BY <2>3, <2>4, <2>6, <3>1, OfPoller DEF Holds
  <2>8. \A f \in Facts : Seeks(st, f) => Seeks(At(p), f)
    BY <2>3, <2>4 DEF Seeks
  <2>9. Advances(p, st) /\ Revalidates(p, st) /\ phase[p] # "RAISED"
    BY <1>0, <2>5, <2>6, <2>7, <2>8, NoCacheChange DEF Advances
  <2>. QED  BY <1>0, <2>0, <2>9, AdvanceKeeps DEF store, seen
<1>. QED  BY <1>1, <1>2 DEF RateLimited

LEMMA OkKeeps ==
  ASSUME FeedInv, NEW p \in Pollers, Ok(p) PROVE FeedInv'
<1>. DEFINE u == Request(p).url
            v == published[u]
            b == Published(u)
            T == [url : Urls, dated : BOOLEAN]
<1>1. /\ phase[p] = "GET" /\ v > 0 /\ cache' = [cache EXCEPT ![p][u] = v]
      /\ UNCHANGED <<published, store, seen>>
      /\ \/ Raised(p)
         \/ PollOn(p, FilingRequests(b) \o Tail(requests[p]), payloads[p] \o FactsOf(u, b))
  BY DEF Ok, Asking
<1>2. u \in Urls /\ Tail(requests[p]) \in Seq(T) /\ phase[p] \in Polling
  BY <1>1, AtRequest
<1>. HIDE DEF u, T
<1>3. v \in 1..Len(Content[u]) /\ b = Content[u][v] /\ b \in Bytes
  <2>1. v \in Nat /\ v <= Len(Content[u]) /\ Content[u] \in Seq(Bytes)
    BY <1>2, FeedAssumption DEF FeedInv, TypeOK, Offered
  <2>2. v \in 1..Len(Content[u])
    BY <1>1, <2>1
  <2>. QED  BY <2>1, <2>2 DEF Published
<1>4. /\ cache' \in [Pollers -> [Urls -> Nat]] /\ \A q \in Pollers \ {p} : cache'[q] = cache[q]
      /\ cache'[p][u] = v /\ \A x \in Urls \ {u} : cache'[p][x] = cache[p][x]
  <2>1. cache \in [Pollers -> [Urls -> Nat]] /\ v \in Nat
    BY <1>2 DEF FeedInv, TypeOK
  <2>. HIDE DEF v
  <2>. QED  BY <1>1, <1>2, <2>1
<1>. HIDE DEF v, b
<1>5. CASE Raised(p)
  <2>1. storage \subseteq Bytes
    BY OfPoller
  <2>. QED  BY <1>1, <1>2, <1>4, <1>5, <2>1, RaisedKeeps DEF store, seen
<1>6. CASE PollOn(p, FilingRequests(b) \o Tail(requests[p]), payloads[p] \o FactsOf(u, b))
  <2>. DEFINE gets == FilingRequests(b) \o Tail(requests[p])
              facts == payloads[p] \o FactsOf(u, b)
  <2>1. gets \in Seq(T)
    <3>1. Links[b] \in Seq(Urls)
      BY <1>3, FeedAssumption
    <3>2. DOMAIN Links[b] = 1..Len(Links[b]) /\ Len(Links[b]) \in Nat
          /\ \A i \in 1..Len(Links[b]) : Links[b][i] \in Urls
      BY <3>1
    <3>3. FilingRequests(b) = [i \in 1..Len(Links[b]) |-> [url |-> Links[b][i], dated |-> TRUE]]
      BY <3>2 DEF FilingRequests
    <3>4. \A i \in 1..Len(Links[b]) : [url |-> Links[b][i], dated |-> TRUE] \in T
      BY <3>2 DEF T
    <3>5. FilingRequests(b) \in [1..Len(Links[b]) -> T]
      BY <3>3, <3>4
    <3>6. FilingRequests(b) \in Seq(T)
      BY <3>2, <3>5, IsSequence
    <3>. QED  BY <1>2, <3>6, Joined
  <2>2. /\ payloads[p] \in Seq(Facts) /\ FactsOf(u, b) \in Seq(Facts)
        /\ \A f \in Facts : Validated(u, v, f) <=> f \in Elems(FactsOf(u, b))
    BY <1>2, <1>3, OfPoller, FactsOfDocument
  <2>3. facts \in Seq(Facts) /\ Elems(facts) = Elems(payloads[p]) \cup Elems(FactsOf(u, b))
    BY <2>2, Joined
  <2>4. Elems(facts) \subseteq Facts
    BY <2>3, TakenFirst, NoElems
  <2>. HIDE DEF gets, facts
  <2>5. ASSUME NEW f \in Elems(facts) \ Elems(payloads[p]), NEW g \in Facts, SameDocument(f, g)
        PROVE  g \in Elems(facts)
    <3>1. Validated(u, v, f)
      BY <2>2, <2>3, <2>4
    <3>2. Validated(u, v, g)
      BY <2>5, <3>1 DEF Validated, SameDocument
    <3>. QED  BY <2>2, <2>3, <3>2
  <2>6. \A x \in Urls : \/ cache'[p][x] = cache[p][x]
                       \/ \A f \in Facts : Validated(x, cache'[p][x], f) => f \in Elems(facts)
    BY <1>4, <2>2, <2>3
  <2>7. gets \in Seq([url : Urls, dated : BOOLEAN])
    BY <2>1 DEF T
  <2>8. PollOn(p, gets, facts)
    BY <1>6 DEF gets, facts
  <2>. QED  BY <1>1, <1>4, <2>3, <2>5, <2>6, <2>7, <2>8, OnKeeps
<1>. QED  BY <1>1, <1>5, <1>6

LEMMA PollAllKeeps ==
  ASSUME FeedInv, NEW p \in Pollers, PollAll(p) PROVE FeedInv'
<1>. DEFINE st == Begun(Plan[p], Nothing)
<1>1. phase[p] = "IDLE" /\ UNCHANGED <<published, cache, written, store, seen>>
  BY DEF PollAll
<1>2. /\ At(p).phase = "IDLE" /\ At(p).payloads = payloads[p] /\ At(p).written = written[p]
      /\ At(p).savepoint = savepoint[p]
  BY <1>1 DEF At
<1>3. payloads[p] = << >> /\ written[p] = Nothing
  BY <1>2, OfPoller DEF Fits, Polling, Ingesting
<1>4. /\ st.phase = "GET" /\ st.payloads = << >> /\ st.written = Nothing
      /\ st.savepoint = Nothing
  BY DEF Begun
<1>5. Becomes(p, st)
  <2>1. written' = [written EXCEPT ![p] = Nothing]
    BY <1>1, <1>3 DEF FeedInv, TypeOK
  <2>. QED  BY <2>1 DEF PollAll, BeginPoll, Becomes, Begun
<1>6. Fits(st)
  BY FeedAssumption, NothingIsBacked, BegunFits
<1>. HIDE DEF st
<1>7. Carried(st) = {} /\ Carried(At(p)) = {}
  BY <1>2, <1>3, <1>4, NoElems, NothingIsBacked DEF Carried
<1>8. Holds(st, Stored, artifacts, storage')
  BY <1>4, <1>7, NothingIsBacked DEF Holds
<1>9. Advances(p, st) /\ Revalidates(p, st) /\ phase[p] # "RAISED" /\ storage \subseteq Bytes
  BY <1>1, <1>4, <1>5, <1>6, <1>7, <1>8, NothingIsBacked, NoCacheChange, OfPoller
  DEF Advances, Seeks
<1>. QED  BY <1>1, <1>9, AdvanceKeeps DEF store, seen

-----------------------------------------------------------------------------
(* Ingestion. *)

LEMMA Same ==
  ASSUME FeedInv, NEW p \in Pollers
  PROVE  /\ phase = [phase EXCEPT ![p] = phase[p]] /\ round = [round EXCEPT ![p] = round[p]]
         /\ requests = [requests EXCEPT ![p] = requests[p]]
         /\ attempt = [attempt EXCEPT ![p] = attempt[p]]
         /\ payloads = [payloads EXCEPT ![p] = payloads[p]]
         /\ written = [written EXCEPT ![p] = written[p]]
         /\ savepoint = [savepoint EXCEPT ![p] = savepoint[p]]
BY DEF FeedInv, TypeOK

\* The payload that is ingested.
LEMMA AtPayload ==
  ASSUME FeedInv, NEW p \in Pollers, phase[p] \in Ingesting
  PROVE  /\ Head(payloads[p]) \in Facts /\ Head(payloads[p]).bytes \in Bytes
         /\ Tail(payloads[p]) \in Seq(Facts) /\ Len(payloads[p]) \in Nat
         /\ Elems(payloads[p]) = {Head(payloads[p])} \cup Elems(Tail(payloads[p]))
         /\ Len(payloads[p]) = 1 => Elems(payloads[p]) = {Head(payloads[p])}
         /\ Len(payloads[p]) # 1 => Tail(payloads[p]) # << >>
         /\ phase[p] \in Polling /\ phase[p] # "RAISED"
         /\ round[p] # << >> /\ \A i \in DOMAIN round[p] : round[p][i] # << >>
<1>1. payloads[p] \in Seq(Facts) /\ payloads[p] # << >>
  BY OfPoller DEF Fits, At
<1>2. \A f \in Facts : f.bytes \in Bytes
  <2>. TAKE f \in Facts
  <2>1. PICK u \in Urls : \E v \in 1..Len(Content[u]) : \E i \in 1..Len(Rows[Content[u][v]]) :
          f = [uri |-> u, bytes |-> Content[u][v], row |-> i]
    BY FactIs
  <2>2. PICK v \in 1..Len(Content[u]) : f.bytes = Content[u][v]
    BY <2>1
  <2>3. Content[u] \in Seq(Bytes)
    BY FeedAssumption
  <2>. QED  BY <2>2, <2>3
<1>3. /\ Head(payloads[p]) \in Facts /\ Tail(payloads[p]) \in Seq(Facts)
      /\ Elems(payloads[p]) = {Head(payloads[p])} \cup Elems(Tail(payloads[p]))
      /\ Len(payloads[p]) = 1 => Elems(payloads[p]) = {Head(payloads[p])}
      /\ Len(payloads[p]) # 1 => Tail(payloads[p]) # << >>
  BY <1>1, TakenFirst
<1>4. Len(payloads[p]) \in Nat
  BY <1>1
<1>5. round[p] # << >> /\ \A i \in DOMAIN round[p] : round[p][i] # << >>
  BY OfPoller DEF Fits, At, Polling
<1>. QED  BY <1>2, <1>3, <1>4, <1>5 DEF Ingesting, Polling

\* The payload is dealt with: its event is there, its own or one like it.
LEMMA NextKeeps ==
  ASSUME FeedInv, NEW p \in Pollers, phase[p] \in Ingesting,
         NEW rows \in RowSets, NextPayload(p, rows), Backed(rows, artifacts, storage),
         written[p].events \subseteq rows.events,
         rows.events \subseteq written[p].events \cup {Head(payloads[p])},
         \A f \in rows.events : Seeks(At(p), f), Covers(Stored \cup rows.events, Head(payloads[p])),
         UNCHANGED <<published, cache, store, seen>>
  PROVE  FeedInv'
<1>. DEFINE f0 == Head(payloads[p])
<1>0. /\ At(p).phase = phase[p] /\ At(p).written = written[p] /\ At(p).savepoint = savepoint[p]
      /\ At(p).payloads = payloads[p]
  BY DEF At
<1>1. /\ Carried(At(p)) = written[p].events \cup Elems(payloads[p])
      /\ Elems(payloads[p]) = {f0} \cup Elems(Tail(payloads[p]))
      /\ rows.events \subseteq Carried(At(p))
  BY <1>0, AtPayload DEF Carried
<1>2. ASSUME NEW E, rows.events \subseteq E, Elems(payloads[p]) \subseteq {f0} \cup E,
             NEW f \in Facts, Covers(Stored \cup Carried(At(p)), f)
      PROVE  Covers(Stored \cup E, f)
  <2>1. Covers(Stored \cup E, f0)
    BY <1>2, CoversGrows
  <2>2. ASSUME NEW h \in Stored \cup Carried(At(p)) PROVE Covers(Stored \cup E, h)
    <3>1. CASE h = f0
      BY <2>1, <3>1
    <3>2. CASE h # f0
      <4>1. h \in Stored \cup E
        BY <1>1, <1>2, <3>2
      <4>. QED  BY <4>1 DEF Covers
    <3>. QED  BY <3>1, <3>2
  <2>. QED  BY <1>2, <2>2, CoversAll
<1>3. CASE Len(payloads[p]) = 1 /\ PollReturns(p, rows)
  <2>1. Elems(payloads[p]) \subseteq {f0} \cup rows.events
    BY <1>3, AtPayload
  <2>2. \A f \in Facts :
          Covers(Stored \cup Carried(At(p)), f) => Covers(Stored \cup rows.events, f)
    BY <1>2, <2>1
  <2>3. phase[p] \in Polling
    BY AtPayload
  <2>. QED  BY <1>1, <1>3, <2>2, <2>3, NoCacheChange, ReturnKeeps
<1>4. CASE /\ Len(payloads[p]) > 1 /\ payloads' = [payloads EXCEPT ![p] = Tail(@)]
           /\ phase' = [phase EXCEPT ![p] = "FIND"]
           /\ written' = [written EXCEPT ![p] = rows]
           /\ UNCHANGED <<round, savepoint, requests, attempt>>
  <2>. DEFINE st == [phase |-> "FIND", round |-> round[p], requests |-> requests[p],
                     attempt |-> attempt[p], payloads |-> Tail(payloads[p]),
                     written |-> rows, savepoint |-> savepoint[p]]
  <2>1. /\ st.phase = "FIND" /\ st.round = round[p] /\ st.requests = requests[p]
        /\ st.attempt = attempt[p] /\ st.payloads = Tail(payloads[p]) /\ st.written = rows
        /\ st.savepoint = savepoint[p]
    OBVIOUS
  <2>2. st \in PollerStates
    <3>1. "FIND" \in PhaseType /\ Tail(payloads[p]) \in Seq(Facts)
      BY AtPayload DEF PhaseType
    <3>. QED  BY <3>1, OfPoller, IsState, Zenon
  <2>. HIDE DEF st
  <2>3. Becomes(p, st)
    BY <1>4, <2>1, Same DEF Becomes
  <2>4. Fits(st)
    <3>1. Tail(payloads[p]) # << >>
      <4>1. ASSUME NEW n \in Nat, n > 1 PROVE n # 1
        BY <4>1
      <4>2. Len(payloads[p]) # 1
        BY <1>4, <4>1, AtPayload
      <4>. QED  BY <4>2, AtPayload, Zenon
    <3>. QED  BY <2>1, <2>2, <3>1, AtPayload DEF Fits, Polling, Ingesting
  <2>5. Carried(st) = rows.events \cup Elems(Tail(payloads[p]))
    BY <2>1 DEF Carried
  <2>6. /\ rows.events \subseteq Carried(st) /\ Elems(payloads[p]) \subseteq {f0} \cup Carried(st)
        /\ Carried(st) \subseteq Carried(At(p))
    BY <1>1, <2>5
  <2>7. \A f \in Facts :
          Covers(Stored \cup Carried(At(p)), f) => Covers(Stored \cup Carried(st), f)
    BY <1>2, <2>6
  <2>8. Whole(Carried(st), Stored \cup Carried(st))
    BY <2>6, <2>7, StaysWhole
  <2>9. Holds(st, Stored, artifacts, storage') /\ storage' = storage
    <3>1. /\ Backed(savepoint[p], artifacts, storage)
          /\ savepoint[p].events \subseteq rows.events
          /\ Whole(savepoint[p].events, Stored \cup savepoint[p].events)
      BY <1>0, OfPoller DEF Holds
    <3>. QED  BY <2>1, <2>8, <3>1 DEF Holds, store
  <2>10. \A f \in Facts : Seeks(st, f) => Seeks(At(p), f)
    BY <2>1 DEF Seeks
  <2>11. Advances(p, st) /\ Revalidates(p, st) /\ phase[p] # "RAISED" /\ storage \subseteq Bytes
    BY <2>3, <2>4, <2>7, <2>9, <2>10, AtPayload, NoCacheChange, OfPoller DEF Advances
  <2>. QED  BY <2>9, <2>11, AdvanceKeeps DEF store, seen
<1>. QED  BY <1>3, <1>4 DEF NextPayload

\* The payload is looked for further: an event is sought only when it is not
\* in the ledger.
LEMMA StepKeeps ==
  ASSUME FeedInv, NEW p \in Pollers, phase[p] \in Ingesting,
         NEW step \in {"LOOK", "STORE", "EVENT"}, phase' = [phase EXCEPT ![p] = step],
         NEW rows \in RowSets, written' = [written EXCEPT ![p] = rows],
         rows.events = written[p].events, Backed(rows, artifacts, storage'),
         step = "EVENT" => Head(payloads[p]).bytes \in artifacts \cup rows.artifacts,
         phase[p] = "FIND" => ledger[Head(payloads[p])] = 0,
         storage \subseteq storage', storage' \subseteq Bytes,
         UNCHANGED <<round, requests, attempt, payloads, savepoint>>,
         UNCHANGED <<published, cache, artifacts, ledger, seen>>
  PROVE  FeedInv'
<1>. DEFINE st == [phase |-> step, round |-> round[p], requests |-> requests[p],
                   attempt |-> attempt[p], payloads |-> payloads[p],
                   written |-> rows, savepoint |-> savepoint[p]]
<1>0. /\ At(p).phase = phase[p] /\ At(p).written = written[p] /\ At(p).savepoint = savepoint[p]
      /\ At(p).payloads = payloads[p]
  BY DEF At
<1>1. /\ st.phase = step /\ st.round = round[p] /\ st.requests = requests[p]
      /\ st.attempt = attempt[p] /\ st.payloads = payloads[p] /\ st.written = rows
      /\ st.savepoint = savepoint[p]
  OBVIOUS
<1>2. st \in PollerStates
  <2>1. step \in PhaseType
    BY DEF PhaseType
  <2>. QED  BY <2>1, OfPoller, IsState, Zenon
<1>. HIDE DEF st
<1>3. Becomes(p, st)
  BY <1>1, Same DEF Becomes
<1>4. Fits(st)
  <2>1. payloads[p] # << >>
    BY <1>0, OfPoller DEF Fits
  <2>. QED  BY <1>1, <1>2, <2>1, AtPayload DEF Fits, Polling, Ingesting
<1>5. Carried(st) = Carried(At(p))
  BY <1>0, <1>1 DEF Carried
<1>6. Holds(st, Stored, artifacts, storage')
  <2>1. Holds(At(p), Stored, artifacts, storage')
    BY OfPoller, HoldsGrows
  <2>. QED  BY <1>0, <1>1, <1>5, <2>1 DEF Holds
<1>7. ASSUME NEW f \in Facts, Seeks(st, f) PROVE Seeks(At(p), f) \/ ledger[f] = 0
  <2>1. CASE f \in rows.events
    BY <1>0, <2>1 DEF Seeks
  <2>2. CASE Head(payloads[p]) = f /\ phase[p] = "FIND"
    BY <2>2
  <2>3. CASE Head(payloads[p]) = f /\ phase[p] # "FIND"
    BY <1>0, <2>3 DEF Seeks, Ingesting
  <2>. QED  BY <1>1, <1>7, <2>1, <2>2, <2>3 DEF Seeks
<1>8. Advances(p, st) /\ Revalidates(p, st) /\ phase[p] # "RAISED"
  BY <1>3, <1>4, <1>5, <1>6, <1>7, AtPayload, NoCacheChange DEF Advances
<1>. QED  BY <1>8, AdvanceKeeps DEF seen

LEMMA FindEventKeeps ==
  ASSUME FeedInv, NEW p \in Pollers, FindEvent(p) PROVE FeedInv'
<1>. DEFINE f == Head(payloads[p])
<1>0. phase[p] = "FIND" /\ phase[p] \in Ingesting /\ UNCHANGED <<published, cache, store, seen>>
  BY DEF FindEvent, Ingesting
<1>1. f \in Facts /\ written[p] \in RowSets /\ storage \subseteq Bytes /\ f \in {f}
  BY <1>0, AtPayload, OfPoller
<1>2. /\ Backed(written[p], artifacts, storage)
      /\ \A g \in written[p].events : Seeks(At(p), g)
  BY OfPoller DEF Holds, At, Seeks
<1>3. CASE Existing(p, f) /\ NextPayload(p, written[p])
  <2>1. Covers(Stored \cup written[p].events, f)
    BY <1>3 DEF Existing, Known, Covers, Stored
  <2>. QED  BY <1>0, <1>1, <1>2, <1>3, <2>1, NextKeeps
<1>4. CASE /\ ~Existing(p, f) /\ phase' = [phase EXCEPT ![p] = "LOOK"]
           /\ UNCHANGED <<round, requests, attempt, payloads, session>>
  <2>1. f \notin Stored
    BY <1>4 DEF Existing, Known, Stored
  <2>2. ledger[f] = 0
    <3>1. ledger[f] \in Nat
      BY <1>1 DEF FeedInv, TypeOK
    <3>. QED  BY <1>1, <2>1, <3>1 DEF Stored
  <2>3. /\ written' = [written EXCEPT ![p] = written[p]] /\ storage' = storage
        /\ "LOOK" \in {"LOOK", "STORE", "EVENT"} /\ "LOOK" # "EVENT"
    BY <1>0, <1>4, Same DEF session, store
  <2>4. /\ Backed(written[p], artifacts, storage') /\ storage \subseteq storage'
        /\ storage' \subseteq Bytes /\ UNCHANGED <<round, requests, attempt, payloads, savepoint>>
        /\ UNCHANGED <<published, cache, artifacts, ledger, seen>>
    BY <1>0, <1>1, <1>2, <1>4, <2>3 DEF session, store
  <2>5. phase' = [phase EXCEPT ![p] = "LOOK"]
    BY <1>4
  <2>. HIDE DEF f
  <2>. QED  BY <1>0, <1>1, <2>2, <2>3, <2>4, <2>5, StepKeeps DEF f
<1>. QED  BY <1>3, <1>4 DEF FindEvent

LEMMA FindArtifactKeeps ==
  ASSUME FeedInv, NEW p \in Pollers, FindArtifact(p) PROVE FeedInv'
<1>. DEFINE found == Head(payloads[p]).bytes \in artifacts \cup written[p].artifacts
            step == IF found THEN "EVENT" ELSE "STORE"
<1>1. /\ phase[p] = "LOOK" /\ phase' = [phase EXCEPT ![p] = step]
      /\ UNCHANGED <<published, cache, round, requests, attempt, payloads, session, store, seen>>
  BY DEF FindArtifact
<1>2. /\ phase[p] \in Ingesting /\ phase[p] # "FIND" /\ step \in {"LOOK", "STORE", "EVENT"}
      /\ (step = "EVENT" => found)
  BY <1>1 DEF Ingesting
<1>3. /\ written[p] \in RowSets /\ storage \subseteq Bytes /\ Backed(written[p], artifacts, storage)
      /\ written' = [written EXCEPT ![p] = written[p]] /\ storage' = storage
  BY <1>1, OfPoller, Same DEF Holds, At, session, store
<1>4. /\ Backed(written[p], artifacts, storage') /\ storage \subseteq storage'
      /\ storage' \subseteq Bytes /\ UNCHANGED <<round, requests, attempt, payloads, savepoint>>
      /\ UNCHANGED <<published, cache, artifacts, ledger, seen>>
  BY <1>1, <1>3 DEF session, store
<1>. HIDE DEF step
<1>. QED  BY <1>1, <1>2, <1>3, <1>4, StepKeeps

LEMMA StoreArtifactKeeps ==
  ASSUME FeedInv, NEW p \in Pollers, StoreArtifact(p) PROVE FeedInv'
<1>. DEFINE b == Head(payloads[p]).bytes
            rows == [written[p] EXCEPT !.artifacts = @ \cup {b}]
<1>1. /\ phase[p] = "STORE" /\ storage' = storage \cup {b}
      /\ UNCHANGED <<published, cache, artifacts, ledger, seen>>
  BY DEF StoreArtifact, WriteBytes
<1>2. /\ phase[p] \in Ingesting /\ phase[p] \in Polling /\ phase[p] # "FIND" /\ b \in Bytes
      /\ storage \subseteq storage' /\ storage' \subseteq Bytes
  BY <1>1, AtPayload, OfPoller DEF Ingesting, Polling
<1>3. CASE Raised(p)
  BY <1>1, <1>2, <1>3, NoCacheChange, RaisedKeeps DEF seen
<1>4. CASE /\ written' = [written EXCEPT ![p].artifacts = @ \cup {b}]
           /\ phase' = [phase EXCEPT ![p] = "EVENT"]
           /\ UNCHANGED <<requests, attempt, round, payloads, savepoint>>
  <2>0. written[p] \in RowSets /\ Backed(written[p], artifacts, storage)
    BY OfPoller DEF Holds, At
  <2>1. /\ rows \in RowSets /\ rows.events = written[p].events
        /\ rows.artifacts = written[p].artifacts \cup {b}
    BY <1>2, <2>0 DEF RowSets
  <2>2. Backed(rows, artifacts, storage')
    BY <1>1, <2>0, <2>1 DEF Backed
  <2>3. written' = [written EXCEPT ![p] = rows]
    BY <1>4
  <2>4. "EVENT" \in {"LOOK", "STORE", "EVENT"} /\ b \in artifacts \cup rows.artifacts
    BY <2>1
  <2>. HIDE DEF rows
  <2>. QED  BY <1>1, <1>2, <1>4, <2>1, <2>2, <2>3, <2>4, StepKeeps
<1>. QED  BY <1>3, <1>4 DEF StoreArtifact

LEMMA DeadlockedKeeps ==
  ASSUME FeedInv, NEW p \in Pollers, Deadlocked(p) PROVE FeedInv'
<1>1. /\ phase[p] = "STORE" /\ Raised(p) /\ UNCHANGED <<published, cache, store, seen>>
  BY DEF Deadlocked
<1>2. phase[p] \in Polling /\ storage \subseteq Bytes
  BY <1>1, OfPoller DEF Polling, Ingesting
<1>. QED  BY <1>1, <1>2, NoCacheChange, RaisedKeeps DEF store, seen

LEMMA InsertEventKeeps ==
  ASSUME FeedInv, NEW p \in Pollers, InsertEvent(p) PROVE FeedInv'
<1>. DEFINE f == Head(payloads[p])
            rows == [written[p] EXCEPT !.events = @ \cup {f}]
<1>1. /\ phase[p] = "EVENT" /\ NextPayload(p, rows) /\ UNCHANGED <<published, cache, store, seen>>
  BY DEF InsertEvent
<1>2. phase[p] \in Ingesting /\ f \in Facts /\ written[p] \in RowSets
  BY <1>1, AtPayload, OfPoller DEF Ingesting
<1>3. /\ rows \in RowSets /\ rows.events = written[p].events \cup {f}
      /\ rows.artifacts = written[p].artifacts
  BY <1>2 DEF RowSets
<1>4. Backed(rows, artifacts, storage)
  <2>1. Backed(written[p], artifacts, storage) /\ f.bytes \in artifacts \cup written[p].artifacts
    BY <1>1, OfPoller DEF Holds, At
  <2>. QED  BY <1>3, <2>1 DEF Backed
<1>5. \A g \in rows.events : Seeks(At(p), g)
  BY <1>1, <1>3 DEF Seeks, At
<1>6. Covers(Stored \cup rows.events, f)
  BY <1>3 DEF Covers
<1>. HIDE DEF rows
<1>. QED  BY <1>1, <1>2, <1>3, <1>4, <1>5, <1>6, NextKeeps

-----------------------------------------------------------------------------
(* The provider, and the end of a round. *)

LEMMA PublishKeeps ==
  ASSUME FeedInv, NEW u \in Urls, Publish(u) PROVE FeedInv'
<1>1. /\ published[u] < Len(Content[u]) /\ published' = [published EXCEPT ![u] = @ + 1]
      /\ UNCHANGED <<cache, phase, round, requests, attempt, payloads, session, store, seen>>
  BY DEF Publish
<1>2. published \in [Urls -> Nat] /\ \A x \in Urls : published[x] <= Len(Content[x])
  BY DEF FeedInv, TypeOK, Offered
<1>3. published' \in [Urls -> Nat] /\ \A x \in Urls : published'[x] <= Len(Content[x])
  <2>1. Len(Content[u]) \in Nat
    BY FeedAssumption
  <2>. QED  BY <1>1, <1>2, <2>1
<1>4. TypeOK' /\ Offered'
  BY <1>1, <1>3 DEF FeedInv, TypeOK, Offered, session, store, seen
<1>5. Stored' = Stored /\ \A p \in Pollers : At(p)' = At(p)
  BY <1>1 DEF Stored, At, session, store
<1>6. Pollable' /\ Ledger'
  BY <1>1, <1>5 DEF FeedInv, Pollable, Ledger, store
<1>7. Counted'
  BY <1>1, <1>5 DEF FeedInv, Counted, Seeking, store
<1>8. Valid'
  BY <1>1, <1>5 DEF FeedInv, Valid, seen
<1>. QED  BY <1>4, <1>6, <1>7, <1>8 DEF FeedInv

\* A round ends with some of its events in the ledger.
LEMMA EndKeeps ==
  ASSUME FeedInv, NEW p \in Pollers, EndRound(p),
         NEW W \in SUBSET written[p].events, Whole(W, Stored \cup W),
         ledger' \in [Facts -> Nat],
         \A f \in Facts : ledger'[f] = ledger[f] + (IF f \in W THEN 1 ELSE 0),
         artifacts \subseteq artifacts', artifacts' \subseteq storage,
         \A f \in W : f.bytes \in artifacts',
         cache' \in [Pollers -> [Urls -> Nat]], \A q \in Pollers \ {p} : cache'[q] = cache[q],
         failed' \in BOOLEAN, restarts' \in 0..MaxRestarts, UNCHANGED <<published, storage>>,
         failed => failed',
         ~failed' => \/ \A u \in Urls : cache'[p][u] = 0
                    \/ /\ cache'[p] = cache[p] /\ phase[p] = "RETURNED"
                       /\ W = written[p].events
  PROVE  FeedInv'
<1>. DEFINE st == Left("IDLE", Nothing)
<1>0. /\ st.phase = "IDLE" /\ st.round = << >> /\ st.requests = << >> /\ st.attempt = 0
      /\ st.payloads = << >> /\ st.written = Nothing /\ st.savepoint = Nothing
      /\ st = [phase |-> "IDLE", round |-> << >>, requests |-> << >>, attempt |-> 0,
               payloads |-> << >>, written |-> Nothing, savepoint |-> Nothing]
  BY DEF Left
<1>1. Becomes(p, st)
  BY DEF EndRound, Leave, Left, Becomes
<1>. HIDE DEF st
<1>2. st \in PollerStates
  <2>1. "IDLE" \in PhaseType /\ Nothing \in RowSets
    BY NothingIsBacked DEF PhaseType
  <2>2. [phase |-> "IDLE", round |-> << >>, requests |-> << >>, attempt |-> 0,
         payloads |-> << >>, written |-> Nothing, savepoint |-> Nothing] \in PollerStates
    BY <2>1, NoneYet, IsState, Zenon
  <2>. QED  BY <1>0, <2>2, Zenon
<1>3. TypeOK /\ storage \subseteq Bytes /\ ledger \in [Facts -> Nat]
  BY DEF FeedInv, TypeOK
<1>4. At(p)' = st /\ \A q \in Pollers \ {p} : At(q)' = At(q)
  BY <1>1, <1>2, <1>3, AtNext
<1>5. TypeOK'
  <2>1. /\ phase' \in [Pollers -> PhaseType] /\ round' \in [Pollers -> Seq(Seq(Urls))]
        /\ requests' \in [Pollers -> Seq([url : Urls, dated : BOOLEAN])]
        /\ attempt' \in [Pollers -> 0..Max429Retries] /\ payloads' \in [Pollers -> Seq(Facts)]
        /\ written' \in [Pollers -> RowSets] /\ savepoint' \in [Pollers -> RowSets]
    BY <1>1, <1>2, <1>3, AtNext
  <2>2. artifacts' \subseteq Bytes /\ storage' \subseteq Bytes /\ published' \in [Urls -> Nat]
    BY <1>3 DEF TypeOK
  <2>. QED  BY <2>1, <2>2 DEF TypeOK
<1>6. Offered'
  BY DEF FeedInv, Offered
<1>7. W \subseteq Facts
  BY OfPoller DEF RowSets
<1>8. Stored' = Stored \cup W
  <2>1. \A f \in Facts : ledger'[f] > 0 <=> (ledger[f] > 0 \/ f \in W)
    <3>. TAKE f \in Facts
    <3>1. ledger[f] \in Nat /\ ledger'[f] = ledger[f] + (IF f \in W THEN 1 ELSE 0)
      BY <1>3
    <3>. QED  BY <3>1
  <2>. QED  BY <1>7, <2>1 DEF Stored
<1>9. Pollable'
  <2>. SUFFICES ASSUME NEW q \in Pollers
                PROVE  Fits(At(q)') /\ Holds(At(q)', Stored', artifacts', storage')
    BY DEF Pollable
  <2>1. CASE q = p
    <3>1. Fits(st)
      BY <1>0, <1>2 DEF Fits, Polling, Ingesting
    <3>2. Carried(st) = {}
      BY <1>0, NoElems, NothingIsBacked DEF Carried
    <3>3. ASSUME NEW S, NEW A, NEW D PROVE Holds(st, S, A, D)
      <4>1. Whole({}, S \cup {}) /\ Backed(Nothing, A, D) /\ Nothing.events = {}
        BY NothingIsBacked
      <4>. QED  BY <1>0, <3>2, <4>1 DEF Holds
    <3>. QED  BY <1>4, <2>1, <3>1, <3>3
  <2>2. CASE q # p
    <3>1. At(q)' = At(q) /\ Fits(At(q)) /\ Holds(At(q), Stored, artifacts, storage)
      BY <2>2, <1>4, OfPoller
    <3>2. Holds(At(q), Stored', artifacts', storage')
      BY <3>1, <1>8, HoldsGrows
    <3>. QED  BY <3>1, <3>2
  <2>. QED  BY <2>1, <2>2
<1>10. Ledger'
  <2>1. \A f \in Stored' : f.bytes \in artifacts'
    BY <1>8 DEF FeedInv, Ledger
  <2>2. Whole(Stored, Stored')
    <3>1. Whole(Stored, Stored) /\ Stored \subseteq Stored'
      BY <1>8 DEF FeedInv, Ledger
    <3>. QED  BY <3>1, WholeGrows
  <2>3. Whole(Stored', Stored')
    BY <1>8, <2>2 DEF Whole
  <2>. QED  BY <2>1, <2>3 DEF Ledger
<1>11. \A f : ~Seeks(st, f)
  BY <1>0, NothingIsBacked DEF Seeks
<1>12. Counted'
  <2>. SUFFICES ASSUME NEW f \in Facts
                PROVE  ledger'[f] + Cardinality(Seeking(f)') <= Cardinality(Pollers)
    BY DEF Counted
  <2>1. Seeking(f)' = Seeking(f) \ {p}
    BY <1>4, <1>11 DEF Seeking
  <2>2. IsFiniteSet(Seeking(f)) /\ IsFiniteSet(Pollers)
    <3>1. Seeking(f) \subseteq Pollers /\ IsFiniteSet(Pollers)
      BY FeedAssumption DEF Seeking
    <3>. QED  BY <3>1, FS_Subset
  <2>3. PICK n \in Nat, m \in Nat : n = Cardinality(Seeking(f)) /\ m = Cardinality(Pollers)
    BY <2>2, FS_CardinalityType
  <2>4. ledger[f] \in Nat /\ ledger[f] + n <= m
    BY <1>3, <2>3 DEF FeedInv, Counted
  <2>5. CASE f \in W
    <3>1. p \in Seeking(f)
      BY <2>5 DEF Seeking, Seeks, At
    <3>2. Cardinality(Seeking(f)') = n - 1
      BY <2>1, <2>2, <2>3, <3>1, FS_RemoveElement
    <3>3. ledger'[f] = ledger[f] + 1
      BY <2>5
    <3>. QED  BY <2>3, <2>4, <3>2, <3>3
  <2>6. CASE f \notin W
    <3>1. Cardinality(Seeking(f)') <= n /\ Cardinality(Seeking(f)') \in Nat
      <4>1. Seeking(f)' \subseteq Seeking(f)
        BY <2>1
      <4>. QED  BY <2>2, <2>3, <4>1, FS_Subset, FS_CardinalityType
    <3>2. ledger'[f] = ledger[f]
      BY <1>3, <2>6
    <3>. QED  BY <2>3, <2>4, <3>1, <3>2
  <2>. QED  BY <2>5, <2>6
<1>13. Valid'
  <2>. SUFFICES ASSUME ~failed', NEW q \in Pollers, NEW u \in Urls,
                       phase'[q] # "RAISED", cache'[q][u] > 0,
                       NEW f \in Facts, Validated(u, cache'[q][u], f)
                PROVE  Covers(Stored' \cup Carried(At(q)'), f)
    BY DEF Valid
  <2>1. \A r \in Pollers : phase[r] = At(r).phase /\ phase'[r] = (At(r)').phase
    BY DEF At
  <2>2. CASE q # p
    <3>1. At(q)' = At(q) /\ cache'[q] = cache[q] /\ phase[q] # "RAISED"
      BY <2>1, <2>2, <1>4
    <3>2. Covers(Stored \cup Carried(At(q)), f)
      BY <3>1 DEF FeedInv, Valid
    <3>3. Stored \cup Carried(At(q)) \subseteq Stored' \cup Carried(At(q))
      BY <1>8
    <3>. QED  BY <3>1, <3>2, <3>3, CoversGrows
  <2>3. CASE q = p
    <3>1. cache'[p] = cache[p] /\ phase[p] = "RETURNED" /\ W = written[p].events
      BY <2>3
    <3>2. Covers(Stored \cup Carried(At(p)), f)
      BY <2>3, <3>1 DEF FeedInv, Valid
    <3>3. Carried(At(p)) = W
      <4>1. payloads[p] = << >>
        BY <3>1, OfPoller DEF Fits, At, Polling, Ingesting
      <4>. QED  BY <3>1, <4>1, NoElems DEF Carried, At
    <3>4. Stored \cup Carried(At(p)) \subseteq Stored' \cup Carried(At(q)')
      BY <1>8, <3>3
    <3>. QED  BY <3>2, <3>4, CoversGrows
  <2>. QED  BY <2>2, <2>3
<1>. QED  BY <1>5, <1>6, <1>9, <1>10, <1>12, <1>13 DEF FeedInv

LEMMA CommitKeeps ==
  ASSUME FeedInv, NEW p \in Pollers, Commit(p) PROVE FeedInv'
<1>. DEFINE W == written[p].events
<1>1. /\ phase[p] \in {"RETURNED", "RAISED"} /\ EndRound(p)
      /\ artifacts' = artifacts \cup written[p].artifacts
      /\ ledger' = [f \in Facts |-> ledger[f] + (IF f \in W THEN 1 ELSE 0)]
      /\ failed' = (failed \/ phase[p] = "RAISED")
      /\ UNCHANGED <<published, cache, storage, restarts>>
  BY DEF Commit
<1>2. /\ ledger \in [Facts -> Nat] /\ cache \in [Pollers -> [Urls -> Nat]]
      /\ failed \in BOOLEAN /\ restarts \in 0..MaxRestarts
  BY DEF FeedInv, TypeOK
<1>3. ledger' \in [Facts -> Nat]
  <2>1. \A f \in Facts : ledger[f] + (IF f \in W THEN 1 ELSE 0) \in Nat
    BY <1>2
  <2>. HIDE DEF W
  <2>. QED  BY <1>1, <2>1
<1>4. \A f \in Facts : ledger'[f] = ledger[f] + (IF f \in W THEN 1 ELSE 0)
  <2>. HIDE DEF W
  <2>. QED  BY <1>1
<1>5. payloads[p] = << >> /\ Carried(At(p)) = W
  <2>1. payloads[p] = << >>
    BY <1>1, OfPoller DEF Fits, At, Polling, Ingesting
  <2>. QED  BY <2>1, NoElems DEF Carried, At
<1>6. Backed(written[p], artifacts, storage) /\ Whole(W, Stored \cup W)
  BY <1>5, OfPoller DEF Holds, At
<1>7. /\ artifacts \subseteq artifacts' /\ artifacts' \subseteq storage
      /\ \A f \in W : f.bytes \in artifacts'
  BY <1>1, <1>6, OfPoller DEF Backed
<1>8. /\ cache' \in [Pollers -> [Urls -> Nat]] /\ \A q \in Pollers \ {p} : cache'[q] = cache[q]
      /\ failed' \in BOOLEAN /\ restarts' \in 0..MaxRestarts /\ (failed => failed')
      /\ UNCHANGED <<published, storage>>
      /\ (~failed' => cache'[p] = cache[p] /\ phase[p] = "RETURNED")
  BY <1>1, <1>2
<1>9. W \in SUBSET written[p].events /\ W = written[p].events
  OBVIOUS
<1>. HIDE DEF W
<1>. QED  BY <1>1, <1>3, <1>4, <1>6, <1>7, <1>8, <1>9, EndKeeps

\* Nothing of the round is kept.
LEMMA DropKeeps ==
  ASSUME FeedInv, NEW p \in Pollers, EndRound(p), UNCHANGED <<published, store>>,
         cache' \in [Pollers -> [Urls -> Nat]], \A q \in Pollers \ {p} : cache'[q] = cache[q],
         failed' \in BOOLEAN, restarts' \in 0..MaxRestarts, failed => failed',
         failed' \/ \A u \in Urls : cache'[p][u] = 0
  PROVE  FeedInv'
<1>. DEFINE W == {}
<1>1. W \in SUBSET written[p].events /\ Whole(W, Stored \cup W)
  BY DEF Whole
<1>2. /\ ledger' \in [Facts -> Nat]
      /\ \A f \in Facts : ledger'[f] = ledger[f] + (IF f \in W THEN 1 ELSE 0)
  BY DEF FeedInv, TypeOK, store
<1>3. artifacts \subseteq artifacts' /\ artifacts' \subseteq storage
      /\ \A f \in W : f.bytes \in artifacts'
  BY OfPoller DEF store
<1>4. UNCHANGED <<published, storage>>
  BY DEF store
<1>. HIDE DEF W
<1>. QED  BY <1>1, <1>2, <1>3, <1>4, EndKeeps

LEMMA RollbackKeeps ==
  ASSUME FeedInv, NEW p \in Pollers, Rollback(p) PROVE FeedInv'
<1>1. EndRound(p) /\ failed' = TRUE /\ UNCHANGED <<published, cache, store, restarts>>
  BY DEF Rollback
<1>2. /\ cache' \in [Pollers -> [Urls -> Nat]] /\ failed' \in BOOLEAN
      /\ restarts' \in 0..MaxRestarts /\ UNCHANGED <<published, store>>
      /\ \A q \in Pollers \ {p} : cache'[q] = cache[q]
  BY <1>1 DEF FeedInv, TypeOK
<1>. QED  BY <1>1, <1>2, DropKeeps

LEMMA RestartKeeps ==
  ASSUME FeedInv, NEW p \in Pollers, Restart(p) PROVE FeedInv'
<1>1. /\ restarts < MaxRestarts /\ restarts' = restarts + 1 /\ EndRound(p)
      /\ cache' = [cache EXCEPT ![p] = [u \in Urls |-> 0]]
      /\ UNCHANGED <<published, store, failed>>
  BY DEF Restart
<1>2. /\ cache \in [Pollers -> [Urls -> Nat]] /\ failed \in BOOLEAN
      /\ restarts \in 0..MaxRestarts /\ MaxRestarts \in Nat
  BY FeedAssumption DEF FeedInv, TypeOK
<1>3. /\ cache' \in [Pollers -> [Urls -> Nat]] /\ \A q \in Pollers \ {p} : cache'[q] = cache[q]
      /\ \A u \in Urls : cache'[p][u] = 0
  BY <1>1, <1>2
<1>4. restarts' \in 0..MaxRestarts /\ failed' \in BOOLEAN /\ (failed => failed')
      /\ UNCHANGED <<published, store>>
  BY <1>1, <1>2
<1>. QED  BY <1>1, <1>3, <1>4, DropKeeps

-----------------------------------------------------------------------------
(* The theorems. *)

LEMMA FeedStarts == Init => FeedInv
<1>. SUFFICES ASSUME Init PROVE FeedInv
  OBVIOUS
<1>0. Nothing \in RowSets /\ "IDLE" \in PhaseType /\ 0 \in 0..MaxRestarts
  BY FeedAssumption, NothingIsBacked DEF PhaseType
<1>1. TypeOK
  BY <1>0, NoneYet, FeedAssumption DEF Init, TypeOK
<1>2. Offered
  <2>1. \A u \in Urls : Len(Content[u]) \in Nat /\ published[u] = 0
    BY FeedAssumption DEF Init
  <2>. QED  BY <2>1 DEF Offered
<1>3. Stored = {}
  BY DEF Init, Stored
<1>4. ASSUME NEW p \in Pollers
      PROVE  /\ At(p) = [phase |-> "IDLE", round |-> << >>, requests |-> << >>, attempt |-> 0,
                         payloads |-> << >>, written |-> Nothing, savepoint |-> Nothing]
             /\ At(p) \in PollerStates
  <2>1. At(p) = [phase |-> "IDLE", round |-> << >>, requests |-> << >>, attempt |-> 0,
                 payloads |-> << >>, written |-> Nothing, savepoint |-> Nothing]
    BY DEF Init, At
  <2>2. [phase |-> "IDLE", round |-> << >>, requests |-> << >>, attempt |-> 0,
         payloads |-> << >>, written |-> Nothing, savepoint |-> Nothing] \in PollerStates
    BY <1>0, NoneYet, IsState, Zenon
  <2>. QED  BY <2>1, <2>2, Zenon
<1>5. ASSUME NEW p \in Pollers
      PROVE  /\ At(p).phase = "IDLE" /\ At(p).round = << >> /\ At(p).requests = << >>
             /\ At(p).payloads = << >> /\ At(p).written = Nothing /\ At(p).savepoint = Nothing
  BY <1>4
<1>6. Pollable
  <2>. SUFFICES ASSUME NEW p \in Pollers
                PROVE  Fits(At(p)) /\ Holds(At(p), Stored, artifacts, storage)
    BY DEF Pollable
  <2>1. Fits(At(p))
    BY <1>4, <1>5 DEF Fits, Polling, Ingesting
  <2>2. Carried(At(p)) = {}
    BY <1>5, NoElems, NothingIsBacked DEF Carried
  <2>3. Holds(At(p), Stored, artifacts, storage)
    BY <1>5, <2>2, NothingIsBacked DEF Holds
  <2>. QED  BY <2>1, <2>3
<1>7. Ledger
  BY <1>3 DEF Init, Ledger, Whole
<1>8. Counted
  <2>. SUFFICES ASSUME NEW f \in Facts
                PROVE  ledger[f] + Cardinality(Seeking(f)) <= Cardinality(Pollers)
    BY DEF Counted
  <2>1. Seeking(f) = {}
    BY <1>5, NothingIsBacked DEF Seeking, Seeks
  <2>2. Cardinality({}) = 0 /\ Cardinality(Pollers) \in Nat
    BY FeedAssumption, FS_EmptySet, FS_CardinalityType
  <2>3. ledger[f] = 0
    BY DEF Init
  <2>. QED  BY <2>1, <2>2, <2>3
<1>9. Valid
  BY DEF Init, Valid
<1>. QED  BY <1>1, <1>2, <1>6, <1>7, <1>8, <1>9 DEF FeedInv

LEMMA FeedStutters == FeedInv /\ UNCHANGED vars => FeedInv'
<1>. SUFFICES ASSUME FeedInv, UNCHANGED vars PROVE FeedInv'
  OBVIOUS
<1>1. /\ UNCHANGED <<published, cache, phase, round, requests, attempt, payloads>>
      /\ UNCHANGED <<session, store, seen>>
  BY DEF vars
<1>2. Stored' = Stored /\ \A p \in Pollers : At(p)' = At(p)
  BY <1>1 DEF Stored, At, session, store
<1>3. TypeOK' /\ Offered'
  BY <1>1 DEF FeedInv, TypeOK, Offered, session, store, seen
<1>4. Pollable' /\ Ledger'
  BY <1>1, <1>2 DEF FeedInv, Pollable, Ledger, store
<1>5. Counted'
  BY <1>1, <1>2 DEF FeedInv, Counted, Seeking, store
<1>6. Valid'
  BY <1>1, <1>2 DEF FeedInv, Valid, seen
<1>. QED  BY <1>3, <1>4, <1>5, <1>6 DEF FeedInv

LEMMA FeedSteps == FeedInv /\ [Next]_vars => FeedInv'
<1>. SUFFICES ASSUME FeedInv, [Next]_vars PROVE FeedInv'
  OBVIOUS
<1>1. CASE \E u \in Urls : Publish(u)
  BY <1>1, PublishKeeps
<1>2. ASSUME NEW p \in Pollers, PollAll(p) \/ RoundStep(p) \/ Restart(p) PROVE FeedInv'
  <2>1. CASE Ok(p) \/ NotModified(p) \/ RateLimited(p) \/ Failed(p)
    BY <2>1, OkKeeps, NotModifiedKeeps, RateLimitedKeeps, FailedKeeps
  <2>2. CASE Ingest(p)
    BY <2>2, FindEventKeeps, FindArtifactKeeps, StoreArtifactKeeps, DeadlockedKeeps,
       InsertEventKeeps DEF Ingest
  <2>3. CASE Commit(p) \/ Rollback(p)
    BY <2>3, CommitKeeps, RollbackKeeps
  <2>4. CASE PollAll(p) \/ Restart(p)
    BY <2>4, PollAllKeeps, RestartKeeps
  <2>. QED  BY <1>2, <2>1, <2>2, <2>3, <2>4 DEF RoundStep
<1>. QED  BY <1>1, <1>2, FeedStutters DEF Next

LEMMA FeedInvariant == Spec => []FeedInv
BY FeedStarts, FeedSteps, PTL DEF Spec

\* Whatever fails, dies or is rolled back between the steps of a round, the
\* ledger holds whole documents, each event with its artifact and its bytes
\* on disk, and a fact not more often than there are pollers.
THEOREM EvidenceIsWhole == Spec => []EvidenceHolds
<1>1. FeedInv => EvidenceHolds
  <2>. SUFFICES ASSUME FeedInv PROVE EvidenceHolds
    OBVIOUS
  <2>1. EvidenceIsBacked
    BY DEF FeedInv, Ledger, Stored, EvidenceIsBacked
  <2>2. NoPartialEvidence
    <3>. SUFFICES ASSUME NEW f \in Facts, NEW g \in Facts, f.uri = g.uri, f.bytes = g.bytes,
                         ledger[f] > 0
                  PROVE  OnRecord(g)
      BY DEF NoPartialEvidence
    <3>1. Covers(Stored, g)
      BY DEF FeedInv, Ledger, Whole, SameDocument, Stored
    <3>. QED  BY <3>1 DEF Covers, Stored, OnRecord
  <2>3. EvidenceIsDeduplicated
    <3>. SUFFICES ASSUME NEW f \in Facts PROVE ledger[f] <= Cardinality(Pollers)
      BY DEF EvidenceIsDeduplicated
    <3>1. IsFiniteSet(Seeking(f)) /\ IsFiniteSet(Pollers)
      <4>1. Seeking(f) \subseteq Pollers /\ IsFiniteSet(Pollers)
        BY FeedAssumption DEF Seeking
      <4>. QED  BY <4>1, FS_Subset
    <3>2. PICK n \in Nat, m \in Nat : n = Cardinality(Seeking(f)) /\ m = Cardinality(Pollers)
      BY <3>1, FS_CardinalityType
    <3>3. ledger[f] \in Nat /\ ledger[f] + n <= m
      BY <3>2 DEF FeedInv, TypeOK, Counted
    <3>. QED  BY <3>2, <3>3
  <2>. QED  BY <2>1, <2>2, <2>3 DEF FeedInv, EvidenceHolds
<1>. QED  BY <1>1, FeedInvariant, PTL

\* As long as no round has failed or been rolled back, the document a poller
\* at rest will be answered 304 for is in the ledger, whoever put it there.
THEOREM ValidatorsHold == Spec => []ValidatorsStandForFacts
<1>1. FeedInv => ValidatorsStandForFacts
  <2>. SUFFICES ASSUME FeedInv, NEW p \in Pollers, NEW u \in Urls,
                       phase[p] = "IDLE", ~failed, cache[p][u] > 0,
                       NEW f \in Facts, f.uri = u, f.bytes = Content[u][cache[p][u]]
                PROVE  OnRecord(f)
    BY DEF ValidatorsStandForFacts
  <2>1. Covers(Stored \cup Carried(At(p)), f)
    BY DEF FeedInv, Valid, Validated
  <2>2. Carried(At(p)) = {}
    <3>1. payloads[p] = << >> /\ written[p] = Nothing
      BY OfPoller DEF Fits, At, Polling, Ingesting
    <3>. QED  BY <3>1, NoElems, NothingIsBacked DEF Carried, At
  <2>. QED  BY <2>1, <2>2 DEF Covers, Stored, OnRecord
<1>. QED  BY <1>1, FeedInvariant, PTL
=============================================================================
