----------------------------- MODULE FeedPoller -----------------------------
(***************************************************************************)
(* The primary feeds and the evidence store.  A poller is a process with a *)
(* ResilientHttpClient, adapters, a FeedCoordinator and an EvidenceStore   *)
(* on a database session of its own.  poll_all polls the adapters in turn, *)
(* each inside a savepoint: a poll gets every URL of its adapter, parses   *)
(* what changed into payloads and ingests them.  The caller commits the    *)
(* round or rolls it back; after a failure it may do either.               *)
(*                                                                         *)
(* A session reads what is committed and what it wrote itself.  A flush    *)
(* that inserts a hash another session holds uncommitted waits for it.     *)
(* The validators of conditional requests live in the process: they are    *)
(* not part of the transaction, and a restart loses them.                  *)
(*                                                                         *)
(* Documents are identified by their content.  A document of SEC EDGAR's   *)
(* submissions has no rows: it links to filings the same poll gets.  Time  *)
(* (rate limit, backoff, timeouts) is abstracted: a request is answered.   *)
(***************************************************************************)
EXTENDS PrimaryFeeds, Sequences, FiniteSets
LOCAL INSTANCE SequencesExt

CONSTANTS
  Pollers,
  Urls,
  Plan,         \* the adapters a poller polls, each as the URLs it gets, in order
  Format,       \* the format of the documents of a URL
  Bytes,
  Content,      \* the documents a URL serves, one after the other
  Rows,         \* the rows of a document
  Links,        \* the filings a document links to
  Max429Retries,
  MaxRestarts   \* bound on the restarts

\* An adapter without a URL has nothing to poll.
ASSUME FeedAssumption ==
  /\ IsFiniteSet(Pollers)
  /\ Plan \in [Pollers -> Seq(Seq(Urls))] /\ \A p \in Pollers : Plan[p] # << >>
  /\ \A p \in Pollers : \A i \in DOMAIN Plan[p] : Plan[p][i] # << >>
  /\ Format \in [Urls -> Formats \cup {"SEC_SUBMISSIONS"}]
  /\ Content \in [Urls -> Seq(Bytes)] /\ \A u \in Urls : Content[u] # << >>
  /\ Rows \in [Bytes -> Seq(FeedRows)] /\ Links \in [Bytes -> Seq(Urls)]
  /\ Max429Retries \in Nat /\ MaxRestarts \in Nat

VARIABLES
  published,   \* per URL, the version it serves: 0 before the first
  cache,       \* ResilientHttpClient._cache_headers: the version validated, 0 if none
  phase,       \* IDLE, GET, FIND, LOOK, STORE, EVENT, RETURNED or RAISED
  round,       \* the adapters the round has still to poll, the current one first
  requests,    \* the requests the current poll has still to make
  attempt,     \* 429 answers to the current request
  payloads,    \* what the poll has parsed and not yet ingested
  written,     \* artifacts and events of the open transaction
  savepoint,   \* what was written before the current poll
  artifacts,   \* committed intelligence_raw_artifacts, by content
  ledger,      \* per fact, its committed intelligence_evidence_ledger rows
  storage,     \* contents on disk
  failed,      \* some round has raised or been rolled back
  restarts

session == <<written, savepoint>>
store == <<artifacts, ledger, storage>>
seen == <<failed, restarts>>
vars == <<published, cache, phase, round, requests, attempt, payloads, session, store, seen>>

\* A fact is a row of a document, as served by one URL.
Facts == UNION {UNION {{[uri |-> u, bytes |-> Content[u][v], row |-> i] : i \in 1..Len(Rows[Content[u][v]])} :
                         v \in 1..Len(Content[u])} : u \in Urls}
RowOf(f) == Rows[f.bytes][f.row]
EvidenceFor(f) == EvidenceOf(Format[f.uri], RowOf(f))

Nothing == [artifacts |-> {}, events |-> {}]

Init ==
  /\ published = [u \in Urls |-> 0]
  /\ cache = [p \in Pollers |-> [u \in Urls |-> 0]]
  /\ phase = [p \in Pollers |-> "IDLE"]
  /\ round = [p \in Pollers |-> << >>]
  /\ requests = [p \in Pollers |-> << >>]
  /\ attempt = [p \in Pollers |-> 0]
  /\ payloads = [p \in Pollers |-> << >>]
  /\ written = [p \in Pollers |-> Nothing]
  /\ savepoint = [p \in Pollers |-> Nothing]
  /\ artifacts = {} /\ ledger = [f \in Facts |-> 0] /\ storage = {}
  /\ failed = FALSE /\ restarts = 0

-----------------------------------------------------------------------------
(* The provider: a document is out before the submissions list it. *)

Published(u) == Content[u][published[u]]

Publish(u) ==
  /\ published[u] < Len(Content[u])
  /\ \A d \in Range(Links[Content[u][published[u] + 1]]) : published[d] > 0
  /\ published' = [published EXCEPT ![u] = @ + 1]
  /\ UNCHANGED <<cache, phase, round, requests, attempt, payloads, session, store, seen>>

-----------------------------------------------------------------------------
(* FeedCoordinator.poll_all and poll_adapter *)

\* dated: an If-Modified-Since header of the adapter's own.
Get(u) == [url |-> u, dated |-> FALSE]

\* begin_nested, and the requests of the next adapter.
BeginPoll(p, adapters, rows) ==
  /\ round' = [round EXCEPT ![p] = adapters]
  /\ savepoint' = [savepoint EXCEPT ![p] = rows]
  /\ requests' = [requests EXCEPT ![p] = [i \in DOMAIN Head(adapters) |-> Get(Head(adapters)[i])]]
  /\ attempt' = [attempt EXCEPT ![p] = 0]
  /\ payloads' = [payloads EXCEPT ![p] = << >>]
  /\ phase' = [phase EXCEPT ![p] = "GET"]

PollAll(p) ==
  /\ phase[p] = "IDLE"
  /\ BeginPoll(p, Plan[p], Nothing)
  /\ UNCHANGED <<published, cache, written, store, seen>>

\* poll_all is left, for good or ill.
Leave(p, how, rows) ==
  /\ phase' = [phase EXCEPT ![p] = how]
  /\ round' = [round EXCEPT ![p] = << >>]
  /\ requests' = [requests EXCEPT ![p] = << >>]
  /\ attempt' = [attempt EXCEPT ![p] = 0]
  /\ payloads' = [payloads EXCEPT ![p] = << >>]
  /\ written' = [written EXCEPT ![p] = rows]
  /\ savepoint' = [savepoint EXCEPT ![p] = Nothing]

\* An exception leaves the savepoint, and poll_all.
Raised(p) == Leave(p, "RAISED", savepoint[p])

\* The poll is over: the next adapter, if there is one.
PollReturns(p, rows) ==
  IF Len(round[p]) = 1 THEN Leave(p, "RETURNED", rows)
  ELSE /\ BeginPoll(p, Tail(round[p]), rows)
       /\ written' = [written EXCEPT ![p] = rows]

-----------------------------------------------------------------------------
(* ResilientHttpClient.get, and what the adapter makes of the answer *)

Request(p) == Head(requests[p])
Asking(p) == phase[p] = "GET"

\* 429: the request is repeated, but not for ever.
RateLimited_Fault(p) ==
  /\ Asking(p)
  /\ attempt' = [attempt EXCEPT ![p] = (@ + 1) % (Max429Retries + 1)]
  /\ UNCHANGED <<phase, round, requests, payloads, session>>
  /\ UNCHANGED <<published, cache, store, seen>>

RateLimited(p) ==
  /\ Asking(p)
  /\ \/ attempt[p] = Max429Retries /\ Raised(p)
     \/ /\ attempt[p] < Max429Retries
        /\ attempt' = [attempt EXCEPT ![p] = @ + 1]
        /\ UNCHANGED <<phase, round, requests, payloads, session>>
  /\ UNCHANGED <<published, cache, store, seen>>

\* No answer, or another status (404 before the first version).
Failed(p) ==
  /\ Asking(p)
  /\ Raised(p)
  /\ UNCHANGED <<published, cache, store, seen>>

\* The requests and payloads of the poll from here on.  When there is no
\* request left poll_feed returns, and the payloads are ingested.
PollOn(p, gets, facts) ==
  \/ /\ gets = << >> /\ facts = << >>
     /\ PollReturns(p, written[p])
  \/ /\ gets # << >> \/ facts # << >>
     /\ requests' = [requests EXCEPT ![p] = gets]
     /\ attempt' = [attempt EXCEPT ![p] = 0]
     /\ payloads' = [payloads EXCEPT ![p] = facts]
     /\ phase' = [phase EXCEPT ![p] = IF gets = << >> THEN "FIND" ELSE "GET"]
     /\ UNCHANGED <<round, session>>

\* 304: the validators are current, or the document is older than the date
\* the adapter sent.  The adapter goes on to its next URL.
NotModified(p) ==
  /\ Asking(p) /\ published[Request(p).url] > 0
  /\ Request(p).dated \/ cache[p][Request(p).url] = published[Request(p).url]
  /\ PollOn(p, Tail(requests[p]), payloads[p])
  /\ UNCHANGED <<published, cache, store, seen>>

\* The submissions are followed by their filings, asked for with the
\* submissions' own date.
FilingRequests(b) == [i \in DOMAIN Links[b] |-> [url |-> Links[b][i], dated |-> TRUE]]

FactsOf(u, b) == [i \in DOMAIN Rows[b] |-> [uri |-> u, bytes |-> b, row |-> i]]

\* 200: the validators are kept whatever becomes of the document.
Ok_Fault(p) ==
  /\ Asking(p) /\ published[Request(p).url] > 0
  /\ LET u == Request(p).url
         b == Published(u)
     IN /\ cache' = [cache EXCEPT ![p][u] = published[u]]
        /\ \/ /\ \E i \in DOMAIN Rows[b] : Refused(Format[u], Rows[b][i])
              /\ PollOn(p, Tail(requests[p]), payloads[p])
           \/ /\ \A i \in DOMAIN Rows[b] : ~Refused(Format[u], Rows[b][i])
              /\ PollOn(p, FilingRequests(b) \o Tail(requests[p]), payloads[p] \o FactsOf(u, b))
  /\ UNCHANGED <<published, store, seen>>

Ok(p) ==
  /\ Asking(p) /\ published[Request(p).url] > 0
  /\ LET u == Request(p).url
         b == Published(u)
     IN /\ cache' = [cache EXCEPT ![p][u] = published[u]]
        /\ \/ /\ \E i \in DOMAIN Rows[b] : Refused(Format[u], Rows[b][i])
              /\ Raised(p)
           \/ /\ \A i \in DOMAIN Rows[b] : ~Refused(Format[u], Rows[b][i])
              /\ PollOn(p, FilingRequests(b) \o Tail(requests[p]), payloads[p] \o FactsOf(u, b))
  /\ UNCHANGED <<published, store, seen>>

-----------------------------------------------------------------------------
(* EvidenceStore.ingest_evidence *)

\* The columns the store looks an event up by (a default title names the
\* series: two rows of a document with one title and date are one event).
EventKey(f) ==
  LET e == EvidenceFor(f)
      default == IF RowOf(f).title = {} THEN RowOf(f).name ELSE ""
  IN <<f.bytes, f.uri, e.source_name, e.event_type, e.title, default, e.published_at,
       e.release_status>>

Known(p) == {f \in Facts : ledger[f] > 0} \cup written[p].events

Existing(p, f) == \E g \in Known(p) : EventKey(g) = EventKey(f)

\* The payload is dealt with.
NextPayload_Fault(p, rows) == PollReturns(p, rows)

NextPayload(p, rows) ==
  \/ Len(payloads[p]) = 1 /\ PollReturns(p, rows)
  \/ /\ Len(payloads[p]) > 1
     /\ payloads' = [payloads EXCEPT ![p] = Tail(@)]
     /\ phase' = [phase EXCEPT ![p] = "FIND"]
     /\ written' = [written EXCEPT ![p] = rows]
     /\ UNCHANGED <<round, savepoint, requests, attempt>>

\* An event that exists is returned.
FindEvent(p) ==
  /\ phase[p] = "FIND"
  /\ \/ /\ Existing(p, Head(payloads[p]))
        /\ NextPayload(p, written[p])
     \/ /\ ~Existing(p, Head(payloads[p]))
        /\ phase' = [phase EXCEPT ![p] = "LOOK"]
        /\ UNCHANGED <<round, requests, attempt, payloads, session>>
  /\ UNCHANGED <<published, cache, store, seen>>

\* A second statement: it may see what the first did not.
FindArtifact(p) ==
  /\ phase[p] = "LOOK"
  /\ LET found == Head(payloads[p]).bytes \in artifacts \cup written[p].artifacts
     IN phase' = [phase EXCEPT ![p] = IF found THEN "EVENT" ELSE "STORE"]
  /\ UNCHANGED <<published, cache, round, requests, attempt, payloads, session, store, seen>>

HeldByOther(p, b) == \E q \in Pollers \ {p} : b \in written[q].artifacts

\* The bytes get to disk before the row, and stay there whatever happens.
WriteBytes(b) == storage' = storage \cup {b}

\* The insert is refused if the content is there by now.
StoreArtifact(p) ==
  /\ phase[p] = "STORE"
  /\ LET b == Head(payloads[p]).bytes
     IN /\ ~HeldByOther(p, b)
        /\ WriteBytes(b)
        /\ \/ b \in artifacts /\ Raised(p)
           \/ /\ b \notin artifacts
              /\ written' = [written EXCEPT ![p].artifacts = @ \cup {b}]
              /\ phase' = [phase EXCEPT ![p] = "EVENT"]
              /\ UNCHANGED <<requests, attempt, round, payloads, savepoint>>
  /\ UNCHANGED <<published, cache, artifacts, ledger, seen>>

\* Each waits for an artifact of the other: the database ends one of them.
Deadlocked(p) ==
  /\ phase[p] = "STORE"
  /\ \E q \in Pollers \ {p} : /\ phase[q] = "STORE"
                              /\ Head(payloads[p]).bytes \in written[q].artifacts
                              /\ Head(payloads[q]).bytes \in written[p].artifacts
  /\ Raised(p)
  /\ UNCHANGED <<published, cache, store, seen>>

InsertEvent(p) ==
  /\ phase[p] = "EVENT"
  /\ NextPayload(p, [written[p] EXCEPT !.events = @ \cup {Head(payloads[p])}])
  /\ UNCHANGED <<published, cache, store, seen>>

-----------------------------------------------------------------------------
(* The caller's transaction *)

EndRound(p) == Leave(p, "IDLE", Nothing)

Commit(p) ==
  /\ phase[p] \in {"RETURNED", "RAISED"}
  /\ artifacts' = artifacts \cup written[p].artifacts
  /\ ledger' = [f \in Facts |-> ledger[f] + (IF f \in written[p].events THEN 1 ELSE 0)]
  /\ EndRound(p)
  /\ failed' = (failed \/ phase[p] = "RAISED")
  /\ UNCHANGED <<published, cache, storage, restarts>>

Rollback(p) ==
  /\ phase[p] \in {"RETURNED", "RAISED"}
  /\ EndRound(p)
  /\ failed' = TRUE
  /\ UNCHANGED <<published, cache, store, restarts>>

\* The process dies: the database rolls its transaction back.
Restart(p) ==
  /\ restarts < MaxRestarts /\ restarts' = restarts + 1
  /\ cache' = [cache EXCEPT ![p] = [u \in Urls |-> 0]]
  /\ EndRound(p)
  /\ UNCHANGED <<published, store, failed>>

Ingest(p) ==
  FindEvent(p) \/ FindArtifact(p) \/ StoreArtifact(p) \/ Deadlocked(p) \/ InsertEvent(p)

RoundStep(p) ==
  \/ Ok(p) \/ NotModified(p) \/ RateLimited(p) \/ Failed(p)
  \/ Ingest(p)
  \/ Commit(p) \/ Rollback(p)

Next ==
  \/ \E u \in Urls : Publish(u)
  \/ \E p \in Pollers : PollAll(p) \/ RoundStep(p) \/ Restart(p)

Spec == Init /\ [][Next]_vars

-----------------------------------------------------------------------------
(* Safety *)

PhaseType == {"IDLE", "GET", "FIND", "LOOK", "STORE", "EVENT", "RETURNED", "RAISED"}
RowSets == [artifacts : SUBSET Bytes, events : SUBSET Facts]

TypeOK ==
  /\ published \in [Urls -> Nat]
  /\ cache \in [Pollers -> [Urls -> Nat]]
  /\ phase \in [Pollers -> PhaseType]
  /\ round \in [Pollers -> Seq(Seq(Urls))]
  /\ requests \in [Pollers -> Seq([url : Urls, dated : BOOLEAN])]
  /\ attempt \in [Pollers -> 0..Max429Retries]
  /\ payloads \in [Pollers -> Seq(Facts)]
  /\ written \in [Pollers -> RowSets] /\ savepoint \in [Pollers -> RowSets]
  /\ artifacts \subseteq Bytes /\ ledger \in [Facts -> Nat] /\ storage \subseteq Bytes
  /\ failed \in BOOLEAN /\ restarts \in 0..MaxRestarts

\* Every committed event has its artifact, and the bytes of every artifact
\* are on disk: whatever fails, dies or rolls back in between.
EvidenceIsBacked ==
  /\ \A f \in Facts : ledger[f] > 0 => f.bytes \in artifacts
  /\ artifacts \subseteq storage

\* The event of a fact is in the ledger: its own row, or one like it.
OnRecord(f) == \E g \in Facts : ledger[g] > 0 /\ EventKey(g) = EventKey(f)

\* A document is in the ledger with all its facts or with none, although a
\* poll may fail between them and the caller may commit all the same
\* (test_sec_rate_limit_failure_creates_no_partial_evidence and
\* test_malformed_feed_payload_fails_closed..., for every failure).
NoPartialEvidence ==
  \A f, g \in Facts : f.uri = g.uri /\ f.bytes = g.bytes /\ ledger[f] > 0 => OnRecord(g)

\* Polling again adds nothing: a fact is in the ledger once, and once more
\* for every other poller that was looking for it at that very time (the
\* event is looked up before the artifact, and only the artifact is unique).
EvidenceIsDeduplicated == \A f \in Facts : ledger[f] <= Cardinality(Pollers)

\* The validators a poller keeps stand for facts in the ledger, as long as
\* no round has failed or been rolled back.
\* After that they may not: the cache is not part of the transaction, and a
\* document whose validators are kept is answered 304 from then on.
ValidatorsStandForFacts ==
  \A p \in Pollers, u \in Urls :
    phase[p] = "IDLE" /\ ~failed /\ cache[p][u] > 0
      => \A f \in Facts : f.uri = u /\ f.bytes = Content[u][cache[p][u]] => OnRecord(f)

\* The ledger holds whole documents, each backed by its bytes, and a fact not
\* more often than there are pollers.
EvidenceHolds == TypeOK /\ EvidenceIsBacked /\ NoPartialEvidence /\ EvidenceIsDeduplicated

-----------------------------------------------------------------------------
(* Liveness *)

\* The poller runs on once a round is open: every request has a timeout.  A
\* flush that waits for another session's artifact is woken when that
\* session ends, so it does not wait for ever although others may come.
FairSpec == Spec /\ \A p \in Pollers : SF_vars(RoundStep(p))

\* Every round ends, in spite of rate limits and of pollers that wait for
\* each other's artifacts.
RoundsEnd == \A p \in Pollers : phase[p] # "IDLE" ~> phase[p] = "IDLE"
=============================================================================
