----------------------------- MODULE CaseEngine -----------------------------
(***************************************************************************)
(* Investigation cases (engine/intelligence/cases/, migration 0018): a     *)
(* case is opened, batches of findings that cite evidence are added to it, *)
(* and one conclusion closes it with a verdict derived from them.  The     *)
(* context gate reads the conclusions.                                     *)
(*                                                                         *)
(* Each analyst works in a database session of its own, one call to a      *)
(* transaction.  Every statement of a call sees what is committed by then; *)
(* nothing is locked.  An insert whose unique key another session holds    *)
(* uncommitted waits for it, and is refused once that row is committed.    *)
(***************************************************************************)
EXTENDS ContextGate, Sequences

CONSTANTS
  Cases,
  Analysts,
  Batches     \* the batches of findings that may be added

Roles == {"PRIMARY_PROOF", "CONTRADICTION", "CONTEXT"}
Statuses == {"ACTIVE", "SUPERSEDED", "HISTORICAL_CONTEXT"}
Findings ==
  [type : {"SUPPORTING", "CONTRADICTORY", "GAP_IDENTIFIED", "SUPERSEDED_FACT"},
   citations : SUBSET [event_id : Events, role : Roles, status : Statuses]]

\* FindingPayload.validate_evidence_topology
WellFormed(f) ==
  /\ f.type = "GAP_IDENTIFIED" => f.citations = {}
  /\ f.type \in {"SUPPORTING", "CONTRADICTORY"} => Cardinality(f.citations) >= 1
  /\ f.type = "SUPERSEDED_FACT" => Cardinality(f.citations) >= 2
  /\ \A x, y \in f.citations : x.event_id = y.event_id => x = y

ASSUME CaseAssumption ==
  /\ \A b \in Batches : b \in Seq({f \in Findings : WellFormed(f)}) /\ b # << >>
  /\ None \notin Cases

VARIABLES
  opened,    \* opened_at of the cases, None before
  findings,  \* intelligence_case_findings with their citations
  closed,    \* intelligence_case_conclusions, each with the rows of its manifest
  step,      \* what each analyst's call has done
  call       \* its arguments and what it has read

caseVars == <<opened, findings, closed, step, call>>

NoCall ==
  [case |-> None, batch |-> << >>, first |-> 0, rows |-> {}, citations |-> {}, closed_at |-> None]

CaseInit ==
  /\ opened = [k \in Cases |-> None] /\ findings = {} /\ closed = {}
  /\ step = [s \in Analysts |-> "IDLE"] /\ call = [s \in Analysts |-> NoCall]

Rows(k) == {r \in findings : r.case = k}
CitationsOf(rows) == UNION {r.finding.citations : r \in rows}

\* _open_case
IsOpen(k) == opened[k] # None /\ \A c \in closed : c.case # k

derive_verdict(rows, citations) ==
  LET types == {r.finding.type : r \in rows}
      active(role) == \E c \in citations : c.role = role /\ c.status = "ACTIVE"
      doubts == {"CONTRADICTORY", "GAP_IDENTIFIED"} \cap types
  IN IF types \subseteq {"GAP_IDENTIFIED"} THEN "INSUFFICIENT_EVIDENCE"
     ELSE IF active("CONTRADICTION") /\ "SUPPORTING" \notin types THEN "UNSUPPORTED"
     ELSE IF active("PRIMARY_PROOF") /\ doubts = {} THEN "CONFIRMED"
     ELSE IF "SUPPORTING" \in types THEN "PARTIALLY_SUPPORTED"
     ELSE "INSUFFICIENT_EVIDENCE"

-----------------------------------------------------------------------------

Moves(s, from, to) == step[s] = from /\ step' = [step EXCEPT ![s] = to]

OpenCase(k) ==
  /\ opened[k] = None
  /\ opened' = [opened EXCEPT ![k] = now]
  /\ UNCHANGED <<gateVars, findings, closed, step, call>>

Begin(s, k, batch, to) ==
  /\ IsOpen(k)
  /\ Moves(s, "IDLE", to)
  /\ call' = [call EXCEPT ![s] = [NoCall EXCEPT !.case = k, !.batch = batch]]
  /\ UNCHANGED <<gateVars, opened, findings, closed>>

AddFindings(s, k, batch) == Begin(s, k, batch, "ADD")
ConcludeCase(s, k) == Begin(s, k, << >>, "CONCLUDE")

\* One more than the highest number of the case, 1 for the first finding.
FirstNumber(k) ==
  {n \in {1} \cup {r.num + 1 : r \in Rows(k)} : \A r \in Rows(k) : r.num < n}

ReadSequence(s) ==
  /\ Moves(s, "ADD", "NUMBERED")
  /\ \E n \in FirstNumber(call[s].case) : call' = [call EXCEPT ![s].first = n]
  /\ UNCHANGED <<gateVars, opened, findings, closed>>

\* The rows of the batch of s.
BatchRows(s) ==
  {[case |-> call[s].case, num |-> call[s].first + i - 1, finding |-> call[s].batch[i]] :
     i \in DOMAIN call[s].batch}

\* _require_canonical_evidence
Canonical(s) == \A r \in BatchRows(s) : \A c \in r.finding.citations : observed[c.event_id] # None

\* uq_case_finding_sequence
Collides_Fault(rows, others) == rows \cap others # {}

Collides(rows, others) == \E r \in rows, q \in others : r.case = q.case /\ r.num = q.num

Inserting(s) == {u \in Analysts \ {s} : step[u] = "INSERTED"}

InsertFindings(s) ==
  /\ Moves(s, "NUMBERED", "INSERTED")
  /\ Canonical(s)
  /\ ~Collides(BatchRows(s), findings)
  /\ \A u \in Inserting(s) : ~Collides(BatchRows(s), BatchRows(u))
  /\ UNCHANGED <<gateVars, opened, findings, closed, call>>

Ends(s) ==
  /\ step' = [step EXCEPT ![s] = "IDLE"]
  /\ call' = [call EXCEPT ![s] = NoCall]

CommitFindings(s) ==
  /\ step[s] = "INSERTED"
  /\ findings' = findings \cup BatchRows(s)
  /\ Ends(s)
  /\ UNCHANGED <<gateVars, opened, closed>>

ReadFindings(s) ==
  /\ Moves(s, "CONCLUDE", "FOUND")
  /\ call' = [call EXCEPT ![s].rows = Rows(call[s].case)]
  /\ UNCHANGED <<gateVars, opened, findings, closed>>

\* The citations are joined to the findings of the case anew.
ReadCitations_Fault(s) ==
  /\ Moves(s, "FOUND", "CITED")
  /\ call' = [call EXCEPT ![s].citations = CitationsOf(findings)]
  /\ UNCHANGED <<gateVars, opened, findings, closed>>

ReadCitations(s) ==
  /\ Moves(s, "FOUND", "CITED")
  /\ call' = [call EXCEPT ![s].citations = CitationsOf(Rows(call[s].case))]
  /\ UNCHANGED <<gateVars, opened, findings, closed>>

\* The unique case_id of intelligence_case_conclusions.
AlreadyClosed(k) == \E c \in closed : c.case = k

InsertConclusion(s) ==
  /\ Moves(s, "CITED", "CONCLUDED")
  /\ ~AlreadyClosed(call[s].case)
  /\ \A u \in Analysts : step[u] = "CONCLUDED" => call[u].case # call[s].case
  /\ opened[call[s].case] <= now /\ \A r \in Rows(call[s].case) : WellFormed(r.finding)
  /\ call' = [call EXCEPT ![s].closed_at = now]
  /\ UNCHANGED <<gateVars, opened, findings, closed>>

CommitConclusion(s) ==
  LET verdict == derive_verdict(call[s].rows, call[s].citations) IN
  /\ step[s] = "CONCLUDED"
  /\ closed' = closed \cup {[case |-> call[s].case, verdict |-> verdict, rows |-> call[s].rows]}
  /\ Conclude(verdict, call[s].closed_at)
  /\ Ends(s)
  /\ UNCHANGED <<opened, findings>>

\* An insert is refused, or the caller rolls back.
Raises(s) ==
  /\ \/ step[s] = "NUMBERED" /\ (~Canonical(s) \/ Collides(BatchRows(s), findings))
     \/ step[s] = "CITED" /\ AlreadyClosed(call[s].case)
     \/ step[s] \in {"INSERTED", "CONCLUDED"}
  /\ Ends(s)
  /\ UNCHANGED <<gateVars, opened, findings, closed>>

Statement(s) ==
  \/ \E k \in Cases : ConcludeCase(s, k) \/ \E b \in Batches : AddFindings(s, k, b)
  \/ ReadSequence(s) \/ InsertFindings(s) \/ CommitFindings(s)
  \/ ReadFindings(s) \/ ReadCitations(s) \/ InsertConclusion(s) \/ CommitConclusion(s)
  \/ Raises(s)

CaseNext ==
  \/ \E k \in Cases : OpenCase(k)
  \/ \E s \in Analysts : Statement(s)
  \/ GateNext /\ UNCHANGED caseVars

CaseSpec == GateInit /\ CaseInit /\ [][CaseNext]_<<gateVars, caseVars>>

-----------------------------------------------------------------------------
(* Properties *)

RowType == [case : Cases, num : Nat \ {0}, finding : Findings]
ClosedType == [case : Cases, verdict : Verdicts, rows : SUBSET RowType]
Steps == {"IDLE", "ADD", "NUMBERED", "INSERTED", "CONCLUDE", "FOUND", "CITED", "CONCLUDED"}

\* The case ledgers hold rows of their types, and a case one conclusion.
CaseTypeOK ==
  /\ opened \in [Cases -> Times \cup {None}]
  /\ findings \subseteq RowType
  /\ closed \subseteq ClosedType
  /\ \A c, d \in closed : c.case = d.case => c = d
  /\ step \in [Analysts -> Steps]

Nums(k) == {r.num : r \in Rows(k)}

\* The findings of a case are numbered from 1 on without a gap, each number
\* once, whatever calls add to it at the same time, fail or are rolled back.
SequencesDense ==
  \A k \in Cases :
    /\ \A n \in Nums(k) : 1..n \subseteq Nums(k)
    /\ \A r, q \in Rows(k) : r.num = q.num => r = q

\* A conclusion whose manifest has all findings of its case has the verdict
\* they entail: the verdict is derived from two reads, and differs from what
\* the manifest entails only when a finding was committed between them, which
\* then is missing from the manifest.  Of a case that got a finding after its
\* conclusion, by a call that saw it open, nothing more is said: from the rows
\* it can no longer be told what the conclusion saw.
VerdictsFollowManifests ==
  \A c \in closed :
    c.rows = Rows(c.case) => c.verdict = derive_verdict(c.rows, CitationsOf(c.rows))

\* The findings of a case are numbered one after the other.
FindingsAreNumbered == CaseTypeOK /\ SequencesDense
=============================================================================
