----------------------------- MODULE ContextGate -----------------------------
(***************************************************************************)
(* ContextGate (engine/intelligence/context/context_gate.py): what the     *)
(* evidence ledger and the concluded investigations say of a moment, and   *)
(* the opinion recorded beside an order intent.  It observes only.         *)
(*                                                                         *)
(* now is the clock of the processes.  The time of an assessment is the    *)
(* caller's and may be any.  Evidence is stamped when it is observed and   *)
(* committed then or later.  One symbol is investigated; an assessment is  *)
(* asked with or without it.                                               *)
(***************************************************************************)
EXTENDS PrimaryFeeds, FiniteSets

CONSTANTS
  Cells,
  Events,          \* evidence that may be ingested
  Evidences,       \* what each of them says (PrimaryFeeds, or another source)
  Intents,         \* order intents
  CellOf,          \* the cell of each
  Buffer,          \* macro_buffer_minutes
  MaxAssessments   \* bound on the assessments

ASSUME GateAssumption ==
  /\ CellOf \in [Intents -> Cells]
  /\ \A e \in Events : Evidences[e].effective_at \in Times
  /\ Buffer \in Nat /\ MaxAssessments \in Nat
  /\ None \notin Events

VARIABLES
  now,
  observed,     \* observed_at of the evidence in the ledger, None for the rest
  conclusions,  \* verdict and closed_at of the concluded cases of the symbol
  assessments,  \* market_context_assessments
  evaluations   \* order_context_evaluations, by intent (unique): in a set

gateVars == <<now, observed, conclusions, assessments, evaluations>>

Verdicts == {"CONFIRMED", "PARTIALLY_SUPPORTED", "UNSUPPORTED", "INSUFFICIENT_EVIDENCE"}

GateInit ==
  /\ now \in Times /\ \A t \in Times : now <= t
  /\ observed = [e \in Events |-> None]
  /\ conclusions = {} /\ assessments = {}
  /\ evaluations = [i \in Intents |-> {}]

Tick ==
  /\ now' = now + 1 /\ now' \in Times
  /\ UNCHANGED <<observed, conclusions, assessments, evaluations>>

\* EvidenceStore.ingest_evidence commits what was observed at t.
Ingest(e, t) ==
  /\ observed[e] = None /\ t <= now
  /\ observed' = [observed EXCEPT ![e] = t]
  /\ UNCHANGED <<now, conclusions, assessments, evaluations>>

\* CaseEngine.conclude_case commits what it closed at t.
Conclude(verdict, t) ==
  /\ t <= now
  /\ conclusions' = conclusions \cup {[verdict |-> verdict, at |-> t]}
  /\ UNCHANGED <<now, observed, assessments, evaluations>>

Near(a, b, minutes) == a <= b + minutes /\ b <= a + minutes

\* The critical macro events around t that had been observed by then.
CriticalMacro(t) ==
  {e \in Events : /\ Evidences[e].event_type = "MACRO" /\ Evidences[e].urgency = "CRITICAL"
                  /\ observed[e] # None /\ observed[e] <= t
                  /\ Near(Evidences[e].effective_at, t, Buffer)}

\* The first of them to take effect; the lowest random id among several.
Primary(t) ==
  {e \in CriticalMacro(t) :
     \A d \in CriticalMacro(t) : Evidences[e].effective_at <= Evidences[d].effective_at}

\* The conclusion closed last by t, the lowest random id among several.
ActiveConclusion(t) ==
  {x \in conclusions : x.at <= t /\ \A y \in conclusions : y.at <= t => y.at <= x.at}

Doubted(x) == x.verdict \in Verdicts \ {"CONFIRMED"}

Assessment(c, t, posture, primary) ==
  [cell |-> c, evaluated_at |-> t, risk_posture |-> posture, macro_window_active |-> primary # None,
   primary_event_id |-> primary]

Elevated(t, asked) == asked /\ \E x \in ActiveConclusion(t) : Doubted(x)
Normal(t, asked) == ~asked \/ ActiveConclusion(t) = {} \/ \E x \in ActiveConclusion(t) : ~Doubted(x)

Assessed(c, t, asked) ==
  {Assessment(c, t, "HIGH_EVENT_RISK", e) : e \in Primary(t)} \cup
  IF Primary(t) # {} THEN {}
  ELSE {Assessment(c, t, posture, None) :
          posture \in {p \in {"ELEVATED", "NORMAL"} : \/ p = "ELEVATED" /\ Elevated(t, asked)
                                                      \/ p = "NORMAL" /\ Normal(t, asked)}}

EvaluateMarketContext(c, t, asked) ==
  /\ Cardinality(assessments) < MaxAssessments
  /\ \E a \in Assessed(c, t, asked) : assessments' = assessments \cup {a}
  /\ UNCHANGED <<now, observed, conclusions, evaluations>>

Opinion(a) ==
  CASE a.macro_window_active -> "WOULD_HAVE_VETOED"
    [] ~a.macro_window_active /\ a.risk_posture = "ELEVATED" -> "NO_OPINION"
    [] OTHER -> "WOULD_HAVE_AUTHORIZED"

Evaluation(a) ==
  [assessment |-> a, opinion |-> Opinion(a), evaluated_at |-> a.evaluated_at]

\* check_order_context_cell_isolation
SameCell(i, a) == a.cell = CellOf[i]

EvaluateOrderIntent(i, a) ==
  /\ a \in assessments /\ evaluations[i] = {}
  /\ SameCell(i, a)
  /\ evaluations' = [evaluations EXCEPT ![i] = {Evaluation(a)}]
  /\ UNCHANGED <<now, observed, conclusions, assessments>>

GateNext ==
  \/ Tick
  \/ \E e \in Events, t \in Times : Ingest(e, t)
  \/ \E v \in Verdicts, t \in Times : Conclude(v, t)
  \/ \E c \in Cells, t \in Times, asked \in BOOLEAN : EvaluateMarketContext(c, t, asked)
  \/ \E i \in Intents : \E a \in assessments : EvaluateOrderIntent(i, a)

AssessmentType ==
  [cell : Cells, evaluated_at : Times, risk_posture : {"NORMAL", "ELEVATED", "HIGH_EVENT_RISK"},
   macro_window_active : BOOLEAN, primary_event_id : Events \cup {None}]
EvaluationType ==
  [assessment : AssessmentType, evaluated_at : Times,
   opinion : {"WOULD_HAVE_VETOED", "NO_OPINION", "WOULD_HAVE_AUTHORIZED"}]

\* An opinion is formed on the cell of the intent.
GateTypeOK ==
  /\ now \in Times
  /\ observed \in [Events -> Times \cup {None}]
  /\ conclusions \subseteq [verdict : Verdicts, at : Times]
  /\ assessments \subseteq AssessmentType
  /\ evaluations \in [Intents -> SUBSET EvaluationType]
  /\ \A i \in Intents : \A x \in evaluations[i] : x.assessment.cell = CellOf[i]
=============================================================================
