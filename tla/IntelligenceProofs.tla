-------------------------- MODULE IntelligenceProofs --------------------------
(***************************************************************************)
(* Proofs about VetoAuthority and CaseEngine.                              *)
(*                                                                         *)
(* The ledgers of the authority are append-only, so that what a row was    *)
(* checked against when it was inserted still stands: the inductive        *)
(* invariant says of each row what its trigger, or the code that inserts   *)
(* it, made sure of, uncommitted authority events included.                *)
(*                                                                         *)
(* Whoever holds an uncommitted batch of a case holds the number that      *)
(* follows the committed ones, and therefore is the only one: nobody can   *)
(* commit to the case before that session ends.  A call that has read its  *)
(* number knows at least that all below are there.                         *)
(***************************************************************************)
EXTENDS VetoAuthority, CaseEngine, SumTheorems

-----------------------------------------------------------------------------
(* The authority. *)

\* An assessment points at evidence that had been observed at its time.
Seen(a) ==
  a.primary_event_id # None =>
    observed[a.primary_event_id] # None /\ observed[a.primary_event_id] <= a.evaluated_at

Formed(i, x) ==
  /\ x.assessment \in AssessmentType /\ x.evaluated_at = x.assessment.evaluated_at
  /\ x.assessment.cell = CellOf[i] /\ Seen(x.assessment)

ContextInv ==
  /\ \A a \in assessments : Seen(a)
  /\ \A i \in Intents : \A x \in evaluations[i] : Formed(i, x)

\* A decision was made about the only proposal of its research, after it.
DecisionsInv ==
  \A r \in Research :
    /\ \A p, q \in proposals[r] : p = q
    /\ proposals[r] = {} => decisions[r] = {}
    /\ \A p \in proposals[r], d \in decisions[r] : p.proposed_at <= d.decided_at

GrantsInv ==
  /\ \A g \in recorded : g.type = "GRANTED" => Warranted(g)
  /\ \A s \in Sessions : \A g \in pending[s] : g.type = "GRANTED" => Warranted(g)

\* Rows of one decision are one row, committed or not.
UseInv ==
  /\ \A g, h \in recorded : g.decision # None /\ g.decision = h.decision => g = h
  /\ \A s \in Sessions : \A g \in pending[s] :
       /\ g.decision # None => \A h \in recorded : h.decision # g.decision
       /\ \A u \in Sessions : \A h \in pending[u] :
            u # s /\ g.decision # None => h.decision # g.decision
  /\ \A s \in Sessions : \A g, h \in pending[s] : g = h
  /\ \A g \in recorded : g.type = "GRANTED" => g.decision # None
  /\ \A s \in Sessions : \A g \in pending[s] : g.type = "GRANTED" => g.decision # None
-----------------------------------------------------------------------------
\* The rows of the context gate keep their types.
LEMMA GateTypes ==
  ASSUME TypeOK, GateNext
  PROVE  GateTypeOK'
<1> USE DEF TypeOK, GateTypeOK
<1>1. CASE Tick
  BY <1>1 DEF Tick
<1>2. ASSUME NEW e \in Events, NEW t \in Times, Ingest(e, t)
      PROVE  GateTypeOK'
  BY <1>2 DEF Ingest
<1>3. ASSUME NEW v \in Verdicts, NEW t \in Times, Conclude(v, t)
      PROVE  GateTypeOK'
  BY <1>3 DEF Conclude
<1>4. ASSUME NEW c \in Cells, NEW t \in Times, NEW asked \in BOOLEAN, EvaluateMarketContext(c, t, asked)
      PROVE  GateTypeOK'
  <2>1. PICK a \in Assessed(c, t, asked) : assessments' = assessments \cup {a}
    BY <1>4 DEF EvaluateMarketContext
  <2>2. a \in AssessmentType
    <3>1. Primary(t) \subseteq Events
      BY DEF Primary, CriticalMacro
    <3>2. PICK p \in {"NORMAL", "ELEVATED", "HIGH_EVENT_RISK"}, e \in Events \cup {None} :
            a = Assessment(c, t, p, e)
      <4>1. CASE Primary(t) # {}
        BY <2>1, <3>1, <4>1 DEF Assessed
      <4>2. CASE Primary(t) = {}
        BY <2>1, <4>2 DEF Assessed
      <4> QED
        BY <4>1, <4>2
    <3>3. (e # None) \in BOOLEAN
      OBVIOUS
    <3> QED
      BY <3>2, <3>3 DEF Assessment, AssessmentType
  <2> QED
    BY <1>4, <2>1, <2>2 DEF EvaluateMarketContext
<1>5. ASSUME NEW i \in Intents, NEW a \in assessments, EvaluateOrderIntent(i, a)
      PROVE  GateTypeOK'
  <2>1. a \in AssessmentType /\ a.evaluated_at \in Times
    BY DEF AssessmentType
  <2>2. Evaluation(a) \in EvaluationType /\ Evaluation(a).assessment = a
    BY <2>1 DEF Evaluation, EvaluationType, Opinion
  <2>3. evaluations' \in [Intents -> SUBSET EvaluationType]
    BY <1>5, <2>2 DEF EvaluateOrderIntent
  <2>4. \A j \in Intents : \A x \in evaluations'[j] : x.assessment.cell = CellOf[j]
    BY <1>5, <2>2 DEF EvaluateOrderIntent, SameCell
  <2> QED
    BY <1>5, <2>3, <2>4 DEF EvaluateOrderIntent
<1> QED
  BY <1>1, <1>2, <1>3, <1>4, <1>5 DEF GateNext

\* What an interception reads and records is of its type.
LEMMA ReadingTypes ==
  ASSUME TypeOK, NEW i \in Intents, NEW t \in Times, ReadAuthority(i, t)
  PROVE  interceptions' \subseteq InterceptionType
<1>1. PICK g \in InForce(CellOf[i], t) :
        interceptions' = interceptions \cup {[intent |-> i, at |-> t, authority |-> g]}
  BY DEF ReadAuthority
<1>2. g \in EventType
  BY DEF TypeOK, InForce, LatestOf, EventsOf
<1> QED
  BY <1>1, <1>2 DEF TypeOK, InterceptionType

LEMMA FactTypes ==
  ASSUME TypeOK, NEW c \in interceptions, Suppress(c)
  PROVE  facts' \subseteq FactType
<1>1. PICK f \in Suppressed(c) : facts' = facts \cup {[suppression |-> f, occurred_at |-> c.at]}
  BY DEF Suppress
<1>2. PICK x \in evaluations[c.intent] :
        f = [intent |-> c.intent, evaluation |-> x, authority |-> c.authority]
  BY <1>1 DEF Suppressed
<1>3. c \in InterceptionType
  BY DEF TypeOK
<1>4. c.intent \in Intents /\ c.at \in Times /\ c.authority \in EventType
  BY <1>3 DEF InterceptionType
<1>5. x \in EvaluationType
  BY <1>4 DEF TypeOK, GateTypeOK
<1> QED
  BY <1>1, <1>2, <1>4, <1>5 DEF TypeOK, FactType

LEMMA InitTypes == Init => TypeOK
<1> SUFFICES ASSUME Init PROVE TypeOK
  OBVIOUS
<1>1. GateTypeOK
  BY DEF Init, GateInit, GateTypeOK
<1> QED
  BY <1>1 DEF Init, TypeOK

LEMMA StepTypes ==
  ASSUME TypeOK, [Next]_vars
  PROVE  TypeOK'
<1>1. CASE UNCHANGED vars
  BY <1>1 DEF vars, gateVars, vetoVars, TypeOK, GateTypeOK
<1>2. CASE GateNext /\ UNCHANGED vetoVars
  BY <1>2, GateTypes DEF TypeOK, vetoVars
<1> SUFFICES ASSUME Next, UNCHANGED gateVars
             PROVE  TypeOK'
  <2>1. ASSUME Next, ~(GateNext /\ UNCHANGED vetoVars)
        PROVE  UNCHANGED gateVars
    BY <2>1 DEF Next, EvaluateProposal, Decide, RecordEvent, Commit, Rollback, ReadAuthority,
                Intercept, Suppress, Leave
  <2> QED
    BY <1>1, <1>2, <2>1
<1>3. GateTypeOK'
  BY DEF gateVars, TypeOK, GateTypeOK
<1>4. ASSUME NEW r \in Research, EvaluateProposal(r)
      PROVE  TypeOK'
  <2>1. Step5[r].cell \in Cells /\ Criteria(r) \in BOOLEAN /\ now \in Times
    BY VetoAssumption DEF TypeOK, GateTypeOK, Criteria
  <2> QED
    BY <1>3, <1>4, <2>1 DEF TypeOK, EvaluateProposal, ProposalType
<1>5. ASSUME NEW r \in Research, NEW d \in {"APPROVED", "REJECTED"}, NEW o \in Operators, Decide(r, d, o)
      PROVE  TypeOK'
  <2>1. now \in Times
    BY DEF TypeOK, GateTypeOK
  <2> QED
    BY <1>3, <1>5, <2>1 DEF TypeOK, Decide, DecisionType
<1>6. ASSUME NEW s \in Sessions, NEW c \in Cells, NEW o \in Operators, NEW t \in Times,
             NEW r \in Research \cup {None}, NEW type \in {"GRANTED", "REVOKED", "EXPIRED"},
             RecordEvent(s, c, type, r, o, t)
      PROVE  TypeOK'
  <2>1. PICK n \in 0..(MaxEvents + Cardinality(Sessions)) :
          pending' = [pending EXCEPT ![s] = {Event(c, type, r, o, t, n)}]
    BY <1>6 DEF RecordEvent
  <2>2. n \in Nat
    BY <2>1, VetoAssumption, FS_CardinalityType
  <2>3. Event(c, type, r, o, t, n) \in EventType
    BY <2>2 DEF Event, EventType
  <2> QED
    BY <1>3, <1>6, <2>1, <2>3 DEF TypeOK, RecordEvent
<1>7. ASSUME NEW s \in Sessions, Commit(s) \/ Rollback(s)
      PROVE  TypeOK'
  BY <1>3, <1>7 DEF TypeOK, Commit, Rollback
<1>8. ASSUME NEW i \in Intents, NEW t \in Times, ReadAuthority(i, t)
      PROVE  TypeOK'
  BY <1>3, <1>8, ReadingTypes DEF TypeOK, ReadAuthority
<1>9. ASSUME NEW c \in interceptions, Suppress(c) \/ Leave(c)
      PROVE  TypeOK'
  <2>1. facts' \subseteq FactType /\ interceptions' \subseteq interceptions
    BY <1>9, FactTypes DEF TypeOK, Suppress, Leave
  <2> QED
    BY <1>3, <1>9, <2>1 DEF TypeOK, Suppress, Leave
<1> QED
  BY <1>2, <1>4, <1>5, <1>6, <1>7, <1>8, <1>9 DEF Next, Intercept

\* The ledgers hold rows of their types, an intent's opinions about its own cell.
THEOREM TypesHold == Spec => []TypeOK
  BY InitTypes, StepTypes, PTL DEF Spec

-----------------------------------------------------------------------------
\* An assessment is formed only from evidence observed by its time.
LEMMA AssessedSeen ==
  ASSUME TypeOK, NEW c \in Cells, NEW t \in Times, NEW asked \in BOOLEAN,
         NEW a \in Assessed(c, t, asked)
  PROVE  Seen(a)
<1>1. CASE Primary(t) # {}
  <2>1. PICK e \in Primary(t) : a = Assessment(c, t, "HIGH_EVENT_RISK", e)
    BY <1>1 DEF Assessed
  <2>2. observed[e] # None /\ observed[e] <= t
    BY DEF Primary, CriticalMacro
  <2> QED
    BY <2>1, <2>2 DEF Assessment, Seen
<1>2. CASE Primary(t) = {}
  <2>1. a.primary_event_id = None
    BY <1>2 DEF Assessed, Assessment
  <2> QED
    BY <2>1 DEF Seen
<1> QED
  BY <1>1, <1>2

\* What has been observed stays observed as it was.
LEMMA ObservedStays ==
  ASSUME TypeOK, GateNext, NEW e \in Events, observed[e] # None
  PROVE  observed'[e] = observed[e]
  BY DEF GateNext, Tick, Ingest, Conclude, EvaluateMarketContext, EvaluateOrderIntent,
         TypeOK, GateTypeOK

\* Opinions are never withdrawn.
LEMMA OpinionsStay ==
  ASSUME TypeOK, GateNext, NEW i \in Intents, NEW x \in evaluations[i]
  PROVE  x \in evaluations'[i]
  BY DEF GateNext, Tick, Ingest, Conclude, EvaluateMarketContext, EvaluateOrderIntent,
         TypeOK, GateTypeOK

LEMMA SeenStays ==
  ASSUME TypeOK, GateNext, NEW a \in AssessmentType, Seen(a)
  PROVE  Seen(a)'
<1>1. a.primary_event_id \in Events \cup {None}
  BY DEF AssessmentType
<1> QED
  BY <1>1, ObservedStays DEF Seen

LEMMA ContextStep ==
  ASSUME TypeOK, ContextInv, GateNext
  PROVE  ContextInv'
<1> USE DEF ContextInv
<1>1. \A a \in assessments' \cap assessments : Seen(a)'
  BY SeenStays DEF TypeOK, GateTypeOK
<1>2. \A a \in assessments' \ assessments : Seen(a)'
  <2> SUFFICES ASSUME NEW a \in assessments', a \notin assessments
               PROVE  Seen(a)'
    OBVIOUS
  <2>1. PICK c \in Cells, t \in Times, asked \in BOOLEAN : EvaluateMarketContext(c, t, asked)
    BY DEF GateNext, Tick, Ingest, Conclude, EvaluateOrderIntent
  <2>2. a \in Assessed(c, t, asked) /\ observed' = observed
    BY <2>1 DEF EvaluateMarketContext
  <2> QED
    BY <2>2, AssessedSeen DEF Seen
<1>3. ASSUME NEW i \in Intents, NEW x \in evaluations'[i]
      PROVE  Formed(i, x)'
  <2>1. CASE x \in evaluations[i]
    <3>1. Formed(i, x)
      BY <2>1
    <3> QED
      BY <3>1, SeenStays DEF Formed
  <2>2. CASE x \notin evaluations[i]
    <3>1. PICK j \in Intents, a \in assessments : EvaluateOrderIntent(j, a)
      BY <2>2 DEF GateNext, Tick, Ingest, Conclude, EvaluateMarketContext
    <3>2. i = j /\ x = Evaluation(a) /\ a.cell = CellOf[i] /\ observed' = observed
      BY <2>2, <3>1 DEF EvaluateOrderIntent, SameCell, TypeOK, GateTypeOK
    <3>3. a \in AssessmentType
      BY DEF TypeOK, GateTypeOK
    <3> QED
      BY <3>2, <3>3 DEF Evaluation, Formed, Seen
  <2> QED
    BY <2>1, <2>2
<1> QED
  BY <1>1, <1>2, <1>3

\* What suppressed an intent keeps standing while the gate goes on.
LEMMA FactsStand ==
  ASSUME TypeOK, SuppressionsAreDue, GateNext, UNCHANGED vetoVars
  PROVE  SuppressionsAreDue'
<1> SUFFICES ASSUME NEW f \in facts
             PROVE  Due(f)'
  BY DEF SuppressionsAreDue, vetoVars
<1> DEFINE x == f.suppression.evaluation
           e == x.assessment.primary_event_id
<1>1. Due(f)
  BY DEF SuppressionsAreDue
<1>2. f.suppression.intent \in Intents /\ x.assessment \in AssessmentType
  BY DEF TypeOK, FactType, EvaluationType
<1>3. e \in Events
  <2>1. e \in Events \cup {None}
    BY <1>2 DEF AssessmentType
  <2> QED
    BY <1>1, <2>1 DEF Due
<1>4. observed'[e] = observed[e]
  BY <1>1, <1>3, ObservedStays DEF Due
<1>5. x \in evaluations'[f.suppression.intent]
  BY <1>1, <1>2, OpinionsStay DEF Due
<1> QED
  BY <1>1, <1>4, <1>5 DEF Due, Warranted, vetoVars

-----------------------------------------------------------------------------
\* A call that has read a grant has read one of its cell that was in effect; it
\* is on record as long as the call lasts.
HeldInv ==
  \A c \in interceptions :
    /\ c.authority \in recorded /\ c.authority.type = "GRANTED"
    /\ c.authority.cell = CellOf[c.intent] /\ c.authority.effective_at <= c.at

IInv == TypeOK /\ ContextInv /\ DecisionsInv /\ GrantsInv /\ UseInv /\ HeldInv /\ SuppressionsAreDue

LEMMA InitInv == Init => IInv
<1> SUFFICES ASSUME Init PROVE IInv
  OBVIOUS
<1>1. TypeOK
  BY InitTypes
<1>2. ContextInv /\ DecisionsInv /\ GrantsInv /\ UseInv /\ HeldInv /\ SuppressionsAreDue
  BY DEF Init, GateInit, ContextInv, DecisionsInv, GrantsInv, UseInv, HeldInv, SuppressionsAreDue
<1> QED
  BY <1>1, <1>2 DEF IInv

\* Rows of proposals, decisions and committed events are never taken back.
Grows ==
  /\ \A r \in Research : proposals[r] \subseteq proposals'[r] /\ decisions[r] \subseteq decisions'[r]
  /\ recorded \subseteq recorded'

\* With the context unchanged, what suppressed an intent keeps standing.
LEMMA GrowingFacts ==
  ASSUME TypeOK, SuppressionsAreDue, GrantsInv, UseInv, Grows, UNCHANGED gateVars,
         NEW f \in facts
  PROVE  Due(f)'
<1> DEFINE g == f.suppression.authority
<1>1. Due(f) /\ g \in recorded /\ g.type = "GRANTED"
  BY DEF SuppressionsAreDue, Due
<1>2. g.decision \in Research
  BY <1>1 DEF TypeOK, EventType, UseInv
<1>3. Warranted(g)'
  BY <1>1, <1>2 DEF Due, Warranted, Grows
<1> QED
  BY <1>1, <1>3 DEF Due, Grows, gateVars

LEMMA WarrantGrows ==
  ASSUME Grows, NEW g, g.decision \in Research, Warranted(g)
  PROVE  Warranted(g)'
  BY DEF Grows, Warranted

LEMMA ContextKept ==
  ASSUME ContextInv, UNCHANGED gateVars
  PROVE  ContextInv'
  BY DEF ContextInv, Formed, Seen, gateVars

LEMMA GrantsKept ==
  ASSUME TypeOK, GrantsInv, UseInv, Grows, UNCHANGED <<recorded, pending>>
  PROVE  GrantsInv'
<1>1. \A g \in recorded : g.type = "GRANTED" => Warranted(g)'
  BY WarrantGrows DEF GrantsInv, UseInv, TypeOK, EventType
<1>2. \A s \in Sessions : \A g \in pending[s] : g.type = "GRANTED" => Warranted(g)'
  BY WarrantGrows DEF GrantsInv, UseInv, TypeOK, EventType
<1> QED
  BY <1>1, <1>2 DEF GrantsInv

LEMMA ProposalStep ==
  ASSUME IInv, NEW r \in Research, EvaluateProposal(r)
  PROVE  IInv'
<1> USE DEF IInv
<1>1. TypeOK'
  BY StepTypes DEF Next
<1>2. Grows /\ UNCHANGED <<gateVars, decisions, recorded, pending, interceptions, facts>>
  BY DEF EvaluateProposal, Grows, TypeOK
<1>3. ContextInv'
  BY <1>2, ContextKept
<1>4. DecisionsInv'
  BY DEF EvaluateProposal, DecisionsInv, TypeOK
<1>5. GrantsInv'
  BY <1>2, GrantsKept
<1>6. UseInv'
  BY <1>2 DEF UseInv
<1>7. SuppressionsAreDue'
  BY <1>2, GrowingFacts DEF SuppressionsAreDue
<1>8. HeldInv'
  BY <1>2 DEF HeldInv
<1> QED
  BY <1>1, <1>3, <1>4, <1>5, <1>6, <1>7, <1>8

LEMMA DecisionStep ==
  ASSUME IInv, NEW r \in Research, NEW d \in {"APPROVED", "REJECTED"}, NEW o \in Operators,
         Decide(r, d, o)
  PROVE  IInv'
<1> USE DEF IInv
<1>1. TypeOK'
  BY StepTypes DEF Next
<1>2. Grows /\ UNCHANGED <<gateVars, proposals, recorded, pending, interceptions, facts>>
  BY DEF Decide, Grows, TypeOK
<1>3. ContextInv'
  BY <1>2, ContextKept
<1>4. DecisionsInv'
  BY DEF Decide, DecisionsInv, TypeOK
<1>5. GrantsInv'
  BY <1>2, GrantsKept
<1>6. UseInv'
  BY <1>2 DEF UseInv
<1>7. SuppressionsAreDue'
  BY <1>2, GrowingFacts DEF SuppressionsAreDue
<1>8. HeldInv'
  BY <1>2 DEF HeldInv
<1> QED
  BY <1>1, <1>3, <1>4, <1>5, <1>6, <1>7, <1>8

\* The trigger of a grant establishes its warrant.
LEMMA GrantWarranted ==
  ASSUME DecisionsInv, NEW r \in Research, NEW c, NEW o, NEW t, NEW n, Granted(c, r, o, t)
  PROVE  Warranted(Event(c, "GRANTED", r, o, t, n))
<1>1. PICK p \in proposals[r] : p.cell = c /\ p.criteria_passed
  BY DEF Granted
<1>2. PICK d \in decisions[r] : d.decision = "APPROVED" /\ d.operator = o /\ d.decided_at <= t
  BY DEF Granted
<1>3. p.proposed_at <= d.decided_at
  BY DEF DecisionsInv
<1> QED
  BY <1>1, <1>2, <1>3 DEF Warranted, Event

LEMMA RecordStep ==
  ASSUME IInv, NEW s \in Sessions, NEW c \in Cells, NEW o \in Operators, NEW t \in Times,
         NEW r \in Research \cup {None}, NEW type \in {"GRANTED", "REVOKED", "EXPIRED"},
         RecordEvent(s, c, type, r, o, t)
  PROVE  GrantsInv' /\ UseInv'
<1> USE DEF IInv
<1>1. PICK n \in 0..(MaxEvents + Cardinality(Sessions)) :
        /\ Unused(Event(c, type, r, o, t, n))
        /\ pending' = [pending EXCEPT ![s] = {Event(c, type, r, o, t, n)}]
  BY DEF RecordEvent
<1> DEFINE x == Event(c, type, r, o, t, n)
<1>2. /\ x.type = type /\ x.decision = r
      /\ type = "GRANTED" => r # None /\ r \in Research /\ Granted(c, r, o, t)
  BY DEF RecordEvent, Event
<1>3. type = "GRANTED" => Warranted(x)
  BY <1>2, GrantWarranted
<1>4. /\ pending'[s] = {x} /\ \A u \in Sessions \ {s} : pending'[u] = pending[u]
      /\ recorded' = recorded /\ proposals' = proposals /\ decisions' = decisions
  BY <1>1 DEF RecordEvent, TypeOK
<1>5. \A y \in recorded \cup Uncommitted : x.decision # None => y.decision # x.decision
  BY <1>1 DEF Unused
<1> HIDE DEF x
<1>6. GrantsInv'
  BY <1>2, <1>3, <1>4 DEF GrantsInv, Warranted
<1>7. \A u \in Sessions : pending[u] \subseteq Uncommitted
  BY DEF Uncommitted
<1>8. UseInv'
  BY <1>2, <1>4, <1>5, <1>7 DEF UseInv
<1> QED
  BY <1>6, <1>8

LEMMA CommitStep ==
  ASSUME IInv, NEW s \in Sessions, Commit(s) \/ Rollback(s)
  PROVE  GrantsInv' /\ UseInv'
<1> USE DEF IInv
<1>1. /\ pending'[s] = {} /\ \A u \in Sessions \ {s} : pending'[u] = pending[u]
      /\ recorded' = recorded \/ recorded' = recorded \cup pending[s]
      /\ proposals' = proposals /\ decisions' = decisions
  BY DEF Commit, Rollback, TypeOK
<1>2. GrantsInv'
  BY <1>1 DEF GrantsInv, Warranted
<1>3. UseInv'
  BY <1>1 DEF UseInv
<1> QED
  BY <1>2, <1>3

\* What a call has read of the authority.
LEMMA ReadingHeld ==
  ASSUME HeldInv, NEW i \in Intents, NEW t \in Times, ReadAuthority(i, t)
  PROVE  HeldInv'
<1>1. PICK g \in InForce(CellOf[i], t) :
        /\ g.type = "GRANTED"
        /\ interceptions' = interceptions \cup {[intent |-> i, at |-> t, authority |-> g]}
  BY DEF ReadAuthority
<1>2. g \in recorded /\ g.cell = CellOf[i] /\ g.effective_at <= t
  BY DEF InForce, LatestOf, EventsOf
<1> QED
  BY <1>1, <1>2 DEF HeldInv, ReadAuthority

\* The checks of the interceptor establish the whole chain.
LEMMA SuppressDue ==
  ASSUME IInv, NEW c \in interceptions, Suppress(c)
  PROVE  SuppressionsAreDue'
<1> USE DEF IInv
<1>1. UNCHANGED <<gateVars, proposals, decisions, recorded, pending>>
  BY DEF Suppress
<1> DEFINE i == c.intent
           g == c.authority
<1>2. PICK f \in Suppressed(c) : facts' = facts \cup {[suppression |-> f, occurred_at |-> c.at]}
  BY DEF Suppress
<1>3. PICK x \in evaluations[i] :
        f = [intent |-> i, evaluation |-> x, authority |-> g] /\ Objection(i, x, c.at)
  BY <1>2 DEF Suppressed
<1>4. /\ g \in recorded /\ g.type = "GRANTED" /\ g.cell = CellOf[i] /\ g.effective_at <= c.at
      /\ i \in Intents
  BY DEF HeldInv, TypeOK, InterceptionType
<1>5. Warranted(g)
  BY <1>4 DEF GrantsInv
<1> DEFINE a == x.assessment
           e == a.primary_event_id
<1>6. /\ a.cell = CellOf[i] /\ e # None /\ observed[e] # None
      /\ Allowed(Evidences[e]) /\ Near(Evidences[e].effective_at, c.at, Window)
  BY <1>3 DEF Objection
<1>7. observed[e] <= x.evaluated_at
  BY <1>4, <1>6 DEF ContextInv, Formed, Seen
<1>8. Due([suppression |-> f, occurred_at |-> c.at])
  BY <1>3, <1>4, <1>5, <1>6, <1>7 DEF Due
<1>9. \A y \in facts' : Due(y)
  BY <1>2, <1>8 DEF SuppressionsAreDue
<1> QED
  BY <1>1, <1>9 DEF SuppressionsAreDue, Due, Warranted, gateVars

LEMMA StepInv == IInv /\ [Next]_vars => IInv'
<1> SUFFICES ASSUME IInv, [Next]_vars PROVE IInv'
  OBVIOUS
<1> USE DEF IInv
<1>1. TypeOK'
  BY StepTypes
<1>2. CASE UNCHANGED vars
  BY <1>1, <1>2, ContextKept
     DEF vars, gateVars, vetoVars, DecisionsInv, GrantsInv, UseInv, HeldInv, SuppressionsAreDue, Due,
         Warranted
<1>3. CASE GateNext /\ UNCHANGED vetoVars
  <2>1. DecisionsInv' /\ GrantsInv' /\ UseInv' /\ HeldInv'
    BY <1>3 DEF vetoVars, DecisionsInv, GrantsInv, UseInv, HeldInv, Warranted
  <2> QED
    BY <1>1, <1>3, <2>1, ContextStep, FactsStand
<1>4. ASSUME NEW r \in Research, EvaluateProposal(r)
      PROVE  IInv'
  BY <1>4, ProposalStep
<1>5. ASSUME NEW r \in Research, NEW d \in {"APPROVED", "REJECTED"}, NEW o \in Operators, Decide(r, d, o)
      PROVE  IInv'
  BY <1>5, DecisionStep
<1>6. ASSUME NEW s \in Sessions, NEW c \in Cells, NEW o \in Operators, NEW t \in Times,
             NEW r \in Research \cup {None}, NEW type \in {"GRANTED", "REVOKED", "EXPIRED"},
             RecordEvent(s, c, type, r, o, t)
      PROVE  IInv'
  <2>1. UNCHANGED <<gateVars, proposals, decisions, recorded, interceptions, facts>>
    BY <1>6 DEF RecordEvent
  <2>2. SuppressionsAreDue' /\ DecisionsInv' /\ ContextInv' /\ HeldInv'
    BY <2>1, GrowingFacts, ContextKept DEF SuppressionsAreDue, DecisionsInv, HeldInv, Grows
  <2> QED
    BY <1>1, <1>6, <2>2, RecordStep
<1>7. ASSUME NEW s \in Sessions, Commit(s) \/ Rollback(s)
      PROVE  IInv'
  <2>1. Grows /\ UNCHANGED <<gateVars, proposals, decisions, interceptions, facts>>
    BY <1>7 DEF Commit, Rollback, Grows
  <2>2. SuppressionsAreDue' /\ DecisionsInv' /\ ContextInv' /\ HeldInv'
    BY <2>1, GrowingFacts, ContextKept DEF SuppressionsAreDue, DecisionsInv, HeldInv, Grows
  <2> QED
    BY <1>1, <1>7, <2>2, CommitStep
<1>8. ASSUME NEW i \in Intents, NEW t \in Times, ReadAuthority(i, t)
      PROVE  IInv'
  <2>1. Grows /\ UNCHANGED <<gateVars, proposals, decisions, recorded, pending, facts>>
    BY <1>8 DEF ReadAuthority, Grows
  <2>2. DecisionsInv' /\ GrantsInv' /\ UseInv' /\ ContextInv' /\ SuppressionsAreDue'
    BY <2>1, ContextKept, GrowingFacts
       DEF DecisionsInv, GrantsInv, UseInv, Warranted, SuppressionsAreDue
  <2> QED
    BY <1>1, <1>8, <2>2, ReadingHeld
<1>9. ASSUME NEW c \in interceptions, Suppress(c) \/ Leave(c)
      PROVE  IInv'
  <2>1. Grows /\ UNCHANGED <<gateVars, proposals, decisions, recorded, pending>>
    BY <1>9 DEF Suppress, Leave, Grows
  <2>2. interceptions' \subseteq interceptions
    BY <1>9 DEF Suppress, Leave
  <2>3. DecisionsInv' /\ GrantsInv' /\ UseInv' /\ ContextInv'
    BY <2>1, ContextKept DEF DecisionsInv, GrantsInv, UseInv, Warranted
  <2>4. HeldInv'
    BY <2>1, <2>2 DEF HeldInv
  <2>5. SuppressionsAreDue'
    <3>1. CASE Suppress(c)
      BY <3>1, SuppressDue
    <3>2. CASE Leave(c)
      BY <2>1, <3>2, GrowingFacts DEF Leave, SuppressionsAreDue
    <3> QED
      BY <1>9, <3>1, <3>2
  <2> QED
    BY <1>1, <2>3, <2>4, <2>5
<1> QED
  BY <1>2, <1>3, <1>4, <1>5, <1>6, <1>7, <1>8, <1>9 DEF Next, Intercept

\* No intent is suppressed without the whole chain behind it: a committed and
\* warranted grant of its cell, an opinion on it, and an observed CPI or FOMC
\* event in its window.
THEOREM SuppressionsDue == Spec => []SuppressionsAreDue
<1>1. IInv => SuppressionsAreDue
  BY DEF IInv
<1> QED
  BY <1>1, InitInv, StepInv, PTL DEF Spec

\* An approval is used for one grant, whatever sessions grant at the same time.
THEOREM OneGrant == Spec => []OneGrantPerApproval
<1>1. IInv => OneGrantPerApproval
  BY DEF IInv, UseInv, OneGrantPerApproval
<1> QED
  BY <1>1, InitInv, StepInv, PTL DEF Spec

\* An interception that begins finds no committed revocation of its grant.
LEMMA ReadingLatest ==
  ASSUME [Next]_vars, NEW c \in interceptions' \ interceptions
  PROVE  ~Revoked(c.authority, c.at)
<1>1. PICK i \in Intents, t \in Times : ReadAuthority(i, t)
  BY DEF Next, EvaluateProposal, Decide, RecordEvent, Commit, Rollback, Intercept, Suppress, Leave,
         vars, vetoVars
<1>2. PICK g \in InForce(CellOf[i], t) :
        interceptions' = interceptions \cup {[intent |-> i, at |-> t, authority |-> g]}
  BY <1>1 DEF ReadAuthority
<1>3. c.authority = g /\ c.at = t
  BY <1>2
<1>4. g.cell = CellOf[i]
  BY DEF InForce, LatestOf, EventsOf
<1>5. ASSUME NEW x \in recorded, x.cell = g.cell, x.effective_at <= t
      PROVE  ~Before(g, x)
  <2>1. x \in {z \in EventsOf(CellOf[i]) : z.effective_at <= t}
    BY <1>4, <1>5 DEF EventsOf
  <2> QED
    BY <2>1 DEF InForce, LatestOf
<1> QED
  BY <1>3, <1>5 DEF Revoked

\* A suppression ends an interception that had read its grant.
LEMMA SuppressionRead ==
  ASSUME [Next]_vars, NEW f \in facts' \ facts
  PROVE  \E c \in interceptions \ interceptions' :
           /\ c.intent = f.suppression.intent /\ c.at = f.occurred_at
           /\ c.authority = f.suppression.authority
<1>1. PICK c \in interceptions : Suppress(c)
  BY DEF Next, EvaluateProposal, Decide, RecordEvent, Commit, Rollback, ReadAuthority, Intercept,
         Leave, vars, vetoVars
<1>2. PICK y \in Suppressed(c) : facts' = facts \cup {[suppression |-> y, occurred_at |-> c.at]}
  BY <1>1 DEF Suppress
<1>3. f = [suppression |-> y, occurred_at |-> c.at]
  BY <1>2
<1>4. y.intent = c.intent /\ y.authority = c.authority
  BY <1>2 DEF Suppressed
<1>5. c \notin interceptions'
  BY <1>1 DEF Suppress
<1> QED
  BY <1>3, <1>4, <1>5

\* No interception that begins once a revocation or expiry is committed
\* suppresses by a grant before it; what had read the grant by then may, once.
THEOREM RevocationHolds == Spec => RevocationSticks
<1>1. [Next]_vars =>
        [/\ \A c \in interceptions' \ interceptions : ~Revoked(c.authority, c.at)
         /\ \A f \in facts' \ facts :
              Revoked(f.suppression.authority, f.occurred_at) =>
                \E c \in interceptions \ interceptions' :
                  /\ c.intent = f.suppression.intent /\ c.at = f.occurred_at
                  /\ c.authority = f.suppression.authority]_vars
  BY ReadingLatest, SuppressionRead
<1> QED
  BY <1>1, PTL DEF Spec, RevocationSticks

\* Nothing is suppressed without a grant in force, and a grant has an approval
\* of its own.
THEOREM AuthorityAlwaysHolds == Spec => []AuthorityHolds
  BY TypesHold, SuppressionsDue, OneGrant, PTL DEF AuthorityHolds

-----------------------------------------------------------------------------
(* What a grant rests on. *)

\* The opinions on record, and the intents that have one.
Opined == UNION {evaluations[i] : i \in Intents}
Evaluated == {i \in Intents : evaluations[i] # {}}

Enough(r) == Cardinality(Vetoes(r)) >= MinVetoes /\ Cardinality(Months(r)) >= MinMonths

\* The ledgers are finite at any time, however many intents there may be, and
\* research that met the criteria still does.
EvidenceInv ==
  /\ IsFiniteSet(Opined) /\ IsFiniteSet(Evaluated)
  /\ \A r \in Research : \A p \in proposals[r] : p.criteria_passed => Enough(r)

LEMMA CountsAreFinite ==
  ASSUME IsFiniteSet(Opined), IsFiniteSet(Evaluated), NEW r \in Research
  PROVE  IsFiniteSet(Vetoes(r)) /\ IsFiniteSet(Months(r))
<1>1. IsFiniteSet(Vetoes(r))
  <2>1. Vetoes(r) \subseteq Evaluated
    BY DEF Vetoes, Evaluated
  <2>. QED  BY <2>1, FS_Subset
<1>2. IsFiniteSet(Months(r))
  <2>. DEFINE X == UNION {evaluations[i] : i \in Vetoes(r)}
              g == [x \in X |-> Month(x.evaluated_at)]
  <2>1. X \subseteq Opined
    BY DEF Vetoes, Opined
  <2>2. IsFiniteSet(X)
    BY <2>1, FS_Subset
  <2>3. Months(r) = {g[x] : x \in X}
    BY DEF Months
  <2>. HIDE DEF g, X
  <2>. QED  BY <2>2, <2>3, ImageIsFinite
<1>. QED  BY <1>1, <1>2

\* Opinions are only added, to an intent that has none.
LEMMA OpinionsGrow ==
  ASSUME TypeOK, EvidenceInv, [Next]_vars
  PROVE  /\ IsFiniteSet(Opined') /\ IsFiniteSet(Evaluated')
         /\ \A i \in Intents : evaluations[i] \subseteq evaluations'[i]
<1>1. CASE evaluations' = evaluations
  BY <1>1 DEF EvidenceInv, Opined, Evaluated
<1>2. CASE evaluations' # evaluations
  <2>1. PICK i \in Intents, a \in assessments : EvaluateOrderIntent(i, a)
    BY <1>2 DEF Next, GateNext, Tick, Ingest, Conclude, EvaluateMarketContext, EvaluateProposal,
                Decide, RecordEvent, Commit, Rollback, ReadAuthority, Intercept, Suppress, Leave,
                gateVars, vetoVars, vars
  <2>2. /\ evaluations[i] = {} /\ evaluations'[i] = {Evaluation(a)}
        /\ \A j \in Intents : j # i => evaluations'[j] = evaluations[j]
    BY <2>1 DEF EvaluateOrderIntent, TypeOK, GateTypeOK
  <2>3. Opined' \subseteq Opined \cup {Evaluation(a)}
    BY <2>2 DEF Opined
  <2>4. Evaluated' \subseteq Evaluated \cup {i}
    BY <2>2 DEF Evaluated
  <2>5. IsFiniteSet(Opined \cup {Evaluation(a)}) /\ IsFiniteSet(Evaluated \cup {i})
    BY FS_AddElement DEF EvidenceInv
  <2>. QED  BY <2>2, <2>3, <2>4, <2>5, FS_Subset
<1>. QED  BY <1>1, <1>2

\* More opinions count no less.
LEMMA EnoughStays ==
  ASSUME NEW r \in Research, VetoAssumption, Enough(r),
         IsFiniteSet(Opined), IsFiniteSet(Evaluated), IsFiniteSet(Opined'), IsFiniteSet(Evaluated'),
         \A i \in Intents : evaluations[i] \subseteq evaluations'[i]
  PROVE  Enough(r)'
<1>1. Vetoes(r) \subseteq Vetoes(r)'
  BY DEF Vetoes
<1>2. Months(r) \subseteq Months(r)'
  BY <1>1 DEF Months, Vetoes
<1>3. IsFiniteSet(Vetoes(r)) /\ IsFiniteSet(Months(r))
  BY CountsAreFinite
<1>4. IsFiniteSet(Vetoes(r)') /\ IsFiniteSet(Months(r)')
  <2>1. IsFiniteSet(Vetoes(r)')
    <3>1. Vetoes(r)' \subseteq Evaluated'
      BY DEF Vetoes, Evaluated
    <3>. QED  BY <3>1, FS_Subset
  <2>2. IsFiniteSet(Months(r)')
    <3>. DEFINE X == UNION {evaluations'[i] : i \in Vetoes(r)'}
                g == [x \in X |-> Month(x.evaluated_at)]
    <3>1. X \subseteq Opined'
      BY DEF Vetoes, Opined
    <3>2. IsFiniteSet(X)
      BY <3>1, FS_Subset
    <3>3. Months(r)' = {g[x] : x \in X}
      BY DEF Months
    <3>. HIDE DEF g, X
    <3>. QED  BY <3>2, <3>3, ImageIsFinite
  <2>. QED  BY <2>1, <2>2
<1>5. /\ Cardinality(Vetoes(r)) \in Nat /\ Cardinality(Vetoes(r)') \in Nat
      /\ Cardinality(Vetoes(r)) <= Cardinality(Vetoes(r)')
  BY <1>1, <1>3, <1>4, FS_Subset, FS_CardinalityType
<1>6. /\ Cardinality(Months(r)) \in Nat /\ Cardinality(Months(r)') \in Nat
      /\ Cardinality(Months(r)) <= Cardinality(Months(r)')
  BY <1>2, <1>3, <1>4, FS_Subset, FS_CardinalityType
<1>. QED  BY <1>5, <1>6, VetoAssumption DEF Enough

LEMMA EvidenceStarts == Init => EvidenceInv
<1>. SUFFICES ASSUME Init PROVE EvidenceInv
  OBVIOUS
<1>1. Opined = {} /\ Evaluated = {}
  BY DEF Init, GateInit, Opined, Evaluated
<1>2. \A r \in Research : proposals[r] = {}
  BY DEF Init
<1>. QED  BY <1>1, <1>2, FS_EmptySet DEF EvidenceInv

LEMMA EvidenceStep == TypeOK /\ EvidenceInv /\ [Next]_vars => EvidenceInv'
<1>. SUFFICES ASSUME TypeOK, EvidenceInv, [Next]_vars PROVE EvidenceInv'
  OBVIOUS
<1>1. /\ IsFiniteSet(Opined') /\ IsFiniteSet(Evaluated')
      /\ \A i \in Intents : evaluations[i] \subseteq evaluations'[i]
  BY OpinionsGrow
<1>2. ASSUME NEW r \in Research, Enough(r) PROVE Enough(r)'
  BY <1>1, <1>2, EnoughStays, VetoAssumption DEF EvidenceInv
<1>3. ASSUME NEW r \in Research, NEW p \in proposals'[r], p.criteria_passed
      PROVE  Enough(r)'
  <2>1. CASE p \in proposals[r]
    BY <1>2, <1>3, <2>1 DEF EvidenceInv
  <2>2. CASE p \notin proposals[r]
    <3>1. PICK q \in Research : EvaluateProposal(q)
      BY <2>2 DEF Next, Decide, RecordEvent, Commit, Rollback, ReadAuthority, Intercept, Suppress,
                  Leave, vetoVars, vars
    <3>2. q = r /\ p.criteria_passed = Criteria(r)
      BY <2>2, <3>1 DEF EvaluateProposal, TypeOK
    <3>3. Cardinality(Vetoes(r)) = Step5[r].vetoes
      BY <1>3, <3>2 DEF Criteria
    <3>4. Enough(r)
      BY <1>3, <3>2 DEF Criteria, Enough
    <3>. QED  BY <1>2, <3>4
  <2>. QED  BY <2>1, <2>2
<1>. QED  BY <1>1, <1>3 DEF EvidenceInv

\* Whatever is granted rests on vetoes that are still on record, as many and over
\* as many months as the policy asks, for any number of intents.
THEOREM GrantsStayEvident == Spec => []GrantsRestOnEvidence
<1>1. IInv /\ EvidenceInv => GrantsRestOnEvidence
  <2>. SUFFICES ASSUME IInv, EvidenceInv, NEW g \in recorded, g.type = "GRANTED"
                PROVE  Enough(g.decision)
    BY DEF GrantsRestOnEvidence, Enough
  <2>1. g.decision \in Research
    BY DEF IInv, TypeOK, EventType, UseInv
  <2>2. Warranted(g)
    BY DEF IInv, GrantsInv
  <2>. QED  BY <2>1, <2>2 DEF Warranted, EvidenceInv
<1>2. IInv => TypeOK
  BY DEF IInv
<1>. QED  BY <1>1, <1>2, InitInv, StepInv, EvidenceStarts, EvidenceStep, PTL DEF Spec

-----------------------------------------------------------------------------
(* The cases. *)

CallType ==
  [case : Cases \cup {None}, batch : Batches \cup {<< >>}, first : Nat,
   rows : SUBSET RowType, citations : SUBSET [event_id : Events, role : Roles, status : Statuses],
   closed_at : Times \cup {None}]

\* A step of a call is about a case, and its batch is one of the batches.
CallsFit ==
  /\ call \in [Analysts -> CallType]
  /\ \A s \in Analysts :
       /\ step[s] # "IDLE" => call[s].case \in Cases
       /\ step[s] \in {"ADD", "NUMBERED", "INSERTED"} => call[s].batch \in Batches
       /\ step[s] \in {"NUMBERED", "INSERTED"} => call[s].first \in Nat \ {0}

\* All numbers below the one a call has read are taken.
NumberedInv ==
  \A s \in Analysts : step[s] \in {"NUMBERED", "INSERTED"} =>
    \A n \in 1..(call[s].first - 1) : n \in Nums(call[s].case)

\* An uncommitted batch starts with the first number that is not.
InsertedInv ==
  \A s \in Analysts : step[s] = "INSERTED" =>
    /\ \A n \in Nums(call[s].case) : n < call[s].first
    /\ \A u \in Inserting(s) : call[u].case # call[s].case

\* Findings and verdicts: what was read of a case is what it had then.
ReadInv ==
  \A s \in Analysts :
    /\ step[s] \in {"FOUND", "CITED", "CONCLUDED"} => call[s].rows \subseteq Rows(call[s].case)
    /\ step[s] \in {"CITED", "CONCLUDED"} /\ call[s].rows = Rows(call[s].case) =>
         call[s].citations = CitationsOf(call[s].rows)

ClosedInv == \A c \in closed : c.case \in Cases /\ c.rows \subseteq Rows(c.case)

Shape == step \in [Analysts -> Steps] /\ findings \subseteq RowType

CInv ==
  /\ CallsFit /\ Shape
  /\ SequencesDense /\ NumberedInv /\ InsertedInv
  /\ ReadInv /\ ClosedInv /\ VerdictsFollowManifests

-----------------------------------------------------------------------------
\* The rows of a batch: of its case, numbered from its first number on.
LEMMA BatchFacts ==
  ASSUME CallsFit, NEW s \in Analysts, step[s] \in {"NUMBERED", "INSERTED"}
  PROVE  /\ BatchRows(s) \subseteq RowType
         /\ \A r \in BatchRows(s) : r.case = call[s].case /\ r.num >= call[s].first
         /\ \A r, q \in BatchRows(s) : r.num = q.num => r = q
         /\ \A r \in BatchRows(s) : \A n \in call[s].first..r.num :
              \E q \in BatchRows(s) : q.num = n
         /\ \E q \in BatchRows(s) : q.num = call[s].first
<1> DEFINE k == call[s].case
           b == call[s].batch
           f == call[s].first
           Row(i) == [case |-> k, num |-> f + i - 1, finding |-> b[i]]
<1>1. k \in Cases /\ b \in Batches /\ f \in Nat \ {0}
  BY DEF CallsFit
<1>2. b \in Seq({x \in Findings : WellFormed(x)}) /\ b # << >>
  BY <1>1, CaseAssumption
<1>3. PICK m \in Nat : Len(b) = m
  BY <1>2
<1>4. DOMAIN b = 1..m /\ m > 0 /\ \A i \in 1..m : b[i] \in Findings
  BY <1>2, <1>3
<1>5. BatchRows(s) = {Row(i) : i \in 1..m}
  BY <1>4 DEF BatchRows
<1> HIDE DEF k, b, f
<1>6. \A i \in 1..m : Row(i) \in RowType
  BY <1>1, <1>4 DEF RowType
<1>7. \A i \in 1..m : Row(i).case = k /\ Row(i).num = f + i - 1
  OBVIOUS
<1>8. \A i, j \in 1..m : f + i - 1 = f + j - 1 => i = j
  BY <1>1
<1> HIDE DEF Row
<1>9. BatchRows(s) \subseteq RowType
  BY <1>5, <1>6
<1>10. \A r \in BatchRows(s) : r.case = k /\ r.num >= f
  BY <1>1, <1>5, <1>7
<1>11. \A r, q \in BatchRows(s) : r.num = q.num => r = q
  BY <1>5, <1>7, <1>8
<1>12. ASSUME NEW r \in BatchRows(s), NEW n \in f..r.num
       PROVE  \E q \in BatchRows(s) : q.num = n
  <2>1. PICK i \in 1..m : r = Row(i)
    BY <1>5
  <2>2. n - f + 1 \in 1..m /\ f + (n - f + 1) - 1 = n
    BY <1>1, <1>7, <2>1
  <2> QED
    BY <1>5, <1>7, <2>2
<1>13. 1 \in 1..m /\ f + 1 - 1 = f
  BY <1>1, <1>4
<1>14. \E q \in BatchRows(s) : q.num = f
  BY <1>5, <1>7, <1>13
<1> QED
  BY <1>9, <1>10, <1>11, <1>12, <1>14 DEF k, f

\* The number a call reads comes after all the numbers of its case.
LEMMA FirstFacts ==
  ASSUME Shape, SequencesDense, NEW k \in Cases, NEW n \in FirstNumber(k)
  PROVE  /\ n \in Nat \ {0}
         /\ \A i \in 1..(n - 1) : i \in Nums(k)
<1>1. \A r \in Rows(k) : r.num \in Nat \ {0}
  BY DEF Shape, Rows, RowType
<1>2. n = 1 \/ \E r \in Rows(k) : n = r.num + 1
  BY DEF FirstNumber
<1>3. CASE n = 1
  BY <1>3
<1>4. CASE \E r \in Rows(k) : n = r.num + 1
  <2>1. PICK r \in Rows(k) : n = r.num + 1
    BY <1>4
  <2>2. 1..(r.num) \subseteq Nums(k)
    BY DEF SequencesDense, Nums
  <2> QED
    BY <1>1, <2>1, <2>2
<1> QED
  BY <1>2, <1>3, <1>4

LEMMA CaseInitInv == CaseInit => CInv
<1> SUFFICES ASSUME CaseInit PROVE CInv
  OBVIOUS
<1>1. CallsFit
  <2>1. NoCall \in CallType
    BY DEF NoCall, CallType
  <2> QED
    BY <2>1 DEF CaseInit, CallsFit
<1>2. Shape /\ \A k \in Cases : Rows(k) = {}
  BY DEF CaseInit, Shape, Steps, Rows
<1>3. SequencesDense
  BY <1>2 DEF SequencesDense, Nums
<1> QED
  BY <1>1, <1>2, <1>3
     DEF CInv, CaseInit, NumberedInv, InsertedInv, ReadInv, ClosedInv, VerdictsFollowManifests

-----------------------------------------------------------------------------
\* A statement that reads or inserts: only the call of s moves on.
Only(s) ==
  /\ UNCHANGED <<findings, closed>>
  /\ \A u \in Analysts \ {s} : step'[u] = step[u] /\ call'[u] = call[u]

\* What says nothing of calls is kept by it.
LEMMA LedgerKept ==
  ASSUME CInv, UNCHANGED <<findings, closed>>
  PROVE  /\ \A k : Rows(k)' = Rows(k) /\ Nums(k)' = Nums(k)
         /\ SequencesDense' /\ ClosedInv' /\ VerdictsFollowManifests'
<1>1. \A k : Rows(k)' = Rows(k)
  BY DEF Rows
<1>2. \A k : Nums(k)' = Nums(k)
  BY <1>1 DEF Nums
<1> QED
  BY <1>1, <1>2 DEF CInv, SequencesDense, ClosedInv, VerdictsFollowManifests

\* Such a statement keeps the invariant if it does so for the call of s.
LEMMA OnlyStep ==
  ASSUME CInv, NEW s \in Analysts, Only(s), CallsFit', Shape',
         step'[s] \in {"NUMBERED", "INSERTED"} =>
           \A n \in 1..(call'[s].first - 1) : n \in Nums(call'[s].case),
         step'[s] = "INSERTED" =>
           /\ \A n \in Nums(call'[s].case) : n < call'[s].first
           /\ \A u \in Inserting(s) : call[u].case # call'[s].case,
         step'[s] \in {"FOUND", "CITED", "CONCLUDED"} => call'[s].rows \subseteq Rows(call'[s].case),
         step'[s] \in {"CITED", "CONCLUDED"} /\ call'[s].rows = Rows(call'[s].case) =>
           call'[s].citations = CitationsOf(call'[s].rows)
  PROVE  CInv'
<1> USE DEF CInv
<1>1. /\ \A k : Rows(k)' = Rows(k) /\ Nums(k)' = Nums(k)
      /\ SequencesDense' /\ ClosedInv' /\ VerdictsFollowManifests'
  BY LedgerKept DEF Only
<1>2. NumberedInv'
  BY <1>1 DEF NumberedInv, Only
<1>3. InsertedInv'
  BY <1>1 DEF InsertedInv, Inserting, Only
<1>4. ReadInv'
  BY <1>1 DEF ReadInv, Only
<1> QED
  BY <1>1, <1>2, <1>3, <1>4

\* The session of s comes to an end without a commit.
LEMMA EndsStep ==
  ASSUME CInv, NEW s \in Analysts, Ends(s), UNCHANGED <<findings, closed>>
  PROVE  CInv'
<1> USE DEF CInv
<1>1. step'[s] = "IDLE" /\ Only(s)
  BY DEF Ends, Only, CallsFit, Shape
<1>2. NoCall \in CallType
  BY DEF NoCall, CallType
<1>3. CallsFit' /\ Shape'
  BY <1>1, <1>2 DEF Ends, CallsFit, Shape, Steps
<1> QED
  BY <1>1, <1>3, OnlyStep

LEMMA BeginStep ==
  ASSUME CInv, NEW s \in Analysts, NEW k \in Cases, NEW b \in Batches \cup {<< >>},
         NEW to \in {"ADD", "CONCLUDE"}, to = "ADD" => b \in Batches, Begin(s, k, b, to)
  PROVE  CInv'
<1> USE DEF CInv
<1>1. step'[s] = to /\ Only(s) /\ UNCHANGED findings
  BY DEF Begin, Moves, Only, CallsFit, Shape
<1>2. call'[s] = [NoCall EXCEPT !.case = k, !.batch = b] /\ call'[s] \in CallType
  BY DEF Begin, CallsFit, NoCall, CallType
<1>3. CallsFit' /\ Shape'
  <2>1. call' \in [Analysts -> CallType] /\ step' \in [Analysts -> Steps]
    BY <1>2 DEF Begin, Moves, CallsFit, Shape, Steps
  <2>2. call'[s].case = k /\ call'[s].batch = b
    BY <1>2 DEF NoCall
  <2> QED
    BY <1>1, <2>1, <2>2 DEF CallsFit, Shape, Only
<1> QED
  BY <1>1, <1>3, OnlyStep

LEMMA SequenceStep ==
  ASSUME CInv, NEW s \in Analysts, ReadSequence(s)
  PROVE  CInv'
<1> USE DEF CInv
<1>1. step[s] = "ADD" /\ step'[s] = "NUMBERED" /\ Only(s) /\ UNCHANGED findings
  BY DEF ReadSequence, Moves, Only, CallsFit, Shape
<1>2. call[s].case \in Cases /\ call[s].batch \in Batches
  BY <1>1 DEF CallsFit
<1>3. PICK n \in FirstNumber(call[s].case) : call' = [call EXCEPT ![s].first = n]
  BY DEF ReadSequence
<1>4. n \in Nat \ {0} /\ \A i \in 1..(n - 1) : i \in Nums(call[s].case)
  BY <1>2, FirstFacts
<1>5. /\ call'[s] \in CallType /\ call'[s].first = n
      /\ call'[s].case = call[s].case /\ call'[s].batch = call[s].batch
  BY <1>3, <1>4 DEF CallsFit, CallType
<1>6. CallsFit' /\ Shape'
  <2>1. call' \in [Analysts -> CallType] /\ step' \in [Analysts -> Steps]
    BY <1>3, <1>5 DEF ReadSequence, Moves, CallsFit, Shape, Steps
  <2> QED
    BY <1>1, <1>2, <1>4, <1>5, <2>1 DEF CallsFit, Shape, Only
<1> QED
  BY <1>1, <1>4, <1>5, <1>6, OnlyStep

\* A batch that collides with nothing committed starts with the next number,
\* and nobody else has a batch of the case inserted.
LEMMA InsertStep ==
  ASSUME CInv, NEW s \in Analysts, InsertFindings(s)
  PROVE  CInv'
<1> USE DEF CInv
<1> DEFINE k == call[s].case
           f == call[s].first
<1>1. step[s] = "NUMBERED" /\ step'[s] = "INSERTED" /\ Only(s) /\ call' = call
  BY DEF InsertFindings, Moves, Only, CallsFit, Shape
<1>2. CallsFit' /\ Shape'
  BY <1>1 DEF InsertFindings, Moves, CallsFit, Shape, Steps
<1>3. k \in Cases /\ f \in Nat \ {0} /\ \A n \in 1..(f - 1) : n \in Nums(k)
  BY <1>1 DEF CallsFit, NumberedInv
<1>4. PICK q \in BatchRows(s) : q.num = f /\ q.case = k
  BY <1>1, BatchFacts
<1>5. f \notin Nums(k)
  BY <1>4 DEF InsertFindings, Collides, Nums, Rows
<1>6. \A n \in Nums(k) : n \in Nat /\ 1..n \subseteq Nums(k)
  BY <1>3 DEF SequencesDense, Nums, Rows, Shape, RowType
<1>7. \A n \in Nums(k) : n < f
  BY <1>3, <1>5, <1>6
<1>8. ASSUME NEW u \in Inserting(s)
      PROVE  call[u].case # k
  <2> SUFFICES ASSUME call[u].case = k
               PROVE  FALSE
    OBVIOUS
  <2>1. u \in Analysts /\ step[u] = "INSERTED" /\ call[u].first \in Nat \ {0}
    BY DEF Inserting, CallsFit
  <2>2. /\ \A n \in Nums(k) : n < call[u].first
        /\ \A n \in 1..(call[u].first - 1) : n \in Nums(k)
    BY <2>1 DEF InsertedInv, NumberedInv
  <2>3. call[u].first = f
    <3>1. ~(f < call[u].first)
      BY <1>3, <1>5, <2>1, <2>2
    <3>2. ~(call[u].first < f)
      BY <1>3, <2>1, <2>2
    <3> QED
      BY <1>3, <2>1, <3>1, <3>2
  <2>4. PICK p \in BatchRows(u) : p.num = f /\ p.case = k
    BY <2>1, <2>3, BatchFacts
  <2> QED
    BY <1>4, <2>4 DEF InsertFindings, Collides
<1> QED
  BY <1>1, <1>2, <1>3, <1>7, <1>8, OnlyStep

LEMMA ReadFindingsStep ==
  ASSUME CInv, NEW s \in Analysts, ReadFindings(s)
  PROVE  CInv'
<1> USE DEF CInv
<1>1. step[s] = "CONCLUDE" /\ step'[s] = "FOUND" /\ Only(s) /\ UNCHANGED findings
  BY DEF ReadFindings, Moves, Only, CallsFit, Shape
<1>2. Rows(call[s].case) \subseteq RowType
  BY DEF Shape, Rows
<1>3. /\ call'[s] \in CallType /\ call'[s].rows = Rows(call[s].case)
      /\ call'[s].case = call[s].case
  BY <1>2 DEF ReadFindings, CallsFit, CallType
<1>4. CallsFit' /\ Shape'
  <2>1. call' \in [Analysts -> CallType] /\ step' \in [Analysts -> Steps]
    BY <1>3 DEF ReadFindings, Moves, CallsFit, Shape, Steps
  <2> QED
    BY <1>1, <1>3, <2>1 DEF CallsFit, Shape, Only
<1> QED
  BY <1>1, <1>3, <1>4, OnlyStep

LEMMA ReadCitationsStep ==
  ASSUME CInv, NEW s \in Analysts, ReadCitations(s)
  PROVE  CInv'
<1> USE DEF CInv
<1>1. step[s] = "FOUND" /\ step'[s] = "CITED" /\ Only(s) /\ UNCHANGED findings
  BY DEF ReadCitations, Moves, Only, CallsFit, Shape
<1>2. CitationsOf(Rows(call[s].case)) \subseteq [event_id : Events, role : Roles, status : Statuses]
  BY DEF Shape, Rows, CitationsOf, RowType, Findings
<1>3. /\ call'[s] \in CallType /\ call'[s].citations = CitationsOf(Rows(call[s].case))
      /\ call'[s].case = call[s].case /\ call'[s].rows = call[s].rows
  BY <1>2 DEF ReadCitations, CallsFit, CallType
<1>4. CallsFit' /\ Shape'
  <2>1. call' \in [Analysts -> CallType] /\ step' \in [Analysts -> Steps]
    BY <1>3 DEF ReadCitations, Moves, CallsFit, Shape, Steps
  <2> QED
    BY <1>1, <1>3, <2>1 DEF CallsFit, Shape, Only
<1>5. call[s].rows \subseteq Rows(call[s].case)
  BY <1>1 DEF ReadInv
<1> QED
  BY <1>1, <1>3, <1>4, <1>5, OnlyStep

LEMMA InsertConclusionStep ==
  ASSUME CInv, now \in Times, NEW s \in Analysts, InsertConclusion(s)
  PROVE  CInv'
<1> USE DEF CInv
<1>1. step[s] = "CITED" /\ step'[s] = "CONCLUDED" /\ Only(s) /\ UNCHANGED findings
  BY DEF InsertConclusion, Moves, Only, CallsFit, Shape
<1>3. /\ call'[s] \in CallType /\ call'[s].citations = call[s].citations
      /\ call'[s].case = call[s].case /\ call'[s].rows = call[s].rows
  BY DEF InsertConclusion, CallsFit, CallType
<1>4. CallsFit' /\ Shape'
  <2>1. call' \in [Analysts -> CallType] /\ step' \in [Analysts -> Steps]
    BY <1>3 DEF InsertConclusion, Moves, CallsFit, Shape, Steps
  <2> QED
    BY <1>1, <1>3, <2>1 DEF CallsFit, Shape, Only
<1>5. /\ call[s].rows \subseteq Rows(call[s].case)
      /\ call[s].rows = Rows(call[s].case) => call[s].citations = CitationsOf(call[s].rows)
  BY <1>1 DEF ReadInv
<1> QED
  BY <1>1, <1>3, <1>4, <1>5, OnlyStep

\* A committed batch continues the numbers of its case; manifests and reads
\* that were complete before it are not any more, or are of other cases.
LEMMA CommitFindingsStep ==
  ASSUME CInv, NEW s \in Analysts, CommitFindings(s)
  PROVE  CInv'
<1> USE DEF CInv
<1>k. PICK k, f : k = call[s].case /\ f = call[s].first
  OBVIOUS
<1>1. /\ step[s] = "INSERTED" /\ step'[s] = "IDLE" /\ closed' = closed
      /\ findings' = findings \cup BatchRows(s)
      /\ \A u \in Analysts \ {s} : step'[u] = step[u] /\ call'[u] = call[u]
  BY DEF CommitFindings, Ends, CallsFit, Shape
<1>2. /\ BatchRows(s) \subseteq RowType
      /\ \A r \in BatchRows(s) : r.case = k /\ r.num >= f
      /\ \A r, q \in BatchRows(s) : r.num = q.num => r = q
      /\ \A r \in BatchRows(s) : \A n \in f..r.num : \E q \in BatchRows(s) : q.num = n
  BY <1>1, <1>k, BatchFacts
<1>3. k \in Cases /\ f \in Nat \ {0} /\ (\A n \in 1..(f - 1) : n \in Nums(k)) /\ \A n \in Nums(k) : n < f
  BY <1>1, <1>k DEF CallsFit, NumberedInv, InsertedInv
<1>4. /\ Rows(k)' = Rows(k) \cup BatchRows(s)
      /\ \A j : j # k => Rows(j)' = Rows(j)
      /\ \A j : Rows(j) \subseteq Rows(j)'
  BY <1>1, <1>2, <1>3 DEF Rows
<1>5. /\ Nums(k)' = Nums(k) \cup {r.num : r \in BatchRows(s)}
      /\ \A j : j # k => Nums(j)' = Nums(j)
      /\ \A j : Nums(j) \subseteq Nums(j)'
  BY <1>4 DEF Nums
<1>6. CallsFit' /\ Shape'
  <2>1. NoCall \in CallType
    BY DEF NoCall, CallType
  <2> QED
    BY <1>1, <1>2, <2>1 DEF CommitFindings, Ends, CallsFit, Shape, Steps
<1>7. SequencesDense'
  <2>1. ASSUME NEW n \in Nums(k)'
        PROVE  1..n \subseteq Nums(k)'
    <3>1. CASE n \in Nums(k)
      BY <1>3, <1>5, <3>1 DEF SequencesDense
    <3>2. CASE n \notin Nums(k)
      <4>1. PICK r \in BatchRows(s) : r.num = n
        BY <1>5, <3>2
      <4>2. n \in Nat
        BY <1>2, <4>1 DEF RowType
      <4>3. ASSUME NEW i \in 1..n
            PROVE  i \in Nums(k)'
        <5>1. CASE i < f
          BY <1>3, <1>5, <4>2, <4>3, <5>1
        <5>2. CASE ~(i < f)
          <6>1. i \in f..(r.num)
            BY <1>3, <4>1, <4>2, <4>3, <5>2
          <6> QED
            BY <1>2, <1>5, <6>1
        <5> QED
          BY <5>1, <5>2
      <4> QED
        BY <4>3
    <3> QED
      BY <3>1, <3>2
  <2>2. ASSUME NEW r \in Rows(k)', NEW q \in Rows(k)', r.num = q.num
        PROVE  r = q
    <3>1. \A x \in Rows(k) : x.num < f
      BY <1>3 DEF Nums
    <3>2. \A x \in Rows(k) \cup BatchRows(s) : x.num \in Nat
      BY <1>2 DEF Rows, Shape, RowType
    <3> QED
      BY <1>2, <1>3, <1>4, <2>2, <3>1, <3>2 DEF SequencesDense
  <2> QED
    BY <1>4, <1>5, <2>1, <2>2 DEF SequencesDense
<1>8. NumberedInv'
  BY <1>1, <1>5 DEF NumberedInv
<1>9. InsertedInv'
  <2> SUFFICES ASSUME NEW u \in Analysts, step'[u] = "INSERTED"
               PROVE  /\ \A n \in Nums(call[u].case)' : n < call'[u].first
                      /\ \A v \in Inserting(u)' : call'[v].case # call'[u].case
    BY DEF InsertedInv
  <2>1. u # s /\ step[u] = "INSERTED" /\ call'[u] = call[u]
    BY <1>1
  <2>2. call[u].case # k
    BY <1>1, <1>k, <2>1 DEF InsertedInv, Inserting
  <2>3. \A n \in Nums(call[u].case)' : n < call'[u].first
    BY <1>5, <2>1, <2>2 DEF InsertedInv
  <2>4. \A v \in Inserting(u)' : call'[v].case # call'[u].case
    BY <1>1, <2>1 DEF InsertedInv, Inserting
  <2> QED
    BY <2>3, <2>4
<1>10. ReadInv'
  <2> SUFFICES ASSUME NEW u \in Analysts, step'[u] \in {"FOUND", "CITED", "CONCLUDED"}
               PROVE  /\ call'[u].rows \subseteq Rows(call[u].case)'
                      /\ step'[u] # "FOUND" /\ call'[u].rows = Rows(call[u].case)' =>
                           call'[u].citations = CitationsOf(call'[u].rows)
    BY DEF ReadInv, CitationsOf
  <2>1. u # s /\ step[u] = step'[u] /\ call'[u] = call[u]
    BY <1>1
  <2>2. call[u].rows \subseteq Rows(call[u].case)
    BY <2>1 DEF ReadInv
  <2>3. Rows(call[u].case) \subseteq Rows(call[u].case)'
    BY <1>4, <2>1
  <2>4. step[u] # "FOUND" /\ call[u].rows = Rows(call[u].case) => call[u].citations = CitationsOf(call[u].rows)
    BY <2>1 DEF ReadInv
  <2>5. call[u].rows = Rows(call[u].case)' => call[u].rows = Rows(call[u].case)
    BY <2>2, <2>3
  <2> QED
    BY <1>4, <2>1, <2>2, <2>3, <2>4, <2>5
<1>11. ClosedInv'
  BY <1>1, <1>4 DEF ClosedInv
<1>12. VerdictsFollowManifests'
  <2> SUFFICES ASSUME NEW c \in closed, c.rows = Rows(c.case)'
               PROVE  c.verdict = derive_verdict(c.rows, CitationsOf(c.rows))
    BY <1>1 DEF VerdictsFollowManifests, CitationsOf, derive_verdict
  <2>1. c.rows = Rows(c.case)
    BY <1>4 DEF ClosedInv
  <2> QED
    BY <2>1 DEF VerdictsFollowManifests
<1> QED
  BY <1>6, <1>7, <1>8, <1>9, <1>10, <1>11, <1>12

LEMMA CommitConclusionStep ==
  ASSUME CInv, NEW s \in Analysts, CommitConclusion(s)
  PROVE  CInv'
<1> USE DEF CInv
<1> DEFINE c == [case |-> call[s].case, verdict |-> derive_verdict(call[s].rows, call[s].citations),
                 rows |-> call[s].rows]
<1>1. /\ step[s] = "CONCLUDED" /\ step'[s] = "IDLE" /\ findings' = findings
      /\ closed' = closed \cup {c}
      /\ \A u \in Analysts \ {s} : step'[u] = step[u] /\ call'[u] = call[u]
  BY DEF CommitConclusion, Ends, CallsFit, Shape
<1>2. /\ c.case = call[s].case /\ c.rows = call[s].rows
      /\ c.verdict = derive_verdict(call[s].rows, call[s].citations)
  OBVIOUS
<1> HIDE DEF c
<1>3. /\ call[s].case \in Cases /\ call[s].rows \subseteq Rows(call[s].case)
      /\ call[s].rows = Rows(call[s].case) => call[s].citations = CitationsOf(call[s].rows)
  BY <1>1 DEF CallsFit, ReadInv
<1>4. \A k : Rows(k)' = Rows(k) /\ Nums(k)' = Nums(k)
  BY <1>1 DEF Rows, Nums
<1>5. CallsFit' /\ Shape'
  <2>1. NoCall \in CallType
    BY DEF NoCall, CallType
  <2> QED
    BY <1>1, <2>1 DEF CommitConclusion, Ends, CallsFit, Shape, Steps
<1>6. SequencesDense'
  BY <1>4 DEF SequencesDense
<1>7. NumberedInv' /\ InsertedInv'
  BY <1>1, <1>4 DEF NumberedInv, InsertedInv, Inserting
<1>8. ReadInv'
  BY <1>1, <1>4 DEF ReadInv
<1>9. ClosedInv'
  BY <1>1, <1>2, <1>3, <1>4 DEF ClosedInv
<1>10. VerdictsFollowManifests'
  <2>1. c.rows = Rows(c.case) => c.verdict = derive_verdict(c.rows, CitationsOf(c.rows))
    BY <1>2, <1>3
  <2>2. \A d \in closed : d.rows = Rows(d.case) => d.verdict = derive_verdict(d.rows, CitationsOf(d.rows))
    BY DEF VerdictsFollowManifests
  <2> QED
    BY <1>1, <1>4, <2>1, <2>2 DEF VerdictsFollowManifests
<1> QED
  BY <1>5, <1>6, <1>7, <1>8, <1>9, <1>10

FInv == CInv /\ now \in Times

LEMMA CaseStep ==
  ASSUME FInv, [CaseNext]_<<gateVars, caseVars>>
  PROVE  FInv'
<1> USE DEF FInv
<1>1. now' \in Times
  BY DEF CaseNext, OpenCase, Statement, AddFindings, ConcludeCase, Begin, ReadSequence, InsertFindings,
         CommitFindings, ReadFindings, ReadCitations, InsertConclusion, CommitConclusion, Conclude, Raises,
         GateNext, Tick, Ingest, EvaluateMarketContext, EvaluateOrderIntent, gateVars
<1>2. ASSUME UNCHANGED <<findings, closed, step, call>>
      PROVE  CInv'
  BY <1>2, LedgerKept
     DEF CInv, CallsFit, Shape, NumberedInv, InsertedInv, Inserting, ReadInv
<1>3. ASSUME UNCHANGED <<gateVars, caseVars>>
      PROVE  CInv'
  BY <1>2, <1>3 DEF caseVars
<1>4. ASSUME NEW k \in Cases, OpenCase(k)
      PROVE  CInv'
  BY <1>2, <1>4 DEF OpenCase
<1>5. ASSUME GateNext /\ UNCHANGED caseVars
      PROVE  CInv'
  BY <1>2, <1>5 DEF caseVars
<1>6. ASSUME NEW s \in Analysts, Statement(s)
      PROVE  CInv'
  <2>1. ASSUME NEW k \in Cases, ConcludeCase(s, k)
        PROVE  CInv'
    BY <2>1, BeginStep DEF ConcludeCase
  <2>2. ASSUME NEW k \in Cases, NEW b \in Batches, AddFindings(s, k, b)
        PROVE  CInv'
    BY <2>2, BeginStep DEF AddFindings
  <2>3. CASE Raises(s)
    BY <2>3, EndsStep DEF Raises
  <2> QED
    BY <1>6, <2>1, <2>2, <2>3, SequenceStep, InsertStep, CommitFindingsStep, ReadFindingsStep,
       ReadCitationsStep, InsertConclusionStep, CommitConclusionStep DEF Statement
<1> QED
  BY <1>1, <1>3, <1>4, <1>5, <1>6 DEF CaseNext

LEMMA CaseInvariant == CaseSpec => []FInv
<1>1. GateInit /\ CaseInit => FInv
  BY CaseInitInv DEF GateInit, FInv
<1> QED
  BY <1>1, CaseStep, PTL DEF CaseSpec

\* The findings of a case are numbered from 1 on without a gap, each number
\* once, with any number of analysts adding to it at the same time.
THEOREM SequencesAreDense == CaseSpec => []SequencesDense
<1>1. FInv => SequencesDense
  BY DEF FInv, CInv
<1> QED
  BY <1>1, CaseInvariant, PTL

\* A conclusion whose manifest is complete has the verdict it entails.
THEOREM VerdictsFollow == CaseSpec => []VerdictsFollowManifests
<1>1. FInv => VerdictsFollowManifests
  BY DEF FInv, CInv
<1> QED
  BY <1>1, CaseInvariant, PTL

-----------------------------------------------------------------------------
(* A case is concluded once. *)

\* A call that has inserted its conclusion is the only one of its case, and
\* none is committed.
ConcludedOnce ==
  /\ opened \in [Cases -> Times \cup {None}]
  /\ closed \subseteq ClosedType
  /\ \A c, d \in closed : c.case = d.case => c = d
  /\ \A s \in Analysts : step[s] = "CONCLUDED" => \A c \in closed : c.case # call[s].case
  /\ \A s, u \in Analysts : step[s] = "CONCLUDED" /\ step[u] = "CONCLUDED" =>
       call[s].case # call[u].case \/ s = u

LEMMA ConcludedInit == CaseInit => ConcludedOnce
BY DEF CaseInit, ConcludedOnce

\* A step of a call that concludes nothing.
LEMMA ConcludedKept ==
  ASSUME ConcludedOnce, closed' = closed, opened' \in [Cases -> Times \cup {None}],
         \A s \in Analysts : step'[s] = "CONCLUDED" =>
           step[s] = "CONCLUDED" /\ call'[s].case = call[s].case
  PROVE  ConcludedOnce'
BY DEF ConcludedOnce

\* The insert waits for the others of its case, and is refused after one.
LEMMA ConcludedInsert ==
  ASSUME FInv, ConcludedOnce, NEW s \in Analysts, InsertConclusion(s)
  PROVE  ConcludedOnce'
<1>1. /\ closed' = closed /\ opened' = opened
      /\ \A u \in Analysts \ {s} : step'[u] = step[u] /\ call'[u] = call[u]
      /\ call'[s].case = call[s].case
      /\ \A c \in closed : c.case # call[s].case
      /\ \A u \in Analysts : step[u] = "CONCLUDED" => call[u].case # call[s].case
  BY DEF InsertConclusion, Moves, AlreadyClosed, FInv, CInv, CallsFit, CallType, Shape
<1> QED
  BY <1>1 DEF ConcludedOnce

LEMMA ConcludedCommit ==
  ASSUME FInv, ConcludedOnce, NEW s \in Analysts, CommitConclusion(s)
  PROVE  ConcludedOnce'
<1> DEFINE verdict == derive_verdict(call[s].rows, call[s].citations)
           new == [case |-> call[s].case, verdict |-> verdict, rows |-> call[s].rows]
<1>1. /\ step[s] = "CONCLUDED" /\ step'[s] = "IDLE" /\ opened' = opened
      /\ closed' = closed \cup {new}
      /\ \A u \in Analysts \ {s} : step'[u] = step[u] /\ call'[u] = call[u]
  BY DEF CommitConclusion, Ends, FInv, CInv, CallsFit, Shape
<1>2. call[s].case \in Cases /\ call[s].rows \in SUBSET RowType
  BY <1>1 DEF FInv, CInv, CallsFit, CallType
<1>3. verdict \in Verdicts
  BY DEF derive_verdict, Verdicts
<1>4. new \in ClosedType /\ new.case = call[s].case
  BY <1>2, <1>3 DEF ClosedType
<1> HIDE DEF new
<1> QED
  BY <1>1, <1>4 DEF ConcludedOnce

LEMMA ConcludedStep ==
  ASSUME FInv, ConcludedOnce, [CaseNext]_<<gateVars, caseVars>>
  PROVE  ConcludedOnce'
<1> USE DEF FInv, CInv, CallsFit, Shape
<1>1. CASE \E s \in Analysts : InsertConclusion(s) \/ CommitConclusion(s)
  BY <1>1, ConcludedInsert, ConcludedCommit
<1>2. CASE UNCHANGED <<gateVars, caseVars>> \/ (GateNext /\ UNCHANGED caseVars)
  BY <1>2, ConcludedKept DEF caseVars, ConcludedOnce
<1>3. CASE \E k \in Cases : OpenCase(k)
  BY <1>3, ConcludedKept DEF OpenCase, ConcludedOnce
<1>4. ASSUME NEW s \in Analysts, Statement(s), ~InsertConclusion(s), ~CommitConclusion(s)
      PROVE  ConcludedOnce'
  <2>1. closed' = closed /\ opened' = opened
    BY <1>4 DEF Statement, AddFindings, ConcludeCase, Begin, ReadSequence, InsertFindings,
       CommitFindings, ReadFindings, ReadCitations, Raises
  <2>2. /\ step'[s] # "CONCLUDED"
        /\ \A u \in Analysts \ {s} : step'[u] = step[u] /\ call'[u] = call[u]
    BY <1>4 DEF Statement, AddFindings, ConcludeCase, Begin, ReadSequence, InsertFindings,
       CommitFindings, ReadFindings, ReadCitations, Raises, Moves, Ends
  <2> QED
    BY <2>1, <2>2, ConcludedKept DEF ConcludedOnce
<1> QED
  BY <1>1, <1>2, <1>3, <1>4 DEF CaseNext

\* Whatever calls add to a case and conclude it at the same time, its findings
\* are numbered one after the other and it is concluded once.
THEOREM FindingsAlwaysNumbered == CaseSpec => []FindingsAreNumbered
<1>1. FInv /\ ConcludedOnce => FindingsAreNumbered
  BY DEF FInv, CInv, Shape, ConcludedOnce, CaseTypeOK, FindingsAreNumbered
<1>2. GateInit /\ CaseInit => FInv /\ ConcludedOnce
  BY CaseInitInv, ConcludedInit DEF GateInit, FInv
<1> QED
  BY <1>1, <1>2, CaseStep, ConcludedStep, PTL DEF CaseSpec
=============================================================================
