---------------------------- MODULE VetoAuthority ----------------------------
(***************************************************************************)
(* How a cell comes to have its order intents vetoed                       *)
(* (engine/intelligence/governance/, migration 0022): research over the    *)
(* recorded opinions is put into a proposal, a human decides it, an        *)
(* approval is granted as an authority event, and from then on the         *)
(* interceptor suppresses the intents the context gate objected to, until  *)
(* the authority is revoked or expires.                                    *)
(*                                                                         *)
(* Proposals, decisions and suppressions are inserted and committed in one *)
(* step: their triggers read rows that are never changed, and two that are *)
(* alike exclude each other by a unique key.  The trigger of an authority  *)
(* event reads the latest event of the cell, which another session may     *)
(* just be replacing: its insert and its commit are two steps.  So are the *)
(* interceptor's read of the authority and its insert of the suppression:  *)
(* nothing is locked in between, and no trigger checks the fact.           *)
(***************************************************************************)
EXTENDS ContextGate, Integers, FiniteSets

CONSTANTS
  Sessions,          \* database sessions that record authority events
  Operators,
  Research,          \* pairs of research runs a proposal may be made of
  Foreign,           \* intents of a strategy that is not their cell's any more
  Step5, Step55,     \* the trade-removal and the stateful run of each pair
  MonthLength,
  MinVetoes,         \* 30
  MinMonths,         \* 3
  MinPrecision,      \* 60
  Window,            \* WINDOW_BEFORE_MINUTES and WINDOW_AFTER_MINUTES
  MaxEvents,         \* bound on the authority events
  MaxInterceptions   \* bound on the interceptions under way at a time

ASSUME VetoAssumption ==
  /\ \A r \in Research :
       /\ Step5[r] \in [cell : Cells, from : Times, to : Times, vetoes : Nat, alpha : Int, precision : Nat]
       /\ Step55[r] \in [cell : Cells, from : Times, to : Times, alpha : Int, drawdown : Int]
  /\ MonthLength \in Nat \ {0} /\ MinVetoes \in Nat /\ MinMonths \in Nat /\ MinPrecision \in Nat
  /\ Window \in Nat /\ MaxEvents \in Nat /\ MaxInterceptions \in Nat /\ IsFiniteSet(Sessions)
  /\ None \notin Research /\ Foreign \subseteq Intents

VARIABLES
  proposals,     \* intelligence_authority_proposals, by pair of runs (unique): in a set
  decisions,     \* intelligence_authority_decisions, by proposal (unique): in a set
  recorded,      \* cell_intelligence_authority_events
  pending,       \* the uncommitted authority event of each session, in a set
  interceptions, \* calls of the interceptor that have read a VETO_ONLY authority
  facts          \* INTENT_VETOED events

vetoVars == <<proposals, decisions, recorded, pending, interceptions, facts>>
vars == <<gateVars, vetoVars>>

Init ==
  /\ GateInit
  /\ proposals = [r \in Research |-> {}] /\ decisions = [r \in Research |-> {}]
  /\ recorded = {} /\ pending = [s \in Sessions |-> {}]
  /\ interceptions = {} /\ facts = {}

-----------------------------------------------------------------------------
(* PromotionCriteriaEvaluator *)

\* The recorded vetoes of the cell's intents in the window of the research.
Vetoes(r) ==
  {i \in Intents : /\ CellOf[i] = Step5[r].cell
                   /\ \E x \in evaluations[i] : /\ x.opinion = "WOULD_HAVE_VETOED"
                                                /\ x.evaluated_at \in Step5[r].from..Step5[r].to}

Month(t) == t \div MonthLength
Months(r) == {Month(x.evaluated_at) : x \in UNION {evaluations[i] : i \in Vetoes(r)}}

\* What evaluate() asks of the two runs and of the evaluations they stand on.
SameEvidence(r) ==
  /\ Vetoes(r) \cap Foreign = {}
  /\ Step5[r].cell = Step55[r].cell
  /\ Step5[r].from = Step55[r].from /\ Step5[r].to = Step55[r].to

Criteria_Fault(r) ==
  /\ Step5[r].vetoes >= MinVetoes
  /\ Cardinality(Vetoes(r)) = Step5[r].vetoes
  /\ Step5[r].alpha > 0 /\ Step55[r].alpha > 0 /\ Step55[r].drawdown >= 0
  /\ Step5[r].precision >= MinPrecision

Criteria(r) ==
  /\ Step5[r].vetoes >= MinVetoes
  /\ Cardinality(Vetoes(r)) = Step5[r].vetoes
  /\ Cardinality(Months(r)) >= MinMonths
  /\ Step5[r].alpha > 0 /\ Step55[r].alpha > 0 /\ Step55[r].drawdown >= 0
  /\ Step5[r].precision >= MinPrecision

EvaluateProposal(r) ==
  /\ proposals[r] = {} /\ SameEvidence(r)
  /\ proposals' = [proposals EXCEPT ![r] =
       {[cell |-> Step5[r].cell, criteria_passed |-> Criteria(r), proposed_at |-> now]}]
  /\ UNCHANGED <<gateVars, decisions, recorded, pending, interceptions, facts>>

-----------------------------------------------------------------------------
(* AuthorityGovernanceService *)

Decide(r, decision, operator) ==
  /\ decisions[r] = {}
  /\ \E p \in proposals[r] : p.proposed_at <= now
  /\ decisions' = [decisions EXCEPT ![r] =
       {[decision |-> decision, operator |-> operator, decided_at |-> now]}]
  /\ UNCHANGED <<gateVars, proposals, recorded, pending, interceptions, facts>>

Uncommitted == UNION {pending[s] : s \in Sessions}

Event(c, type, r, operator, t, n) ==
  [cell |-> c, type |-> type, decision |-> r, operator |-> operator, effective_at |-> t, created_at |-> n]

\* created_at is the clock at the insert: a number after those given so far.
Inserted(n) ==
  /\ \A x \in recorded \cup Uncommitted : x.created_at < n
  /\ n > 0 => \E x \in recorded \cup Uncommitted : x.created_at = n - 1

\* ORDER BY effective_at DESC, created_at DESC
Before(x, y) ==
  \/ x.effective_at < y.effective_at
  \/ x.effective_at = y.effective_at /\ x.created_at < y.created_at

LatestOf(events) == {x \in events : \A y \in events : ~Before(x, y)}

EventsOf(c) == {x \in recorded : x.cell = c}
HasAuthority(c) == \E x \in LatestOf(EventsOf(c)) : x.type = "GRANTED"

\* check_authority_event_validity, over the events committed by others
InSequence(c, t) == \A x \in LatestOf(EventsOf(c)) : t >= x.effective_at

Granted(c, r, operator, t) ==
  /\ \E p \in proposals[r] : p.cell = c /\ p.criteria_passed
  /\ \E d \in decisions[r] :
       d.decision = "APPROVED" /\ d.operator = operator /\ d.decided_at <= t
  /\ ~HasAuthority(c)

\* uq_authority_event_decision and the primary key, a hash of the payload: a
\* session that meets an uncommitted row waits.
Unused_Fault(x) == TRUE

Unused(x) ==
  \A y \in recorded \cup Uncommitted :
    /\ x.decision # None => y.decision # x.decision
    /\ [y EXCEPT !.created_at = x.created_at] # x

RecordEvent(s, c, type, r, operator, t) ==
  /\ Cardinality(recorded) < MaxEvents
  /\ pending[s] = {}
  /\ InSequence(c, t)
  /\ \/ type = "GRANTED" /\ r # None /\ Granted(c, r, operator, t)
     \/ type # "GRANTED" /\ r = None /\ HasAuthority(c)
  /\ \E n \in 0..(MaxEvents + Cardinality(Sessions)) :
       /\ Inserted(n)
       /\ Unused(Event(c, type, r, operator, t, n))
       /\ pending' = [pending EXCEPT ![s] = {Event(c, type, r, operator, t, n)}]
  /\ UNCHANGED <<gateVars, proposals, decisions, recorded, interceptions, facts>>

Commit(s) ==
  /\ pending[s] # {}
  /\ recorded' = recorded \cup pending[s]
  /\ pending' = [pending EXCEPT ![s] = {}]
  /\ UNCHANGED <<gateVars, proposals, decisions, interceptions, facts>>

Rollback(s) ==
  /\ pending[s] # {}
  /\ pending' = [pending EXCEPT ![s] = {}]
  /\ UNCHANGED <<gateVars, proposals, decisions, recorded, interceptions, facts>>

-----------------------------------------------------------------------------
(* RuntimeAuthorityInterceptor *)

\* AuthorityPolicyV1.classify_event
Fomc(e) == "FOMC" \in e.title /\ e.source_name = "FEDERAL_RESERVE"
Cpi(e) == "CPI" \in e.title /\ e.source_name = "BLS"
Allowed(e) == e.event_type = "MACRO" /\ e.source_type = "PRIMARY" /\ (Fomc(e) \/ Cpi(e))

InForce_Fault(c, t) == LatestOf({x \in EventsOf(c) : x.effective_at <= t /\ x.type = "GRANTED"})

\* The authority of the cell as of t.
InForce(c, t) == LatestOf({x \in EventsOf(c) : x.effective_at <= t})

Objection(i, x, t) ==
  LET a == x.assessment IN
  /\ x.opinion = "WOULD_HAVE_VETOED"
  /\ a.cell = CellOf[i] /\ a.macro_window_active /\ a.primary_event_id # None
  /\ observed[a.primary_event_id] # None
  /\ Allowed(Evidences[a.primary_event_id])
  /\ Near(Evidences[a.primary_event_id].effective_at, t, Window)

\* What the call c records, by the authority it has read.
Suppressed(c) ==
  {[intent |-> c.intent, evaluation |-> x, authority |-> c.authority] :
     x \in {y \in evaluations[c.intent] : Objection(c.intent, y, c.at)}}

\* The first read; a call that finds no grant routes the intent and is over.
ReadAuthority(i, t) ==
  /\ Cardinality(interceptions) < MaxInterceptions
  /\ \E g \in InForce(CellOf[i], t) :
       /\ g.type = "GRANTED"
       /\ interceptions' = interceptions \cup {[intent |-> i, at |-> t, authority |-> g]}
  /\ UNCHANGED <<gateVars, proposals, decisions, recorded, pending, facts>>

\* The other reads are of rows that never change.  A suppression is recorded
\* once, with the time of its first call, and committed by the caller.
Suppress(c) ==
  \E f \in Suppressed(c) :
    /\ \A g \in facts : g.suppression # f
    /\ facts' = facts \cup {[suppression |-> f, occurred_at |-> c.at]}
    /\ interceptions' = interceptions \ {c}
    /\ UNCHANGED <<gateVars, proposals, decisions, recorded, pending>>

\* No objection, a suppression on record already, or the call is lost.
Leave(c) ==
  /\ interceptions' = interceptions \ {c}
  /\ UNCHANGED <<gateVars, proposals, decisions, recorded, pending, facts>>

Intercept == \E c \in interceptions : Suppress(c) \/ Leave(c)

-----------------------------------------------------------------------------

Next ==
  \/ GateNext /\ UNCHANGED vetoVars
  \/ \E r \in Research :
       EvaluateProposal(r)
       \/ \E d \in {"APPROVED", "REJECTED"}, o \in Operators : Decide(r, d, o)
  \/ \E s \in Sessions, c \in Cells, o \in Operators, t \in Times :
       \/ \E r \in Research : RecordEvent(s, c, "GRANTED", r, o, t)
       \/ \E type \in {"REVOKED", "EXPIRED"} : RecordEvent(s, c, type, None, o, t)
  \/ \E s \in Sessions : Commit(s) \/ Rollback(s)
  \/ \E i \in Intents, t \in Times : ReadAuthority(i, t)
  \/ Intercept

Spec == Init /\ [][Next]_vars

-----------------------------------------------------------------------------
(* Properties *)

EventType ==
  [cell : Cells, type : {"GRANTED", "REVOKED", "EXPIRED"}, decision : Research \cup {None},
   operator : Operators, effective_at : Times, created_at : Nat]
ProposalType == [cell : Cells, criteria_passed : BOOLEAN, proposed_at : Times]
DecisionType == [decision : {"APPROVED", "REJECTED"}, operator : Operators, decided_at : Times]
InterceptionType == [intent : Intents, at : Times, authority : EventType]
FactType ==
  [suppression : [intent : Intents, evaluation : EvaluationType, authority : EventType],
   occurred_at : Times]

\* The ledgers hold rows of their types, an intent's opinions about its own cell.
TypeOK ==
  /\ GateTypeOK
  /\ proposals \in [Research -> SUBSET ProposalType]
  /\ decisions \in [Research -> SUBSET DecisionType]
  /\ recorded \subseteq EventType /\ pending \in [Sessions -> SUBSET EventType]
  /\ interceptions \subseteq InterceptionType /\ facts \subseteq FactType

\* A grant rests on a proposal of the cell that met the criteria, approved
\* by the operator who grants, in this order of time.
Warranted(g) ==
  \E p \in proposals[g.decision] : \E d \in decisions[g.decision] :
    /\ p.cell = g.cell /\ p.criteria_passed
    /\ d.decision = "APPROVED" /\ d.operator = g.operator
    /\ p.proposed_at <= d.decided_at /\ d.decided_at <= g.effective_at

\* What the suppression recorded by f rests on.
Due(f) ==
  LET x == f.suppression.evaluation
      g == f.suppression.authority
      e == x.assessment.primary_event_id
  IN /\ g \in recorded /\ g.type = "GRANTED" /\ g.cell = CellOf[f.suppression.intent]
     /\ g.effective_at <= f.occurred_at /\ Warranted(g)
     /\ x \in evaluations[f.suppression.intent] /\ x.assessment.cell = g.cell
     /\ e # None /\ observed[e] # None /\ observed[e] <= x.evaluated_at
     /\ Allowed(Evidences[e]) /\ Near(Evidences[e].effective_at, f.occurred_at, Window)

\* No intent is suppressed without the whole chain behind it: a committed
\* grant of its own cell, warranted and in effect, an opinion of the gate on
\* this intent and cell, and a CPI or FOMC event in its window of minutes
\* that had been observed when the opinion was formed.  Whether the grant had
\* been revoked meanwhile is the matter of RevocationSticks.
SuppressionsAreDue == \A f \in facts : Due(f)

\* What a grant rests on does not wear off: the vetoes its proposal counted
\* are still in the ledger, as many and over as many months as the policy asks.
GrantsRestOnEvidence ==
  \A g \in recorded : g.type = "GRANTED" =>
    /\ Cardinality(Vetoes(g.decision)) >= MinVetoes
    /\ Cardinality(Months(g.decision)) >= MinMonths

\* An approval is used for one grant, whoever grants at the same time: after
\* a revocation it takes new research to veto again.
OneGrantPerApproval ==
  \A g, h \in recorded : g.type = "GRANTED" /\ h.type = "GRANTED" /\ g.decision = h.decision => g = h

\* A committed revocation or expiry, in effect by t, comes after the grant g.
Revoked(g, t) ==
  \E x \in recorded :
    x.cell = g.cell /\ x.type # "GRANTED" /\ x.effective_at <= t /\ Before(g, x)

\* Once a revocation (or expiry) is committed, no interception that begins
\* suppresses anything from its effective time on by a grant that came before
\* it.  One that had read the grant by then still may, once: nothing in the
\* code makes it look again.
RevocationSticks ==
  [][/\ \A c \in interceptions' \ interceptions : ~Revoked(c.authority, c.at)
     /\ \A f \in facts' \ facts :
          Revoked(f.suppression.authority, f.occurred_at) =>
            \E c \in interceptions \ interceptions' :
              /\ c.intent = f.suppression.intent /\ c.at = f.occurred_at
              /\ c.authority = f.suppression.authority]_vars

\* No veto without a grant in force, no grant without an approval of its own.
AuthorityHolds == TypeOK /\ SuppressionsAreDue /\ OneGrantPerApproval
=============================================================================
