--------------------------- MODULE MCIntelligence ---------------------------
(***************************************************************************)
(* One instance of CaseEngine, ContextGate and VetoAuthority for TLC,      *)
(* explored along three scenarios chosen at the start:                     *)
(*   cases      two analysts add findings to two cases and conclude them   *)
(*   context    two cells, two events and conclusions at any time, and the *)
(*              opinions they lead to; no research                         *)
(*   authority  a CPI release and another critical event of the Fed; two   *)
(*              intents of a cell, the vetoes of which research may or may *)
(*              not have counted; two sessions record authority events     *)
(***************************************************************************)
EXTENDS VetoAuthority, CaseEngine

CONSTANTS c1, c2, i1, i2, i3, cpi, speech, r1, r2, r3, s1, s2, bob, eve, k1, k2

VARIABLE scenario

MC_Times == 0..3
MC_Cells == {c1, c2}
MC_Events == {cpi, speech}
Row(name, t) == [name |-> name, title |-> {}, published |-> t, scheduled |-> t, readable |-> TRUE,
                 consensus |-> FALSE, revised |-> FALSE]
MC_Evidences ==
  [e \in MC_Events |-> IF e = cpi THEN BlsScheduled(Row("CPI", 2))
                       ELSE FomcStatement([Row("FOMC", 1) EXCEPT !.title = {"OTHER"}])]
MC_Intents == {i1, i2, i3}
MC_CellOf == [i \in MC_Intents |-> IF i = i3 THEN c2 ELSE c1]
MC_Foreign == {i3}
MC_Sessions == {s1, s2}
MC_Operators == {bob, eve}
MC_Research == {r1, r2, r3}
\* r1 and r2 count two vetoes of c1, r3 one of c2, where the strategy changed.
Cell(r) == IF r = r3 THEN c2 ELSE c1
From(r) == IF r = r2 THEN 0 ELSE 1
MC_Step5 ==
  [r \in MC_Research |-> [cell |-> Cell(r), from |-> From(r), to |-> 3,
                          vetoes |-> IF r = r3 THEN 1 ELSE 2, alpha |-> 1, precision |-> 60]]
MC_Step55 ==
  [r \in MC_Research |-> [cell |-> Cell(r), from |-> From(r), to |-> 3, alpha |-> 1, drawdown |-> 0]]

MC_Cases == {k1, k2}
Cites(e, role) == [event_id |-> e, role |-> role, status |-> "ACTIVE"]
MC_Batches ==
  {<<[type |-> "SUPPORTING", citations |-> {Cites(cpi, "PRIMARY_PROOF")}]>>,
   <<[type |-> "SUPERSEDED_FACT", citations |-> {Cites(cpi, "CONTEXT"), Cites(speech, "CONTEXT")}]>>,
   <<[type |-> "GAP_IDENTIFIED", citations |-> {}],
     [type |-> "CONTRADICTORY", citations |-> {Cites(speech, "CONTRADICTION")}]>>}

MCInit == Init /\ CaseInit /\ scenario \in {"cases", "context", "authority"}

InvestigateCases ==
  /\ \/ \E k \in Cases : OpenCase(k)
     \/ \E e \in Events : Ingest(e, now) /\ UNCHANGED caseVars
     \/ \E s \in Analysts : Statement(s) /\ Cardinality(findings') < 4
  /\ UNCHANGED vetoVars

Context ==
  \/ /\ \/ Tick
        \/ \E e \in Events, t \in Times : Ingest(e, t)
        \/ \E v \in {"CONFIRMED", "UNSUPPORTED"} : conclusions = {} /\ Conclude(v, now)
        \/ \E c \in Cells, t \in 1..2, asked \in BOOLEAN :
             EvaluateMarketContext(c, t, asked)
        \/ \E i \in {i1, i3} : \E a \in assessments : EvaluateOrderIntent(i, a)
     /\ UNCHANGED vetoVars
  \/ EvaluateProposal(r3)

Decisions(r) == IF r = r1 THEN {"APPROVED"} ELSE {"APPROVED", "REJECTED"}

\* What is done at 1 and at 2: the time before and after is not used.  The
\* window of the release is 2.
Authority ==
  \/ /\ \/ now < 2 /\ Tick
        \/ \E e \in Events : now = 1 /\ Ingest(e, now)
        \/ \E t \in 1..2 : observed # [e \in Events |-> None] /\ EvaluateMarketContext(c1, t, FALSE)
        \/ \E i \in {i1, i2} : \E a \in assessments :
             (i = i2 => evaluations[i1] # {}) /\ EvaluateOrderIntent(i, a)
     /\ UNCHANGED vetoVars
  \/ \E r \in {r1, r2} :
       \/ evaluations[i1] # {} /\ EvaluateProposal(r)
       \/ \E d \in Decisions(r) : Decide(r, d, bob)
  \/ \E s \in Sessions, c \in Cells, t \in 1..2 :
       \/ \E r \in {r1, r2}, o \in Operators : RecordEvent(s, c, "GRANTED", r, o, t)
       \/ RecordEvent(s, c, IF s = s1 THEN "REVOKED" ELSE "EXPIRED", None, eve, t)
  \/ \E s \in Sessions : Commit(s) \/ Rollback(s)
  \/ ReadAuthority(i1, 2)
  \/ Intercept

MCNext ==
  /\ UNCHANGED scenario
  /\ \/ scenario = "cases" /\ InvestigateCases
     \/ scenario = "context" /\ Context /\ UNCHANGED caseVars
     \/ scenario = "authority" /\ Authority /\ UNCHANGED caseVars

MCSpec == MCInit /\ [][MCNext]_<<vars, caseVars, scenario>>
===============================================================================
