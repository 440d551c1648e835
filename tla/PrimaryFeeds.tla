---------------------------- MODULE PrimaryFeeds ----------------------------
(***************************************************************************)
(* What the primary-source adapters (engine/intelligence/feeds/) make of a *)
(* document: the rows they refuse, and the evidence of the others, with    *)
(* the columns of intelligence_evidence_ledger the rest of the system      *)
(* reads.  A title is the set of policy words in it; times are numbers.    *)
(*                                                                         *)
(* A row of a provider's document: the series, form or event it names, the *)
(* words of its title ({} when it has none), when it was published (None   *)
(* when it does not say) and when the release is due, whether its          *)
(* canonical fields can be read, whether it carries market consensus and   *)
(* whether it revises a release.                                           *)
(***************************************************************************)
EXTENDS Naturals

CONSTANTS
  None,
  Times

ASSUME TimesAssumption == Times \subseteq Nat /\ None \notin Times

Names == {"CPI", "PPI", "PAYROLLS", "UNEMPLOYMENT", "FOMC", "10-K", "8-K", "EARNINGS", "PRODUCT"}
Words == {"CPI", "FOMC", "OTHER"}

FeedRows ==
  [name : Names, title : SUBSET Words, published : Times \cup {None}, scheduled : Times \cup {None},
   readable : BOOLEAN, consensus : BOOLEAN, revised : BOOLEAN]

Formats == {"BLS_SCHEDULE", "BLS_SERIES", "FED_CALENDAR", "FED_STATEMENTS", "IR", "SEC_DOCUMENT"}

Evidence(name, type, title, published, effective, status, urgency, entities) ==
  [source_name |-> name, source_type |-> "PRIMARY", event_type |-> type, title |-> title,
   published_at |-> published, effective_at |-> effective, release_status |-> status,
   urgency |-> urgency, entities |-> entities]

Titled(row, default) == IF row.title = {} THEN {default} ELSE row.title

-----------------------------------------------------------------------------
(* BlsAdapter *)

BLS_ENTITIES ==
  [CPI |-> {"CPI", "QQQ"}, PPI |-> {"PPI", "QQQ"}, PAYROLLS |-> {"PAYROLLS", "QQQ"},
   UNEMPLOYMENT |-> {"PAYROLLS", "QQQ"}]

\* The default titles name the series.
SeriesWord(row) == IF row.name = "CPI" THEN "CPI" ELSE "OTHER"

Bls(row, published, effective, status) ==
  Evidence("BLS", "MACRO", Titled(row, SeriesWord(row)), published, effective, status,
           IF row.name = "CPI" THEN "CRITICAL" ELSE "HIGH", BLS_ENTITIES[row.name])

\* A calendar notice that does not say when it was published is taken to be
\* published when the release is due.
BlsScheduled(row) ==
  Bls(row, IF row.published = None THEN row.scheduled ELSE row.published, row.scheduled, "SCHEDULED")

BlsReleased(row) ==
  Bls(row, row.published, row.published, IF row.revised THEN "REVISED" ELSE "RELEASED")

-----------------------------------------------------------------------------
(* FederalReserveAdapter *)

Fed(row, published, effective, status) ==
  Evidence("FEDERAL_RESERVE", "MACRO", Titled(row, "FOMC"), published, effective, status,
           "CRITICAL", {"FOMC", "FED_RATES", "QQQ", "TQQQ"})

FomcMeeting(row) ==
  Fed(row, IF row.published = None THEN row.scheduled ELSE row.published, row.scheduled, "SCHEDULED")

FomcStatement(row) == Fed(row, row.published, row.published, "RELEASED")

-----------------------------------------------------------------------------
(* CorporateIrAdapter and SecEdgarAdapter *)

IrItem(row) ==
  Evidence("CORPORATE_IR", IF row.name = "EARNINGS" THEN "EARNINGS" ELSE "PRODUCT", row.title,
           row.published, row.published, "RELEASED",
           IF row.name = "EARNINGS" THEN "HIGH" ELSE "MEDIUM", {"TICKER"})

Filing(row) ==
  Evidence("SEC_EDGAR", IF row.name = "10-K" THEN "EARNINGS" ELSE "REGULATORY", {"OTHER"},
           row.published, row.published, "RELEASED",
           IF row.name = "8-K" THEN "HIGH" ELSE "MEDIUM", {"TICKER"})

-----------------------------------------------------------------------------
\* The rows an adapter raises on: nothing of the poll is ingested then.
Unreadable(row) == ~row.readable

BlsRefuses(format, row) ==
  \/ row.name \notin DOMAIN BLS_ENTITIES
  \/ format = "BLS_SCHEDULE" /\ row.scheduled = None
  \/ format = "BLS_SERIES" /\ (row.published = None \/ row.consensus)

FedRefuses(format, row) ==
  \/ format = "FED_CALENDAR" /\ row.scheduled = None
  \/ format = "FED_STATEMENTS" /\ row.published = None

IrRefuses(row) == row.title = {} \/ row.published = None

Refused(format, row) ==
  \/ Unreadable(row)
  \/ format \in {"BLS_SCHEDULE", "BLS_SERIES"} /\ BlsRefuses(format, row)
  \/ format \in {"FED_CALENDAR", "FED_STATEMENTS"} /\ FedRefuses(format, row)
  \/ format = "IR" /\ IrRefuses(row)
  \/ format = "SEC_DOCUMENT" /\ row.published = None

EvidenceOf(format, row) ==
  CASE format = "BLS_SCHEDULE"   -> BlsScheduled(row)
    [] format = "BLS_SERIES"     -> BlsReleased(row)
    [] format = "FED_CALENDAR"   -> FomcMeeting(row)
    [] format = "FED_STATEMENTS" -> FomcStatement(row)
    [] format = "IR"             -> IrItem(row)
    [] format = "SEC_DOCUMENT"   -> Filing(row)
=============================================================================
