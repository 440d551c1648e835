---------------------------- MODULE MCFeedPoller ----------------------------
(***************************************************************************)
(* Two pollers over one database.  The first polls the BLS schedule and    *)
(* then SEC EDGAR, the second SEC EDGAR and then the schedule: each may    *)
(* hold an artifact the other waits for.  The schedule is malformed before *)
(* it is served with two releases; the submissions list one filing.        *)
(***************************************************************************)
EXTENDS FeedPoller

Row(name, title, when, due) ==
  [name |-> name, title |-> title, published |-> when, scheduled |-> due, readable |-> TRUE,
   consensus |-> FALSE, revised |-> FALSE]

MC_Plan == [p1 |-> << <<"bls">>, <<"sec">> >>, p2 |-> << <<"sec">>, <<"bls">> >>]
MC_Pollers == {"p1", "p2"}
MC_Urls == {"bls", "sec", "filing"}
MC_Format == [bls |-> "BLS_SCHEDULE", sec |-> "SEC_SUBMISSIONS", filing |-> "SEC_DOCUMENT"]
MC_Bytes == {"B1", "B2", "S1", "F1"}
MC_Content == [bls |-> <<"B1", "B2">>, sec |-> <<"S1">>, filing |-> <<"F1">>]
MC_Rows ==
  [B1 |-> <<[Row("CPI", {}, 2, 2) EXCEPT !.readable = FALSE]>>,
   B2 |-> <<Row("CPI", {}, None, 2), Row("PPI", {}, 1, 2)>>,
   S1 |-> << >>, F1 |-> <<Row("8-K", {}, 1, None)>>]
MC_Links == [B1 |-> << >>, B2 |-> << >>, S1 |-> <<"filing">>, F1 |-> << >>]
MC_Times == 1..2
=============================================================================
