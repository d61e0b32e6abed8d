--------------------------- MODULE MCReportMonth ---------------------------
(* Two publishers, two report months, one or two requests at once. *)
EXTENDS ReportMonth, TLC

CONSTANTS p1, p2, q1, q2, night

TwoPublishers == {p1, p2}
OneRequest == {q1}
TwoRequests == {q1, q2}
OneReported == {{<<p1, 1>>, <<p1, 2>>}}

\* One request of any kind beside a closing.
AnyBesideClose == [r \in Requests |-> IF r = q1 THEN Kinds ELSE {"close"}]
FilingAndClosing == [r \in Requests |-> {"submit", "close"}]
=============================================================================
