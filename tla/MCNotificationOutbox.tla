------------------------ MODULE MCNotificationOutbox ------------------------
(* Model values for model-checking NotificationOutbox.                     *)
EXTENDS NotificationOutbox

CONSTANTS p1, p2

TwoProcessors == {p1, p2}
OneProcessor == {p1}

\* Sets of rows.
None == {}
First == {1}
Second == {2}

=============================================================================
