----------------------- MODULE MCSubcontractDelivery -----------------------
(* Model values and logs for model-checking SubcontractDelivery.           *)
EXTENDS SubcontractDelivery, TLC

CONSTANT m1

OneMember == {m1}

OneFresh == {0 :> "fresh"}
SpentThenFresh == {0 :> "spent" @@ 1 :> "fresh"}

\* Sets of offsets or subscriptions.
None == {}
Second == {1}
SubOne == {1}

=============================================================================
