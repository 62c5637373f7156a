------------------------- MODULE MCGatewayDelivery -------------------------
(* Two directions that share an envelope, for model-checking               *)
(* GatewayDelivery.                                                        *)
EXTENDS GatewayDelivery, TLC

CONSTANTS outbound, inbound, e1, e2

BothDirections == {outbound, inbound}
TwoEnvelopes == {e1, e2}

\* Three records outbound, one inbound with the envelope of the first.
ThreeAndOne == (outbound :> 3) @@ (inbound :> 1)
SharedEnvelope == [r \in Records |-> IF r[2] = 0 THEN e1 ELSE e2]

SecondOutbound == {<<outbound, 1>>}
LastOutbound == {<<outbound, 2>>}

=============================================================================
