\* As MCGatewayDelivery.cfg: is what the class docstring says so?
SPECIFICATION Spec
CONSTANTS
    outbound = outbound
    inbound = inbound
    e1 = e1
    e2 = e2
    Directions <- BothDirections
    LogEnd <- ThreeAndOne
    Envelopes <- TwoEnvelopes
    Envelope <- SharedEnvelope
    Undecodable <- SecondOutbound
    Refused <- LastOutbound
INVARIANTS
    AcknowledgedAfterDelivery
