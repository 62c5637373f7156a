\* Outbound a record, an undecodable and a refused one; inbound the first envelope again.
SPECIFICATION Spec
CONSTANTS
    outbound = outbound
    inbound = inbound
    e1 = e1
    e2 = e2
    Directions <- BothDirections
    LogEnd <- ThreeAndOne
    Envelopes <- TwoEnvelopes
    Envelope <- SharedEnvelope
    Undecodable <- SecondOutbound
    Refused <- LastOutbound
INVARIANTS
    TypeOK
    Acknowledged
    OncePublished
