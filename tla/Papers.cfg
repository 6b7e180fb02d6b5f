CONSTANTS
    None = None
    i1 = i1  i2 = i2  l1 = l1  l2 = l2  q1 = q1  q2 = q2  q3 = q3
    Llps = {i1, i2}
    Llpins = {l1, l2}
    Returns = {"form8"}
    Payloads = {"p1"}
    Srns = {"s1"}
    Requests = {q1, q2, q3}
SPECIFICATION LlpSpec
INVARIANT OneLlpin
PROPERTY FinalisedStays
SYMMETRY requests
