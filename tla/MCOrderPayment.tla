--------------------------- MODULE MCOrderPayment ----------------------------
EXTENDS OrderPayment
CONSTANTS r1, r2, p1, p2
MCSignals == {r1, r2}
MCPids == {p1, p2}
=============================================================================
