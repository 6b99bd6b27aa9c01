-------------------------- MODULE MCMockTestAttempt --------------------------
EXTENDS MockTestAttempt, TLC
CONSTANTS w1, w2
MCSlots == {w1, w2}
MCAnswers == {"wrong"}
MCOneTimer == [sessions |-> <<>>, duration |-> 2]
MCSessions == [sessions |-> <<1, 1>>, duration |-> 2]
MCPapers == {MCOneTimer, MCSessions}
\* Past the first overlap of a row only TimeWithinPaper says anything.
MCUpToOverlap == raced = {}
MCSymmetry == Permutations(MCSlots)
=============================================================================
