-------------------------- MODULE MCStudentSessions --------------------------
EXTENDS StudentSessions, TLC
CONSTANTS s1, r1, r2
MCSids == {s1}
MCRequests == {r1, r2}
MCSymmetry == Permutations(MCRequests)
=============================================================================
