------------------------------ MODULE MCRefunds ------------------------------
EXTENDS Refunds, TLC
CONSTANTS pay, dup, j1, j2
MCJobs == {j1, j2}
MCDuplicates == {dup}
MCSymmetry == Permutations(MCJobs)
=============================================================================
