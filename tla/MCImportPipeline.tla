-------------------------- MODULE MCImportPipeline --------------------------
EXTENDS ImportPipeline, TLC
CONSTANTS r1, r2, q1, q2
MCRequests == {r1, r2}
MCQuestions == {q1, q2}
MCSymmetry == Permutations(MCRequests) \cup Permutations(MCQuestions)
\* One crash or failed call, or none and then questions handed out again, up to an
\* enrichment that is saved over other work.
MCOneFailure ==
  /\ crashes + errors <= (IF repeated THEN 0 ELSE 1)
  /\ ~(repeated /\ overlap)
\* The calls of the worker do not fail: that is for the run on liveness.
MCRequestsFail == errors' # errors => worker' = worker
=============================================================================
