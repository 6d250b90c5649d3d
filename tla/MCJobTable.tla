----------------------------- MODULE MCJobTable -----------------------------
(* Model-checking instances of JobTable: jobs are interchangeable.          *)
EXTENDS JobTable, TLC

JobSymmetry == Permutations(Jobs)
=============================================================================
