--------------------------- MODULE MCWorkflowView ---------------------------
EXTENDS WorkflowView, TLC

Job(needs, legs) == [needs |-> needs, legs |-> legs]

(* build, and test that needs it.                                           *)
SeedWorkflow == 1 :> Job({}, 1) @@ 2 :> Job({1}, 1)

(* A chain of four, long enough for a failure to be still spreading, with a *)
(* matrix for others to wait on.                                            *)
Chain == 1 :> Job({}, 1) @@ 2 :> Job({1}, 1) @@ 3 :> Job({2}, 2) @@ 4 :> Job({3}, 1)

MCTexts == {Chain, Broken}

(* The paths are interchangeable: nothing compares them.                    *)
MCSymmetry == Permutations(Paths)
=============================================================================
