---------------------------- MODULE MCIndexLifecycle ----------------------------
(* Instances of IndexLifecycle for TLC. *)
EXTENDS IndexLifecycle, TLC

Symmetry == Permutations(Ops) \cup Permutations(Names)

\* A narrower environment: no time passes while an operation runs.
PromptOperations ==
    (\E o \in Ops : pc[o] \in Building \cup Publishing) => \A x \in store : age'[x] <= age[x]
=================================================================================
