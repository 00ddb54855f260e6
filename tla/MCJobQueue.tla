----------------------------- MODULE MCJobQueue -----------------------------
(***************************************************************************)
(* Values for the constants of JobQueue in the runs of TLC: the flags that *)
(* the program waits with, and the symmetry of the workers.                *)
(***************************************************************************)
EXTENDS JobQueue

\* WAITFLAG_EXECUTE_SUCCESSORS | WAITFLAG_BLOCK, the default of Jq2Wait.
BlockSucc == {[take |-> "succ", idle |-> "block"]}

\* Jq2ExecuteChildren.
Children == {[take |-> "succ", idle |-> "leave"]}

\* Both, and WAITFLAG_EXECUTE_ANY without blocking.
MixedWaits == BlockSucc \cup Children \cup {[take |-> "any", idle |-> "poll"]}

Symmetry == Permutations(Workers)
=============================================================================
