--------------------------- MODULE MCRequestQueue ---------------------------
(***************************************************************************)
(* Instances of RequestQueue for TLC.  The requests are interchangeable.   *)
(***************************************************************************)
EXTENDS RequestQueue, TLC

Interchangeable == Permutations(Request)

\* A mishap stays recorded and every property but the types speaks of runs
\* without one: nothing is lost by not continuing past it.
MishapFree == mishap = {}

\* Three requests, or two and an automatic alignment, whichever come first.
Crowd == Cardinality({r \in Request : pc[r] # "ask"}) + aligns <= 3

Bounded == MishapFree /\ Crowd
=============================================================================
