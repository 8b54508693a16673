------------------------------ MODULE MCRouter ------------------------------
(***************************************************************************)
(* Instances of Router for TLC.  Program ids are 1, 2, ... and the k-th    *)
(* object of id p is 10 * p + k.                                           *)
(***************************************************************************)
EXTENDS Router, TLC

MCIdOf == [o \in Objects |-> o \div 10]

\* Two freshly estimated programs of 3 tokens fill a backend exactly; any
\* growth overflows it.
MCCapacity == [b \in Backends |-> 8]

\* One such program fits; its growth overflows the backend.
MCTight == [b \in Backends |-> 4]

\* A backend for two programs and one for a single program.
MCUneven == [b \in Backends |-> IF b = DefaultBackend THEN 8 ELSE 4]

\* Requests are interchangeable.
Symmetry == Permutations(Requests)
=============================================================================
