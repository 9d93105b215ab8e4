---------------------------- MODULE MCAccessCheck ---------------------------
(* A small instance of AccessCheck and the trees it uses for TLC. *)
EXTENDS AccessCheck

\* One name that is a beginning of the other.
MCObject == {[w |-> <<1>>, star |-> FALSE], [w |-> <<1, 2>>, star |-> FALSE]}
=============================================================================
