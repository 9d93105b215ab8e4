-------------------------- MODULE MCRemoteSession ---------------------------
(* Small instances of RemoteSession. *)
EXTENDS RemoteSession, TLC
CONSTANTS c1, c2, c3, s1, s2
All == Obj
Symmetry == Permutations(Caller)
=============================================================================
