--------------------------- MODULE MCDbusRequests ---------------------------
(* A small instance of DbusRequests for TLC. *)
EXTENDS DbusRequests
=============================================================================
