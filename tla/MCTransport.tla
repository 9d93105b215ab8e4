----------------------------- MODULE MCTransport ----------------------------
(* A small instance of Transport for TLC. *)
EXTENDS Transport
=============================================================================
