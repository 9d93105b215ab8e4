----------------------------- MODULE MCUproxyd ------------------------------
(* Small instances of Uproxyd for TLC. *)
EXTENDS Uproxyd, TLC

CONSTANTS a1, a2, w1

AllConfigured == <<a1, a2>>
=============================================================================
