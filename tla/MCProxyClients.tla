--------------------------- MODULE MCProxyClients ---------------------------
(* Small instances of ProxyClients for TLC. *)
EXTENDS ProxyClients, TLC

CONSTANTS a1, a2, w1, w2, w3

OneConfigured == <<a1>>
=============================================================================
