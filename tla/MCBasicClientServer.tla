------------------------- MODULE MCBasicClientServer -------------------------
(* Two clients and the server: nothing fails, or anything may.              *)
EXTENDS BasicClientServer

MCFaultSets == {{}, AllFaults}
=============================================================================
