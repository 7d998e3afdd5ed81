----------------------------- MODULE MCReadWrite -----------------------------
(* A small instance of ReadWrite for TLC: one client, by WRITE or by READ,  *)
(* and nothing fails or anything may.                                       *)
EXTENDS ReadWrite

CONSTANT c1

MaybeFault == {{}, AllFaults}
=============================================================================
