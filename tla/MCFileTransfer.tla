--------------------------- MODULE MCFileTransfer ---------------------------
(* Small instances of FileTransfer for TLC. *)
EXTENDS FileTransfer, TLC

CONSTANTS c1, c2, n1, n2

\* Two clients with files of their own.
OwnNames == (c1 :> n1) @@ (c2 :> n2)
\* Two clients that send files of the same base name.
SameName == (c1 :> n1) @@ (c2 :> n1)

\* Nothing fails; clients are killed and the disk fills up; the server is
\* unreachable and freed memory faults.
NoFaults     == {{}}
CrashAndFull == {{}, {"client_crash", "disk_full"}}
Unreachable  == {{"unreachable", "stale_context"}}

Lengths   == (c1 :> 2) @@ (c2 :> 1)
WithEmpty == (c1 :> 2) @@ (c2 :> 0)
=============================================================================
