------------------------------ MODULE FileCopy ------------------------------
(***************************************************************************)
(* What the file transfer promises, without connections, buffers, messages *)
(* or threads: a file appears at the server once, empty, on behalf of one  *)
(* client; it grows by the next chunk of that client's file; and a client  *)
(* is told "done" only when its file is complete.  A copy may stop for     *)
(* good at any point.                                                      *)
(***************************************************************************)
EXTENDS Naturals, Sequences

CONSTANTS Clients, Names, FileName, FileLen, Existing, Absent

VARIABLES
    disk,     \* the server's files
    opened,   \* the clients whose file the server has created
    outcome   \* what each client knows of its copy

vars == <<disk, opened, outcome>>

Content(c) == [k \in 1 .. FileLen[c] |-> <<c, k>>]

Init ==
    /\ disk = [n \in Names |-> IF n \in Existing THEN <<>> ELSE Absent]
    /\ opened = {}
    /\ outcome = [c \in Clients |-> "copying"]

Create(c) ==
    /\ c \notin opened
    /\ disk[FileName[c]] = Absent
    /\ disk' = [disk EXCEPT ![FileName[c]] = <<>>]
    /\ opened' = opened \cup {c}
    /\ UNCHANGED outcome

Grow(c) ==
    LET file == disk[FileName[c]]
    IN  /\ c \in opened
        /\ Len(file) < FileLen[c]
        /\ disk' = [disk EXCEPT ![FileName[c]] = Append(@, <<c, Len(file) + 1>>)]
        /\ UNCHANGED <<opened, outcome>>

Finish(c) ==
    /\ outcome[c] = "copying"
    /\ c \in opened /\ disk[FileName[c]] = Content(c)
    /\ outcome' = [outcome EXCEPT ![c] = "done"]
    /\ UNCHANGED <<disk, opened>>

\* The process ends, after the copy or instead of it.
Leave(c) ==
    /\ outcome[c] # "over"
    /\ outcome' = [outcome EXCEPT ![c] = "over"]
    /\ UNCHANGED <<disk, opened>>

Next == \E c \in Clients : Create(c) \/ Grow(c) \/ Finish(c) \/ Leave(c)

Spec == Init /\ [][Next]_vars
=============================================================================
