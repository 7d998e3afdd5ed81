---------------------------- MODULE FileTransfer ----------------------------
(***************************************************************************)
(* The RDMA file transfer of 03_file-transfer/rdma-file-transfer: several  *)
(* client processes copy one file each to one server process.              *)
(*                                                                         *)
(* Every process has two threads: the connection-manager event loop        *)
(* (event_loop in common.c) and the completion-queue poller (poll_cq).     *)
(* The client RDMA-writes the file name, then one chunk after the other,   *)
(* then zero bytes, each write with immediate data; the server answers     *)
(* each of them with a SEND (MSG_MR, MSG_READY, MSG_DONE).  Flow control   *)
(* is that answer and nothing else.                                        *)
(*                                                                         *)
(* The reliable connection (the NIC) is external: it delivers a work       *)
(* request when the peer has a receive posted, reads the sender's buffer   *)
(* at that moment, and acknowledges it at some later moment; a receive     *)
(* that is not posted yet only delays it, because build_params asks for    *)
(* unbounded RNR retries.  Completions of different queue pairs are not    *)
(* ordered by anything, so the one completion queue of a process is kept   *)
(* as one FIFO queue per connection.                                       *)
(***************************************************************************)
EXTENDS Naturals, Sequences

CONSTANTS
    Clients,      \* the client processes, each with its own connection
    Names,        \* file names, as the server opens them
    FileName,     \* [Clients -> Names]: what basename(argv[2]) yields
    FileLen,      \* [Clients -> Nat]: chunks of BUFFER_SIZE bytes in the file
    Existing,     \* names that exist at the server before it starts
    Fds,          \* descriptors the server process can still open
    GarbageFds,   \* what malloc may leave in conn_context.fd
    AcksInOrder,  \* an ack never arrives after a later message of that peer
    FaultSets,    \* the sets of faults to consider
    Absent        \* the content of a file that does not exist

AllFaults == {"client_crash", "unreachable", "disk_full", "stale_context"}

ASSUME ConstantsAssumption ==
    /\ FileName \in [Clients -> Names]
    /\ FileLen \in [Clients -> Nat]
    /\ Existing \subseteq Names
    /\ Fds \subseteq Nat
    /\ GarbageFds \subseteq Nat
    /\ GarbageFds # {}
    /\ AcksInOrder \in BOOLEAN
    /\ FaultSets \subseteq SUBSET AllFaults

\* A buffer holds nothing yet, a file name, or the k-th chunk of a client's
\* file; a file is a sequence of chunks.
Chunk   == Clients \X (Nat \ {0})
NoData  == <<>>
Buffer  == Chunk \cup Names \cup {NoData}
Content(c) == [k \in 1 .. FileLen[c] |-> <<c, k>>]

ASSUME DataAssumption ==
    /\ Absent \notin Seq(Buffer) \cup Names
    /\ Names \cap (Chunk \cup {NoData}) = {}

VARIABLES
    \* client processes
    client,    \* progress of the event loop, and how the process ended
    cRecv,     \* receives posted and not consumed
    cMsg,      \* id in the message buffer (client_context.msg)
    cBuf,      \* content of client_context.buffer
    cPos,      \* chunks read from client_context.fd
    cCq,       \* completion queue
    cHand,     \* the poller: the completion in its hand, or where it is
    \* reliable connections
    cSq,       \* client's RDMA writes, posted and not delivered: imm_data
    cUnacked,  \* client's RDMA writes, delivered and not acknowledged
    sSq,       \* server's SENDs, posted and not delivered
    sUnacked,  \* server's SENDs, delivered and not acknowledged
    \* server process
    server,    \* "up" or "dead"
    conn,      \* state of the connection's rdma_cm_id
    sRecv,     \* receives posted and not consumed
    sMsg,      \* id in the message buffer (conn_context.msg)
    sBuf,      \* content of conn_context.buffer
    hasName,   \* conn_context.file_name[0] is set
    fd,        \* conn_context.fd
    sCq,       \* completion queue, per connection
    sHand,     \* the poller: the connection's completion in its hand
    fdTab,     \* the server's descriptor table: an open file or Absent
    disk,      \* the server's files
    faults     \* what the environment may do in this behaviour

clientVars == <<client, cRecv, cMsg, cBuf, cPos, cCq, cHand>>
wireVars   == <<cSq, cUnacked, sSq, sUnacked>>
ctxVars    == <<sRecv, sMsg, sBuf, hasName, fd>>
fileVars   == <<fdTab, disk>>
serverVars == <<server, conn, ctxVars, sCq, sHand, fileVars>>
runVars == <<clientVars, wireVars, serverVars>>
vars == <<runVars, faults>>

Connecting == {"resolving", "routing", "connecting"}
Ended      == {"exited", "failed", "crashed"}
MsgIds     == {"INVALID", "MR", "READY", "DONE"}
ClientWc   == {"send", "recv", "error"}
Imm        == {"data", "eof"}            \* imm_data: a size > 0, or 0
ServerWc   == {"send", "error"} \cup Imm

TypeOK ==
    /\ client \in [Clients -> Connecting \cup {"up", "closing"} \cup Ended]
    /\ cRecv \in [Clients -> Nat]
    /\ cMsg \in [Clients -> MsgIds]
    /\ cBuf \in [Clients -> Buffer]
    /\ cPos \in [Clients -> Nat]
    /\ cCq \in [Clients -> Seq(ClientWc)]
    /\ cHand \in [Clients -> {"none", "send", "recv", "rearm"}]
    /\ cSq \in [Clients -> Seq(Imm)]
    /\ cUnacked \in [Clients -> Nat]
    /\ sSq \in [Clients -> Nat]
    /\ sUnacked \in [Clients -> Nat]
    /\ server \in {"up", "dead"}
    /\ conn \in [Clients -> {"none", "requested", "accepted", "confirmed",
                             "up", "freed"}]
    /\ sRecv \in [Clients -> Nat]
    /\ sMsg \in [Clients -> MsgIds]
    /\ sBuf \in [Clients -> Buffer]
    /\ hasName \in [Clients -> BOOLEAN]
    /\ fd \in [Clients -> Nat]
    /\ sCq \in [Clients -> Seq(ServerWc)]
    /\ sHand \in [Clients -> {"none", "send", "data", "eof", "reply"}]
    /\ fdTab \in [Fds -> Names \cup {Absent}]
    /\ disk \in [Names -> Seq(Buffer) \cup {Absent}]

Init ==
    /\ client = [c \in Clients |-> "resolving"]
    /\ cRecv = [c \in Clients |-> 0]
    /\ cMsg = [c \in Clients |-> "INVALID"]
    /\ cBuf = [c \in Clients |-> NoData]
    /\ cPos = [c \in Clients |-> 0]
    /\ cCq = [c \in Clients |-> <<>>]
    /\ cHand = [c \in Clients |-> "none"]
    /\ cSq = [c \in Clients |-> <<>>]
    /\ cUnacked = [c \in Clients |-> 0]
    /\ sSq = [c \in Clients |-> 0]
    /\ sUnacked = [c \in Clients |-> 0]
    /\ server = "up"
    /\ conn = [c \in Clients |-> "none"]
    /\ sRecv = [c \in Clients |-> 0]
    /\ sMsg = [c \in Clients |-> "INVALID"]
    /\ sBuf = [c \in Clients |-> NoData]
    /\ hasName = [c \in Clients |-> FALSE]
    /\ fd = [c \in Clients |-> 0]
    /\ sCq = [c \in Clients |-> <<>>]
    /\ sHand = [c \in Clients |-> "none"]
    /\ fdTab = [f \in Fds |-> Absent]
    /\ disk = [n \in Names |-> IF n \in Existing THEN <<>> ELSE Absent]
    /\ faults \in FaultSets

-----------------------------------------------------------------------------
(***************************************************************************)
(* Who is there.  A process that ended has no queue pairs; the kernel      *)
(* tells the other side, which sees RDMA_CM_EVENT_DISCONNECTED.            *)
(***************************************************************************)
Alive(c)      == client[c] \in {"up", "closing"}
ClientGone(c) == client[c] \in Ended \cup {"closing"}
ServerQp(c)   == server = "up" /\ conn[c] \in {"accepted", "confirmed", "up"}
ServerGone(c) == server = "dead" \/ conn[c] = "freed"

PollerIdle == \A c \in Clients : sHand[c] = "none"

-----------------------------------------------------------------------------
(***************************************************************************)
(* The client's event loop (event_loop with exit_on_disconnect = 1).       *)
(***************************************************************************)

\* RDMA_CM_EVENT_ADDR_RESOLVED: build_connection, then on_pre_conn, which
\* registers the buffers and posts the first receive.
ClientAddrResolved(c) ==
    /\ client[c] = "resolving"
    /\ client' = [client EXCEPT ![c] = "routing"]
    /\ cRecv' = [cRecv EXCEPT ![c] = @ + 1]
    /\ UNCHANGED <<cMsg, cBuf, cPos, cCq, cHand, wireVars, serverVars>>

\* RDMA_CM_EVENT_ROUTE_RESOLVED: rdma_connect.
ClientRouteResolved(c) ==
    /\ client[c] = "routing"
    /\ server = "up"
    /\ client' = [client EXCEPT ![c] = "connecting"]
    /\ conn' = [conn EXCEPT ![c] = "requested"]
    /\ UNCHANGED <<cRecv, cMsg, cBuf, cPos, cCq, cHand, wireVars,
                   server, ctxVars, sCq, sHand, fileVars>>

\* RDMA_CM_EVENT_ESTABLISHED: the client has no connect callback; retrieving
\* the event made its queue pair ready and confirmed the connection.
ClientEstablished(c) ==
    /\ client[c] = "connecting"
    /\ server = "up" /\ conn[c] = "accepted"
    /\ client' = [client EXCEPT ![c] = "up"]
    /\ conn' = [conn EXCEPT ![c] = "confirmed"]
    /\ UNCHANGED <<cRecv, cMsg, cBuf, cPos, cCq, cHand, wireVars,
                   server, ctxVars, sCq, sHand, fileVars>>

\* RDMA_CM_EVENT_ADDR_ERROR, _ROUTE_ERROR, _UNREACHABLE, _REJECTED: all of
\* them are the "unknown event" that ends the process.
ClientUnknownEvent(c) ==
    /\ client[c] \in Connecting
    /\ "unreachable" \in faults \/ server = "dead"
    /\ client' = [client EXCEPT ![c] = "failed"]
    /\ UNCHANGED <<cRecv, cMsg, cBuf, cPos, cCq, cHand, wireVars, serverVars>>

\* RDMA_CM_EVENT_DISCONNECTED, after the client's own rdma_disconnect or
\* because the server's side is gone: the loop ends and main returns 0.
ClientDisconnected(c) ==
    /\ client[c] = "closing" \/ (client[c] = "up" /\ ServerGone(c))
    /\ client' = [client EXCEPT ![c] = "exited"]
    /\ UNCHANGED <<cRecv, cMsg, cBuf, cPos, cCq, cHand, wireVars, serverVars>>

\* The client process is killed.
ClientCrash(c) ==
    /\ "client_crash" \in faults
    /\ client[c] \notin Ended
    /\ client' = [client EXCEPT ![c] = "crashed"]
    /\ UNCHANGED <<cRecv, cMsg, cBuf, cPos, cCq, cHand, wireVars, serverVars>>

ClientEventLoop(c) ==
    \/ ClientAddrResolved(c) \/ ClientRouteResolved(c) \/ ClientEstablished(c)
    \/ ClientUnknownEvent(c) \/ ClientDisconnected(c)

-----------------------------------------------------------------------------
(***************************************************************************)
(* The client's completion poller (poll_cq and client.c on_completion).    *)
(***************************************************************************)

\* ibv_poll_cq returns a completion; anything but success is rc_die.
ClientPoll(c) ==
    /\ Alive(c)
    /\ cHand[c] = "none" /\ cCq[c] # <<>>
    /\ cCq' = [cCq EXCEPT ![c] = Tail(@)]
    /\ IF Head(cCq[c]) = "error"
       THEN /\ client' = [client EXCEPT ![c] = "failed"]
            /\ UNCHANGED cHand
       ELSE /\ cHand' = [cHand EXCEPT ![c] = Head(cCq[c])]
            /\ UNCHANGED client
    /\ UNCHANGED <<cRecv, cMsg, cBuf, cPos, wireVars, serverVars>>

\* MSG_MR: send_file_name, which copies the name into the buffer and writes it.
SendFileName(c) ==
    /\ cBuf' = [cBuf EXCEPT ![c] = FileName[c]]
    /\ cSq' = [cSq EXCEPT ![c] = Append(@, "data")]
    /\ UNCHANGED cPos

\* MUTANT: the last, short read is taken for the end of the file.
SendNextChunkShortRead(c) ==
    IF cPos[c] + 1 < FileLen[c]
    THEN /\ cPos' = [cPos EXCEPT ![c] = @ + 1]
         /\ cBuf' = [cBuf EXCEPT ![c] = <<c, cPos[c] + 1>>]
         /\ cSq' = [cSq EXCEPT ![c] = Append(@, "data")]
    ELSE /\ cSq' = [cSq EXCEPT ![c] = Append(@, "eof")]
         /\ UNCHANGED <<cPos, cBuf>>

\* MSG_READY: send_next_chunk, which reads a chunk into the buffer and writes
\* it; at end of file read returns 0 and the write carries no data.
SendNextChunk(c) ==
    IF cPos[c] < FileLen[c]
    THEN /\ cPos' = [cPos EXCEPT ![c] = @ + 1]
         /\ cBuf' = [cBuf EXCEPT ![c] = <<c, cPos[c] + 1>>]
         /\ cSq' = [cSq EXCEPT ![c] = Append(@, "data")]
    ELSE /\ cSq' = [cSq EXCEPT ![c] = Append(@, "eof")]
         /\ UNCHANGED <<cPos, cBuf>>

\* MUTANT: a completed write is what lets the client send the next chunk.
ClientSendDonePaces(c) ==
    /\ Alive(c)
    /\ cHand[c] = "send"
    /\ cHand' = [cHand EXCEPT ![c] = "none"]
    /\ SendNextChunk(c)
    /\ UNCHANGED <<client, cRecv, cMsg, cCq, cUnacked, sSq, sUnacked, serverVars>>

\* A send completion is ignored.
ClientSendDone(c) ==
    /\ Alive(c)
    /\ cHand[c] = "send"
    /\ cHand' = [cHand EXCEPT ![c] = "none"]
    /\ UNCHANGED <<client, cRecv, cMsg, cBuf, cPos, cCq, wireVars, serverVars>>

ClientHandleMessage(c) ==
    /\ Alive(c)
    /\ cHand[c] = "recv"
    /\ \/ cMsg[c] = "MR" /\ SendFileName(c)
       \/ cMsg[c] = "READY" /\ SendNextChunk(c)
    /\ cHand' = [cHand EXCEPT ![c] = "rearm"]
    /\ UNCHANGED <<client, cRecv, cMsg, cCq, cUnacked, sSq, sUnacked,
                   serverVars>>

\* MUTANT: the receive is not posted again.
ClientRearmForgotten(c) ==
    /\ Alive(c)
    /\ cHand[c] = "rearm"
    /\ cHand' = [cHand EXCEPT ![c] = "none"]
    /\ UNCHANGED <<client, cRecv, cMsg, cBuf, cPos, cCq, wireVars, serverVars>>

\* The last statement of on_completion: post_receive, after the write.
ClientRearm(c) ==
    /\ Alive(c)
    /\ cHand[c] = "rearm"
    /\ cRecv' = [cRecv EXCEPT ![c] = @ + 1]
    /\ cHand' = [cHand EXCEPT ![c] = "none"]
    /\ UNCHANGED <<client, cMsg, cBuf, cPos, cCq, wireVars, serverVars>>

\* MUTANT: no return after rc_disconnect, so a receive is posted and flushed.
ClientDoneRearms(c) ==
    /\ Alive(c)
    /\ cHand[c] = "recv" /\ cMsg[c] = "DONE"
    /\ client' = [client EXCEPT ![c] = "closing"]
    /\ cHand' = [cHand EXCEPT ![c] = "none"]
    /\ cCq' = [cCq EXCEPT ![c] = Append(@, "error")]
    /\ cSq' = [cSq EXCEPT ![c] = <<>>]
    /\ cUnacked' = [cUnacked EXCEPT ![c] = 0]
    /\ cRecv' = [cRecv EXCEPT ![c] = 0]
    /\ UNCHANGED <<cMsg, cBuf, cPos, sSq, sUnacked, serverVars>>

\* MSG_DONE: rdma_disconnect moves the queue pair to the error state, which
\* flushes whatever is still posted with an error; no receive is posted.
ClientDone(c) ==
    LET flushed == cSq[c] # <<>> \/ cUnacked[c] > 0 \/ cRecv[c] > 0
    IN  /\ Alive(c)
        /\ cHand[c] = "recv" /\ cMsg[c] = "DONE"
        /\ client' = [client EXCEPT ![c] = "closing"]
        /\ cHand' = [cHand EXCEPT ![c] = "none"]
        /\ cCq' = [cCq EXCEPT ![c] = IF flushed THEN Append(@, "error") ELSE @]
        /\ cSq' = [cSq EXCEPT ![c] = <<>>]
        /\ cUnacked' = [cUnacked EXCEPT ![c] = 0]
        /\ cRecv' = [cRecv EXCEPT ![c] = 0]
        /\ UNCHANGED <<cMsg, cBuf, cPos, sSq, sUnacked, serverVars>>

ClientPoller(c) ==
    \/ ClientPoll(c) \/ ClientSendDone(c) \/ ClientHandleMessage(c)
    \/ ClientRearm(c) \/ ClientDone(c)

-----------------------------------------------------------------------------
(***************************************************************************)
(* The reliable connection.                                                *)
(***************************************************************************)

\* An RDMA write with immediate data consumes a receive of the server; its
\* payload is whatever the client's buffer holds when the NIC reads it.
DeliverWrite(c) ==
    /\ client[c] = "up" /\ cSq[c] # <<>>
    /\ ServerQp(c) /\ sRecv[c] > 0
    /\ AcksInOrder => sUnacked[c] = 0
    /\ cSq' = [cSq EXCEPT ![c] = Tail(@)]
    /\ cUnacked' = [cUnacked EXCEPT ![c] = @ + 1]
    /\ sRecv' = [sRecv EXCEPT ![c] = @ - 1]
    /\ sBuf' = [sBuf EXCEPT ![c] = IF Head(cSq[c]) = "data" THEN cBuf[c] ELSE @]
    /\ sCq' = [sCq EXCEPT ![c] = Append(@, Head(cSq[c]))]
    /\ UNCHANGED <<clientVars, sSq, sUnacked,
                   server, conn, sMsg, hasName, fd, sHand, fileVars>>

\* The acknowledgement reaches the client: the write completes.
AckWrite(c) ==
    /\ client[c] = "up" /\ cUnacked[c] > 0
    /\ cUnacked' = [cUnacked EXCEPT ![c] = @ - 1]
    /\ cCq' = [cCq EXCEPT ![c] = Append(@, "send")]
    /\ UNCHANGED <<client, cRecv, cMsg, cBuf, cPos, cHand, cSq, sSq, sUnacked,
                   serverVars>>

\* The server's side is gone: a write that was not delivered ends in an error.
WriteFails(c) ==
    /\ client[c] = "up" /\ cSq[c] # <<>>
    /\ ServerGone(c)
    /\ cSq' = [cSq EXCEPT ![c] = <<>>]
    /\ cCq' = [cCq EXCEPT ![c] = Append(@, "error")]
    /\ UNCHANGED <<client, cRecv, cMsg, cBuf, cPos, cHand,
                   cUnacked, sSq, sUnacked, serverVars>>

\* A SEND waits until the client has a receive posted (rnr_retry_count = 7);
\* its payload is what the server's message buffer holds at that moment.
DeliverSend(c) ==
    /\ ServerQp(c) /\ sSq[c] > 0
    /\ client[c] = "up" /\ cRecv[c] > 0
    /\ AcksInOrder => cUnacked[c] = 0
    /\ sSq' = [sSq EXCEPT ![c] = @ - 1]
    /\ sUnacked' = [sUnacked EXCEPT ![c] = @ + 1]
    /\ cRecv' = [cRecv EXCEPT ![c] = @ - 1]
    /\ cMsg' = [cMsg EXCEPT ![c] = sMsg[c]]
    /\ cCq' = [cCq EXCEPT ![c] = Append(@, "recv")]
    /\ UNCHANGED <<client, cBuf, cPos, cHand, cSq, cUnacked, serverVars>>

AckSend(c) ==
    /\ ServerQp(c) /\ sUnacked[c] > 0
    /\ sUnacked' = [sUnacked EXCEPT ![c] = @ - 1]
    /\ sCq' = [sCq EXCEPT ![c] = Append(@, "send")]
    /\ UNCHANGED <<clientVars, cSq, cUnacked, sSq,
                   server, conn, ctxVars, sHand, fileVars>>

\* The client is gone: a SEND that was not delivered ends in an error.
SendFails(c) ==
    /\ ServerQp(c) /\ sSq[c] > 0
    /\ ClientGone(c)
    /\ sSq' = [sSq EXCEPT ![c] = 0]
    /\ sCq' = [sCq EXCEPT ![c] = Append(@, "error")]
    /\ UNCHANGED <<clientVars, cSq, cUnacked, sUnacked,
                   server, conn, ctxVars, sHand, fileVars>>

Nic(c) ==
    \/ DeliverWrite(c) \/ AckWrite(c) \/ WriteFails(c)
    \/ DeliverSend(c) \/ AckSend(c) \/ SendFails(c)

-----------------------------------------------------------------------------
(***************************************************************************)
(* The server's event loop (event_loop with exit_on_disconnect = 0).       *)
(***************************************************************************)

\* RDMA_CM_EVENT_CONNECT_REQUEST: build_connection, on_pre_conn (which leaves
\* fd as malloc returned it), rdma_accept.
ConnectRequest(c) ==
    /\ server = "up"
    /\ conn[c] = "requested"
    /\ conn' = [conn EXCEPT ![c] = "accepted"]
    /\ hasName' = [hasName EXCEPT ![c] = FALSE]
    /\ \E g \in GarbageFds : fd' = [fd EXCEPT ![c] = g]
    /\ sRecv' = [sRecv EXCEPT ![c] = @ + 1]
    /\ UNCHANGED <<clientVars, wireVars, server, sMsg, sBuf, sCq, sHand,
                   fileVars>>

\* RDMA_CM_EVENT_ESTABLISHED: on_connection sends the memory region.
Established(c) ==
    /\ server = "up"
    /\ conn[c] = "confirmed"
    /\ conn' = [conn EXCEPT ![c] = "up"]
    /\ sMsg' = [sMsg EXCEPT ![c] = "MR"]
    /\ sSq' = [sSq EXCEPT ![c] = @ + 1]
    /\ UNCHANGED <<clientVars, cSq, cUnacked, sUnacked, server,
                   sRecv, sBuf, hasName, fd, sCq, sHand, fileVars>>

\* The client vanished before it confirmed the connection: an event the loop
\* does not know, and rc_die ends the process.
UnknownEvent(c) ==
    /\ server = "up"
    /\ conn[c] = "accepted" /\ ClientGone(c)
    /\ server' = "dead"
    /\ UNCHANGED <<clientVars, wireVars, conn, ctxVars, sCq, sHand, fileVars>>

\* close(): a number that is no open descriptor is an error nobody looks at.
Close(f) == fdTab' = [g \in Fds |-> IF g = f THEN Absent ELSE fdTab[g]]

\* RDMA_CM_EVENT_DISCONNECTED: rdma_destroy_qp drops the queue pair and its
\* completions, on_disconnect closes the descriptor and frees the context,
\* rdma_destroy_id frees the identifier.
Disconnected(c) ==
    /\ server = "up"
    /\ conn[c] = "up" /\ ClientGone(c)
    /\ conn' = [conn EXCEPT ![c] = "freed"]
    /\ sCq' = [sCq EXCEPT ![c] = <<>>]
    /\ sRecv' = [sRecv EXCEPT ![c] = 0]
    /\ sSq' = [sSq EXCEPT ![c] = 0]
    /\ sUnacked' = [sUnacked EXCEPT ![c] = 0]
    /\ Close(fd[c])
    /\ UNCHANGED <<clientVars, cSq, cUnacked, server,
                   sMsg, sBuf, hasName, fd, sHand, disk>>

ServerEventLoop ==
    \E c \in Clients :
        \/ ConnectRequest(c) \/ Established(c)
        \/ UnknownEvent(c) \/ Disconnected(c)

-----------------------------------------------------------------------------
(***************************************************************************)
(* The server's completion poller (poll_cq and server.c on_completion).    *)
(***************************************************************************)

Die == /\ server' = "dead"
       /\ UNCHANGED <<clientVars, wireVars, conn, ctxVars, sCq, sHand, fileVars>>

\* ibv_poll_cq returns a completion; anything but success is rc_die.
ServerPoll(c) ==
    /\ server = "up"
    /\ PollerIdle /\ sCq[c] # <<>>
    /\ \/ Head(sCq[c]) = "error" /\ Die
       \/ /\ Head(sCq[c]) # "error"
          /\ sHand' = [sHand EXCEPT ![c] = Head(sCq[c])]
          /\ sCq' = [sCq EXCEPT ![c] = Tail(@)]
          /\ UNCHANGED <<clientVars, wireVars, server, conn, ctxVars, fileVars>>

\* A send completion is ignored, but the context is read before the opcode
\* is looked at.
ServerSendDone(c) ==
    /\ server = "up"
    /\ sHand[c] = "send"
    /\ sHand' = [sHand EXCEPT ![c] = "none"]
    /\ UNCHANGED <<clientVars, wireVars, server, conn, ctxVars, sCq, fileVars>>

\* MUTANT: the file is opened without O_EXCL, and truncated.
OpenFileTruncates(c) ==
    /\ hasName' = [hasName EXCEPT ![c] = TRUE]
    /\ \E f \in Fds :
          /\ fdTab[f] = Absent /\ \A g \in Fds : fdTab[g] = Absent => f <= g
          /\ fd' = [fd EXCEPT ![c] = f]
          /\ fdTab' = [fdTab EXCEPT ![f] = sBuf[c]]
    /\ disk' = [disk EXCEPT ![sBuf[c]] = <<>>]

\* MUTANT: the descriptor is not stored in the context.
OpenFileForgetsFd(c) ==
    /\ hasName' = [hasName EXCEPT ![c] = TRUE]
    /\ disk[sBuf[c]] = Absent
    /\ \E f \in Fds :
          /\ fdTab[f] = Absent /\ \A g \in Fds : fdTab[g] = Absent => f <= g
          /\ fdTab' = [fdTab EXCEPT ![f] = sBuf[c]]
    /\ disk' = [disk EXCEPT ![sBuf[c]] = <<>>]
    /\ UNCHANGED fd

\* The first size that is not zero is a file name: open it, exclusively.
OpenFile(c) ==
    /\ hasName' = [hasName EXCEPT ![c] = TRUE]
    /\ disk[sBuf[c]] = Absent
    /\ \E f \in Fds :
          /\ fdTab[f] = Absent /\ \A g \in Fds : fdTab[g] = Absent => f <= g
          /\ fd' = [fd EXCEPT ![c] = f]
          /\ fdTab' = [fdTab EXCEPT ![f] = sBuf[c]]
    /\ disk' = [disk EXCEPT ![sBuf[c]] = <<>>]

OpenFails(c) ==
    \/ disk[sBuf[c]] # Absent
    \/ \A f \in Fds : fdTab[f] # Absent

\* Later ones are chunks: write them to whatever the descriptor stands for.
IsOpen(f) == f \in Fds /\ fdTab[f] # Absent

\* MUTANT: what write returns is ignored.
WriteFileUnchecked(c) ==
    /\ IsOpen(fd[c])
    /\ \/ disk' = [disk EXCEPT ![fdTab[fd[c]]] = Append(@, sBuf[c])]
       \/ "disk_full" \in faults /\ UNCHANGED disk
    /\ UNCHANGED <<hasName, fd, fdTab>>

WriteFile(c) ==
    /\ IsOpen(fd[c])
    /\ disk' = [disk EXCEPT ![fdTab[fd[c]]] = Append(@, sBuf[c])]
    /\ UNCHANGED <<hasName, fd, fdTab>>

WriteFileFails(c) == ~IsOpen(fd[c]) \/ "disk_full" \in faults

ServerSave(c) ==
    /\ server = "up"
    /\ sHand[c] = "data" /\ conn[c] # "freed"
    /\ IF hasName[c] THEN WriteFile(c) ELSE OpenFile(c)
    /\ sHand' = [sHand EXCEPT ![c] = "reply"]
    /\ UNCHANGED <<clientVars, wireVars, server, conn, sRecv, sMsg, sBuf, sCq>>

ServerSaveFails(c) ==
    /\ server = "up"
    /\ sHand[c] = "data" /\ conn[c] # "freed"
    /\ IF hasName[c] THEN WriteFileFails(c) ELSE OpenFails(c)
    /\ Die

\* MUTANT: READY is sent before the data is saved, and after it.
ServerReadyTwice(c) ==
    /\ server = "up"
    /\ sHand[c] = "reply" /\ conn[c] # "freed"
    /\ sRecv' = [sRecv EXCEPT ![c] = @ + 1]
    /\ sMsg' = [sMsg EXCEPT ![c] = "READY"]
    /\ sSq' = [sSq EXCEPT ![c] = @ + 2]
    /\ sHand' = [sHand EXCEPT ![c] = "none"]
    /\ UNCHANGED <<clientVars, cSq, cUnacked, sUnacked, server, conn,
                   sBuf, hasName, fd, sCq, fileVars>>

\* The end of both branches: post_receive, then MSG_READY.
ServerReady(c) ==
    /\ server = "up"
    /\ sHand[c] = "reply" /\ conn[c] # "freed"
    /\ sRecv' = [sRecv EXCEPT ![c] = @ + 1]
    /\ sMsg' = [sMsg EXCEPT ![c] = "READY"]
    /\ sSq' = [sSq EXCEPT ![c] = @ + 1]
    /\ sHand' = [sHand EXCEPT ![c] = "none"]
    /\ UNCHANGED <<clientVars, cSq, cUnacked, sUnacked, server, conn,
                   sBuf, hasName, fd, sCq, fileVars>>

\* Size zero: MSG_DONE, and no receive, "since we're done with this connection".
ServerDone(c) ==
    /\ server = "up"
    /\ sHand[c] = "eof" /\ conn[c] # "freed"
    /\ sMsg' = [sMsg EXCEPT ![c] = "DONE"]
    /\ sSq' = [sSq EXCEPT ![c] = @ + 1]
    /\ sHand' = [sHand EXCEPT ![c] = "none"]
    /\ UNCHANGED <<clientVars, cSq, cUnacked, sUnacked, server, conn,
                   sRecv, sBuf, hasName, fd, sCq, fileVars>>

\* The event loop freed the context while the poller was holding one of its
\* completions.  A received one uses the freed buffer, descriptor or queue
\* pair, and the process does not survive it; a send completion only reads
\* the freed context, which faults if its memory was given back.
ServerStaleContext(c) ==
    /\ server = "up"
    /\ conn[c] = "freed"
    /\ \/ sHand[c] \in {"data", "eof", "reply"}
       \/ sHand[c] = "send" /\ "stale_context" \in faults
    /\ Die

ServerPoller ==
    \E c \in Clients :
        \/ ServerPoll(c) \/ ServerSendDone(c) \/ ServerSave(c)
        \/ ServerSaveFails(c) \/ ServerReady(c) \/ ServerDone(c)
        \/ ServerStaleContext(c)

-----------------------------------------------------------------------------
\* Every client has ended and the server waits for the next one.
Rest ==
    /\ \A c \in Clients : client[c] \in Ended
    /\ \/ server = "dead"
       \/ /\ PollerIdle
          /\ \A c \in Clients : conn[c] \in {"none", "freed"}
    /\ UNCHANGED runVars

Next ==
    /\ \/ \E c \in Clients :
             ClientEventLoop(c) \/ ClientPoller(c) \/ ClientCrash(c) \/ Nic(c)
       \/ ServerEventLoop
       \/ ServerPoller
       \/ Rest
    /\ UNCHANGED faults

Spec == Init /\ [][Next]_vars

(***************************************************************************)
(* Fairness: every thread is an infinite loop the scheduler runs, the NIC  *)
(* keeps retrying, and each completion queue is read in order, so that no  *)
(* connection waits for ever behind another one.                           *)
(***************************************************************************)
Fairness ==
    /\ \A c \in Clients :
          /\ WF_runVars(ClientEventLoop(c))
          /\ WF_runVars(ClientPoller(c))
          /\ WF_runVars(DeliverWrite(c)) /\ WF_runVars(AckWrite(c))
          /\ WF_runVars(WriteFails(c))
          /\ WF_runVars(DeliverSend(c)) /\ WF_runVars(AckSend(c))
          /\ WF_runVars(SendFails(c))
          /\ SF_runVars(ServerPoll(c))
    /\ WF_runVars(ServerEventLoop)
    /\ WF_runVars(ServerPoller)

FairSpec == Spec /\ Fairness
-----------------------------------------------------------------------------
(***************************************************************************)
(* Properties.                                                             *)
(***************************************************************************)
IsPrefixOf(s, t) == Len(s) <= Len(t) /\ \A i \in 1 .. Len(s) : s[i] = t[i]

\* A file the server created never holds anything but the first chunks, in
\* order, of the file of one client of that name: the chunk in the server's
\* buffer is saved before READY lets the client overwrite it.
FilesArePrefixes ==
    \A n \in Names \ Existing :
        disk[n] # Absent =>
            \E c \in Clients : FileName[c] = n /\ IsPrefixOf(disk[n], Content(c))

\* A file at the server only grows: no transfer truncates or replaces one
\* that exists (O_EXCL), not even one that an earlier client left behind.
FilesOnlyGrow ==
    [][\A n \in Names :
          disk[n] # Absent => disk'[n] # Absent /\ IsPrefixOf(disk[n], disk'[n])
      ]_disk

\* A client that disconnects on its own has had its whole file stored.
DoneMeansStored ==
    \A c \in Clients :
        client[c] = "closing" => disk[FileName[c]] = Content(c)

\* Without faults no completion ever carries an error and no open or write
\* fails, so neither process ends in rc_die: in particular the orderly
\* disconnect finds no receive, write or SEND outstanding that it would flush.
NobodyDies ==
    faults = {} =>
    /\ server = "up"
    /\ \A c \in Clients :
          /\ client[c] # "failed"
          /\ \A i \in 1 .. Len(cCq[c]) : cCq[c][i] # "error"
          /\ \A i \in 1 .. Len(sCq[c]) : sCq[c][i] # "error"

\* One buffer serves a connection in each direction, with nothing but the
\* order of the messages to guard it.  The NIC may read a send buffer until
\* the request is acknowledged: the handlers do not touch
\* client_context.buffer and conn_context.msg in that time.  While a handler
\* reads what a receive brought, no receive is posted that could bring
\* something else into the same buffer.  And no more than two completions of a
\* connection wait in a process's queue, whose 10 entries all share.
BuffersLeftAlone ==
    /\ [][\A c \in Clients :
             /\ (cSq[c] # <<>> \/ cUnacked[c] > 0) => cBuf'[c] = cBuf[c]
             /\ (sSq[c] > 0 \/ sUnacked[c] > 0) => sMsg'[c] = sMsg[c]
         ]_<<cBuf, sMsg>>
    /\ [](\A c \in Clients :
             /\ cHand[c] = "recv" => cRecv[c] = 0
             /\ sHand[c] = "data" /\ conn[c] # "freed" => sRecv[c] = 0
             /\ Len(cCq[c]) <= 2 /\ Len(sCq[c]) <= 2)

\* The server's descriptors stay with the connection that opened them: the
\* uninitialised fd that on_disconnect closes for a connection without a file
\* name is never the descriptor of another transfer.  This is so only while
\* what malloc left there is no open descriptor (GarbageFds).
DescriptorsKept ==
    \A c \in Clients :
        server = "up" /\ conn[c] = "up" /\ hasName[c]
            => fd[c] \in Fds /\ fdTab[fd[c]] = FileName[c]

\* The poller never holds a completion of a connection the event loop freed.
HandlerHasContext ==
    \A c \in Clients : conn[c] = "freed" => sHand[c] = "none"

\* Every client ends, whatever happens to the server and to the others.
\* Without faults every transfer is completed, and the server is rid of every
\* connection.
EveryTransferEnds ==
    \A c \in Clients :
        /\ <>(client[c] \in Ended)
        /\ faults = {} =>
              <>[](/\ client[c] = "exited" /\ conn[c] = "freed"
                   /\ disk[FileName[c]] = Content(c))

\* The transfer implements FileCopy: a file is created on behalf of the
\* client whose context has the name, and DONE is what tells a client that
\* its copy is complete.
Copy == INSTANCE FileCopy WITH
    opened  <- {c \in Clients : hasName[c]},
    outcome <- [c \in Clients |->
                   IF client[c] = "closing" THEN "done"
                   ELSE IF client[c] \in Ended THEN "over" ELSE "copying"]

ImplementsFileCopy == Copy!Spec

-----------------------------------------------------------------------------
(***************************************************************************)
(* The inductive invariant behind FilesArePrefixes, DoneMeansStored and    *)
(* DescriptorsKept.  On every connection at most one party has the turn:   *)
(* a write on the wire, its completion at the server, the server's         *)
(* handler, a SEND on the wire, its completion at the client, the client's *)
(* handler.  Whoever has it knows how far the copy has come.               *)
(***************************************************************************)
Has(s, X)       == \E i \in 1 .. Len(s) : s[i] \in X
AtMostOne(s, X) ==
    \A i, j \in 1 .. Len(s) : s[i] \in X /\ s[j] \in X => i = j

Writing(c)   == cSq[c] # <<>>
Written(c)   == Has(sCq[c], Imm)
Saving(c)    == sHand[c] \in {"data", "eof", "reply"}
Replying(c)  == sSq[c] > 0
Replied(c)   == Has(cCq[c], {"recv"})
Reading(c)   == cHand[c] = "recv"

OneTurn(c) ==
    /\ Len(cSq[c]) <= 1 /\ sSq[c] <= 1
    /\ AtMostOne(sCq[c], Imm) /\ AtMostOne(cCq[c], {"recv"})
    /\ Writing(c)  => ~(Written(c) \/ Saving(c) \/ Replying(c) \/ Replied(c)
                        \/ Reading(c))
    /\ Written(c)  => ~(Saving(c) \/ Replying(c) \/ Replied(c) \/ Reading(c))
    /\ Saving(c)   => ~(Replying(c) \/ Replied(c) \/ Reading(c))
    /\ Replying(c) => ~(Replied(c) \/ Reading(c))
    /\ Replied(c)  => ~Reading(c)

\* How far the copy of c's file has come.
File(c)     == disk[FileName[c]]
Saved(c)    == hasName[c] /\ cPos[c] = Len(File(c))
Complete(c) == Saved(c) /\ cPos[c] = FileLen[c]
Carries(c, b) ==
    \/ ~hasName[c] /\ b = FileName[c] /\ cPos[c] = 0
    \/ /\ hasName[c] /\ cPos[c] = Len(File(c)) + 1 /\ cPos[c] <= FileLen[c]
       /\ b = <<c, cPos[c]>>
Tells(c, m) ==
    \/ m = "MR" /\ ~hasName[c] /\ cPos[c] = 0
    \/ m = "READY" /\ Saved(c)
    \/ m = "DONE" /\ Complete(c)

Progress(c) ==
    /\ Writing(c) /\ Head(cSq[c]) = "data" => Carries(c, cBuf[c])
    /\ Has(sCq[c], {"data"}) \/ sHand[c] = "data" => Carries(c, sBuf[c])
    /\ (Writing(c) /\ Head(cSq[c]) = "eof") \/ Has(sCq[c], {"eof"})
          \/ sHand[c] = "eof" => Complete(c)
    /\ sHand[c] = "reply" => Saved(c)
    /\ Replying(c) => Tells(c, sMsg[c])
    /\ Replied(c) \/ Reading(c) => Tells(c, cMsg[c])
    /\ client[c] = "closing" => Complete(c)

\* Before on_connection nobody has the turn.
Fresh(c) ==
    /\ client[c] \in {"resolving", "routing"} => conn[c] = "none"
    /\ conn[c] \in {"none", "requested", "accepted", "confirmed"} =>
          /\ ~hasName[c] /\ cPos[c] = 0
          /\ ~(Writing(c) \/ Written(c) \/ Saving(c) \/ Replying(c)
               \/ Replied(c) \/ Reading(c))

\* The file of a connection that has its name, and its descriptor.
OwnFile(c) ==
    /\ hasName[c] =>
          /\ File(c) \in Seq(Buffer)
          /\ Len(File(c)) <= FileLen[c]
          /\ \A i \in 1 .. Len(File(c)) : File(c)[i] = <<c, i>>
          /\ conn[c] = "up" => fd[c] \in Fds /\ fdTab[fd[c]] = FileName[c]
    /\ ~hasName[c] /\ conn[c] \in {"accepted", "confirmed", "up"}
          => fd[c] \notin Fds

OneOwner ==
    /\ \A c, d \in Clients :
          hasName[c] /\ hasName[d] /\ FileName[c] = FileName[d] => c = d
    /\ \A n \in Names \ Existing :
          disk[n] # Absent => \E c \in Clients : hasName[c] /\ FileName[c] = n

Local(c) == OneTurn(c) /\ Progress(c) /\ Fresh(c) /\ OwnFile(c)

IInv ==
    /\ TypeOK
    /\ \A c \in Clients : Local(c)
    /\ OneOwner
=============================================================================
