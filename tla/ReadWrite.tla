------------------------------ MODULE ReadWrite ------------------------------
(***************************************************************************)
(* The two-sided handshake of 02_read-write: a client and a server send    *)
(* each other the description of a memory region (MSG_MR), each writes its *)
(* message into the other's region or reads it from there, says MSG_DONE,  *)
(* and prints the peer's message once both sides are done.                 *)
(*                                                                         *)
(* A connection has two ends that run the same rdma-common.c; an end is a  *)
(* struct connection.  Every client is a process of its own; the server's  *)
(* ends share one event loop and one completion poller.  The reliable      *)
(* connection is external, as in FileTransfer: requests of one end are     *)
(* executed and completed in order, a send buffer is read when the request *)
(* is delivered, and a SEND waits for a posted receive.                    *)
(***************************************************************************)
EXTENDS Naturals, Sequences

CONSTANTS
    Conns,        \* the client processes, each with its connection
    Modes,        \* how the two programs may be called
    AcksInOrder,  \* the ack of a SEND never arrives after a later message
    FaultSets     \* what the environment may do, subsets of AllFaults

AllFaults == {"client_crash", "unreachable", "stale_context"}

ASSUME ModeAssumption ==
    /\ Modes \subseteq {"M_WRITE", "M_READ"}
    /\ AcksInOrder \in BOOLEAN
    /\ FaultSets \subseteq SUBSET AllFaults

VARIABLES
    mode,       \* s_mode of both programs
    faults,     \* what may go wrong
    server,     \* the server process: "up" or "dead"
    st,         \* progress of each end in its event loop
    connected,  \* conn->connected
    sendState,  \* conn->send_state
    recvState,  \* conn->recv_state
    recvs,      \* receives posted and not consumed
    recvMsg,    \* conn->recv_msg->type
    sendMsg,    \* conn->send_msg->type
    sq,         \* requests posted and not executed
    unacked,    \* requests executed and not completed
    cq,         \* completions of the end
    hand,       \* where the poller is in on_completion for this end
    got,        \* the peer's message is in get_peer_message_region
    printed     \* the end has printed "remote buffer"

stateVars == <<connected, sendState, recvState>>
bufVars   == <<recvMsg, sendMsg>>
nicVars   == <<recvs, sq, unacked, cq>>
outVars   == <<got, printed>>
runVars == <<server, st, stateVars, bufVars, nicVars, hand, outVars>>
vars == <<mode, faults, runVars>>

Client(c) == <<c, "client">>
Server(c) == <<c, "server">>
Ends      == Conns \X {"client", "server"}
Peer(e)   == IF e[2] = "client" THEN Server(e[1]) ELSE Client(e[1])

MsgTypes == {"none", "MSG_MR", "MSG_DONE"}

\* enum send_state and recv_state.
SS_INIT      == 0
SS_MR_SENT   == 1
SS_RDMA_SENT == 2
SS_DONE_SENT == 3
RS_INIT      == 0
RS_MR_RECV   == 1
RS_DONE_RECV == 2

Ended    == {"exited", "failed", "crashed"}
Work     == {"msg", "rdma"}
Wc       == {"send", "recv", "error"}

\* The counters send_state and recv_state stay within their enumerations.
TypeOK ==
    /\ mode \in Modes
    /\ faults \in FaultSets
    /\ server \in {"up", "dead"}
    /\ st \in [Ends -> {"idle", "routing", "connecting", "requested", "accepted",
                        "confirmed", "up", "closing", "freed"} \cup Ended]
    /\ connected \in [Ends -> BOOLEAN]
    /\ sendState \in [Ends -> SS_INIT .. SS_DONE_SENT]
    /\ recvState \in [Ends -> RS_INIT .. RS_DONE_RECV]
    /\ recvs \in [Ends -> Nat]
    /\ recvMsg \in [Ends -> MsgTypes]
    /\ sendMsg \in [Ends -> MsgTypes]
    /\ sq \in [Ends -> Seq(Work)]
    /\ unacked \in [Ends -> Seq(Work)]
    /\ cq \in [Ends -> Seq(Wc)]
    /\ hand \in [Ends -> {"none", "send", "recv", "reply", "decide"}]
    /\ got \in [Ends -> BOOLEAN]
    /\ printed \in [Ends -> BOOLEAN]

Init ==
    /\ mode \in Modes
    /\ faults \in FaultSets
    /\ server = "up"
    /\ st = [e \in Ends |-> "idle"]
    /\ connected = [e \in Ends |-> FALSE]
    /\ sendState = [e \in Ends |-> SS_INIT]
    /\ recvState = [e \in Ends |-> RS_INIT]
    /\ recvs = [e \in Ends |-> 0]
    /\ recvMsg = [e \in Ends |-> "none"]
    /\ sendMsg = [e \in Ends |-> "none"]
    /\ sq = [e \in Ends |-> <<>>]
    /\ unacked = [e \in Ends |-> <<>>]
    /\ cq = [e \in Ends |-> <<>>]
    /\ hand = [e \in Ends |-> "none"]
    /\ got = [e \in Ends |-> FALSE]
    /\ printed = [e \in Ends |-> FALSE]

-----------------------------------------------------------------------------
(***************************************************************************)
(* Which processes and queue pairs there are.                              *)
(***************************************************************************)
Running(e) == IF e[2] = "client" THEN st[e] \notin Ended ELSE server = "up"
Qp(e)      == Running(e) /\ st[e] \in {"accepted", "confirmed", "up"}
Gone(e)    == ~Running(e) \/ st[e] \in {"closing", "freed"}

\* The poller of the end's process is at ibv_poll_cq.
PollerFree(e) ==
    IF e[2] = "client" THEN hand[e] = "none"
    ELSE \A c \in Conns : hand[Server(c)] = "none"

\* die(): the whole process ends, whichever thread calls it.
Die(e) ==
    /\ IF e[2] = "client"
       THEN st' = [st EXCEPT ![e] = "failed"] /\ UNCHANGED server
       ELSE server' = "dead" /\ UNCHANGED st
    /\ UNCHANGED <<stateVars, bufVars, nicVars, hand, outVars>>

-----------------------------------------------------------------------------
(***************************************************************************)
(* The client's event loop.                                                *)
(***************************************************************************)

\* ADDR_RESOLVED: build_connection posts the first receive.
OnAddrResolved(c) ==
    LET e == Client(c)
    IN  /\ st[e] = "idle"
        /\ st' = [st EXCEPT ![e] = "routing"]
        /\ recvs' = [recvs EXCEPT ![e] = @ + 1]
        /\ UNCHANGED <<server, stateVars, bufVars, sq, unacked, cq, hand, outVars>>

\* ROUTE_RESOLVED: rdma_connect.
OnRouteResolved(c) ==
    /\ st[Client(c)] = "routing" /\ server = "up"
    /\ st' = [st EXCEPT ![Client(c)] = "connecting", ![Server(c)] = "requested"]
    /\ UNCHANGED <<server, stateVars, bufVars, nicVars, hand, outVars>>

\* MUTANT: the client's region is sent again when the connection is up.
OnConnectionSendsTwice(c) ==
    LET e == Client(c)
    IN  /\ st[e] = "connecting" /\ st[Server(c)] = "accepted" /\ server = "up"
        /\ st' = [st EXCEPT ![e] = "up", ![Server(c)] = "confirmed"]
        /\ connected' = [connected EXCEPT ![e] = TRUE]
        /\ sendMsg' = [sendMsg EXCEPT ![e] = "MSG_MR"]
        /\ sq' = [sq EXCEPT ![e] = @ \o <<"msg", "msg">>]
        /\ UNCHANGED <<server, sendState, recvState, recvMsg, recvs, unacked, cq,
                       hand, outVars>>

\* ESTABLISHED: on_connect, then send_mr, both in the event loop.
OnConnection(c) ==
    LET e == Client(c)
    IN  /\ st[e] = "connecting" /\ st[Server(c)] = "accepted" /\ server = "up"
        /\ st' = [st EXCEPT ![e] = "up", ![Server(c)] = "confirmed"]
        /\ connected' = [connected EXCEPT ![e] = TRUE]
        /\ sendMsg' = [sendMsg EXCEPT ![e] = "MSG_MR"]
        /\ sq' = [sq EXCEPT ![e] = Append(@, "msg")]
        /\ UNCHANGED <<server, sendState, recvState, recvMsg, recvs, unacked, cq,
                       hand, outVars>>

\* Any other event (an error or a rejection) is die("unknown event").
OnUnknownEvent(c) ==
    /\ st[Client(c)] \in {"idle", "routing", "connecting"}
    /\ "unreachable" \in faults \/ server = "dead"
    /\ Die(Client(c))

\* DISCONNECTED: destroy_connection frees the struct connection with
\* whatever is posted or completed, and the loop ends ...
OnDisconnect(c) ==
    LET e == Client(c)
    IN  /\ st[e] = "closing" \/ (st[e] = "up" /\ Gone(Server(c)))
        /\ st' = [st EXCEPT ![e] = "freed"]
        /\ recvs' = [recvs EXCEPT ![e] = 0]
        /\ sq' = [sq EXCEPT ![e] = <<>>]
        /\ unacked' = [unacked EXCEPT ![e] = <<>>]
        /\ cq' = [cq EXCEPT ![e] = <<>>]
        /\ UNCHANGED <<server, stateVars, bufVars, hand, outVars>>

\* ... and main returns 0, which ends the poller too.
MainReturns(c) ==
    /\ st[Client(c)] = "freed"
    /\ st' = [st EXCEPT ![Client(c)] = "exited"]
    /\ UNCHANGED <<server, stateVars, bufVars, nicVars, hand, outVars>>

ClientEventLoop(c) ==
    \/ OnAddrResolved(c) \/ OnRouteResolved(c) \/ OnConnection(c)
    \/ OnUnknownEvent(c) \/ OnDisconnect(c) \/ MainReturns(c)

\* The client process is killed.
ClientCrash(c) ==
    /\ "client_crash" \in faults
    /\ st[Client(c)] \notin Ended
    /\ st' = [st EXCEPT ![Client(c)] = "crashed"]
    /\ UNCHANGED <<server, stateVars, bufVars, nicVars, hand, outVars>>

-----------------------------------------------------------------------------
(***************************************************************************)
(* The server's event loop.                                                *)
(***************************************************************************)

\* CONNECT_REQUEST: build_connection, then rdma_accept.
OnConnectRequest(c) ==
    LET e == Server(c)
    IN  /\ server = "up" /\ st[e] = "requested"
        /\ st' = [st EXCEPT ![e] = "accepted"]
        /\ recvs' = [recvs EXCEPT ![e] = @ + 1]
        /\ UNCHANGED <<server, stateVars, bufVars, sq, unacked, cq, hand, outVars>>

\* MUTANT: on_connection does not call on_connect.
ServerOnConnectionForgets(c) ==
    LET e == Server(c)
    IN  /\ server = "up" /\ st[e] = "confirmed"
        /\ st' = [st EXCEPT ![e] = "up"]
        /\ UNCHANGED <<server, stateVars, bufVars, nicVars, hand, outVars>>

\* ESTABLISHED: on_connect lets the poller out of send_message.
ServerOnConnection(c) ==
    LET e == Server(c)
    IN  /\ server = "up" /\ st[e] = "confirmed"
        /\ st' = [st EXCEPT ![e] = "up"]
        /\ connected' = [connected EXCEPT ![e] = TRUE]
        /\ UNCHANGED <<server, sendState, recvState, bufVars, nicVars, hand, outVars>>

\* The client vanished before it confirmed: die("unknown event").
ServerOnUnknownEvent(c) ==
    /\ server = "up" /\ st[Server(c)] = "accepted" /\ Gone(Client(c))
    /\ Die(Server(c))

\* DISCONNECTED: destroy_connection, and the loop goes on.
ServerOnDisconnect(c) ==
    LET e == Server(c)
    IN  /\ server = "up"
        /\ st[e] = "closing" \/ (st[e] = "up" /\ Gone(Client(c)))
        /\ st' = [st EXCEPT ![e] = "freed"]
        /\ recvs' = [recvs EXCEPT ![e] = 0]
        /\ sq' = [sq EXCEPT ![e] = <<>>]
        /\ unacked' = [unacked EXCEPT ![e] = <<>>]
        /\ cq' = [cq EXCEPT ![e] = <<>>]
        /\ UNCHANGED <<server, stateVars, bufVars, hand, outVars>>

ServerEventLoop ==
    \E c \in Conns :
        \/ OnConnectRequest(c) \/ ServerOnConnection(c)
        \/ ServerOnUnknownEvent(c) \/ ServerOnDisconnect(c)

-----------------------------------------------------------------------------
(***************************************************************************)
(* The completion poller (poll_cq and on_completion, the same for both     *)
(* ends).  Between two of its steps the event loop may run.                *)
(***************************************************************************)

\* ibv_poll_cq returns a completion; anything but success is die().
Poll(e) ==
    /\ Running(e) /\ PollerFree(e) /\ cq[e] # <<>>
    /\ \/ Head(cq[e]) = "error" /\ Die(e)
       \/ /\ Head(cq[e]) # "error"
          /\ hand' = [hand EXCEPT ![e] = Head(cq[e])]
          /\ cq' = [cq EXCEPT ![e] = Tail(@)]
          /\ UNCHANGED <<server, st, stateVars, bufVars, recvs, sq, unacked, outVars>>

\* The handler is in on_completion for an end the event loop has not freed.
Handling(e, where) == Running(e) /\ st[e] # "freed" /\ hand[e] = where

\* MUTANT: the receive is posted again for every message.
HandleRecvRearmsAlways(e) ==
    /\ Handling(e, "recv")
    /\ recvState' = [recvState EXCEPT ![e] = @ + 1]
    /\ recvs' = [recvs EXCEPT ![e] = @ + 1]
    /\ IF recvMsg[e] = "MSG_MR" /\ sendState[e] = SS_INIT
       THEN /\ sendMsg' = [sendMsg EXCEPT ![e] = "MSG_MR"]
            /\ hand' = [hand EXCEPT ![e] = "reply"]
       ELSE /\ hand' = [hand EXCEPT ![e] = "decide"]
            /\ UNCHANGED sendMsg
    /\ UNCHANGED <<server, st, connected, sendState, recvMsg, sq, unacked, cq, outVars>>

\* A message: count it; for MSG_MR copy the peer's region, post the receive
\* again and, if nothing of ours has completed yet, send our region back.
HandleRecv(e) ==
    /\ Handling(e, "recv")
    /\ recvState' = [recvState EXCEPT ![e] = @ + 1]
    /\ recvs' = [recvs EXCEPT ![e] = IF recvMsg[e] = "MSG_MR" THEN @ + 1 ELSE @]
    /\ IF recvMsg[e] = "MSG_MR" /\ sendState[e] = SS_INIT
       THEN /\ sendMsg' = [sendMsg EXCEPT ![e] = "MSG_MR"]
            /\ hand' = [hand EXCEPT ![e] = "reply"]
       ELSE /\ hand' = [hand EXCEPT ![e] = "decide"]
            /\ UNCHANGED sendMsg
    /\ UNCHANGED <<server, st, connected, sendState, recvMsg, sq, unacked, cq, outVars>>

\* send_message spins on conn->connected, then posts the SEND.
SendReply(e) ==
    /\ Handling(e, "reply") /\ connected[e]
    /\ sq' = [sq EXCEPT ![e] = Append(@, "msg")]
    /\ hand' = [hand EXCEPT ![e] = "decide"]
    /\ UNCHANGED <<server, st, stateVars, bufVars, recvs, unacked, cq, outVars>>

\* A request of ours completed.
HandleSend(e) ==
    /\ Handling(e, "send")
    /\ sendState' = [sendState EXCEPT ![e] = @ + 1]
    /\ hand' = [hand EXCEPT ![e] = "decide"]
    /\ UNCHANGED <<server, st, connected, recvState, bufVars, nicVars, outVars>>

MrsExchanged(e) == sendState[e] = SS_MR_SENT /\ recvState[e] = RS_MR_RECV

BothDone(e) == sendState[e] = SS_DONE_SENT /\ recvState[e] = RS_DONE_RECV

\* MUTANT: DONE is posted before the transfer it announces.
StartTransferDoneFirst(e) ==
    /\ Handling(e, "decide") /\ MrsExchanged(e) /\ connected[e]
    /\ sq' = [sq EXCEPT ![e] = @ \o <<"msg", "rdma">>]
    /\ sendMsg' = [sendMsg EXCEPT ![e] = "MSG_DONE"]
    /\ hand' = [hand EXCEPT ![e] = "none"]
    /\ UNCHANGED <<server, st, stateVars, recvMsg, recvs, unacked, cq, outVars>>

\* Both regions are known: post the RDMA request, then MSG_DONE behind it.
StartTransfer(e) ==
    /\ Handling(e, "decide") /\ MrsExchanged(e) /\ connected[e]
    /\ sq' = [sq EXCEPT ![e] = @ \o <<"rdma", "msg">>]
    /\ sendMsg' = [sendMsg EXCEPT ![e] = "MSG_DONE"]
    /\ hand' = [hand EXCEPT ![e] = "none"]
    /\ UNCHANGED <<server, st, stateVars, recvMsg, recvs, unacked, cq, outVars>>

\* Both sides are done: print the peer's message and rdma_disconnect, which
\* flushes what is still posted with an error.
Finish(e) ==
    LET flushed == sq[e] # <<>> \/ unacked[e] # <<>> \/ recvs[e] > 0
    IN  /\ Handling(e, "decide") /\ BothDone(e)
        /\ printed' = [printed EXCEPT ![e] = TRUE]
        /\ st' = [st EXCEPT ![e] = "closing"]
        /\ cq' = [cq EXCEPT ![e] = IF flushed THEN Append(@, "error") ELSE @]
        /\ sq' = [sq EXCEPT ![e] = <<>>]
        /\ unacked' = [unacked EXCEPT ![e] = <<>>]
        /\ recvs' = [recvs EXCEPT ![e] = 0]
        /\ hand' = [hand EXCEPT ![e] = "none"]
        /\ UNCHANGED <<server, stateVars, bufVars, got>>

\* Neither: the handler returns.
KeepWaiting(e) ==
    /\ Handling(e, "decide") /\ ~MrsExchanged(e) /\ ~BothDone(e)
    /\ hand' = [hand EXCEPT ![e] = "none"]
    /\ UNCHANGED <<server, st, stateVars, bufVars, nicVars, outVars>>

\* The event loop freed the connection under the handler.  What it reads and
\* calls then is undefined: nothing happens, or the process does not survive.
StaleConnection(e) ==
    /\ Running(e) /\ st[e] = "freed" /\ hand[e] # "none"
    /\ \/ /\ hand' = [hand EXCEPT ![e] = "none"]
          /\ UNCHANGED <<server, st, stateVars, bufVars, nicVars, outVars>>
       \/ "stale_context" \in faults /\ Die(e)

OnCompletion(e) ==
    \/ HandleRecv(e) \/ SendReply(e) \/ HandleSend(e)
    \/ StartTransfer(e) \/ Finish(e) \/ KeepWaiting(e) \/ StaleConnection(e)

ServerPoller == \E c \in Conns : Poll(Server(c)) \/ OnCompletion(Server(c))

-----------------------------------------------------------------------------
(***************************************************************************)
(* The reliable connection.                                                *)
(***************************************************************************)
AwaitsAck(e) == unacked[e] # <<>> /\ Head(unacked[e]) = "msg"

\* A SEND waits for a posted receive (rnr_retry_count = 7); its payload is
\* what send_msg holds at that moment.
DeliverMessage(e) ==
    LET p == Peer(e)
    IN  /\ Qp(e) /\ sq[e] # <<>> /\ Head(sq[e]) = "msg"
        /\ Qp(p) /\ recvs[p] > 0
        /\ AcksInOrder => ~AwaitsAck(p)
        /\ sq' = [sq EXCEPT ![e] = Tail(@)]
        /\ unacked' = [unacked EXCEPT ![e] = Append(@, "msg")]
        /\ recvs' = [recvs EXCEPT ![p] = @ - 1]
        /\ recvMsg' = [recvMsg EXCEPT ![p] = sendMsg[e]]
        /\ cq' = [cq EXCEPT ![p] = Append(@, "recv")]
        /\ UNCHANGED <<server, st, stateVars, sendMsg, hand, outVars>>

\* The peer's NIC executes an RDMA request; a WRITE lands there at once.
DeliverRdma(e) ==
    LET p == Peer(e)
    IN  /\ Qp(e) /\ sq[e] # <<>> /\ Head(sq[e]) = "rdma" /\ Qp(p)
        /\ sq' = [sq EXCEPT ![e] = Tail(@)]
        /\ unacked' = [unacked EXCEPT ![e] = Append(@, "rdma")]
        /\ got' = IF mode = "M_WRITE" THEN [got EXCEPT ![p] = TRUE] ELSE got
        /\ UNCHANGED <<server, st, stateVars, bufVars, recvs, cq, hand, printed>>

\* The ack, or the data of a READ, comes back: the oldest request completes.
Acknowledge(e) ==
    /\ Qp(e) /\ unacked[e] # <<>>
    /\ unacked' = [unacked EXCEPT ![e] = Tail(@)]
    /\ cq' = [cq EXCEPT ![e] = Append(@, "send")]
    /\ got' = IF Head(unacked[e]) = "rdma" /\ mode = "M_READ"
              THEN [got EXCEPT ![e] = TRUE] ELSE got
    /\ UNCHANGED <<server, st, stateVars, bufVars, recvs, sq, hand, printed>>

\* The peer's queue pair is gone: what is not executed ends in an error.
RequestFails(e) ==
    /\ Qp(e) /\ sq[e] # <<>> /\ Gone(Peer(e))
    /\ sq' = [sq EXCEPT ![e] = <<>>]
    /\ cq' = [cq EXCEPT ![e] = Append(@, "error")]
    /\ UNCHANGED <<server, st, stateVars, bufVars, recvs, unacked, hand, outVars>>

Nic(e) ==
    DeliverMessage(e) \/ DeliverRdma(e) \/ Acknowledge(e) \/ RequestFails(e)

-----------------------------------------------------------------------------
\* Every client has ended and the server waits for the next one.
Rest ==
    /\ \A c \in Conns : st[Client(c)] \in Ended
    /\ \/ server = "dead"
       \/ \A c \in Conns :
             st[Server(c)] \in {"idle", "freed"} /\ hand[Server(c)] = "none"
    /\ UNCHANGED runVars

Next ==
    /\ \/ \E c \in Conns :
             \/ ClientEventLoop(c) \/ ClientCrash(c)
             \/ Poll(Client(c)) \/ OnCompletion(Client(c))
       \/ ServerEventLoop
       \/ ServerPoller
       \/ \E e \in Ends : Nic(e)
       \/ Rest
    /\ UNCHANGED <<mode, faults>>

Spec == Init /\ [][Next]_vars

(***************************************************************************)
(* Fairness: threads are infinite loops the scheduler runs, the NIC keeps  *)
(* trying, and each completion queue is read in order.                     *)
(***************************************************************************)
Fairness ==
    /\ \A c \in Conns :
          /\ WF_runVars(ClientEventLoop(c))
          /\ WF_runVars(Poll(Client(c))) /\ WF_runVars(OnCompletion(Client(c)))
          /\ SF_runVars(Poll(Server(c))) /\ WF_runVars(OnCompletion(Server(c)))
    /\ WF_runVars(ServerEventLoop)
    /\ \A e \in Ends : WF_runVars(Nic(e))

FairSpec == Spec /\ Fairness

-----------------------------------------------------------------------------
(***************************************************************************)
(* Properties.                                                             *)
(***************************************************************************)

\* What an end prints as "remote buffer" is the peer's message: its own READ
\* has completed, or the peer's WRITE arrived before the peer's MSG_DONE.  The
\* two counters that decide about it stay within their enumerations.
PrintedIsPeers == TypeOK /\ (\A e \in Ends : printed[e] => got[e])

\* The one send_msg is not changed while the NIC may still read it, and while
\* a handler looks at recv_msg no receive is posted that could bring the next
\* message into it.
MsgsLeftAlone ==
    /\ [][\A e \in Ends :
             (\E i \in 1 .. Len(sq[e]) : sq[e][i] = "msg")
             \/ (\E i \in 1 .. Len(unacked[e]) : unacked[e][i] = "msg")
                 => sendMsg'[e] = sendMsg[e]
         ]_sendMsg
    /\ [](\A e \in Ends :
             hand[e] = "recv" /\ st[e] # "freed" => recvs[e] = 0)

\* If nothing fails no completion is an error, so no process ends in die():
\* whoever disconnects first leaves nothing of its own or of the peer behind.
\* And when a client that writes exits, each side has the other's message,
\* although one of them may have been disconnected before it printed it.  (A
\* READ may still be on its way back then: MSG_DONE does not wait for it.)
NobodyDies ==
    faults = {} =>
        /\ server = "up"
        /\ \A e \in Ends :
              /\ st[e] # "failed"
              /\ \A i \in 1 .. Len(cq[e]) : cq[e][i] # "error"
        /\ \A c \in Conns :
              st[Client(c)] = "exited" /\ mode = "M_WRITE"
                  => got[Client(c)] /\ got[Server(c)]

\* If nothing fails every exchange ends with a message printed and both sides
\* freed, although the server's poller spins in send_message.
EveryExchangeEnds ==
    faults = {} => \A c \in Conns :
        <>[](/\ st[Client(c)] = "exited" /\ st[Server(c)] = "freed"
             /\ printed[Client(c)] \/ printed[Server(c)])
=============================================================================
