-------------------------- MODULE BasicClientServer --------------------------
(***************************************************************************)
(* 01_basic-client-server: a client and the server send each other one     *)
(* message, print what they receive, and the client disconnects after two  *)
(* completions.  Threads and connection are those of ReadWrite, with one   *)
(* difference: rdma_connect and rdma_accept are called with all parameters *)
(* zero, so a SEND that finds no posted receive is not retried but breaks  *)
(* the connection.                                                         *)
(***************************************************************************)
EXTENDS Naturals, Sequences

CONSTANTS
    Conns,        \* the client processes, each with its connection
    FaultSets     \* what the environment may do, subsets of AllFaults

AllFaults == {"client_crash", "unreachable", "stale_context"}

ASSUME FaultsAssumption == FaultSets \subseteq SUBSET AllFaults

VARIABLES
    faults,          \* what may go wrong
    server,          \* the server process: "up" or "dead"
    st,              \* progress of each end in its event loop
    recvs,           \* receives posted and not consumed
    sq,              \* SENDs posted and not delivered
    unacked,         \* SENDs delivered and not acknowledged
    cq,              \* completions of the end
    hand,            \* the completion the poller is handling
    numCompletions,  \* conn->num_completions, of clients only
    arrived,         \* the peer's message is in recv_region
    printed          \* the end has printed "received message"

nicVars == <<recvs, sq, unacked, cq>>
outVars == <<numCompletions, arrived, printed>>
runVars == <<server, st, nicVars, hand, outVars>>
vars == <<faults, runVars>>

Client(c) == <<c, "client">>
Server(c) == <<c, "server">>
Ends      == Conns \X {"client", "server"}
Peer(e)   == IF e[2] = "client" THEN Server(e[1]) ELSE Client(e[1])
Ended     == {"exited", "failed", "crashed"}

\* An end posts one receive and one SEND in its life, and a client counts no
\* further than two.
TypeOK ==
    /\ faults \in FaultSets
    /\ server \in {"up", "dead"}
    /\ st \in [Ends -> {"idle", "routing", "connecting", "requested", "accepted",
                        "confirmed", "up", "closing", "freed"} \cup Ended]
    /\ recvs \in [Ends -> 0 .. 1]
    /\ sq \in [Ends -> 0 .. 1]
    /\ unacked \in [Ends -> 0 .. 1]
    /\ cq \in [Ends -> Seq({"send", "recv", "error"})]
    /\ hand \in [Ends -> {"none", "send", "recv"}]
    /\ numCompletions \in [Conns -> 0 .. 2]
    /\ arrived \in [Ends -> BOOLEAN]
    /\ printed \in [Ends -> BOOLEAN]

Init ==
    /\ faults \in FaultSets
    /\ server = "up"
    /\ st = [e \in Ends |-> "idle"]
    /\ recvs = [e \in Ends |-> 0]
    /\ sq = [e \in Ends |-> 0]
    /\ unacked = [e \in Ends |-> 0]
    /\ cq = [e \in Ends |-> <<>>]
    /\ hand = [e \in Ends |-> "none"]
    /\ numCompletions = [c \in Conns |-> 0]
    /\ arrived = [e \in Ends |-> FALSE]
    /\ printed = [e \in Ends |-> FALSE]

-----------------------------------------------------------------------------
Running(e) == IF e[2] = "client" THEN st[e] \notin Ended ELSE server = "up"
Qp(e)      == Running(e) /\ st[e] \in {"accepted", "confirmed", "up"}
Gone(e)    == ~Running(e) \/ st[e] \in {"closing", "freed"}

PollerFree(e) ==
    IF e[2] = "client" THEN hand[e] = "none"
    ELSE \A c \in Conns : hand[Server(c)] = "none"

\* die(): the whole process ends.
Die(e) ==
    /\ IF e[2] = "client"
       THEN st' = [st EXCEPT ![e] = "failed"] /\ UNCHANGED server
       ELSE server' = "dead" /\ UNCHANGED st
    /\ UNCHANGED <<nicVars, hand, outVars>>

-----------------------------------------------------------------------------
(***************************************************************************)
(* The event loops.                                                        *)
(***************************************************************************)

\* ADDR_RESOLVED: the queue pair is created and a receive posted.
OnAddrResolved(c) ==
    LET e == Client(c)
    IN  /\ st[e] = "idle"
        /\ st' = [st EXCEPT ![e] = "routing"]
        /\ recvs' = [recvs EXCEPT ![e] = @ + 1]
        /\ UNCHANGED <<server, sq, unacked, cq, hand, outVars>>

\* ROUTE_RESOLVED: rdma_connect.
OnRouteResolved(c) ==
    /\ st[Client(c)] = "routing" /\ server = "up"
    /\ st' = [st EXCEPT ![Client(c)] = "connecting", ![Server(c)] = "requested"]
    /\ UNCHANGED <<server, nicVars, hand, outVars>>

\* MUTANT: the server posts no receive before it accepts.
OnConnectRequestUnprepared(c) ==
    LET e == Server(c)
    IN  /\ server = "up" /\ st[e] = "requested"
        /\ st' = [st EXCEPT ![e] = "accepted"]
        /\ UNCHANGED <<server, recvs, sq, unacked, cq, hand, outVars>>

\* CONNECT_REQUEST: the same for the server, then rdma_accept.
OnConnectRequest(c) ==
    LET e == Server(c)
    IN  /\ server = "up" /\ st[e] = "requested"
        /\ st' = [st EXCEPT ![e] = "accepted"]
        /\ recvs' = [recvs EXCEPT ![e] = @ + 1]
        /\ UNCHANGED <<server, sq, unacked, cq, hand, outVars>>

\* ESTABLISHED at the client: on_connection posts its SEND.
OnConnection(c) ==
    LET e == Client(c)
    IN  /\ st[e] = "connecting" /\ st[Server(c)] = "accepted" /\ server = "up"
        /\ st' = [st EXCEPT ![e] = "up", ![Server(c)] = "confirmed"]
        /\ sq' = [sq EXCEPT ![e] = @ + 1]
        /\ UNCHANGED <<server, recvs, unacked, cq, hand, outVars>>

\* MUTANT: the server answers only what it has received.
ServerOnConnectionSilent(c) ==
    LET e == Server(c)
    IN  /\ server = "up" /\ st[e] = "confirmed"
        /\ st' = [st EXCEPT ![e] = "up"]
        /\ UNCHANGED <<server, nicVars, hand, outVars>>

\* ESTABLISHED at the server: on_connection posts its SEND.
ServerOnConnection(c) ==
    LET e == Server(c)
    IN  /\ server = "up" /\ st[e] = "confirmed"
        /\ st' = [st EXCEPT ![e] = "up"]
        /\ sq' = [sq EXCEPT ![e] = @ + 1]
        /\ UNCHANGED <<server, recvs, unacked, cq, hand, outVars>>

\* Any other event is die("unknown event").
OnUnknownEvent(c) ==
    /\ st[Client(c)] \in {"idle", "routing", "connecting"}
    /\ "unreachable" \in faults \/ server = "dead"
    /\ Die(Client(c))

ServerOnUnknownEvent(c) ==
    /\ server = "up" /\ st[Server(c)] = "accepted" /\ Gone(Client(c))
    /\ Die(Server(c))

\* DISCONNECTED: the queue pair is destroyed and the connection freed, with
\* whatever is posted or completed.
OnDisconnect(e) ==
    /\ Running(e)
    /\ st[e] = "closing" \/ (st[e] = "up" /\ Gone(Peer(e)))
    /\ st' = [st EXCEPT ![e] = "freed"]
    /\ recvs' = [recvs EXCEPT ![e] = 0]
    /\ sq' = [sq EXCEPT ![e] = 0]
    /\ unacked' = [unacked EXCEPT ![e] = 0]
    /\ cq' = [cq EXCEPT ![e] = <<>>]
    /\ UNCHANGED <<server, hand, outVars>>

\* The client's loop ends after that, and main returns 0.
MainReturns(c) ==
    /\ st[Client(c)] = "freed"
    /\ st' = [st EXCEPT ![Client(c)] = "exited"]
    /\ UNCHANGED <<server, nicVars, hand, outVars>>

ClientEventLoop(c) ==
    \/ OnAddrResolved(c) \/ OnRouteResolved(c) \/ OnConnection(c)
    \/ OnUnknownEvent(c) \/ OnDisconnect(Client(c)) \/ MainReturns(c)

ServerEventLoop ==
    \E c \in Conns :
        \/ OnConnectRequest(c) \/ ServerOnConnection(c)
        \/ ServerOnUnknownEvent(c) \/ OnDisconnect(Server(c))

\* The client process is killed.
ClientCrash(c) ==
    /\ "client_crash" \in faults
    /\ st[Client(c)] \notin Ended
    /\ st' = [st EXCEPT ![Client(c)] = "crashed"]
    /\ UNCHANGED <<server, nicVars, hand, outVars>>

-----------------------------------------------------------------------------
(***************************************************************************)
(* The completion pollers.                                                 *)
(***************************************************************************)

\* ibv_poll_cq returns a completion; anything but success is die().
Poll(e) ==
    /\ Running(e) /\ PollerFree(e) /\ cq[e] # <<>>
    /\ \/ Head(cq[e]) = "error" /\ Die(e)
       \/ /\ Head(cq[e]) # "error"
          /\ hand' = [hand EXCEPT ![e] = Head(cq[e])]
          /\ cq' = [cq EXCEPT ![e] = Tail(@)]
          /\ UNCHANGED <<server, st, recvs, sq, unacked, outVars>>

\* MUTANT: the first completion ends the connection.
DisconnectAtFirst(c) == numCompletions[c] + 1 = 1

\* The condition of the client for rdma_disconnect.
DisconnectNow(c) == numCompletions[c] + 1 = 2

\* The client prints what it received and counts; at two completions it
\* calls rdma_disconnect, which flushes what is still posted with an error.
ClientCompletion(c) ==
    LET e == Client(c)
        flushed == sq[e] > 0 \/ unacked[e] > 0 \/ recvs[e] > 0
    IN  /\ Running(e) /\ st[e] # "freed" /\ hand[e] # "none"
        /\ printed' = [printed EXCEPT ![e] = @ \/ hand[e] = "recv"]
        /\ numCompletions' = [numCompletions EXCEPT ![c] = @ + 1]
        /\ hand' = [hand EXCEPT ![e] = "none"]
        /\ IF DisconnectNow(c)
           THEN /\ st' = [st EXCEPT ![e] = "closing"]
                /\ cq' = [cq EXCEPT ![e] = IF flushed THEN Append(@, "error") ELSE @]
                /\ recvs' = [recvs EXCEPT ![e] = 0]
                /\ sq' = [sq EXCEPT ![e] = 0]
                /\ unacked' = [unacked EXCEPT ![e] = 0]
           ELSE UNCHANGED <<st, nicVars>>
        /\ UNCHANGED <<server, arrived>>

\* The server prints what it received; its send completions carry no context.
ServerCompletion(c) ==
    LET e == Server(c)
    IN  /\ server = "up" /\ hand[e] # "none"
        /\ st[e] # "freed" \/ hand[e] = "send"
        /\ printed' = [printed EXCEPT ![e] = @ \/ hand[e] = "recv"]
        /\ hand' = [hand EXCEPT ![e] = "none"]
        /\ UNCHANGED <<server, st, nicVars, numCompletions, arrived>>

\* The event loop freed the connection under the handler: nothing happens,
\* or the process does not survive it.
StaleConnection(e) ==
    /\ Running(e) /\ st[e] = "freed"
    /\ hand[e] = "recv" \/ (hand[e] = "send" /\ e[2] = "client")
    /\ \/ /\ hand' = [hand EXCEPT ![e] = "none"]
          /\ UNCHANGED <<server, st, nicVars, outVars>>
       \/ "stale_context" \in faults /\ Die(e)

ClientPoller(c) ==
    Poll(Client(c)) \/ ClientCompletion(c) \/ StaleConnection(Client(c))

ServerPoller ==
    \E c \in Conns :
        Poll(Server(c)) \/ ServerCompletion(c) \/ StaleConnection(Server(c))

-----------------------------------------------------------------------------
(***************************************************************************)
(* The reliable connection, without retries when the receiver is not ready.*)
(***************************************************************************)
Deliver(e) ==
    LET p == Peer(e)
    IN  /\ Qp(e) /\ sq[e] > 0 /\ Qp(p) /\ recvs[p] > 0
        /\ sq' = [sq EXCEPT ![e] = @ - 1]
        /\ unacked' = [unacked EXCEPT ![e] = @ + 1]
        /\ recvs' = [recvs EXCEPT ![p] = @ - 1]
        /\ arrived' = [arrived EXCEPT ![p] = TRUE]
        /\ cq' = [cq EXCEPT ![p] = Append(@, "recv")]
        /\ UNCHANGED <<server, st, hand, numCompletions, printed>>

Acknowledge(e) ==
    /\ Qp(e) /\ unacked[e] > 0
    /\ unacked' = [unacked EXCEPT ![e] = @ - 1]
    /\ cq' = [cq EXCEPT ![e] = Append(@, "send")]
    /\ UNCHANGED <<server, st, recvs, sq, hand, outVars>>

\* The peer has no receive posted, or no queue pair any more.
SendFails(e) ==
    /\ Qp(e) /\ sq[e] > 0
    /\ Gone(Peer(e)) \/ (Qp(Peer(e)) /\ recvs[Peer(e)] = 0)
    /\ sq' = [sq EXCEPT ![e] = 0]
    /\ cq' = [cq EXCEPT ![e] = Append(@, "error")]
    /\ UNCHANGED <<server, st, recvs, unacked, hand, outVars>>

Nic(e) == Deliver(e) \/ Acknowledge(e) \/ SendFails(e)

-----------------------------------------------------------------------------
\* Every client has ended and the server waits for the next one.
Rest ==
    /\ \A c \in Conns : st[Client(c)] \in Ended
    /\ \/ server = "dead"
       \/ \A c \in Conns :
             st[Server(c)] \in {"idle", "freed"} /\ hand[Server(c)] = "none"
    /\ UNCHANGED runVars

Next ==
    /\ \/ \E c \in Conns : ClientEventLoop(c) \/ ClientPoller(c) \/ ClientCrash(c)
       \/ ServerEventLoop
       \/ ServerPoller
       \/ \E e \in Ends : Nic(e)
       \/ Rest
    /\ UNCHANGED faults

Spec == Init /\ [][Next]_vars

\* Threads are infinite loops, the NIC keeps trying, the queue is read in order.
Fairness ==
    /\ \A c \in Conns : WF_runVars(ClientEventLoop(c)) /\ WF_runVars(ClientPoller(c))
    /\ WF_runVars(ServerEventLoop)
    /\ WF_runVars(ServerPoller)
    /\ \A c \in Conns : SF_runVars(Poll(Server(c)))
    /\ \A e \in Ends : WF_runVars(Nic(e))

FairSpec == Spec /\ Fairness

-----------------------------------------------------------------------------
(***************************************************************************)
(* Properties.                                                             *)
(***************************************************************************)

\* If nothing fails, a SEND always finds the one receive of the peer, which
\* nothing would repeat it for, and the disconnect has nothing left to flush:
\* no completion is an error, and no process ends in die().
NobodyDies ==
    /\ TypeOK
    /\ faults = {} =>
        /\ server = "up"
        /\ \A e \in Ends :
              /\ st[e] # "failed"
              /\ \A i \in 1 .. Len(cq[e]) : cq[e][i] # "error"

\* Whatever fails, a client that calls rdma_disconnect has its answer: two
\* completions are one of each kind.
DisconnectHasAnswer ==
    \A c \in Conns :
        st[Client(c)] = "closing" =>
            printed[Client(c)] /\ arrived[Client(c)] /\ arrived[Server(c)]

\* Every client process ends, although it may wait for a server that died.
EveryClientEnds == \A c \in Conns : <>(st[Client(c)] \in Ended)
=============================================================================
