---------------------------- MODULE XsrqPingPong ----------------------------
(***************************************************************************)
(* xsrq_pingpong: one server exchanges NumTests messages with each of its  *)
(* NumClients clients, over XRC queue pairs.  A message names the shared   *)
(* receive queue it is for, and travels on any queue pair of the domain:   *)
(* the server sends round robin, so that a message for one client arrives  *)
(* through the receive queue pair of another.  Hence the last handshake,   *)
(* in which everybody waits for everybody before queue pairs are           *)
(* destroyed.                                                              *)
(***************************************************************************)
EXTENDS Naturals, Sequences, FiniteSets

CONSTANTS
    MaxClients, \* no server is called for more clients
    Args,       \* how the programs may be called
    FaultSets   \* what the environment may do, subsets of AllFaults

\* A process is killed; a client connects its queue pairs only after the
\* server has given up repeating a message.
AllFaults == {"kill", "slow"}

ASSUME XsrqAssumption ==
    /\ MaxClients \in Nat
    /\ Args \subseteq [num_clients : 1 .. MaxClients, num_tests : Nat \ {0},
                       use_event : BOOLEAN]
    /\ FaultSets \subseteq SUBSET AllFaults

VARIABLES
    args,      \* the arguments, the same in all programs
    faults,    \* what may go wrong
    pc,        \* where main is
    accepted,  \* clients the server has accepted and connected
    tcp,       \* per link, what has been written on the client's connection
    qp,        \* the queue pairs of a client, at the client and at the server
    srq,       \* receives posted on a node's shared receive queue
    sq,        \* per link, the messages posted and not delivered
    broken,    \* links whose sending queue pair is in the error state
    unacked,   \* per link, delivered messages whose completion was asked for
    send_cq,   \* completions of sends
    recv_cq,   \* completions of receives: the client whose queue pair it was
    armed,     \* ibv_req_notify_cq asked for an event that has not come yet
    events,    \* events in the completion channel
    pp_cnt,    \* ctx.rem_dest[].pp_cnt: messages posted for each peer
    cnt        \* main's count of received messages

nicVars  == <<srq, sq, broken, unacked, send_cq, recv_cq, armed, events>>
mainVars == <<pc, accepted, tcp, qp, pp_cnt, cnt>>
runVars  == <<nicVars, mainVars>>
vars == <<args, faults, runVars>>

NumClients == args.num_clients
NumTests   == args.num_tests
UseEvent   == args.use_event

\* Client i is the one the server accepts as number i.
Clients == 1 .. NumClients
Server  == 0
Nodes   == {Server} \cup Clients
Links   == ({Server} \X Clients) \cup (Clients \X {Server})

\* What a client of a program counts: the server has NumClients peers, a client
\* runs with num_clients = 1.
Peers(n) == IF n = Server THEN Clients ELSE {Server}
Total(n) == Cardinality(Peers(n)) * NumTests

Client(l) == IF l[1] = Server THEN l[2] ELSE l[1]

Ended == {"done", "killed", "absent"}
Running(n) == pc[n] \notin Ended

Loop == IF UseEvent THEN "event" ELSE "poll"

Message == [to : Nodes, signaled : BOOLEAN]

TypeOK ==
    /\ args \in Args /\ faults \in FaultSets
    /\ pc \in [Nodes -> {"start", "wait_addr", "event", "poll", "drain",
                         "wait_end"} \cup Ended]
    /\ accepted \in 0 .. NumClients
    /\ tcp \in [Links -> {"none", "addr", "end"}]
    /\ qp \in [Links -> {"init", "rts", "destroyed"}]
    /\ srq \in [Nodes -> 0 .. NumClients]
    /\ sq \in [Links -> Seq(Message)]
    /\ broken \subseteq Links
    /\ unacked \in [Links -> Nat]
    /\ send_cq \in [Nodes -> Nat]
    /\ recv_cq \in [Nodes -> Seq(Clients)]
    /\ armed \in [Nodes -> BOOLEAN]
    /\ events \in [Nodes -> Nat]
    /\ pp_cnt \in [Links -> 0 .. NumTests]
    /\ cnt \in [Nodes -> Nat]

Init ==
    /\ args \in Args /\ faults \in FaultSets
    /\ pc = [n \in Nodes |-> "start"]
    /\ accepted = 0
    /\ tcp = [l \in Links |-> "none"]
    /\ qp = [l \in Links |-> "init"]
    /\ srq = [n \in Nodes |-> 0]
    /\ sq = [l \in Links |-> <<>>]
    /\ broken = {}
    /\ unacked = [l \in Links |-> 0]
    /\ send_cq = [n \in Nodes |-> 0]
    /\ recv_cq = [n \in Nodes |-> <<>>]
    /\ armed = [n \in Nodes |-> FALSE]
    /\ events = [n \in Nodes |-> 0]
    /\ pp_cnt = [l \in Links |-> 0]
    /\ cnt = [n \in Nodes |-> 0]

\* The process ends: what is left of its queue pairs goes with it.
Exit(n, how) ==
    /\ pc' = [pc EXCEPT ![n] = how]
    /\ qp' = [l \in Links |-> IF l[1] = n THEN "destroyed" ELSE qp[l]]

-----------------------------------------------------------------------------
(***************************************************************************)
(* Setting up.  qp[<<n, m>>] stands for the two queue pairs that n has for *)
(* its peer m, one to send and one to receive.                             *)
(***************************************************************************)

\* n's address is written in one piece, and its peer has read all of it:
\* recv_remote_dest and recv_termination_ack read on until they have what they
\* expect, also for ever when the stream has ended.
SendLocalDest(n, peer) == tcp' = [tcp EXCEPT ![<<n, peer>>] = "addr"]
RecvRemoteDest(n, peer) == tcp[<<peer, n>>] = "addr"

\* The same for "END", the last thing written in either direction.
SendTerminationAck(n) == tcp' = [l \in Links |-> IF l[1] = n THEN "end" ELSE tcp[l]]
RecvTerminationAck(n) == \A peer \in Peers(n) : tcp[<<peer, n>>] = "end"

\* pp_init_ctx and one receive for each peer, before anybody is told of the
\* receive queue.
SetUpQueues(n) ==
    /\ srq' = [srq EXCEPT ![n] = Cardinality(Peers(n))]
    /\ armed' = [armed EXCEPT ![n] = UseEvent]
    /\ UNCHANGED <<sq, broken, unacked, send_cq, recv_cq, events, accepted, pp_cnt, cnt>>

\* pp_server_connect, up to listen.
ServerStart ==
    /\ pc[Server] = "start"
    /\ SetUpQueues(Server)
    /\ pc' = [pc EXCEPT ![Server] = "wait_addr"]
    /\ UNCHANGED <<tcp, qp>>

\* pp_client_connect, up to send_local_dest.  Clients wait in the backlog in
\* the order in which they connected.
ClientStart(i) ==
    /\ pc[i] = "start"
    /\ \A j \in 1 .. i - 1 : pc[j] # "start"
    /\ SetUpQueues(i)
    /\ IF Running(Server) /\ pc[Server] # "start"
       THEN /\ SendLocalDest(i, Server)
            /\ pc' = [pc EXCEPT ![i] = "wait_addr"]
            /\ UNCHANGED qp
       ELSE Exit(i, "absent") /\ UNCHANGED tcp

\* Round robin over the queue pairs, by the number of messages for this peer.
Via(i, count) == <<Server, ((i - 1 + count) % NumClients) + 1>>

\* MUTANT: the counter is compared before it is advanced.
PostComparesFirst(n, peer) ==
    LET l   == <<n, peer>>
        via == IF n = Server THEN Via(peer, pp_cnt[l]) ELSE l
        m   == [to |-> peer, signaled |-> pp_cnt[l] >= NumTests]
    IN  /\ sq' = [sq EXCEPT ![via] = Append(@, m)]
        /\ pp_cnt' = [pp_cnt EXCEPT ![l] = @ + 1]

\* pp_post_send: only the last message for a peer is signaled.
Post(n, peer) ==
    LET l   == <<n, peer>>
        via == IF n = Server THEN Via(peer, pp_cnt[l]) ELSE l
        m   == [to |-> peer, signaled |-> pp_cnt[l] + 1 >= NumTests]
    IN  /\ sq' = [sq EXCEPT ![via] = Append(@, m)]
        /\ pp_cnt' = [pp_cnt EXCEPT ![l] = @ + 1]

\* The server begins: a message for each client, each on a link of its own.
PostFirst ==
    /\ sq' = [l \in Links |->
                 IF l[1] = Server
                 THEN <<[to |-> l[2], signaled |-> NumTests <= 1]>>
                 ELSE sq[l]]
    /\ pp_cnt' = [l \in Links |-> IF l[1] = Server THEN 1 ELSE 0]

\* accept, recv_remote_dest, send_local_dest and connect_qps for the next
\* client; after the last of them main posts the first messages.
ServerAccept ==
    LET i == accepted + 1
    IN  /\ pc[Server] = "wait_addr" /\ i \in Clients
        /\ RecvRemoteDest(Server, i)
        /\ accepted' = i
        /\ SendLocalDest(Server, i)
        /\ qp' = [qp EXCEPT ![<<Server, i>>] = "rts"]
        /\ IF i = NumClients
           THEN PostFirst /\ pc' = [pc EXCEPT ![Server] = Loop]
           ELSE UNCHANGED <<sq, pp_cnt, pc>>
        /\ UNCHANGED <<srq, broken, unacked, send_cq, recv_cq, armed, events, cnt>>

\* recv_remote_dest and connect_qps: the server may have sent by now.
ClientConnect(i) ==
    /\ pc[i] = "wait_addr" /\ RecvRemoteDest(i, Server)
    /\ qp' = [qp EXCEPT ![<<i, Server>>] = "rts"]
    /\ pc' = [pc EXCEPT ![i] = Loop]
    /\ UNCHANGED <<nicVars, accepted, tcp, pp_cnt, cnt>>

-----------------------------------------------------------------------------
(***************************************************************************)
(* The loop of main.  Completions of receives are taken one at a time      *)
(* until there are none.                                                   *)
(***************************************************************************)

\* MUTANT: the queue is not armed again.
GetCqEventOnce(n) ==
    /\ pc[n] = "event" /\ events[n] > 0
    /\ events' = [events EXCEPT ![n] = @ - 1]
    /\ pc' = [pc EXCEPT ![n] = "poll"]
    /\ UNCHANGED <<srq, sq, broken, unacked, send_cq, recv_cq, armed, accepted,
                   tcp, qp, pp_cnt, cnt>>

\* get_cq_event, which also calls ibv_req_notify_cq.
GetCqEvent(n) ==
    /\ pc[n] = "event" /\ events[n] > 0
    /\ events' = [events EXCEPT ![n] = @ - 1]
    /\ armed' = [armed EXCEPT ![n] = TRUE]
    /\ pc' = [pc EXCEPT ![n] = "poll"]
    /\ UNCHANGED <<srq, sq, broken, unacked, send_cq, recv_cq, accepted, tcp, qp,
                   pp_cnt, cnt>>

\* MUTANT: the answer goes to the next peer.
FindNext(n, i) == IF n = Server THEN (i % NumClients) + 1 ELSE Server

\* find_qp: the peer is known by the queue pair the message came through,
\* which at a client need not be its own.
FindQp(n, i) == IF n = Server THEN i ELSE Server

\* A completed receive: it is posted again, and answered unless the peer has
\* had all its messages.
PollOne(n) ==
    /\ pc[n] = "poll" /\ recv_cq[n] # <<>>
    /\ recv_cq' = [recv_cq EXCEPT ![n] = Tail(@)]
    /\ srq' = [srq EXCEPT ![n] = @ + 1]
    /\ LET peer == FindQp(n, Head(recv_cq[n]))
       IN  IF pp_cnt[<<n, peer>>] < NumTests
           THEN Post(n, peer)
           ELSE UNCHANGED <<sq, pp_cnt>>
    /\ cnt' = [cnt EXCEPT ![n] = @ + 1]
    /\ UNCHANGED <<broken, unacked, send_cq, armed, events, pc, accepted, tcp, qp>>

\* No completion is left: wait for the next, or leave the loop.
PollNone(n) ==
    /\ pc[n] = "poll" /\ recv_cq[n] = <<>>
    /\ cnt[n] < Total(n) => UseEvent
    /\ pc' = [pc EXCEPT ![n] = IF cnt[n] < Total(n) THEN "event" ELSE "drain"]
    /\ UNCHANGED <<nicVars, accepted, tcp, qp, pp_cnt, cnt>>

\* One completion for each peer is taken from the send queue, whatever its
\* status; a client then writes its END.
Drained(n) ==
    /\ pc[n] = "drain" /\ send_cq[n] >= Cardinality(Peers(n))
    /\ send_cq' = [send_cq EXCEPT ![n] = @ - Cardinality(Peers(n))]
    /\ IF n = Server THEN UNCHANGED tcp ELSE SendTerminationAck(n)
    /\ pc' = [pc EXCEPT ![n] = "wait_end"]
    /\ UNCHANGED <<srq, sq, broken, unacked, recv_cq, armed, events, accepted,
                   qp, pp_cnt, cnt>>

\* pp_server_termination: END of every client, then END to every client;
\* pp_close_ctx.
ServerTermination ==
    /\ pc[Server] = "wait_end" /\ RecvTerminationAck(Server)
    /\ SendTerminationAck(Server)
    /\ Exit(Server, "done")
    /\ UNCHANGED <<nicVars, accepted, pp_cnt, cnt>>

\* MUTANT: a client does not wait for the server's END.
ClientTerminationAtOnce(i) ==
    /\ pc[i] = "wait_end"
    /\ Exit(i, "done")
    /\ UNCHANGED <<nicVars, accepted, tcp, pp_cnt, cnt>>

\* pp_client_termination: END has come back; pp_close_ctx.
ClientTermination(i) ==
    /\ pc[i] = "wait_end" /\ RecvTerminationAck(i)
    /\ Exit(i, "done")
    /\ UNCHANGED <<nicVars, accepted, tcp, pp_cnt, cnt>>

Main(n) ==
    \/ GetCqEvent(n) \/ PollOne(n) \/ PollNone(n) \/ Drained(n)
    \/ n = Server /\ (ServerStart \/ ServerAccept \/ ServerTermination)
    \/ n # Server /\ (ClientStart(n) \/ ClientConnect(n) \/ ClientTermination(n))

-----------------------------------------------------------------------------
(***************************************************************************)
(* The NICs.                                                               *)
(***************************************************************************)
Back(l) == <<l[2], l[1]>>

\* The first message of a link arrives, when the queue pair is connected and
\* the receive queue it names has a receive.
Deliver(l) ==
    LET m == Head(sq[l])
    IN  /\ sq[l] # <<>> /\ l \notin broken
        /\ qp[l] = "rts" /\ qp[Back(l)] = "rts"
        /\ Running(m.to) /\ srq[m.to] > 0
        /\ sq' = [sq EXCEPT ![l] = Tail(@)]
        /\ srq' = [srq EXCEPT ![m.to] = @ - 1]
        /\ recv_cq' = [recv_cq EXCEPT ![m.to] = Append(@, Client(l))]
        /\ events' = [events EXCEPT ![m.to] = IF armed[m.to] THEN @ + 1 ELSE @]
        /\ armed' = [armed EXCEPT ![m.to] = FALSE]
        /\ unacked' = [unacked EXCEPT ![l] = IF m.signaled THEN @ + 1 ELSE @]
        /\ UNCHANGED <<broken, send_cq, mainVars>>

\* The ack of a signaled message arrives.
Acknowledge(l) ==
    /\ unacked[l] > 0 /\ qp[l] = "rts"
    /\ unacked' = [unacked EXCEPT ![l] = @ - 1]
    /\ send_cq' = [send_cq EXCEPT ![l[1]] = @ + 1]
    /\ UNCHANGED <<srq, sq, broken, recv_cq, armed, events, mainVars>>

\* Nobody answers: the queue pair at the other end is gone, or not connected
\* for too long, or the receive queue is gone.  All messages of the link
\* complete in error, signaled or not, and so do those that follow.
GivesUp(l) ==
    \/ l \in broken
    \/ qp[Back(l)] = "destroyed" \/ ~Running(Head(sq[l]).to)
    \/ qp[Back(l)] = "init" /\ "slow" \in faults

SendFails(l) ==
    /\ sq[l] # <<>> /\ qp[l] = "rts" /\ GivesUp(l)
    /\ broken' = broken \cup {l}
    /\ sq' = [sq EXCEPT ![l] = <<>>]
    /\ send_cq' = [send_cq EXCEPT ![l[1]] = @ + Len(sq[l])]
    /\ UNCHANGED <<srq, unacked, recv_cq, armed, events, mainVars>>

Kill(n) ==
    /\ "kill" \in faults /\ Running(n)
    /\ Exit(n, IF pc[n] = "start" THEN "absent" ELSE "killed")
    /\ UNCHANGED <<nicVars, accepted, tcp, pp_cnt, cnt>>

Rest == (\A n \in Nodes : ~Running(n)) /\ UNCHANGED runVars

Next ==
    /\ \/ \E n \in Nodes : Main(n) \/ Kill(n)
       \/ \E l \in Links : Deliver(l) \/ Acknowledge(l) \/ SendFails(l)
       \/ Rest
    /\ UNCHANGED <<args, faults>>

Spec == Init /\ [][Next]_vars

\* Main runs, messages are repeated until they arrive, and acks come.
Fairness ==
    /\ \A n \in 0 .. MaxClients : WF_runVars(n \in Nodes /\ Main(n))
    /\ WF_runVars(\E l \in Links : Deliver(l) \/ Acknowledge(l) \/ SendFails(l))

FairSpec == Spec /\ Fairness

-----------------------------------------------------------------------------
(***************************************************************************)
(* Properties.                                                             *)
(***************************************************************************)
\* The messages for a node that are posted and not delivered, each by its link
\* and its place in the send queue.
Coming(n) ==
    UNION {{<<l, k>> : k \in {k \in 1 .. Len(sq[l]) : sq[l][k].to = n}} : l \in Links}

\* The queues are made for one message of each peer: whatever links messages
\* take, the one that comes finds a receive posted, and neither a completion
\* queue nor a send queue (num_clients * num_tests unsignaled requests) overflows.
QueuesSuffice ==
    /\ TypeOK
    /\ \A n \in Nodes :
          Running(n) /\ pc[n] # "start" =>
              /\ Cardinality(Coming(n)) <= srq[n]
              /\ srq[n] + Len(recv_cq[n]) = Cardinality(Peers(n))
              /\ broken = {} => send_cq[n] <= Cardinality(Peers(n))

\* "to make sure latest daemon's response sent via its target QP destined to
\* an XSRQ created by another client won't be lost": when a program has
\* destroyed its queue pairs, every client has received all its messages, the
\* server has received every message, and no message is on its way through
\* any of them, also if others were killed in the meantime.
NobodyLeavesEarly ==
    \A n \in Nodes :
        pc[n] = "done" =>
            /\ \A m \in Nodes : cnt[m] = Total(m)
            /\ \A l \in Links : sq[l] = <<>>

\* A program never waits for an event while a completion is there and no event
\* is on its way.
NoLostWakeup ==
    \A n \in Nodes : pc[n] = "event" /\ recv_cq[n] # <<>> => events[n] > 0

\* Without faults, once all clients have reached a server that listens,
\* everybody prints "success".
EverybodySucceeds ==
    (faults = {} /\ \A i \in Clients : pc[i] \notin {"start", "absent"})
        ~> (\A n \in Nodes : pc[n] = "done")
=============================================================================
