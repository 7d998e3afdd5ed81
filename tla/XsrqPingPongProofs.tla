-------------------------- MODULE XsrqPingPongProofs --------------------------
(***************************************************************************)
(* The programs of xsrq_pingpong lose no wake-up, their queues suffice,    *)
(* and nobody leaves while a message travels, for any number of clients    *)
(* and messages.                                                           *)
(***************************************************************************)
EXTENDS XsrqPingPong, FiniteSetTheorems, TLAPS

\* What the argument needs of the types.
Types ==
    /\ args \in Args
    /\ DOMAIN pc = Nodes
    /\ srq \in [Nodes -> Nat]
    /\ armed \in [Nodes -> BOOLEAN]
    /\ events \in [Nodes -> Nat]
    /\ recv_cq \in [Nodes -> Seq(Clients)]

\* Nothing comes before a program has set up its queues; from then on, if it is
\* called with --events, its queue is armed or an event is there.
Wakeup ==
    \A n \in Nodes :
        /\ pc[n] = "start" => srq[n] = 0 /\ recv_cq[n] = <<>>
        /\ pc[n] = "event" => UseEvent
        /\ UseEvent /\ pc[n] \notin {"start", "absent"} => armed[n] \/ events[n] > 0

\* Before the loop and in its wait, a completion that is there has raised an
\* event: messages come through other clients' queue pairs before a client has
\* connected its own.
WaitingHasEvent ==
    \A n \in Nodes :
        UseEvent /\ pc[n] \in {"wait_addr", "event"} /\ recv_cq[n] # <<>> => events[n] > 0

WInv == Types /\ Wakeup /\ WaitingHasEvent

USE DEF Types, Wakeup, WaitingHasEvent, WInv

LEMMA InitWInv == Init => WInv
BY DEF Init

\* The nodes are those of the arguments, which no step changes.
LEMMA SameNodes ==
    ASSUME args' = args
    PROVE  Nodes' = Nodes /\ Clients' = Clients /\ UseEvent' = UseEvent /\ Loop' = Loop
BY DEF Nodes, Clients, NumClients, UseEvent, Loop

\* A step of main that leaves the receive queue and its events alone.
LEMMA Elsewhere ==
    ASSUME WInv, args' = args, DOMAIN pc' = Nodes,
           UNCHANGED <<srq, armed, events, recv_cq>>,
           \A n \in Nodes :
               \/ pc'[n] = pc[n]
               \/ pc'[n] = "absent"
               \/ /\ pc[n] \notin {"start", "absent"}
                  /\ \/ pc'[n] \in {"poll", "drain", "wait_end", "done", "killed"}
                     \/ pc'[n] = Loop /\ pc[n] = "wait_addr"
                     \/ pc'[n] = "event" /\ UseEvent /\ recv_cq[n] = <<>>
    PROVE  WInv'
<1>1. Nodes' = Nodes /\ Clients' = Clients /\ UseEvent' = UseEvent
  BY SameNodes
<1>2. Types'
  BY <1>1
<1>3. Wakeup'
  BY <1>1 DEF Loop
<1>4. WaitingHasEvent'
  BY <1>1 DEF Loop
<1> QED
  BY <1>2, <1>3, <1>4

\* A queue has a receive for each peer.
LEMMA PeersAreCounted ==
    ASSUME args \in Args, NEW n \in Nodes
    PROVE  Cardinality(Peers(n)) \in Nat /\ UseEvent \in BOOLEAN
<1>1. args.num_clients \in Nat /\ args.use_event \in BOOLEAN
  BY XsrqAssumption
<1>2. IsFiniteSet(Clients)
  BY <1>1, FS_Interval DEF Clients, NumClients
<1>3. IsFiniteSet({Server})
  BY FS_Singleton
<1> QED
  BY <1>1, <1>2, <1>3, FS_CardinalityType DEF Peers, UseEvent

\* A program sets up its queues, and then listens or connects, if it can.
LEMMA SetUpKeeps ==
    ASSUME WInv, args' = args, NEW m \in Nodes, pc[m] = "start", SetUpQueues(m),
           NEW how \in {"wait_addr", "absent"}, pc' = [pc EXCEPT ![m] = how]
    PROVE  WInv'
<1>1. Nodes' = Nodes /\ Clients' = Clients /\ UseEvent' = UseEvent
  BY SameNodes
<1>2. /\ recv_cq' = recv_cq /\ events' = events
      /\ armed' = [armed EXCEPT ![m] = UseEvent]
      /\ srq' = [srq EXCEPT ![m] = Cardinality(Peers(m))]
  BY DEF SetUpQueues
<1>3. Cardinality(Peers(m)) \in Nat /\ UseEvent \in BOOLEAN
  BY PeersAreCounted
<1>4. Types'
  BY <1>1, <1>2, <1>3
<1>5. Wakeup'
  BY <1>1, <1>2, <1>3
<1>6. WaitingHasEvent'
  BY <1>1, <1>2
<1> QED
  BY <1>4, <1>5, <1>6

LEMMA GetCqEventKeeps ==
    ASSUME WInv, args' = args, NEW n \in Nodes, GetCqEvent(n)
    PROVE  WInv'
<1>1. Nodes' = Nodes /\ Clients' = Clients /\ UseEvent' = UseEvent
  BY SameNodes
<1>2. /\ recv_cq' = recv_cq /\ srq' = srq /\ events[n] > 0
      /\ events' = [events EXCEPT ![n] = events[n] - 1]
      /\ armed' = [armed EXCEPT ![n] = TRUE]
      /\ pc' = [pc EXCEPT ![n] = "poll"]
  BY DEF GetCqEvent
<1>3. Types'
  BY <1>1, <1>2
<1>4. Wakeup'
  BY <1>1, <1>2
<1>5. WaitingHasEvent'
  BY <1>1, <1>2
<1> QED
  BY <1>3, <1>4, <1>5

LEMMA PollOneKeeps ==
    ASSUME WInv, args' = args, NEW n \in Nodes, PollOne(n)
    PROVE  WInv'
<1>1. Nodes' = Nodes /\ Clients' = Clients /\ UseEvent' = UseEvent
  BY SameNodes
<1>2. /\ pc[n] = "poll" /\ pc' = pc /\ recv_cq[n] # <<>>
      /\ recv_cq' = [recv_cq EXCEPT ![n] = Tail(recv_cq[n])]
      /\ srq' = [srq EXCEPT ![n] = srq[n] + 1]
      /\ armed' = armed /\ events' = events
  BY DEF PollOne
<1>3. Types'
  BY <1>1, <1>2
<1>4. Wakeup' /\ WaitingHasEvent'
  BY <1>1, <1>2
<1> QED
  BY <1>3, <1>4

\* The one step that adds a completion: it raises an event if the queue was
\* armed, and there is one already if it was not.
LEMMA DeliverKeeps ==
    ASSUME WInv, args' = args, NEW l \in Links, Deliver(l)
    PROVE  WInv'
<1> DEFINE to == Head(sq[l]).to
<1>1. Nodes' = Nodes /\ Clients' = Clients /\ UseEvent' = UseEvent
  BY SameNodes
<1>2. Client(l) \in Clients
  BY DEF Links, Client, Server, Clients
<1>3. /\ srq[to] > 0 /\ pc' = pc
      /\ srq' = [srq EXCEPT ![to] = srq[to] - 1]
      /\ recv_cq' = [recv_cq EXCEPT ![to] = Append(recv_cq[to], Client(l))]
      /\ events' = [events EXCEPT ![to] = IF armed[to] THEN events[to] + 1 ELSE events[to]]
      /\ armed' = [armed EXCEPT ![to] = FALSE]
  BY DEF Deliver, mainVars
<1>4. Types'
  <2>1. CASE to \in Nodes
    <3>1. srq[to] - 1 \in Nat /\ Append(recv_cq[to], Client(l)) \in Seq(Clients)
      BY <1>2, <1>3, <2>1
    <3>2. (IF armed[to] THEN events[to] + 1 ELSE events[to]) \in Nat
      BY <2>1
    <3> QED
      BY <1>1, <1>3, <3>1, <3>2
  <2>2. CASE to \notin Nodes
    BY <1>1, <1>3, <2>2
  <2> QED
    BY <2>1, <2>2
<1>5. \A n \in Nodes : n # to =>
         /\ srq'[n] = srq[n] /\ recv_cq'[n] = recv_cq[n]
         /\ events'[n] = events[n] /\ armed'[n] = armed[n]
  BY <1>3
<1>6. to \in Nodes => /\ pc[to] # "start"
                      /\ ~armed'[to] /\ events[to] \in Nat /\ events'[to] \in Nat
                      /\ events'[to] >= events[to]
                      /\ armed[to] => events'[to] > 0
  BY <1>3
<1>7. Wakeup'
  BY <1>1, <1>3, <1>5, <1>6
<1>8. WaitingHasEvent'
  BY <1>1, <1>3, <1>5, <1>6
<1> QED
  BY <1>4, <1>7, <1>8

\* The other steps of main.
LEMMA MainKeeps ==
    ASSUME WInv, args' = args, NEW n \in Nodes, Main(n)
    PROVE  WInv'
<1>1. CASE GetCqEvent(n)
  BY <1>1, GetCqEventKeeps
<1>2. CASE PollOne(n)
  BY <1>2, PollOneKeeps
<1>3. CASE PollNone(n)
  <2>1. CASE cnt[n] < Total(n)
    <3>1. UseEvent /\ recv_cq[n] = <<>> /\ pc[n] = "poll" /\ pc' = [pc EXCEPT ![n] = "event"]
      BY <1>3, <2>1 DEF PollNone
    <3>2. UNCHANGED <<srq, armed, events, recv_cq>>
      BY <1>3 DEF PollNone, nicVars
    <3> QED
      BY <3>1, <3>2, Elsewhere
  <2>2. CASE ~(cnt[n] < Total(n))
    <3>1. pc[n] = "poll" /\ pc' = [pc EXCEPT ![n] = "drain"]
      BY <1>3, <2>2 DEF PollNone
    <3>2. UNCHANGED <<srq, armed, events, recv_cq>>
      BY <1>3 DEF PollNone, nicVars
    <3> QED
      BY <3>1, <3>2, Elsewhere
  <2> QED
    BY <2>1, <2>2
<1>4. CASE Drained(n)
  <2>1. /\ pc[n] = "drain" /\ pc' = [pc EXCEPT ![n] = "wait_end"]
        /\ UNCHANGED <<srq, armed, events, recv_cq>>
    BY <1>4 DEF Drained
  <2> QED
    BY <2>1, Elsewhere
<1>5. CASE n = Server /\ ServerStart
  <2>1. pc[n] = "start" /\ SetUpQueues(n) /\ pc' = [pc EXCEPT ![n] = "wait_addr"]
    BY <1>5 DEF ServerStart
  <2> QED
    BY <2>1, SetUpKeeps
<1>6. CASE n = Server /\ ServerAccept
  <2>1. /\ pc[n] = "wait_addr"
        /\ pc' = pc \/ pc' = [pc EXCEPT ![n] = Loop]
        /\ UNCHANGED <<srq, armed, events, recv_cq>>
    BY <1>6 DEF ServerAccept
  <2> QED
    BY <2>1, Elsewhere
<1>7. CASE n = Server /\ ServerTermination
  <2>1. /\ pc[n] = "wait_end" /\ pc' = [pc EXCEPT ![n] = "done"]
        /\ UNCHANGED <<srq, armed, events, recv_cq>>
    BY <1>7 DEF ServerTermination, Exit, nicVars
  <2> QED
    BY <2>1, Elsewhere
<1>8. CASE n # Server /\ ClientStart(n)
  <2>1. /\ pc[n] = "start" /\ SetUpQueues(n)
        /\ pc' = [pc EXCEPT ![n] = "wait_addr"] \/ pc' = [pc EXCEPT ![n] = "absent"]
    BY <1>8 DEF ClientStart, Exit
  <2> QED
    BY <2>1, SetUpKeeps
<1>9. CASE n # Server /\ ClientConnect(n)
  <2>1. /\ pc[n] = "wait_addr" /\ pc' = [pc EXCEPT ![n] = Loop]
        /\ UNCHANGED <<srq, armed, events, recv_cq>>
    BY <1>9 DEF ClientConnect, nicVars
  <2> QED
    BY <2>1, Elsewhere
<1>10. CASE n # Server /\ ClientTermination(n)
  <2>1. /\ pc[n] = "wait_end" /\ pc' = [pc EXCEPT ![n] = "done"]
        /\ UNCHANGED <<srq, armed, events, recv_cq>>
    BY <1>10 DEF ClientTermination, Exit, nicVars
  <2> QED
    BY <2>1, Elsewhere
<1> QED
  BY <1>1, <1>2, <1>3, <1>4, <1>5, <1>6, <1>7, <1>8, <1>9, <1>10 DEF Main

LEMMA NextWInv == WInv /\ [Next]_vars => WInv'
<1> SUFFICES ASSUME WInv, [Next]_vars PROVE WInv'
  OBVIOUS
<1>1. ASSUME UNCHANGED vars PROVE WInv'
  <2>1. UNCHANGED <<args, pc, srq, armed, events, recv_cq>>
    BY <1>1 DEF vars, runVars, nicVars, mainVars
  <2> QED
    BY <2>1, Elsewhere
<1>2. ASSUME args' = args, NEW n \in Nodes, Kill(n) PROVE WInv'
  <2>1. /\ pc' = [pc EXCEPT ![n] = IF pc[n] = "start" THEN "absent" ELSE "killed"]
        /\ pc[n] # "absent"
        /\ UNCHANGED <<srq, armed, events, recv_cq>>
    BY <1>2 DEF Kill, Exit, nicVars, Running, Ended
  <2> QED
    BY <1>2, <2>1, Elsewhere
<1>3. ASSUME args' = args, NEW l \in Links, Acknowledge(l) \/ SendFails(l) PROVE WInv'
  <2>1. UNCHANGED <<pc, srq, armed, events, recv_cq>>
    BY <1>3 DEF Acknowledge, SendFails, mainVars
  <2> QED
    BY <1>3, <2>1, Elsewhere
<1>4. ASSUME args' = args, Rest PROVE WInv'
  <2>1. UNCHANGED <<pc, srq, armed, events, recv_cq>>
    BY <1>4 DEF Rest, runVars, nicVars, mainVars
  <2> QED
    BY <1>4, <2>1, Elsewhere
<1> QED
  BY <1>1, <1>2, <1>3, <1>4, MainKeeps, DeliverKeeps DEF Next

\* The invariant of the wait for events, for any number of clients and
\* messages, killed processes and slow clients.
THEOREM XsrqInvariance == Spec => []WInv
<1> QED
  BY InitWInv, NextWInv, PTL DEF Spec

\* No program sleeps in get_cq_event on a queue with a completion in it without
\* an event on its way, although a message may come before the program has
\* connected its queue pairs.
THEOREM NoProgramSleepsOn == Spec => []NoLostWakeup
<1>1. WInv => NoLostWakeup
  BY DEF NoLostWakeup
<1> QED
  BY <1>1, XsrqInvariance, PTL
-----------------------------------------------------------------------------
(***************************************************************************)
(* The queues suffice, and nobody leaves early.                            *)
(***************************************************************************)
HIDE DEF Types, Wakeup, WaitingHasEvent, WInv

In(x, q) == \E i \in 1 .. Len(q) : q[i] = x
NoRepeats(q) == \A i, j \in 1 .. Len(q) : q[i] = q[j] => i = j

\* A message of a for b is posted and not delivered; one whose completion was
\* asked for.
Has(a, b) ==
    \E l \in Links : l[1] = a /\ \E k \in 1 .. Len(sq[l]) : sq[l][k].to = b
Asks(a, b) ==
    \E l \in Links :
        l[1] = a /\ \E k \in 1 .. Len(sq[l]) : sq[l][k].to = b /\ sq[l][k].signaled

\* A message is for a peer of its sender, and there is one for each peer, on
\* whatever link it travels.
Destinations ==
    \A l \in Links : \A k \in 1 .. Len(sq[l]) : sq[l][k].to \in Peers(l[1])
OneForEach ==
    \A l, m \in Links : \A j \in 1 .. Len(sq[l]), k \in 1 .. Len(sq[m]) :
        l[1] = m[1] /\ sq[l][j].to = sq[m][k].to => l = m /\ j = k

\* The server and a client have one message between them: it is posted by the
\* server, or has come to the client, or is posted by the client, or has come to
\* the server.
Token(c) ==
    /\ Has(Server, c) => ~Has(c, Server) /\ ~In(c, recv_cq[Server]) /\ recv_cq[c] = <<>>
    /\ Has(c, Server) => ~In(c, recv_cq[Server]) /\ recv_cq[c] = <<>>
    /\ In(c, recv_cq[Server]) => recv_cq[c] = <<>>
    /\ Len(recv_cq[c]) <= 1

\* The messages a node has received or has coming are some of those that were
\* posted for it.
Senders(n) == {p \in Peers(n) : Has(p, n)}
PostedFor(n) == {x \in Peers(n) \X (1 .. NumTests) : x[2] <= pp_cnt[<<x[1], n>>]}
Received(n) ==
    cnt[n] + Len(recv_cq[n]) + Cardinality(Senders(n)) <= Cardinality(PostedFor(n))

\* A completion is asked for when the last message for a peer is posted.
Asked(n) == {p \in Peers(n) : Asks(n, p)}
Unacked(n) == UNION {{<<l, k>> : k \in 1 .. unacked[l]} : l \in {l \in Links : l[1] = n}}
LastPosted(n) == {p \in Peers(n) : pp_cnt[<<n, p>>] = NumTests}
Signals(n) ==
    /\ IsFiniteSet(Unacked(n))
    /\ broken = {} =>
          Cardinality(Asked(n)) + Cardinality(Unacked(n)) + send_cq[n]
              <= Cardinality(LastPosted(n))

\* A receive is posted, or has completed and is not polled.
Receives(n) ==
    /\ srq[n] + Len(recv_cq[n]) <= NumClients
    /\ pc[n] = "start" => srq[n] = 0 /\ recv_cq[n] = <<>>
    /\ pc[n] \notin {"start", "absent"} =>
          srq[n] + Len(recv_cq[n]) = Cardinality(Peers(n))

\* Nothing happens before the server has accepted all clients.
Before ==
    pc[Server] \in {"start", "wait_addr"} =>
        /\ \A l \in Links : sq[l] = <<>> /\ pp_cnt[l] = 0 /\ unacked[l] = 0
        /\ \A n \in Nodes : recv_cq[n] = <<>> /\ cnt[n] = 0 /\ send_cq[n] = 0

\* "END" is written by a node that has received all its messages, and by the
\* server when all clients have written it.
Finish ==
    /\ \A n \in Nodes :
          /\ pc[n] \in {"drain", "wait_end", "done"} => cnt[n] >= Total(n)
          /\ pc[n] = "done" => RecvTerminationAck(n)
    /\ \A l \in Links :
          tcp[l] = "end" => /\ pc[l[1]] \in {"wait_end", "done", "killed"}
                            /\ cnt[l[1]] >= Total(l[1])
                            /\ l[1] = Server => RecvTerminationAck(Server)

-----------------------------------------------------------------------------
\* The arguments do not change, and name the same nodes and links.
LEMMA SameNames ==
    ASSUME args' = args
    PROVE  /\ Nodes' = Nodes /\ Clients' = Clients /\ Links' = Links
           /\ NumClients' = NumClients /\ NumTests' = NumTests
           /\ UseEvent' = UseEvent /\ Loop' = Loop
           /\ \A n : Peers(n)' = Peers(n) /\ Total(n)' = Total(n)
BY DEF Nodes, Clients, Links, NumClients, NumTests, UseEvent, Loop, Peers, Total, Server

\* A client has one peer, and the server has all clients.
LEMMA Names ==
    ASSUME args \in Args
    PROVE  /\ NumClients \in Nat \ {0} /\ NumTests \in Nat \ {0}
           /\ Clients \subseteq Nat \ {0}
           /\ \A c \in Clients : c \in Nodes /\ c # Server /\ Peers(c) = {Server}
           /\ Server \in Nodes /\ Peers(Server) = Clients
           /\ \A n \in Nodes : n = Server \/ n \in Clients
           /\ \A n \in Nodes : \A p \in Peers(n) :
                 p \in Nodes /\ <<n, p>> \in Links /\ <<p, n>> \in Links /\ n \in Peers(p)
           /\ \A l \in Links :
                 l[1] \in Nodes /\ l[2] \in Peers(l[1]) /\ l = <<l[1], l[2]>>
           /\ \A l \in Links : l[1] # Server => l = <<l[1], Server>>
<1>1. NumClients \in Nat \ {0} /\ NumTests \in Nat \ {0}
  BY XsrqAssumption DEF NumClients, NumTests
<1>2. Clients \subseteq Nat \ {0}
  BY <1>1 DEF Clients
<1>3. \A c \in Clients : c \in Nodes /\ c # Server /\ Peers(c) = {Server}
  BY <1>2 DEF Nodes, Server, Peers
<1>4. Server \in Nodes /\ Peers(Server) = Clients
  BY DEF Nodes, Server, Peers
<1>5. \A n \in Nodes : n = Server \/ n \in Clients
  BY DEF Nodes
<1>6. \A n \in Nodes : \A p \in Peers(n) :
         p \in Nodes /\ <<n, p>> \in Links /\ <<p, n>> \in Links /\ n \in Peers(p)
  BY <1>3, <1>4, <1>5 DEF Links
<1>7. \A l \in Links :
         l[1] \in Nodes /\ l[2] \in Peers(l[1]) /\ l = <<l[1], l[2]>>
  BY <1>3, <1>4 DEF Links
<1>8. \A l \in Links : l[1] # Server => l = <<l[1], Server>>
  BY <1>3, <1>4, <1>7, <1>5
<1> QED
  BY <1>1, <1>2, <1>3, <1>4, <1>5, <1>6, <1>7, <1>8

LEMMA Numbers ==
    ASSUME args \in Args, NEW n \in Nodes
    PROVE  /\ IsFiniteSet(Peers(n)) /\ Cardinality(Peers(n)) \in 1 .. NumClients
           /\ Cardinality(Peers(Server)) = NumClients
           /\ n # Server => Cardinality(Peers(n)) = 1
           /\ Total(n) \in Nat \ {0}
<1>1. NumClients \in Nat \ {0} /\ NumTests \in Nat \ {0}
  BY Names
<1>2. IsFiniteSet(Clients) /\ Cardinality(Clients) = NumClients
  <2>1. 1 \in Int /\ NumClients \in Int /\ ~(1 > NumClients)
    BY <1>1
  <2> QED
    BY <2>1, FS_Interval DEF Clients
<1>3. IsFiniteSet({Server}) /\ Cardinality({Server}) = 1
  BY FS_Singleton
<1>4. /\ IsFiniteSet(Peers(n)) /\ Cardinality(Peers(n)) \in 1 .. NumClients
      /\ Cardinality(Peers(Server)) = NumClients
      /\ n # Server => Cardinality(Peers(n)) = 1
  BY <1>1, <1>2, <1>3 DEF Peers
<1>5. \A k \in Nat \ {0} : k * NumTests \in Nat \ {0}
  BY <1>1
<1> QED
  BY <1>4, <1>5, <1>1 DEF Total

-----------------------------------------------------------------------------
\* What is posted and delivered, as Has and Asks see it.  A message is added
\* to a link when none is there for its peer.
LEMMA MessagePosted ==
    ASSUME args \in Args, sq \in [Links -> Seq(Message)], args' = args,
           Destinations, OneForEach,
           NEW v \in Links, NEW b \in Peers(v[1]), NEW s \in BOOLEAN,
           ~Has(v[1], b),
           sq' = [sq EXCEPT ![v] = Append(sq[v], [to |-> b, signaled |-> s])]
    PROVE  /\ sq' \in [Links -> Seq(Message)]
           /\ Destinations' /\ OneForEach'
           /\ \A x, y : Has(x, y)' <=> Has(x, y) \/ (x = v[1] /\ y = b)
           /\ \A x, y : Asks(x, y)' <=> Asks(x, y) \/ (x = v[1] /\ y = b /\ s)
<1> DEFINE m == [to |-> b, signaled |-> s]
           q == Append(sq[v], m)
           end == Len(sq[v]) + 1
<1>1. Links' = Links /\ \A n : Peers(n)' = Peers(n)
  BY SameNames
<1>2. m \in Message /\ m.to = b /\ m.signaled = s
  BY Names DEF Message
<1> HIDE DEF m
<1>3. /\ q \in Seq(Message) /\ Len(q) = end /\ end \in Nat /\ Len(sq[v]) \in Nat
      /\ \A k \in 1 .. Len(sq[v]) : q[k] = sq[v][k]
      /\ q[end] = m
  BY <1>2
<1>4. sq'[v] = q /\ \A l \in Links : l # v => sq'[l] = sq[l]
  BY DEF m
<1>5. sq' \in [Links -> Seq(Message)]
  BY <1>3 DEF m
<1> HIDE DEF q
<1>6. \A l \in Links : \A k \in 1 .. Len(sq[l]) :
         k \in 1 .. Len(sq'[l]) /\ sq'[l][k] = sq[l][k]
  BY <1>3, <1>4
<1>7. \A l \in Links : \A k \in 1 .. Len(sq'[l]) :
         \/ k \in 1 .. Len(sq[l]) /\ sq'[l][k] = sq[l][k]
         \/ l = v /\ k = end /\ sq'[l][k] = m
  BY <1>3, <1>4
<1>8. end \in 1 .. Len(sq'[v]) /\ sq'[v][end] = m
  BY <1>3, <1>4
<1> HIDE DEF end
<1>9. Destinations'
  BY <1>1, <1>2, <1>7 DEF Destinations
<1>10. \A l \in Links : \A k \in 1 .. Len(sq[l]) : ~(l[1] = v[1] /\ sq[l][k].to = b)
  BY DEF Has
<1>11. OneForEach'
  <2> SUFFICES ASSUME NEW l \in Links, NEW j \in Links,
                      NEW x \in 1 .. Len(sq'[l]), NEW y \in 1 .. Len(sq'[j]),
                      l[1] = j[1], sq'[l][x].to = sq'[j][y].to
               PROVE  l = j /\ x = y
    BY <1>1 DEF OneForEach
  <2>1. CASE /\ x \in 1 .. Len(sq[l]) /\ sq'[l][x] = sq[l][x]
             /\ y \in 1 .. Len(sq[j]) /\ sq'[j][y] = sq[j][y]
    BY <2>1 DEF OneForEach
  <2>2. CASE l = v /\ x = end /\ sq'[l][x] = m
    BY <2>2, <1>2, <1>7, <1>10
  <2>3. CASE j = v /\ y = end /\ sq'[j][y] = m
    BY <2>3, <1>2, <1>7, <1>10
  <2> QED
    BY <2>1, <2>2, <2>3, <1>7
<1>12. ASSUME NEW x, NEW y
       PROVE  Has(x, y)' <=> Has(x, y) \/ (x = v[1] /\ y = b)
  BY <1>1, <1>2, <1>6, <1>7, <1>8 DEF Has
<1>13. ASSUME NEW x, NEW y
       PROVE  Asks(x, y)' <=> Asks(x, y) \/ (x = v[1] /\ y = b /\ s)
  BY <1>1, <1>2, <1>6, <1>7, <1>8 DEF Asks
<1> QED
  BY <1>5, <1>9, <1>11, <1>12, <1>13

\* The first message of a link is delivered.
LEMMA MessageDelivered ==
    ASSUME args \in Args, sq \in [Links -> Seq(Message)], args' = args,
           Destinations, OneForEach,
           NEW v \in Links, sq[v] # <<>>, sq' = [sq EXCEPT ![v] = Tail(sq[v])]
    PROVE  /\ sq' \in [Links -> Seq(Message)]
           /\ Destinations' /\ OneForEach'
           /\ Has(v[1], Head(sq[v]).to) /\ Head(sq[v]).to \in Peers(v[1])
           /\ Head(sq[v]).signaled <=> Asks(v[1], Head(sq[v]).to)
           /\ \A x, y : Has(x, y)' <=> Has(x, y) /\ ~(x = v[1] /\ y = Head(sq[v]).to)
           /\ \A x, y : Asks(x, y)' <=> Asks(x, y) /\ ~(x = v[1] /\ y = Head(sq[v]).to)
<1> DEFINE m == Head(sq[v])
           q == Tail(sq[v])
<1>1. Links' = Links /\ \A n : Peers(n)' = Peers(n)
  BY SameNames
<1>2. /\ q \in Seq(Message) /\ Len(sq[v]) \in Nat \ {0} /\ Len(q) = Len(sq[v]) - 1
      /\ \A k \in 1 .. Len(q) : q[k] = sq[v][k + 1]
      /\ m = sq[v][1] /\ m \in Message
  OBVIOUS
<1>3. sq'[v] = q /\ \A l \in Links : l # v => sq'[l] = sq[l]
  OBVIOUS
<1>4. sq' \in [Links -> Seq(Message)]
  BY <1>2
<1> HIDE DEF q, m
<1>5. ASSUME NEW l \in Links, NEW k \in 1 .. Len(sq'[l])
      PROVE  \E j \in 1 .. Len(sq[l]) :
                 /\ sq'[l][k] = sq[l][j]
                 /\ l = v => j = k + 1 /\ j # 1
                 /\ l # v => j = k
  <2>1. CASE l = v
    <3>1. k + 1 \in 1 .. Len(sq[l]) /\ sq'[l][k] = sq[l][k + 1] /\ k + 1 # 1
      BY <2>1, <1>2, <1>3
    <3> QED
      BY <3>1, <2>1
  <2>2. CASE l # v
    BY <2>2, <1>3
  <2> QED
    BY <2>1, <2>2
<1>6. ASSUME NEW l \in Links, NEW j \in 1 .. Len(sq[l]), ~(l = v /\ j = 1)
      PROVE  \E k \in 1 .. Len(sq'[l]) : sq'[l][k] = sq[l][j]
  <2>1. CASE l = v
    <3>1. j - 1 \in 1 .. Len(q) /\ q[j - 1] = sq[v][j]
      BY <2>1, <1>2, <1>6
    <3> QED
      BY <3>1, <2>1, <1>3
  <2>2. CASE l # v
    BY <2>2, <1>3
  <2> QED
    BY <2>1, <2>2
<1>7. 1 \in 1 .. Len(sq[v])
  BY <1>2
<1>8. Destinations'
  BY <1>1, <1>5 DEF Destinations
<1>9. OneForEach'
  <2> SUFFICES ASSUME NEW l \in Links, NEW j \in Links,
                      NEW x \in 1 .. Len(sq'[l]), NEW y \in 1 .. Len(sq'[j]),
                      l[1] = j[1], sq'[l][x].to = sq'[j][y].to
               PROVE  l = j /\ x = y
    BY <1>1 DEF OneForEach
  <2>1. PICK a \in 1 .. Len(sq[l]) :
           sq'[l][x] = sq[l][a] /\ (l = v => a = x + 1) /\ (l # v => a = x)
    BY <1>5
  <2>2. PICK b \in 1 .. Len(sq[j]) :
           sq'[j][y] = sq[j][b] /\ (j = v => b = y + 1) /\ (j # v => b = y)
    BY <1>5
  <2>3. l = j /\ a = b
    BY <2>1, <2>2 DEF OneForEach
  <2>4. CASE l = v
    <3>1. x + 1 = y + 1 /\ l = j
      BY <2>1, <2>2, <2>3, <2>4
    <3>2. x \in Int /\ y \in Int
      OBVIOUS
    <3> QED
      BY <3>1, <3>2
  <2>5. CASE l # v
    BY <2>1, <2>2, <2>3, <2>5
  <2> QED
    BY <2>4, <2>5
<1>10. \A l \in Links : \A k \in 1 .. Len(sq[l]) :
          l[1] = v[1] /\ sq[l][k].to = m.to => l = v /\ k = 1
  BY <1>2, <1>7 DEF OneForEach
<1>11. Has(v[1], m.to) /\ m.to \in Peers(v[1])
  BY <1>2, <1>7 DEF Has, Destinations
<1>12. m.signaled <=> Asks(v[1], m.to)
  BY <1>2, <1>7, <1>10 DEF Asks
<1>13. ASSUME NEW x, NEW y
       PROVE  Has(x, y)' <=> Has(x, y) /\ ~(x = v[1] /\ y = m.to)
  <2>1. ASSUME Has(x, y)' PROVE Has(x, y) /\ ~(x = v[1] /\ y = m.to)
    <3>1. PICK l \in Links : l[1] = x /\ \E k \in 1 .. Len(sq'[l]) : sq'[l][k].to = y
      BY <2>1, <1>1 DEF Has
    <3>2. PICK k \in 1 .. Len(sq'[l]) : sq'[l][k].to = y
      BY <3>1
    <3>3. PICK j \in 1 .. Len(sq[l]) : sq'[l][k] = sq[l][j] /\ (l = v => j # 1)
      BY <1>5
    <3> QED
      BY <3>1, <3>2, <3>3, <1>10 DEF Has
  <2>2. ASSUME Has(x, y), ~(x = v[1] /\ y = m.to) PROVE Has(x, y)'
    <3>1. PICK l \in Links : l[1] = x /\ \E k \in 1 .. Len(sq[l]) : sq[l][k].to = y
      BY <2>2 DEF Has
    <3>2. PICK j \in 1 .. Len(sq[l]) : sq[l][j].to = y
      BY <3>1
    <3>3. ~(l = v /\ j = 1)
      BY <2>2, <3>1, <3>2, <1>2
    <3>4. PICK k \in 1 .. Len(sq'[l]) : sq'[l][k] = sq[l][j]
      BY <3>3, <1>6
    <3> QED
      BY <3>1, <3>2, <3>4, <1>1 DEF Has
  <2> QED
    BY <2>1, <2>2
<1>14. ASSUME NEW x, NEW y
       PROVE  Asks(x, y)' <=> Asks(x, y) /\ ~(x = v[1] /\ y = m.to)
  <2>1. ASSUME Asks(x, y)' PROVE Asks(x, y) /\ ~(x = v[1] /\ y = m.to)
    <3>1. PICK l \in Links :
             l[1] = x /\ \E k \in 1 .. Len(sq'[l]) : sq'[l][k].to = y /\ sq'[l][k].signaled
      BY <2>1, <1>1 DEF Asks
    <3>2. PICK k \in 1 .. Len(sq'[l]) : sq'[l][k].to = y /\ sq'[l][k].signaled
      BY <3>1
    <3>3. PICK j \in 1 .. Len(sq[l]) : sq'[l][k] = sq[l][j] /\ (l = v => j # 1)
      BY <1>5
    <3> QED
      BY <3>1, <3>2, <3>3, <1>10 DEF Asks
  <2>2. ASSUME Asks(x, y), ~(x = v[1] /\ y = m.to) PROVE Asks(x, y)'
    <3>1. PICK l \in Links :
             l[1] = x /\ \E k \in 1 .. Len(sq[l]) : sq[l][k].to = y /\ sq[l][k].signaled
      BY <2>2 DEF Asks
    <3>2. PICK j \in 1 .. Len(sq[l]) : sq[l][j].to = y /\ sq[l][j].signaled
      BY <3>1
    <3>3. ~(l = v /\ j = 1)
      BY <2>2, <3>1, <3>2, <1>2
    <3>4. PICK k \in 1 .. Len(sq'[l]) : sq'[l][k] = sq[l][j]
      BY <3>3, <1>6
    <3> QED
      BY <3>1, <3>2, <3>4, <1>1 DEF Asks
  <2> QED
    BY <2>1, <2>2
<1> QED
  BY <1>4, <1>8, <1>9, <1>11, <1>12, <1>13, <1>14 DEF m

\* A link gives up, and its messages are gone.
LEMMA MessagesDropped ==
    ASSUME args \in Args, sq \in [Links -> Seq(Message)], args' = args,
           Destinations, OneForEach,
           NEW v \in Links, sq' = [sq EXCEPT ![v] = <<>>]
    PROVE  /\ sq' \in [Links -> Seq(Message)]
           /\ Destinations' /\ OneForEach'
           /\ \A x, y : Has(x, y)' => Has(x, y)
<1>1. Links' = Links /\ \A n : Peers(n)' = Peers(n)
  BY SameNames
<1>2. <<>> \in Seq(Message) /\ Len(<<>>) = 0
  OBVIOUS
<1>3. \A l \in Links : \A k \in 1 .. Len(sq'[l]) :
         k \in 1 .. Len(sq[l]) /\ sq'[l][k] = sq[l][k]
  BY <1>2
<1>4. sq' \in [Links -> Seq(Message)]
  BY <1>2
<1>5. Destinations'
  BY <1>1, <1>3 DEF Destinations
<1>6. OneForEach'
  BY <1>1, <1>3 DEF OneForEach
<1>7. ASSUME NEW x, NEW y, Has(x, y)' PROVE Has(x, y)
  BY <1>1, <1>3, <1>7 DEF Has
<1> QED
  BY <1>4, <1>5, <1>6, <1>7

\* The sets that are counted are finite.
LEMMA Finite ==
    ASSUME args \in Args, NEW n \in Nodes
    PROVE  /\ IsFiniteSet(Senders(n)) /\ Cardinality(Senders(n)) \in Nat
           /\ IsFiniteSet(Asked(n)) /\ Cardinality(Asked(n)) \in Nat
           /\ IsFiniteSet(LastPosted(n)) /\ Cardinality(LastPosted(n)) \in Nat
           /\ IsFiniteSet(PostedFor(n)) /\ Cardinality(PostedFor(n)) \in Nat
           /\ Cardinality(PostedFor(n)) <= Total(n)
           /\ Cardinality(LastPosted(n)) <= Cardinality(Peers(n))
<1>1. IsFiniteSet(Peers(n))
  BY Numbers
<1>2. /\ Senders(n) \in SUBSET Peers(n) /\ Asked(n) \in SUBSET Peers(n)
      /\ LastPosted(n) \in SUBSET Peers(n)
  BY DEF Senders, Asked, LastPosted
<1>3. /\ IsFiniteSet(Senders(n)) /\ IsFiniteSet(Asked(n)) /\ IsFiniteSet(LastPosted(n))
      /\ Cardinality(LastPosted(n)) <= Cardinality(Peers(n))
  BY <1>1, <1>2, FS_Subset
<1>4. IsFiniteSet(1 .. NumTests) /\ Cardinality(1 .. NumTests) = NumTests
  <2>1. 1 \in Int /\ NumTests \in Int /\ ~(1 > NumTests)
    BY Names
  <2> QED
    BY <2>1, FS_Interval
<1> DEFINE all == Peers(n) \X (1 .. NumTests)
<1>5. IsFiniteSet(all) /\ Cardinality(all) = Total(n)
  BY <1>1, <1>4, FS_Product DEF Total
<1>6. PostedFor(n) \in SUBSET all
  BY DEF PostedFor
<1> HIDE DEF all
<1>7. IsFiniteSet(PostedFor(n)) /\ Cardinality(PostedFor(n)) <= Total(n)
  BY <1>5, <1>6, FS_Subset
<1> QED
  BY <1>3, <1>7, FS_CardinalityType

-----------------------------------------------------------------------------
\* What a step leaves alone at a node.
LEMMA ReceivedSame ==
    ASSUME args' = args, NEW n \in Nodes, Received(n),
           cnt'[n] = cnt[n], recv_cq'[n] = recv_cq[n],
           \A p \in Peers(n) : /\ Has(p, n)' <=> Has(p, n)
                               /\ pp_cnt'[<<p, n>>] = pp_cnt[<<p, n>>]
    PROVE  Received(n)'
<1>1. Peers(n)' = Peers(n) /\ NumTests' = NumTests
  BY SameNames
<1>2. Senders(n)' = Senders(n)
  BY <1>1 DEF Senders
<1>3. PostedFor(n)' = PostedFor(n)
  BY <1>1 DEF PostedFor
<1> QED
  BY <1>2, <1>3 DEF Received

LEMMA SignalsSame ==
    ASSUME args' = args, NEW n \in Nodes, Signals(n),
           broken' = broken, send_cq'[n] = send_cq[n],
           \A l \in Links : l[1] = n => unacked'[l] = unacked[l],
           \A p \in Peers(n) : /\ Asks(n, p)' <=> Asks(n, p)
                               /\ pp_cnt'[<<n, p>>] = pp_cnt[<<n, p>>]
    PROVE  Signals(n)'
<1>1. Peers(n)' = Peers(n) /\ NumTests' = NumTests /\ Links' = Links
  BY SameNames
<1>2. Asked(n)' = Asked(n)
  BY <1>1 DEF Asked
<1>3. LastPosted(n)' = LastPosted(n)
  BY <1>1 DEF LastPosted
<1>4. Unacked(n)' = Unacked(n)
  BY <1>1 DEF Unacked
<1> QED
  BY <1>2, <1>3, <1>4 DEF Signals

\* No message is posted or delivered.
LEMMA NoMessage ==
    ASSUME args' = args, sq' = sq, Destinations, OneForEach
    PROVE  /\ Destinations' /\ OneForEach'
           /\ \A x, y : (Has(x, y)' <=> Has(x, y)) /\ (Asks(x, y)' <=> Asks(x, y))
<1>1. Links' = Links /\ \A n : Peers(n)' = Peers(n)
  BY SameNames
<1>2. Destinations' /\ OneForEach'
  BY <1>1 DEF Destinations, OneForEach
<1>3. ASSUME NEW x, NEW y PROVE (Has(x, y)' <=> Has(x, y)) /\ (Asks(x, y)' <=> Asks(x, y))
  BY <1>1 DEF Has, Asks
<1> QED
  BY <1>2, <1>3

\* The part of the invariant that is about messages.
Traffic ==
    /\ Destinations /\ OneForEach /\ NoRepeats(recv_cq[Server])
    /\ \A c \in Clients : Token(c)
    /\ \A n \in Nodes : Received(n) /\ Signals(n)

LEMMA TrafficSame ==
    ASSUME args \in Args, Traffic, args' = args,
           UNCHANGED <<sq, broken, unacked, send_cq, recv_cq, pp_cnt, cnt>>
    PROVE  Traffic'
<1>1. Nodes' = Nodes /\ Clients' = Clients
  BY SameNames
<1>2. /\ Destinations' /\ OneForEach'
      /\ \A x, y : (Has(x, y)' <=> Has(x, y)) /\ (Asks(x, y)' <=> Asks(x, y))
  BY NoMessage DEF Traffic
<1>3. NoRepeats(recv_cq[Server])'
  BY DEF Traffic, NoRepeats, Server
<1>4. ASSUME NEW c \in Clients PROVE Token(c)'
  <2>1. Token(c)
    BY DEF Traffic
  <2> QED
    BY <2>1, <1>2 DEF Token, In, Server
<1>5. ASSUME NEW n \in Nodes PROVE Received(n)' /\ Signals(n)'
  BY <1>2, ReceivedSame, SignalsSame DEF Traffic
<1> QED
  BY <1>1, <1>2, <1>3, <1>4, <1>5 DEF Traffic

-----------------------------------------------------------------------------
\* A set that gains or loses an element.
LEMMA OneMore ==
    ASSUME NEW S, NEW T, NEW x, x \notin S, IsFiniteSet(S), T = S \cup {x}
    PROVE  /\ IsFiniteSet(T) /\ Cardinality(T) = Cardinality(S) + 1
           /\ Cardinality(S) \in Nat /\ Cardinality(T) \in Nat
BY FS_AddElement, FS_CardinalityType

LEMMA OneLess ==
    ASSUME NEW S, NEW T, NEW x, x \in S, IsFiniteSet(S), T = S \ {x}
    PROVE  /\ IsFiniteSet(T) /\ Cardinality(T) = Cardinality(S) - 1
           /\ Cardinality(S) \in Nat /\ Cardinality(T) \in Nat
BY FS_RemoveElement, FS_CardinalityType

\* A queue of one.
LEMMA Singleton ==
    ASSUME NEW T, NEW s \in Seq(T), s # <<>>, Len(s) = 1
    PROVE  Tail(s) = <<>>
<1> DEFINE t == Tail(s)
<1>1. t \in Seq(T) /\ Len(t) = 0
  OBVIOUS
<1> HIDE DEF t
<1>2. t = <<>>
  BY <1>1
<1> QED
  BY <1>2 DEF t

\* A message that is delivered is received, on whatever link it came.
LEMMA DeliverTraffic ==
    ASSUME TypeOK, Traffic, args' = args, NEW l \in Links, Deliver(l)
    PROVE  Traffic'
<1> PICK a : a = l[1]
  OBVIOUS
<1> PICK n : n = Head(sq[l]).to
  OBVIOUS
<1> PICK s : s = Head(sq[l]).signaled
  OBVIOUS
<1>1. /\ args \in Args /\ sq \in [Links -> Seq(Message)] /\ unacked \in [Links -> Nat]
      /\ recv_cq \in [Nodes -> Seq(Clients)] /\ cnt \in [Nodes -> Nat]
      /\ send_cq \in [Nodes -> Nat]
  BY DEF TypeOK
<1>2. /\ sq[l] # <<>> /\ sq' = [sq EXCEPT ![l] = Tail(sq[l])]
      /\ recv_cq' = [recv_cq EXCEPT ![n] = Append(recv_cq[n], Client(l))]
      /\ unacked' = [unacked EXCEPT ![l] = IF s THEN unacked[l] + 1 ELSE unacked[l]]
      /\ UNCHANGED <<broken, send_cq, cnt, pp_cnt>>
  BY DEF Deliver, mainVars
<1>3. /\ Destinations' /\ OneForEach'
      /\ Has(a, n) /\ n \in Peers(a)
      /\ s <=> Asks(a, n)
      /\ \A x, y : Has(x, y)' <=> Has(x, y) /\ ~(x = a /\ y = n)
      /\ \A x, y : Asks(x, y)' <=> Asks(x, y) /\ ~(x = a /\ y = n)
  BY <1>1, <1>2, MessageDelivered DEF Traffic
<1>4. s \in BOOLEAN
  <2>1. Head(sq[l]) \in Message
    BY <1>1, <1>2
  <2> QED
    BY <2>1 DEF Message
<1>5. a \in Nodes /\ n \in Nodes /\ a \in Peers(n) /\ l = <<a, l[2]>> /\ a # n
  <2>1. a \in Nodes /\ l = <<a, l[2]>>
    BY <1>1, Names
  <2>2. n \in Nodes /\ a \in Peers(n)
    BY <1>1, <1>3, <2>1, Names
  <2>3. a # n
    <3>1. CASE a = Server
      BY <1>1, <1>3, <3>1, Names
    <3>2. CASE a \in Clients
      BY <1>1, <1>3, <3>2, Names
    <3> QED
      BY <1>1, <2>1, <3>1, <3>2, Names
  <2> QED
    BY <2>1, <2>2, <2>3
<1>6. Client(l) \in Clients /\ (n = Server => Client(l) = a)
  BY <1>1, <1>3, <1>5, Names DEF Client
<1>7. /\ Nodes' = Nodes /\ Clients' = Clients /\ Links' = Links
      /\ \A x : Peers(x)' = Peers(x)
      /\ NumTests' = NumTests
  BY SameNames
<1>8. /\ recv_cq'[n] = Append(recv_cq[n], Client(l))
      /\ \A x \in Nodes : x # n => recv_cq'[x] = recv_cq[x]
      /\ Len(recv_cq[n]) \in Nat /\ Len(recv_cq'[n]) = Len(recv_cq[n]) + 1
      /\ \A x : In(x, recv_cq'[n]) <=> In(x, recv_cq[n]) \/ x = Client(l)
  <2>1. recv_cq[n] \in Seq(Clients)
    BY <1>1, <1>5
  <2> DEFINE q == Append(recv_cq[n], Client(l))
  <2>2. /\ Len(q) = Len(recv_cq[n]) + 1 /\ Len(recv_cq[n]) \in Nat
        /\ \A k \in 1 .. Len(recv_cq[n]) : q[k] = recv_cq[n][k]
        /\ q[Len(recv_cq[n]) + 1] = Client(l)
    BY SMTT(30), <2>1, <1>6
  <2>3. recv_cq'[n] = q /\ \A x \in Nodes : x # n => recv_cq'[x] = recv_cq[x]
    BY <1>1, <1>2, <1>5
  <2> HIDE DEF q
  <2>4. ASSUME NEW x PROVE In(x, q) <=> In(x, recv_cq[n]) \/ x = Client(l)
    <3>1. \A k \in 1 .. Len(q) : k \in 1 .. Len(recv_cq[n]) \/ k = Len(recv_cq[n]) + 1
      BY <2>2
    <3>2. \A k \in 1 .. Len(recv_cq[n]) : k \in 1 .. Len(q)
      BY <2>2
    <3>3. Len(recv_cq[n]) + 1 \in 1 .. Len(q)
      BY <2>2
    <3>4. ASSUME In(x, q) PROVE In(x, recv_cq[n]) \/ x = Client(l)
      <4>1. PICK k \in 1 .. Len(q) : q[k] = x
        BY <3>4 DEF In
      <4> QED
        BY <3>1, <4>1, <2>2 DEF In
    <3>5. ASSUME In(x, recv_cq[n]) PROVE In(x, q)
      BY <3>2, <3>5, <2>2 DEF In
    <3>6. ASSUME x = Client(l) PROVE In(x, q)
      BY <3>3, <3>6, <2>2 DEF In
    <3> QED
      BY <3>4, <3>5, <3>6
  <2> QED
    BY <2>2, <2>3, <2>4 DEF q
<1>9. ASSUME NEW c \in Clients PROVE Token(c)'
  <2>1. Token(c) /\ c \in Nodes /\ c # Server /\ Server \in Nodes /\ Server' = Server
    BY <1>1, Names DEF Traffic, Server
  <2>2. CASE n = Server
    <3>1. /\ recv_cq'[c] = recv_cq[c]
          /\ In(c, recv_cq'[Server]) <=> In(c, recv_cq[Server]) \/ c = a
          /\ Has(c, Server)' <=> Has(c, Server) /\ c # a
          /\ Has(Server, c)' <=> Has(Server, c)
      BY <1>3, <1>6, <1>8, <2>1, <2>2
    <3>2. c = a => Has(c, Server)
      BY <1>3, <2>2
    <3> QED
      BY <2>1, <3>1, <3>2 DEF Token
  <2>3. CASE n # Server
    <3>1. a = Server
      BY <1>1, <1>3, <1>5, <2>3, Names
    <3>2. /\ recv_cq'[Server] = recv_cq[Server]
          /\ Has(c, Server)' <=> Has(c, Server)
          /\ Has(Server, c)' <=> Has(Server, c) /\ c # n
      BY <1>3, <1>8, <2>1, <2>3, <3>1
    <3>3. CASE c = n
      <4>1. Has(Server, c) /\ recv_cq[c] = <<>>
        BY <1>3, <2>1, <3>1, <3>3 DEF Token
      <4>2. Len(recv_cq'[c]) <= 1
        BY <4>1, <1>8, <3>3
      <4> QED
        BY <2>1, <3>2, <3>3, <4>1, <4>2 DEF Token
    <3>4. CASE c # n
      BY <2>1, <3>2, <3>4, <1>8 DEF Token
    <3> QED
      BY <3>3, <3>4
  <2> QED
    BY <2>2, <2>3
<1>10. NoRepeats(recv_cq[Server])'
  <2>1. Server' = Server /\ Server \in Nodes /\ NoRepeats(recv_cq[Server])
    BY <1>1, Names DEF Server, Traffic
  <2>2. CASE n # Server
    BY <1>8, <2>1, <2>2 DEF NoRepeats
  <2>3. CASE n = Server
    <3>1. a \in Clients /\ ~In(a, recv_cq[Server])
      <4>1. a \in Clients
        BY <1>1, <1>5, <2>3, Names
      <4> QED
        BY <1>3, <2>3, <4>1 DEF Traffic, Token
    <3>2. recv_cq'[Server] = Append(recv_cq[Server], a) /\ recv_cq[Server] \in Seq(Clients)
      BY <1>1, <1>6, <1>8, <2>1, <2>3
    <3> DEFINE q == recv_cq[Server]
               r == Append(q, a)
    <3>3. /\ Len(r) = Len(q) + 1 /\ Len(q) \in Nat
          /\ \A k \in 1 .. Len(q) : r[k] = q[k]
          /\ r[Len(q) + 1] = a
      BY <3>1, <3>2
    <3>4. NoRepeats(q) /\ ~In(a, q)
      BY <2>1, <3>1
    <3> HIDE DEF q, r
    <3>5. ASSUME NEW i \in 1 .. Len(r), NEW j \in 1 .. Len(r), r[i] = r[j] PROVE i = j
      <4>1. CASE i \in 1 .. Len(q) /\ j \in 1 .. Len(q)
        BY <4>1, <3>3, <3>4, <3>5 DEF NoRepeats
      <4>2. CASE i \in 1 .. Len(q) /\ j = Len(q) + 1
        BY <4>2, <3>3, <3>4, <3>5 DEF In
      <4>3. CASE j \in 1 .. Len(q) /\ i = Len(q) + 1
        BY <4>3, <3>3, <3>4, <3>5 DEF In
      <4>4. CASE i = Len(q) + 1 /\ j = Len(q) + 1
        BY <4>4
      <4> QED
        BY <3>3, <4>1, <4>2, <4>3, <4>4
    <3>6. NoRepeats(r)
      BY <3>5 DEF NoRepeats
    <3> QED
      BY <3>2, <3>6, <2>1 DEF q, r
  <2> QED
    BY <2>2, <2>3
<1>11. ASSUME NEW x \in Nodes PROVE Received(x)'
  <2>1. CASE x # n
    BY <1>2, <1>3, <1>8, <2>1, ReceivedSame DEF Traffic
  <2>2. CASE x = n
    <3>1. Senders(n)' = Senders(n) \ {a}
      BY <1>3, <1>7 DEF Senders
    <3>2. a \in Senders(n) /\ IsFiniteSet(Senders(n)) /\ Cardinality(Senders(n)) \in Nat
      BY <1>1, <1>3, <1>5, Finite DEF Senders
    <3>3. Cardinality(Senders(n)') = Cardinality(Senders(n)) - 1
      BY <3>1, <3>2, OneLess
    <3>4. PostedFor(n)' = PostedFor(n)
      BY <1>2, <1>7 DEF PostedFor
    <3>5. /\ Received(n) /\ cnt'[n] = cnt[n] /\ cnt[n] \in Nat
          /\ Cardinality(PostedFor(n)) \in Nat
      BY <1>1, <1>2, <1>5, Finite DEF Traffic
    <3>6. cnt[n] + (Len(recv_cq[n]) + 1) + (Cardinality(Senders(n)) - 1)
              <= Cardinality(PostedFor(n))
      <4>1. cnt[n] + Len(recv_cq[n]) + Cardinality(Senders(n)) <= Cardinality(PostedFor(n))
        BY <3>5 DEF Received
      <4>2. /\ cnt[n] \in Nat /\ Len(recv_cq[n]) \in Nat
            /\ Cardinality(Senders(n)) \in Nat /\ Cardinality(PostedFor(n)) \in Nat
        BY <3>2, <3>5, <1>8
      <4> QED
        BY SMTT(30), <4>1, <4>2
    <3>7. Received(n)'
      BY <3>3, <3>4, <3>5, <3>6, <1>8 DEF Received
    <3> QED
      BY <2>2, <3>7
  <2> QED
    BY <2>1, <2>2
<1>12. ASSUME NEW x \in Nodes PROVE Signals(x)'
  <2>1. CASE x # a
    <3>1. \A k \in Links : k[1] = x => unacked'[k] = unacked[k]
      BY <1>1, <1>2, <1>5, <2>1
    <3> QED
      BY <1>2, <1>3, <2>1, <3>1, SignalsSame DEF Traffic
  <2>2. CASE x = a /\ ~s
    <3>1. ~Asks(a, n) /\ unacked' = unacked
      BY <1>1, <1>2, <1>3, <2>2
    <3>2. \A p : Asks(a, p)' <=> Asks(a, p)
      BY <1>3, <3>1
    <3> QED
      BY <1>2, <2>2, <3>1, <3>2, SignalsSame DEF Traffic
  <2>3. CASE x = a /\ s
    <3>1. Asked(a)' = Asked(a) \ {n} /\ n \in Asked(a)
      BY <1>3, <1>7, <2>3 DEF Asked
    <3>2. IsFiniteSet(Asked(a)) /\ Cardinality(Asked(a)) \in Nat
      BY <1>1, <1>5, Finite
    <3>3. Cardinality(Asked(a)') = Cardinality(Asked(a)) - 1
      BY <3>1, <3>2, OneLess
    <3>4. unacked' = [unacked EXCEPT ![l] = unacked[l] + 1] /\ unacked[l] \in Nat
      BY <1>1, <1>2, <2>3
    <3>5. Unacked(a)' = Unacked(a) \cup {<<l, unacked[l] + 1>>}
      <4>1. l[1] = a
        OBVIOUS
      <4>2. 1 .. unacked'[l] = (1 .. unacked[l]) \cup {unacked[l] + 1}
        BY <1>1, <3>4
      <4>3. \A k \in Links : k # l => unacked'[k] = unacked[k]
        BY <1>1, <3>4
      <4> QED
        BY <1>7, <4>1, <4>2, <4>3 DEF Unacked
    <3>6. <<l, unacked[l] + 1>> \notin Unacked(a)
      BY <3>4 DEF Unacked
    <3>7. Signals(a) /\ IsFiniteSet(Unacked(a))
      BY <1>5 DEF Traffic, Signals
    <3>8. /\ IsFiniteSet(Unacked(a)') /\ Cardinality(Unacked(a)) \in Nat
          /\ Cardinality(Unacked(a)') = Cardinality(Unacked(a)) + 1
      BY <3>5, <3>6, <3>7, OneMore
    <3>9. LastPosted(a)' = LastPosted(a)
      BY <1>2, <1>7 DEF LastPosted
    <3>10. send_cq'[a] = send_cq[a] /\ send_cq[a] \in Nat /\ broken' = broken
      BY <1>1, <1>2, <1>5
    <3> QED
      BY <2>3, <3>2, <3>3, <3>7, <3>8, <3>9, <3>10 DEF Signals
  <2> QED
    BY <1>4, <2>1, <2>2, <2>3
<1> QED
  BY <1>3, <1>7, <1>9, <1>10, <1>11, <1>12 DEF Traffic

\* An answer is posted for a peer that has none under way: the one message
\* that was polled.
LEMMA PollOneTraffic ==
    ASSUME TypeOK, Traffic, args' = args, NEW n \in Nodes, PollOne(n)
    PROVE  Traffic' /\ sq' \in [Links -> Seq(Message)] /\ pp_cnt' \in [Links -> 0 .. NumTests]
<1>1. /\ args \in Args /\ sq \in [Links -> Seq(Message)] /\ unacked \in [Links -> Nat]
      /\ recv_cq \in [Nodes -> Seq(Clients)] /\ cnt \in [Nodes -> Nat]
      /\ send_cq \in [Nodes -> Nat] /\ pp_cnt \in [Links -> 0 .. NumTests]
  BY DEF TypeOK
<1>2. /\ NumClients \in Nat \ {0} /\ NumTests \in Nat \ {0}
      /\ Server \in Nodes /\ Server' = Server
  BY <1>1, Names DEF Server
<1>3. /\ Nodes' = Nodes /\ Clients' = Clients /\ Links' = Links
      /\ \A x : Peers(x)' = Peers(x)
      /\ NumTests' = NumTests
  BY SameNames
<1> PICK h : h = Head(recv_cq[n])
  OBVIOUS
<1> PICK peer : peer = FindQp(n, h)
  OBVIOUS
<1> PICK l : l = <<n, peer>>
  OBVIOUS
<1> DEFINE q == recv_cq[n]
           posts == pp_cnt[l] < NumTests
<1>4. /\ q # <<>> /\ q \in Seq(Clients) /\ h \in Clients
      /\ recv_cq' = [recv_cq EXCEPT ![n] = Tail(q)]
      /\ cnt' = [cnt EXCEPT ![n] = cnt[n] + 1]
      /\ IF posts THEN Post(n, peer) ELSE UNCHANGED <<sq, pp_cnt>>
      /\ UNCHANGED <<broken, unacked, send_cq>>
  <2>1. q # <<>> /\ q \in Seq(Clients)
    BY <1>1 DEF PollOne
  <2>2. h \in Clients
    BY <2>1
  <2> QED
    BY <2>1, <2>2 DEF PollOne
<1>5. /\ peer \in Peers(n) /\ l \in Links /\ l[1] = n /\ peer \in Nodes /\ n \in Peers(peer)
      /\ n = Server => peer = h
      /\ n # Server => n \in Clients /\ peer = Server
  <2>1. n = Server => peer = h
    BY DEF FindQp
  <2>2. n # Server => n \in Clients /\ peer = Server
    BY <1>1, Names DEF FindQp
  <2>3. peer \in Peers(n)
    <3>1. CASE n = Server
      BY <1>1, <1>4, <2>1, <3>1, Names
    <3>2. CASE n # Server
      BY <1>1, <2>2, <3>2, Names
    <3> QED
      BY <3>1, <3>2
  <2> QED
    BY <1>1, <2>1, <2>2, <2>3, Names
<1>6. \A x \in Nodes : \A y \in Peers(x) : x # y
  <2> SUFFICES ASSUME NEW x \in Nodes, NEW y \in Peers(x) PROVE x # y
    OBVIOUS
  <2>1. CASE x = Server
    BY <1>1, <2>1, Names
  <2>2. CASE x \in Clients
    BY <1>1, <2>2, Names
  <2> QED
    BY <1>1, <2>1, <2>2, Names
<1>7. /\ Len(q) \in Nat \ {0} /\ Len(Tail(q)) = Len(q) - 1
      /\ \A k \in 1 .. Len(Tail(q)) : k + 1 \in 1 .. Len(q) /\ Tail(q)[k] = q[k + 1]
      /\ h = q[1] /\ 1 \in 1 .. Len(q)
  BY <1>4
<1>8. /\ recv_cq'[n] = Tail(q)
      /\ \A x \in Nodes : x # n => recv_cq'[x] = recv_cq[x]
  BY <1>1, <1>4
<1>9. In(h, q)
  BY <1>7 DEF In
<1>10. ~Has(n, peer)
  <2>1. CASE n = Server
    BY <1>4, <1>5, <1>9, <2>1 DEF Traffic, Token
  <2>2. CASE n # Server
    BY <1>4, <1>5, <2>2 DEF Traffic, Token
  <2> QED
    BY <2>1, <2>2
<1>11. posts =>
       \E v \in Links, s \in BOOLEAN :
          /\ v[1] = n
          /\ s <=> pp_cnt[l] + 1 = NumTests
          /\ sq' = [sq EXCEPT ![v] = Append(sq[v], [to |-> peer, signaled |-> s])]
          /\ pp_cnt' = [pp_cnt EXCEPT ![l] = pp_cnt[l] + 1]
  <2> SUFFICES ASSUME posts
               PROVE  \E v \in Links, s \in BOOLEAN :
                         /\ v[1] = n
                         /\ s <=> pp_cnt[l] + 1 = NumTests
                         /\ sq' = [sq EXCEPT ![v] = Append(sq[v], [to |-> peer, signaled |-> s])]
                         /\ pp_cnt' = [pp_cnt EXCEPT ![l] = pp_cnt[l] + 1]
    OBVIOUS
  <2> DEFINE v == IF n = Server THEN Via(peer, pp_cnt[l]) ELSE l
             s == pp_cnt[l] + 1 >= NumTests
  <2>1. v \in Links /\ v[1] = n
    <3>1. CASE n = Server
      <4>1. peer \in 1 .. NumClients /\ pp_cnt[l] \in Nat
        BY <1>1, <1>2, <1>4, <1>5, <3>1 DEF Clients
      <4>2. (peer - 1 + pp_cnt[l]) \in Nat
        BY <4>1
      <4>3. (peer - 1 + pp_cnt[l]) % NumClients \in 0 .. NumClients - 1
        BY <4>2, <1>2
      <4>4. ((peer - 1 + pp_cnt[l]) % NumClients) + 1 \in Clients
        BY <4>3, <1>2 DEF Clients
      <4> QED
        BY <3>1, <4>4 DEF Via, Links
    <3>2. CASE n # Server
      BY <1>5, <3>2
    <3> QED
      BY <3>1, <3>2
  <2>2. s \in BOOLEAN /\ (s <=> pp_cnt[l] + 1 = NumTests)
    <3>1. pp_cnt[l] \in Nat
      BY <1>1, <1>2, <1>5
    <3> QED
      BY <3>1, <1>2
  <2>3. /\ sq' = [sq EXCEPT ![v] = Append(sq[v], [to |-> peer, signaled |-> s])]
        /\ pp_cnt' = [pp_cnt EXCEPT ![l] = pp_cnt[l] + 1]
    BY <1>4 DEF Post
  <2> QED
    BY <2>1, <2>2, <2>3
<1>12. /\ sq' \in [Links -> Seq(Message)] /\ pp_cnt' \in [Links -> 0 .. NumTests]
       /\ Destinations' /\ OneForEach'
       /\ \A x, y : Has(x, y)' <=> Has(x, y) \/ (posts /\ x = n /\ y = peer)
       /\ \A x, y : Asks(x, y)' <=>
             Asks(x, y) \/ (posts /\ x = n /\ y = peer /\ pp_cnt[l] + 1 = NumTests)
       /\ \A k \in Links : pp_cnt'[k] = IF posts /\ k = l THEN pp_cnt[l] + 1 ELSE pp_cnt[k]
  <2>1. CASE posts
    <3>1. PICK v \in Links, s \in BOOLEAN :
             /\ v[1] = n
             /\ s <=> pp_cnt[l] + 1 = NumTests
             /\ sq' = [sq EXCEPT ![v] = Append(sq[v], [to |-> peer, signaled |-> s])]
             /\ pp_cnt' = [pp_cnt EXCEPT ![l] = pp_cnt[l] + 1]
      BY <1>11, <2>1
    <3>2. /\ peer \in Peers(v[1]) /\ ~Has(v[1], peer)
          /\ Destinations /\ OneForEach
      BY <1>5, <1>10, <3>1 DEF Traffic
    <3>7. sq' = [sq EXCEPT ![v] = Append(sq[v], [to |-> peer, signaled |-> s])]
      BY <3>1
    <3>8. args \in Args /\ sq \in [Links -> Seq(Message)]
      BY <1>1
    <3>3. /\ sq' \in [Links -> Seq(Message)]
          /\ Destinations' /\ OneForEach'
          /\ \A x, y : Has(x, y)' <=> Has(x, y) \/ (x = v[1] /\ y = peer)
          /\ \A x, y : Asks(x, y)' <=> Asks(x, y) \/ (x = v[1] /\ y = peer /\ s)
      BY <3>2, <3>7, <3>8, MessagePosted
    <3>4. pp_cnt[l] + 1 \in 0 .. NumTests
      BY SMTT(30), <1>1, <1>2, <1>5, <2>1
    <3>5. pp_cnt' \in [Links -> 0 .. NumTests]
      BY <1>1, <3>1, <3>4
    <3>6. \A k \in Links : pp_cnt'[k] = IF k = l THEN pp_cnt[l] + 1 ELSE pp_cnt[k]
      BY <1>1, <3>1
    <3> QED
      BY <2>1, <3>1, <3>3, <3>5, <3>6
  <2>2. CASE ~posts
    <3>1. sq' = sq /\ pp_cnt' = pp_cnt
      BY <1>4, <2>2
    <3> QED
      BY <1>1, <2>2, <3>1, NoMessage DEF Traffic
  <2> QED
    BY <2>1, <2>2
<1> HIDE DEF posts
<1>13. ASSUME NEW c \in Clients PROVE Token(c)'
  <2>1. Token(c) /\ c \in Nodes /\ c # Server
    BY <1>1, Names DEF Traffic
  <2>2. CASE n = Server
    <3>1. /\ recv_cq'[c] = recv_cq[c] /\ peer = h /\ n # c
          /\ Has(c, Server)' <=> Has(c, Server)
          /\ Has(Server, c)' <=> Has(Server, c) \/ (posts /\ c = h)
      BY <1>5, <1>8, <1>12, <2>1, <2>2
    <3>2. In(c, Tail(q)) => In(c, recv_cq[Server]) /\ c # h
      <4>1. In(c, Tail(q)) => In(c, q)
        BY <1>7 DEF In
      <4>2. ~In(h, Tail(q))
        <5> SUFFICES ASSUME NEW k \in 1 .. Len(Tail(q)), Tail(q)[k] = h PROVE FALSE
          BY DEF In
        <5>1. k + 1 \in 1 .. Len(q) /\ q[k + 1] = q[1] /\ 1 \in 1 .. Len(q)
          BY <1>7
        <5>2. NoRepeats(q)
          BY <2>2 DEF Traffic
        <5>3. k + 1 = 1
          BY <5>1, <5>2 DEF NoRepeats
        <5> QED
          BY <5>3
      <4> QED
        BY <2>2, <4>1, <4>2
    <3>3. recv_cq'[Server] = Tail(q)
      BY <1>8, <2>2
    <3>4. c = h => ~Has(c, Server) /\ recv_cq[c] = <<>>
      BY <1>9, <2>1, <2>2 DEF Token
    <3> QED
      BY <2>1, <3>1, <3>2, <3>3, <3>4, <1>2 DEF Token
  <2>3. CASE n # Server
    <3>1. /\ recv_cq'[Server] = recv_cq[Server] /\ peer = Server
          /\ Has(Server, c)' <=> Has(Server, c)
          /\ Has(c, Server)' <=> Has(c, Server) \/ (posts /\ c = n)
      BY <1>2, <1>5, <1>8, <1>12, <2>1, <2>3
    <3>2. CASE c = n
      <4>1. ~Has(Server, c) /\ ~In(c, recv_cq[Server]) /\ Len(q) <= 1
        BY <1>4, <2>1, <3>2 DEF Token
      <4>2. Tail(q) = <<>>
        <5>1. Len(q) = 1
          <6>1. Len(q) \in Nat /\ Len(q) # 0
            BY <1>7
          <6>2. Len(q) <= 1
            BY <4>1
          <6>3. \A k \in Nat : k # 0 /\ k <= 1 => k = 1
            OBVIOUS
          <6> QED
            BY <6>1, <6>2, <6>3
        <5> QED
          BY <1>4, <5>1, Singleton
      <4>3. recv_cq'[c] = <<>>
        BY <1>8, <3>2, <4>2
      <4>4. Len(recv_cq'[c]) <= 1
        BY <4>3
      <4> QED
        BY <3>1, <4>1, <4>3, <4>4, <1>2 DEF Token
    <3>3. CASE c # n
      BY <1>2, <1>8, <2>1, <3>1, <3>3 DEF Token
    <3> QED
      BY <3>2, <3>3
  <2> QED
    BY <2>2, <2>3
<1>14. NoRepeats(recv_cq[Server])'
  <2>1. NoRepeats(recv_cq[Server])
    BY DEF Traffic
  <2>2. CASE n = Server
    <3>1. NoRepeats(Tail(q))
      <4> SUFFICES ASSUME NEW i \in 1 .. Len(Tail(q)), NEW j \in 1 .. Len(Tail(q)),
                          Tail(q)[i] = Tail(q)[j]
                   PROVE  i = j
        BY DEF NoRepeats
      <4>1. i + 1 \in 1 .. Len(q) /\ j + 1 \in 1 .. Len(q) /\ q[i + 1] = q[j + 1]
        BY <1>7
      <4>2. i + 1 = j + 1
        BY <2>1, <2>2, <4>1 DEF NoRepeats
      <4> QED
        BY <4>2
    <3>2. recv_cq'[Server'] = Tail(q)
      BY <1>2, <1>8, <2>2
    <3> QED
      BY <3>1, <3>2
  <2>3. CASE n # Server
    <3>1. recv_cq'[Server'] = recv_cq[Server]
      BY <1>2, <1>8, <2>3
    <3> QED
      BY <2>1, <3>1
  <2> QED
    BY <2>2, <2>3
<1> HIDE DEF q
<1>15. ASSUME NEW x \in Nodes PROVE Received(x)'
  <2>0. Received(x)
    BY DEF Traffic
  <2>1. CASE x = n
    <3>1. \A p \in Peers(n) : Has(p, n)' <=> Has(p, n)
      BY <1>5, <1>6, <1>12
    <3>2. \A p \in Peers(n) : <<p, n>> \in Links /\ <<p, n>> # l
      BY <1>1, <1>6, Names
    <3>3. \A p \in Peers(n) : pp_cnt'[<<p, n>>] = pp_cnt[<<p, n>>]
      BY <1>12, <3>2
    <3>4. Senders(n)' = Senders(n) /\ PostedFor(n)' = PostedFor(n)
      BY <1>3, <3>1, <3>3 DEF Senders, PostedFor
    <3>5. cnt'[n] = cnt[n] + 1 /\ Len(recv_cq'[n]) = Len(recv_cq[n]) - 1
      BY <1>1, <1>4, <1>7, <1>8 DEF q
    <3>6. cnt[n] \in Nat /\ Len(recv_cq[n]) \in Nat
      BY <1>1, <1>7 DEF q
    <3>7. cnt'[n] + Len(recv_cq'[n]) = cnt[n] + Len(recv_cq[n])
      <4>1. (cnt[n] + 1) + (Len(recv_cq[n]) - 1) = cnt[n] + Len(recv_cq[n])
        BY <3>6
      <4> QED
        BY <3>5, <4>1
    <3> QED
      BY <2>0, <2>1, <3>4, <3>7 DEF Received
  <2>2. CASE x = peer /\ posts
    <3>1. Senders(x)' = Senders(x) \cup {n} /\ n \notin Senders(x)
      BY <1>3, <1>5, <1>10, <1>12, <2>2 DEF Senders
    <3>2. IsFiniteSet(Senders(x)) /\ IsFiniteSet(PostedFor(x))
      BY <1>1, Finite
    <3>3. /\ Cardinality(Senders(x)') = Cardinality(Senders(x)) + 1
          /\ Cardinality(Senders(x)) \in Nat
      BY <3>1, <3>2, OneMore
    <3>4. pp_cnt[l] \in Nat /\ pp_cnt[l] < NumTests /\ l = <<n, x>>
      BY <1>1, <1>2, <1>5, <2>2 DEF posts
    <3>5. \A p \in Peers(x) : <<p, x>> \in Links /\ (<<p, x>> = l <=> p = n)
      BY <1>1, <3>4, Names
    <3>6. \A p \in Peers(x) :
             pp_cnt'[<<p, x>>] = IF p = n THEN pp_cnt[l] + 1 ELSE pp_cnt[<<p, x>>]
      BY <1>12, <2>2, <3>5
    <3>12. PICK e : e = <<n, pp_cnt[l] + 1>>
      OBVIOUS
    <3>7. PostedFor(x)' = PostedFor(x) \cup {e} /\ e \notin PostedFor(x)
      <4>1. n \in Peers(x) /\ pp_cnt[l] + 1 \in 1 .. NumTests
        BY <1>2, <1>5, <2>2, <3>4
      <4>2. ASSUME NEW p \in Peers(x), NEW k \in 1 .. NumTests
            PROVE  k <= pp_cnt'[<<p, x>>] <=>
                      k <= pp_cnt[<<p, x>>] \/ (p = n /\ k = pp_cnt[l] + 1)
        BY <3>4, <3>6
      <4>3. ~(pp_cnt[l] + 1 <= pp_cnt[l])
        BY <3>4
      <4> QED
        BY <1>3, <3>4, <3>12, <4>1, <4>2, <4>3 DEF PostedFor
    <3>8. /\ Cardinality(PostedFor(x)') = Cardinality(PostedFor(x)) + 1
          /\ Cardinality(PostedFor(x)) \in Nat
      BY <3>2, <3>7, OneMore
    <3>9. cnt'[x] = cnt[x] /\ recv_cq'[x] = recv_cq[x] /\ cnt[x] \in Nat /\ Len(recv_cq[x]) \in Nat
      <4>1. x # n
        BY <1>5, <1>6, <2>2
      <4>2. recv_cq[x] \in Seq(Clients)
        BY <1>1
      <4> QED
        BY <1>1, <1>4, <1>8, <4>1, <4>2
    <3>10. cnt[x] + Len(recv_cq[x]) + Cardinality(Senders(x)) <= Cardinality(PostedFor(x))
      BY <2>0 DEF Received
    <3>11. cnt[x] + Len(recv_cq[x]) + (Cardinality(Senders(x)) + 1)
              <= Cardinality(PostedFor(x)) + 1
      BY <3>3, <3>8, <3>9, <3>10
    <3> QED
      BY <3>3, <3>8, <3>9, <3>11 DEF Received
  <2>3. CASE x # n /\ ~(x = peer /\ posts)
    <3>1. \A p \in Peers(x) : Has(p, x)' <=> Has(p, x)
      BY <1>12, <2>3
    <3>2. \A p \in Peers(x) : <<p, x>> \in Links /\ (<<p, x>> = l => x = peer)
      BY <1>1, Names
    <3>3. \A p \in Peers(x) : pp_cnt'[<<p, x>>] = pp_cnt[<<p, x>>]
      BY <1>12, <2>3, <3>2
    <3>4. cnt'[x] = cnt[x] /\ recv_cq'[x] = recv_cq[x]
      BY <1>1, <1>4, <1>8, <2>3
    <3> QED
      BY <2>0, <3>1, <3>3, <3>4, ReceivedSame
  <2> QED
    BY <2>1, <2>2, <2>3
<1>16. ASSUME NEW x \in Nodes PROVE Signals(x)'
  <2>0. Signals(x)
    BY DEF Traffic
  <2>1. \A p \in Peers(x) : <<x, p>> \in Links /\ (<<x, p>> = l <=> x = n /\ p = peer)
    BY <1>1, Names
  <2>2. broken' = broken /\ send_cq'[x] = send_cq[x] /\ send_cq[x] \in Nat /\ unacked' = unacked
    BY <1>1, <1>4
  <2>3. CASE ~(x = n /\ posts)
    <3>1. \A p \in Peers(x) : pp_cnt'[<<x, p>>] = pp_cnt[<<x, p>>]
      BY <1>12, <2>1, <2>3
    <3>2. \A p \in Peers(x) : Asks(x, p)' <=> Asks(x, p)
      BY <1>12, <2>3
    <3> QED
      BY <2>0, <2>2, <3>1, <3>2, SignalsSame
  <2>4. CASE x = n /\ posts
    <3>1. Unacked(x)' = Unacked(x)
      BY <1>3, <2>2 DEF Unacked
    <3>2. pp_cnt[l] \in Nat /\ pp_cnt[l] < NumTests
      BY <1>1, <1>2, <1>5, <2>4 DEF posts
    <3>3. \A p \in Peers(x) :
             pp_cnt'[<<x, p>>] = IF p = peer THEN pp_cnt[l] + 1 ELSE pp_cnt[<<x, p>>]
      BY <1>12, <2>1, <2>4
    <3>4. peer \in Peers(x) /\ l = <<x, peer>>
      BY <1>5, <2>4
    <3>5. CASE pp_cnt[l] + 1 # NumTests
      <4>1. Asked(x)' = Asked(x)
        BY <1>3, <1>12, <3>5 DEF Asked
      <4>2. LastPosted(x)' = LastPosted(x)
        <5>1. \A p \in Peers(x) : pp_cnt'[<<x, p>>] = NumTests <=> pp_cnt[<<x, p>>] = NumTests
          BY <3>2, <3>3, <3>4, <3>5
        <5> QED
          BY <1>3, <5>1 DEF LastPosted
      <4> QED
        BY <2>0, <2>2, <3>1, <4>1, <4>2 DEF Signals
    <3>6. CASE pp_cnt[l] + 1 = NumTests
      <4>1. ~Asks(x, peer)
        BY <1>10, <2>4 DEF Asks, Has
      <4>2. Asked(x)' = Asked(x) \cup {peer} /\ peer \notin Asked(x)
        BY <1>3, <1>12, <2>4, <3>4, <3>6, <4>1 DEF Asked
      <4>3. LastPosted(x)' = LastPosted(x) \cup {peer} /\ peer \notin LastPosted(x)
        <5>1. \A p \in Peers(x) :
                 pp_cnt'[<<x, p>>] = NumTests <=> pp_cnt[<<x, p>>] = NumTests \/ p = peer
          BY <3>3, <3>6
        <5>2. pp_cnt[<<x, peer>>] # NumTests
          BY <3>2, <3>4
        <5> QED
          BY <1>3, <3>4, <5>1, <5>2 DEF LastPosted
      <4>4. IsFiniteSet(Asked(x)) /\ IsFiniteSet(LastPosted(x))
        BY <1>1, Finite
      <4>5. /\ Cardinality(Asked(x)') = Cardinality(Asked(x)) + 1
            /\ Cardinality(Asked(x)) \in Nat
        BY <4>2, <4>4, OneMore
      <4>6. /\ Cardinality(LastPosted(x)') = Cardinality(LastPosted(x)) + 1
            /\ Cardinality(LastPosted(x)) \in Nat
        BY <4>3, <4>4, OneMore
      <4>7. IsFiniteSet(Unacked(x)) /\ Cardinality(Unacked(x)) \in Nat
        BY <2>0, FS_CardinalityType DEF Signals
      <4>8. broken = {} =>
               (Cardinality(Asked(x)) + 1) + Cardinality(Unacked(x)) + send_cq[x]
                  <= Cardinality(LastPosted(x)) + 1
        <5>1. broken = {} =>
                 Cardinality(Asked(x)) + Cardinality(Unacked(x)) + send_cq[x]
                    <= Cardinality(LastPosted(x))
          BY <2>0 DEF Signals
        <5> QED
          BY <5>1, <4>5, <4>6, <4>7, <2>2
      <4> QED
        BY <2>2, <3>1, <4>5, <4>6, <4>7, <4>8 DEF Signals
    <3> QED
      BY <3>5, <3>6
  <2> QED
    BY <2>3, <2>4
<1> QED
  BY <1>3, <1>12, <1>13, <1>14, <1>15, <1>16 DEF Traffic

\* A link gives up: its messages will not be received, and the send queues
\* have completed in error.
LEMMA SendFailsTraffic ==
    ASSUME TypeOK, Traffic, args' = args, NEW l \in Links, SendFails(l)
    PROVE  Traffic' /\ sq' \in [Links -> Seq(Message)]
<1>1. /\ args \in Args /\ sq \in [Links -> Seq(Message)]
      /\ recv_cq \in [Nodes -> Seq(Clients)] /\ cnt \in [Nodes -> Nat]
  BY DEF TypeOK
<1>2. /\ sq' = [sq EXCEPT ![l] = <<>>] /\ broken' # {}
      /\ UNCHANGED <<unacked, recv_cq, pp_cnt, cnt>>
  BY DEF SendFails, mainVars
<1>3. /\ Nodes' = Nodes /\ Clients' = Clients /\ Links' = Links
      /\ \A x : Peers(x)' = Peers(x)
      /\ NumTests' = NumTests /\ Server' = Server
  BY SameNames DEF Server
<1>4. Destinations /\ OneForEach
  BY DEF Traffic
<1>5. /\ sq' \in [Links -> Seq(Message)] /\ Destinations' /\ OneForEach'
      /\ \A x, y : Has(x, y)' => Has(x, y)
  BY <1>1, <1>2, <1>4, MessagesDropped
<1>6. ASSUME NEW c \in Clients PROVE Token(c)'
  <2>1. Token(c)
    BY DEF Traffic
  <2> QED
    BY <2>1, <1>2, <1>3, <1>5 DEF Token
<1>7. NoRepeats(recv_cq[Server])'
  BY <1>2, <1>3 DEF Traffic
<1>8. ASSUME NEW n \in Nodes PROVE Received(n)'
  <2>1. PostedFor(n)' = PostedFor(n)
    BY <1>2, <1>3 DEF PostedFor
  <2>2. Senders(n)' \in SUBSET Senders(n)
    BY <1>3, <1>5 DEF Senders
  <2>3. IsFiniteSet(Senders(n)) /\ Cardinality(Senders(n)) \in Nat
    BY <1>1, Finite
  <2>4. Cardinality(Senders(n)') \in Nat /\ Cardinality(Senders(n)') <= Cardinality(Senders(n))
    BY <2>2, <2>3, FS_Subset, FS_CardinalityType
  <2>5. cnt[n] \in Nat /\ Len(recv_cq[n]) \in Nat /\ Cardinality(PostedFor(n)) \in Nat
    <3>1. recv_cq[n] \in Seq(Clients)
      BY <1>1
    <3>2. Len(recv_cq[n]) \in Nat
      BY <3>1
    <3> QED
      BY <1>1, <3>2, Finite
  <2>6. cnt[n] + Len(recv_cq[n]) + Cardinality(Senders(n)) <= Cardinality(PostedFor(n))
    BY DEF Traffic, Received
  <2>7. cnt[n] + Len(recv_cq[n]) + Cardinality(Senders(n)') <= Cardinality(PostedFor(n))
    BY <2>3, <2>4, <2>5, <2>6
  <2> QED
    BY <1>2, <2>1, <2>7 DEF Received
<1>9. ASSUME NEW n \in Nodes PROVE Signals(n)'
  <2>1. Unacked(n)' = Unacked(n)
    BY <1>2, <1>3 DEF Unacked
  <2>2. IsFiniteSet(Unacked(n))
    BY DEF Traffic, Signals
  <2> QED
    BY <1>2, <2>1, <2>2 DEF Signals
<1> QED
  BY <1>3, <1>5, <1>6, <1>7, <1>8, <1>9 DEF Traffic

\* A completion of a send is moved, or taken from its queue.
LEMMA SendDoneTraffic ==
    ASSUME TypeOK, Traffic, args' = args, NEW n \in Nodes,
           UNCHANGED <<sq, broken, recv_cq, pp_cnt, cnt>>,
           \A l \in Links : l[1] # n => unacked'[l] = unacked[l],
           \A x \in Nodes : x # n => send_cq'[x] = send_cq[x],
           IsFiniteSet(Unacked(n)'), send_cq'[n] \in Nat,
           Cardinality(Unacked(n)') + send_cq'[n] <= Cardinality(Unacked(n)) + send_cq[n]
    PROVE  Traffic'
<1>1. args \in Args /\ send_cq \in [Nodes -> Nat]
  BY DEF TypeOK
<1>2. /\ Nodes' = Nodes /\ Clients' = Clients /\ Links' = Links
      /\ \A x : Peers(x)' = Peers(x)
      /\ NumTests' = NumTests /\ Server' = Server
  BY SameNames DEF Server
<1>3. /\ Destinations' /\ OneForEach'
      /\ \A x, y : (Has(x, y)' <=> Has(x, y)) /\ (Asks(x, y)' <=> Asks(x, y))
  BY NoMessage DEF Traffic
<1>4. ASSUME NEW c \in Clients PROVE Token(c)'
  <2>1. Token(c)
    BY DEF Traffic
  <2> QED
    BY <2>1, <1>2, <1>3 DEF Token
<1>5. NoRepeats(recv_cq[Server])'
  BY <1>2 DEF Traffic
<1>6. ASSUME NEW x \in Nodes PROVE Received(x)'
  BY <1>3, ReceivedSame DEF Traffic
<1>7. ASSUME NEW x \in Nodes, x # n PROVE Signals(x)'
  <2>1. \A l \in Links : l[1] = x => unacked'[l] = unacked[l]
    BY <1>7
  <2> QED
    BY <1>3, <1>7, <2>1, SignalsSame DEF Traffic
<1>8. Signals(n)'
  <2>1. Asked(n)' = Asked(n) /\ LastPosted(n)' = LastPosted(n)
    BY <1>2, <1>3 DEF Asked, LastPosted
  <2>2. /\ Cardinality(Asked(n)) \in Nat /\ Cardinality(LastPosted(n)) \in Nat
        /\ send_cq[n] \in Nat
    BY <1>1, Finite
  <2>3. IsFiniteSet(Unacked(n))
    BY DEF Traffic, Signals
  <2>4. Cardinality(Unacked(n)) \in Nat /\ Cardinality(Unacked(n)') \in Nat
    BY <2>3, FS_CardinalityType
  <2>5. broken = {} =>
           Cardinality(Asked(n)) + Cardinality(Unacked(n)) + send_cq[n]
              <= Cardinality(LastPosted(n))
    BY DEF Traffic, Signals
  <2>6. broken = {} =>
           Cardinality(Asked(n)) + Cardinality(Unacked(n)') + send_cq'[n]
              <= Cardinality(LastPosted(n))
    BY <2>2, <2>4, <2>5
  <2> QED
    BY <2>1, <2>6 DEF Signals
<1> QED
  BY <1>2, <1>3, <1>4, <1>5, <1>6, <1>7, <1>8 DEF Traffic

LEMMA AcknowledgeTraffic ==
    ASSUME TypeOK, Traffic, args' = args, NEW l \in Links, Acknowledge(l)
    PROVE  Traffic'
<1>1. args \in Args /\ send_cq \in [Nodes -> Nat] /\ unacked \in [Links -> Nat]
  BY DEF TypeOK
<1> PICK n : n = l[1]
  OBVIOUS
<1>2. /\ unacked[l] > 0
      /\ unacked' = [unacked EXCEPT ![l] = unacked[l] - 1]
      /\ send_cq' = [send_cq EXCEPT ![n] = send_cq[n] + 1]
      /\ UNCHANGED <<sq, broken, recv_cq, pp_cnt, cnt>>
  BY DEF Acknowledge, mainVars
<1>3. n \in Nodes /\ Links' = Links
  BY <1>1, Names, SameNames
<1>4. /\ unacked[l] \in Nat /\ 1 .. unacked'[l] = (1 .. unacked[l]) \ {unacked[l]}
      /\ unacked[l] \in 1 .. unacked[l]
  BY <1>1, <1>2
<1>5. \A k \in Links : k # l => unacked'[k] = unacked[k]
  BY <1>1, <1>2
<1>6. PICK e : e = <<l, unacked[l]>>
  OBVIOUS
<1>7. Unacked(n)' = Unacked(n) \ {e} /\ e \in Unacked(n)
  BY <1>3, <1>4, <1>5, <1>6 DEF Unacked
<1>8. IsFiniteSet(Unacked(n))
  BY <1>3 DEF Traffic, Signals
<1>9. /\ IsFiniteSet(Unacked(n)') /\ Cardinality(Unacked(n)') = Cardinality(Unacked(n)) - 1
      /\ Cardinality(Unacked(n)) \in Nat
  BY <1>7, <1>8, OneLess
<1>10. send_cq'[n] = send_cq[n] + 1 /\ send_cq[n] \in Nat
  BY <1>1, <1>2, <1>3
<1>11. /\ send_cq'[n] \in Nat
       /\ Cardinality(Unacked(n)') + send_cq'[n] <= Cardinality(Unacked(n)) + send_cq[n]
  BY <1>9, <1>10
<1>12. \A k \in Links : k[1] # n => unacked'[k] = unacked[k]
  BY <1>5
<1>13. \A x \in Nodes : x # n => send_cq'[x] = send_cq[x]
  BY <1>1, <1>2
<1> QED
  BY <1>2, <1>3, <1>9, <1>11, <1>12, <1>13, SendDoneTraffic

LEMMA DrainedTraffic ==
    ASSUME TypeOK, Traffic, args' = args, NEW n \in Nodes, Drained(n)
    PROVE  Traffic' /\ send_cq' \in [Nodes -> Nat]
<1>1. args \in Args /\ send_cq \in [Nodes -> Nat]
  BY DEF TypeOK
<1>2. /\ send_cq[n] >= Cardinality(Peers(n))
      /\ send_cq' = [send_cq EXCEPT ![n] = send_cq[n] - Cardinality(Peers(n))]
      /\ UNCHANGED <<sq, broken, unacked, recv_cq, pp_cnt, cnt>>
  BY DEF Drained
<1>3. Cardinality(Peers(n)) \in Nat /\ send_cq[n] \in Nat
  <2>1. Cardinality(Peers(n)) \in 1 .. NumClients /\ NumClients \in Nat
    BY <1>1, Numbers, Names
  <2> QED
    BY <1>1, <2>1
<1>4. send_cq[n] - Cardinality(Peers(n)) \in Nat
  BY <1>2, <1>3
<1>5. /\ send_cq' \in [Nodes -> Nat] /\ send_cq'[n] \in Nat
      /\ send_cq'[n] <= send_cq[n]
      /\ \A x \in Nodes : x # n => send_cq'[x] = send_cq[x]
  BY <1>1, <1>2, <1>3, <1>4
<1>6. Unacked(n)' = Unacked(n)
  BY <1>2, SameNames DEF Unacked
<1>7. IsFiniteSet(Unacked(n)) /\ Cardinality(Unacked(n)) \in Nat
  BY FS_CardinalityType DEF Traffic, Signals
<1>8. Cardinality(Unacked(n)') + send_cq'[n] <= Cardinality(Unacked(n)) + send_cq[n]
  BY <1>3, <1>5, <1>6, <1>7
<1> QED
  BY <1>2, <1>5, <1>6, <1>7, <1>8, SendDoneTraffic

\* The server's first messages, each on the client's own link: there was none
\* before.
LEMMA PostFirstTraffic ==
    ASSUME TypeOK, Traffic, Before, args' = args,
           pc[Server] = "wait_addr", PostFirst,
           UNCHANGED <<broken, unacked, send_cq, recv_cq, cnt>>
    PROVE  Traffic' /\ sq' \in [Links -> Seq(Message)] /\ pp_cnt' \in [Links -> 0 .. NumTests]
<1>1. /\ args \in Args /\ sq \in [Links -> Seq(Message)]
      /\ pp_cnt \in [Links -> 0 .. NumTests] /\ unacked \in [Links -> Nat]
  BY DEF TypeOK
<1>2. /\ \A l \in Links : sq[l] = <<>> /\ unacked[l] = 0
      /\ \A n \in Nodes : recv_cq[n] = <<>> /\ cnt[n] = 0 /\ send_cq[n] = 0
  BY DEF Before
<1>3. /\ Nodes' = Nodes /\ Clients' = Clients /\ Links' = Links
      /\ \A x : Peers(x)' = Peers(x)
      /\ NumTests' = NumTests /\ Server' = Server
  BY SameNames DEF Server
<1>4. /\ NumTests \in Nat \ {0}
      /\ Server \in Nodes /\ Peers(Server) = Clients
      /\ \A c \in Clients : c \in Nodes /\ c # Server /\ Peers(c) = {Server}
      /\ \A n \in Nodes : n = Server \/ n \in Clients
      /\ \A c \in Clients : <<Server, c>> \in Links /\ <<c, Server>> \in Links
      /\ \A l \in Links : l[1] \in Nodes /\ l[2] \in Peers(l[1]) /\ l = <<l[1], l[2]>>
  BY <1>1, Names
<1> DEFINE m(l) == [to |-> l[2], signaled |-> NumTests <= 1]
<1>5. /\ \A l \in Links : sq'[l] = IF l[1] = Server THEN <<m(l)>> ELSE <<>>
      /\ sq' \in [Links -> Seq(Message)]
  <2>1. sq' = [l \in Links |-> IF l[1] = Server THEN <<m(l)>> ELSE sq[l]]
    BY DEF PostFirst
  <2>2. ASSUME NEW l \in Links PROVE m(l) \in Message
    <3>1. l[2] \in Nodes
      <4>1. l[1] \in Nodes /\ l[2] \in Peers(l[1])
        BY <1>4
      <4> QED
        BY <1>1, <4>1, Names
    <3>2. (NumTests <= 1) \in BOOLEAN
      OBVIOUS
    <3> QED
      BY <3>1, <3>2 DEF Message
  <2> HIDE DEF m
  <2>3. \A l \in Links : <<m(l)>> \in Seq(Message)
    BY <2>2
  <2> QED
    BY <1>1, <1>2, <2>1, <2>3
<1>6. ASSUME NEW l \in Links
      PROVE  /\ l[1] = Server => Len(sq'[l]) = 1 /\ sq'[l][1] = m(l)
             /\ l[1] # Server => Len(sq'[l]) = 0
             /\ m(l).to = l[2]
             /\ m(l).signaled => NumTests <= 1
  <2>1. ASSUME l[1] = Server PROVE sq'[l] = <<m(l)>>
    BY <1>5, <2>1
  <2>2. ASSUME l[1] # Server PROVE sq'[l] = <<>>
    BY <1>5, <2>2
  <2>3. m(l).to = l[2] /\ (m(l).signaled => NumTests <= 1)
    OBVIOUS
  <2> HIDE DEF m
  <2>4. Len(<<m(l)>>) = 1 /\ <<m(l)>>[1] = m(l) /\ Len(<<>>) = 0
    OBVIOUS
  <2> QED
    BY <2>1, <2>2, <2>3, <2>4
<1> HIDE DEF m
<1>7. ASSUME NEW l \in Links, NEW k \in 1 .. Len(sq'[l])
      PROVE  l[1] = Server /\ k = 1
  <2>1. CASE l[1] = Server
    <3>1. Len(sq'[l]) = 1
      BY <1>6, <2>1
    <3>2. k = 1
      BY <3>1
    <3> QED
      BY <2>1, <3>2
  <2>2. CASE l[1] # Server
    <3>1. Len(sq'[l]) = 0
      BY <1>6, <2>2
    <3> QED
      BY <3>1
  <2> QED
    BY <2>1, <2>2
<1>9. Destinations'
  BY <1>3, <1>4, <1>6, <1>7 DEF Destinations
<1>10. OneForEach'
  <2> SUFFICES ASSUME NEW l \in Links, NEW j \in Links,
                      NEW x \in 1 .. Len(sq'[l]), NEW y \in 1 .. Len(sq'[j]),
                      l[1] = j[1], sq'[l][x].to = sq'[j][y].to
               PROVE  l = j /\ x = y
    BY <1>3 DEF OneForEach
  <2>1. l[1] = Server /\ x = 1 /\ j[1] = Server /\ y = 1
    BY <1>7
  <2>2. sq'[l][1].to = l[2] /\ sq'[j][1].to = j[2]
    BY <1>6, <2>1
  <2>3. l = <<l[1], l[2]>> /\ j = <<j[1], j[2]>>
    BY <1>4
  <2> QED
    BY <2>1, <2>2, <2>3
<1>11. ASSUME NEW x, NEW y PROVE Has(x, y)' => x = Server /\ y \in Clients
  <2> SUFFICES ASSUME Has(x, y)' PROVE x = Server /\ y \in Clients
    OBVIOUS
  <2>1. PICK l \in Links : l[1] = x /\ \E k \in 1 .. Len(sq'[l]) : sq'[l][k].to = y
    BY <1>3 DEF Has
  <2>2. l[1] = Server /\ sq'[l][1].to = y
    BY <1>7, <2>1
  <2>3. y = l[2]
    BY <1>6, <2>2
  <2> QED
    BY <1>4, <2>1, <2>2, <2>3
<1>12. ASSUME NEW c \in Clients PROVE Asks(Server, c)' => NumTests = 1
  <2> SUFFICES ASSUME Asks(Server, c)' PROVE NumTests = 1
    OBVIOUS
  <2>1. PICK l \in Links : l[1] = Server /\ \E k \in 1 .. Len(sq'[l]) : sq'[l][k].signaled
    BY <1>3 DEF Asks
  <2>2. PICK k \in 1 .. Len(sq'[l]) : sq'[l][k].signaled
    BY <2>1
  <2>3. k = 1
    BY <1>7
  <2>4. NumTests <= 1
    BY <1>6, <2>1, <2>2, <2>3
  <2> QED
    BY <1>4, <2>4
<1>13. /\ pp_cnt' \in [Links -> 0 .. NumTests]
       /\ \A l \in Links : pp_cnt'[l] = IF l[1] = Server THEN 1 ELSE 0
  <2>1. pp_cnt' = [l \in Links |-> IF l[1] = Server THEN 1 ELSE 0]
    BY DEF PostFirst
  <2>2. 0 \in 0 .. NumTests /\ 1 \in 0 .. NumTests
    BY <1>4
  <2> QED
    BY <2>1, <2>2
<1>14. Len(<<>>) = 0
  OBVIOUS
<1>15. \A x : ~In(x, <<>>)
  BY <1>14 DEF In
<1>16. ASSUME NEW c \in Clients PROVE Token(c)'
  <2>1. recv_cq'[Server] = <<>> /\ recv_cq'[c] = <<>> /\ ~Has(c, Server)'
    BY <1>2, <1>4, <1>11
  <2>2. Len(recv_cq'[c]) <= 1
    BY <2>1
  <2> QED
    BY <1>3, <1>15, <2>1, <2>2 DEF Token
<1>17. NoRepeats(recv_cq[Server])'
  BY <1>3 DEF Traffic
<1>18. ASSUME NEW n \in Nodes PROVE Received(n)'
  <2>1. cnt'[n] = 0 /\ Len(recv_cq'[n]) = 0
    BY <1>2
  <2>2. IsFiniteSet(PostedFor(n)')
    <3>1. PostedFor(n)' \in SUBSET (Peers(n) \X (1 .. NumTests))
      BY <1>3 DEF PostedFor
    <3>2. IsFiniteSet(Peers(n)) /\ IsFiniteSet(1 .. NumTests)
      <4>1. 1 \in Int /\ NumTests \in Int
        BY <1>4
      <4> QED
        BY <1>1, <4>1, Numbers, FS_Interval
    <3>3. IsFiniteSet(Peers(n) \X (1 .. NumTests))
      BY <3>2, FS_Product
    <3> QED
      BY <3>1, <3>3, FS_Subset
  <2>3. Cardinality(PostedFor(n)') \in Nat
    BY <2>2, FS_CardinalityType
  <2>4. CASE n = Server
    <3>1. Senders(n)' = {}
      BY <1>3, <1>4, <1>11, <2>4 DEF Senders
    <3>2. Cardinality(Senders(n)') = 0
      BY <3>1, FS_EmptySet
    <3>3. 0 + 0 + 0 <= Cardinality(PostedFor(n)')
      BY <2>3
    <3> QED
      BY <2>1, <3>2, <3>3 DEF Received
  <2>5. CASE n \in Clients
    <3>1. Senders(n)' \in SUBSET {Server}
      BY <1>3, <1>11 DEF Senders
    <3>2. IsFiniteSet({Server}) /\ Cardinality({Server}) = 1
      BY FS_Singleton
    <3>3. Cardinality(Senders(n)') \in Nat /\ Cardinality(Senders(n)') <= 1
      BY <3>1, <3>2, FS_Subset, FS_CardinalityType
    <3>4. <<Server, 1>> \in PostedFor(n)'
      <4>0. <<Server, n>> \in Links /\ <<Server, n>>[1] = Server
        BY <1>4, <2>5
      <4>1. Server \in Peers(n) /\ 1 \in 1 .. NumTests /\ pp_cnt'[<<Server, n>>] = 1
        BY <1>4, <1>13, <2>5, <4>0
      <4>2. 1 <= pp_cnt'[<<Server, n>>]
        BY <4>1
      <4> QED
        BY <1>3, <4>1, <4>2 DEF PostedFor
    <3>5. Cardinality(PostedFor(n)') # 0
      BY <2>2, <3>4, FS_EmptySet
    <3>6. 0 + 0 + Cardinality(Senders(n)') <= Cardinality(PostedFor(n)')
      BY <2>3, <3>3, <3>5
    <3> QED
      BY <2>1, <3>6 DEF Received
  <2> QED
    BY <1>4, <2>4, <2>5
<1>19. ASSUME NEW n \in Nodes PROVE Signals(n)'
  <2>1. Unacked(n)' = {}
    <3>1. \A l \in Links : 1 .. unacked'[l] = {}
      BY <1>2
    <3> QED
      BY <1>3, <3>1 DEF Unacked
  <2>2. send_cq'[n] = 0 /\ IsFiniteSet(Unacked(n)') /\ Cardinality(Unacked(n)') = 0
    BY <1>2, <2>1, FS_EmptySet
  <2>3. Asked(n)' \in SUBSET LastPosted(n)'
    <3>1. CASE n = Server
      <4>1. \A p \in Peers(n) : Asks(n, p)' => pp_cnt'[<<n, p>>] = NumTests
        BY <1>4, <1>12, <1>13, <3>1
      <4> QED
        BY <1>3, <4>1 DEF Asked, LastPosted
    <3>2. CASE n # Server
      <4>1. \A p : ~Asks(n, p)'
        BY <1>11, <3>2 DEF Asks, Has
      <4> QED
        BY <1>3, <4>1 DEF Asked, LastPosted
    <3> QED
      BY <3>1, <3>2
  <2>4. IsFiniteSet(LastPosted(n)')
    <3>1. LastPosted(n)' \in SUBSET Peers(n)
      BY <1>3 DEF LastPosted
    <3> QED
      BY <1>1, <3>1, Numbers, FS_Subset
  <2>5. /\ Cardinality(Asked(n)') \in Nat
        /\ Cardinality(Asked(n)') <= Cardinality(LastPosted(n)')
        /\ Cardinality(LastPosted(n)') \in Nat
    BY <2>3, <2>4, FS_Subset, FS_CardinalityType
  <2>6. Cardinality(Asked(n)') + 0 + 0 <= Cardinality(LastPosted(n)')
    BY <2>5
  <2> QED
    BY <2>2, <2>6 DEF Signals
<1> QED
  BY <1>3, <1>5, <1>9, <1>10, <1>13, <1>16, <1>17, <1>18, <1>19 DEF Traffic

-----------------------------------------------------------------------------
\* The invariant: besides the messages, what main does with its receives and
\* when it begins and ends.
XInv ==
    /\ WInv /\ TypeOK /\ Traffic
    /\ \A n \in Nodes : Receives(n)
    /\ Before /\ Finish

LEMMA ReceivesSame ==
    ASSUME args' = args, NEW n \in Nodes, Receives(n),
           srq'[n] = srq[n], recv_cq'[n] = recv_cq[n],
           \/ pc'[n] = pc[n]
           \/ pc'[n] = "absent"
           \/ pc[n] \notin {"start", "absent"} /\ pc'[n] # "start"
    PROVE  Receives(n)'
<1>1. Peers(n)' = Peers(n) /\ NumClients' = NumClients
  BY SameNames
<1> QED
  BY <1>1 DEF Receives

LEMMA BeforeSame ==
    ASSUME args' = args, Before,
           pc'[Server] \in {"start", "wait_addr"} => pc[Server] \in {"start", "wait_addr"},
           UNCHANGED <<sq, unacked, send_cq, recv_cq, pp_cnt, cnt>>
    PROVE  Before'
<1>1. Nodes' = Nodes /\ Links' = Links /\ Server' = Server
  BY SameNames DEF Server
<1> QED
  BY <1>1 DEF Before

LEMMA BeforeOver ==
    ASSUME pc'[Server] \notin {"start", "wait_addr"}
    PROVE  Before'
BY DEF Before, Server

\* Nobody comes closer to its end.
LEMMA FinishSame ==
    ASSUME args' = args, TypeOK, Finish, tcp' = tcp,
           \A n \in Nodes : cnt'[n] \in Nat /\ cnt'[n] >= cnt[n],
           \A n \in Nodes :
               \/ pc'[n] = pc[n]
               \/ /\ pc'[n] \notin {"drain", "wait_end", "done"}
                  /\ pc[n] \in {"wait_end", "done", "killed"} => pc'[n] = "killed"
    PROVE  Finish'
<1>1. /\ Nodes' = Nodes /\ Links' = Links /\ Server' = Server
      /\ \A n : Total(n)' = Total(n) /\ Peers(n)' = Peers(n)
  BY SameNames DEF Server
<1>2. args \in Args /\ cnt \in [Nodes -> Nat]
  BY DEF TypeOK
<1>3. ASSUME NEW n \in Nodes, cnt[n] >= Total(n) PROVE cnt'[n] >= Total(n)
  <2>1. cnt[n] \in Nat /\ cnt'[n] \in Nat /\ cnt'[n] >= cnt[n] /\ Total(n) \in Nat
    BY <1>2, Numbers
  <2> QED
    BY <1>3, <2>1
<1>4. \A n : RecvTerminationAck(n)' <=> RecvTerminationAck(n)
  BY <1>1 DEF RecvTerminationAck
<1>5. \A l \in Links : l[1] \in Nodes
  BY <1>2, Names
<1>6. ASSUME NEW n \in Nodes
      PROVE  /\ pc'[n] \in {"drain", "wait_end", "done"} => cnt'[n] >= Total(n)
             /\ pc'[n] = "done" => RecvTerminationAck(n)'
  BY <1>3, <1>4 DEF Finish
<1>7. ASSUME NEW l \in Links, tcp'[l] = "end"
      PROVE  /\ pc'[l[1]] \in {"wait_end", "done", "killed"}
             /\ cnt'[l[1]] >= Total(l[1])
             /\ l[1] = Server => RecvTerminationAck(Server)'
  BY <1>3, <1>4, <1>5, <1>7 DEF Finish
<1> QED
  BY <1>1, <1>6, <1>7 DEF Finish

-----------------------------------------------------------------------------
\* A step of main that only changes where it is.
LEMMA MovesKeep ==
    ASSUME XInv, WInv', args' = args, faults' = faults, NEW n \in Nodes,
           UNCHANGED <<srq, sq, broken, unacked, send_cq, recv_cq, accepted, tcp,
                       pp_cnt, cnt>>,
           qp' \in [Links -> {"init", "rts", "destroyed"}],
           NEW how \in {"event", "poll", "drain", "killed", "absent"},
           pc' = [pc EXCEPT ![n] = how],
           pc[n] # "done",
           how \in {"event", "poll"} => pc[n] \in {"wait_addr", "event", "poll"},
           how = "drain" => pc[n] = "poll" /\ cnt[n] >= Total(n),
           how = "killed" => pc[n] \notin {"start", "absent"},
           how = "absent" => pc[n] = "start"
    PROVE  XInv'
<1>1. /\ Nodes' = Nodes /\ Links' = Links /\ Server' = Server /\ NumClients' = NumClients
      /\ NumTests' = NumTests /\ Clients' = Clients
      /\ \A x : Total(x)' = Total(x) /\ Peers(x)' = Peers(x)
  BY SameNames DEF Server
<1>2. TypeOK /\ args \in Args
  BY DEF XInv, TypeOK
<1>3. \A x \in Nodes : pc'[x] = IF x = n THEN how ELSE pc[x]
  BY <1>2 DEF TypeOK
<1>4. TypeOK'
  <2>1. pc' \in [Nodes -> {"start", "wait_addr", "event", "poll", "drain",
                           "wait_end"} \cup Ended]
    BY <1>2 DEF TypeOK, Ended
  <2>2. Types'
    BY DEF WInv
  <2> QED
    BY <1>1, <1>2, <2>1, <2>2 DEF TypeOK, Types, Message
<1>5. Traffic'
  BY <1>2, TrafficSame DEF XInv
<1>6. ASSUME NEW x \in Nodes PROVE Receives(x)'
  <2>1. Receives(x)
    BY DEF XInv
  <2> QED
    BY <1>3, <2>1, ReceivesSame
<1>7. Before'
  <2>1. Server \in Nodes
    BY <1>2, Names
  <2> QED
    BY <1>3, <2>1, BeforeSame DEF XInv
<1>8. Finish'
  <2>1. \A x \in Nodes : cnt'[x] \in Nat /\ cnt'[x] >= cnt[x]
    BY <1>2 DEF TypeOK
  <2>2. CASE how # "drain"
    <3>1. \A x \in Nodes :
             \/ pc'[x] = pc[x]
             \/ /\ pc'[x] \notin {"drain", "wait_end", "done"}
                /\ pc[x] \in {"wait_end", "done", "killed"} => pc'[x] = "killed"
      BY <1>3, <2>2
    <3> QED
      BY <1>2, <2>1, <3>1, FinishSame DEF XInv
  <2>3. CASE how = "drain"
    <3>1. \A x : RecvTerminationAck(x)' <=> RecvTerminationAck(x)
      BY <1>1 DEF RecvTerminationAck
    <3>2. Finish /\ \A l \in Links : l[1] \in Nodes
      BY <1>2, Names DEF XInv
    <3> QED
      BY <1>1, <1>3, <2>3, <3>1, <3>2 DEF Finish
  <2> QED
    BY <2>2, <2>3
<1> QED
  BY <1>1, <1>4, <1>5, <1>6, <1>7, <1>8 DEF XInv

\* The queues are set up; a client writes its address, or goes away.
LEMMA StartKeeps ==
    ASSUME XInv, WInv', args' = args, faults' = faults, NEW n \in Nodes,
           (ServerStart /\ n = Server) \/ (ClientStart(n) /\ n # Server)
    PROVE  XInv'
<1>1. /\ Nodes' = Nodes /\ Links' = Links /\ Server' = Server /\ NumClients' = NumClients
      /\ NumTests' = NumTests /\ Clients' = Clients
      /\ \A x : Total(x)' = Total(x) /\ Peers(x)' = Peers(x)
  BY SameNames DEF Server
<1>2. TypeOK /\ args \in Args /\ tcp \in [Links -> {"none", "addr", "end"}]
      /\ qp \in [Links -> {"init", "rts", "destroyed"}]
  BY DEF XInv, TypeOK
<1>3. /\ pc[n] = "start"
      /\ srq' = [srq EXCEPT ![n] = Cardinality(Peers(n))]
      /\ UNCHANGED <<sq, broken, unacked, send_cq, recv_cq, accepted, pp_cnt, cnt>>
  BY DEF ServerStart, ClientStart, SetUpQueues
<1>4. PICK how \in {"wait_addr", "absent"} : pc' = [pc EXCEPT ![n] = how]
  BY DEF ServerStart, ClientStart, Exit
<1>5. how = "absent" => n # Server
  BY <1>2, <1>4 DEF ServerStart, ClientStart, TypeOK
<1>6. /\ qp' \in [Links -> {"init", "rts", "destroyed"}]
      /\ tcp' \in [Links -> {"none", "addr", "end"}]
      /\ \A l \in Links : tcp'[l] = tcp[l] \/ (l[1] = n /\ tcp'[l] = "addr")
  BY <1>2 DEF ServerStart, ClientStart, Exit, SendLocalDest
<1>7. \A x \in Nodes : pc'[x] = IF x = n THEN how ELSE pc[x]
  BY <1>2, <1>4 DEF TypeOK
<1>8. Cardinality(Peers(n)) \in 1 .. NumClients /\ NumClients \in Nat
  BY <1>2, Numbers, Names
<1>9. ASSUME NEW x \in Nodes PROVE Receives(x)'
  <2>1. Receives(x)
    BY DEF XInv
  <2>2. CASE x # n
    <3>1. srq'[x] = srq[x] /\ recv_cq'[x] = recv_cq[x] /\ pc'[x] = pc[x]
      BY <1>2, <1>3, <1>7, <2>2 DEF TypeOK
    <3> QED
      BY <2>1, <3>1, ReceivesSame
  <2>3. CASE x = n
    <3>1. srq'[x] = Cardinality(Peers(x)) /\ recv_cq'[x] = <<>> /\ pc'[x] # "start"
      BY <1>2, <1>3, <1>7, <2>1, <2>3 DEF TypeOK, Receives
    <3>2. Len(recv_cq'[x]) = 0
      BY <3>1
    <3>3. /\ srq'[x] + Len(recv_cq'[x]) = Cardinality(Peers(x))
          /\ srq'[x] + Len(recv_cq'[x]) <= NumClients
      BY <1>8, <2>3, <3>1, <3>2
    <3> QED
      BY <1>1, <3>1, <3>3 DEF Receives
  <2> QED
    BY <2>2, <2>3
<1>10. TypeOK'
  <2>1. pc' \in [Nodes -> {"start", "wait_addr", "event", "poll", "drain",
                           "wait_end"} \cup Ended]
    BY <1>2, <1>4 DEF TypeOK, Ended
  <2>2. Types'
    BY DEF WInv
  <2>3. srq' \in [Nodes -> 0 .. NumClients]
    <3>1. Cardinality(Peers(n)) \in 0 .. NumClients
      BY <1>8
    <3> QED
      BY <1>2, <1>3, <3>1 DEF TypeOK
  <2> QED
    BY <1>1, <1>2, <1>3, <1>6, <2>1, <2>2, <2>3 DEF TypeOK, Types, Message
<1>11. Traffic'
  BY <1>2, <1>3, TrafficSame DEF XInv
<1>12. Before'
  <2>1. Server \in Nodes
    BY <1>2, Names
  <2> QED
    BY <1>3, <1>7, <2>1, BeforeSame DEF XInv
<1>13. Finish'
  <2>1. Finish /\ \A l \in Links : l[1] \in Nodes
    BY <1>2, Names DEF XInv
  <2>2. \A l \in Links : l[1] = n => tcp[l] # "end"
    BY <1>3, <2>1 DEF Finish
  <2>3. \A l \in Links : tcp'[l] = "end" <=> tcp[l] = "end"
    BY <1>6, <2>2
  <2>4. \A x \in Nodes : RecvTerminationAck(x) => RecvTerminationAck(x)'
    <3> SUFFICES ASSUME NEW x \in Nodes, RecvTerminationAck(x), NEW p \in Peers(x)
                 PROVE  tcp'[<<p, x>>] = "end"
      BY <1>1 DEF RecvTerminationAck
    <3>1. tcp[<<p, x>>] = "end"
      BY DEF RecvTerminationAck
    <3>2. <<p, x>> \in Links
      BY <1>2, Names
    <3> QED
      BY <2>3, <3>1, <3>2
  <2>5. Server \in Nodes
    BY <1>2, Names
  <2> QED
    BY <1>1, <1>3, <1>7, <2>1, <2>3, <2>4, <2>5 DEF Finish
<1> QED
  BY <1>1, <1>9, <1>10, <1>11, <1>12, <1>13 DEF XInv

\* The server accepts a client, and after the last posts its first messages.
LEMMA AcceptKeeps ==
    ASSUME XInv, WInv', args' = args, faults' = faults, ServerAccept
    PROVE  XInv'
<1>1. /\ Nodes' = Nodes /\ Links' = Links /\ Server' = Server /\ NumClients' = NumClients
      /\ NumTests' = NumTests /\ Clients' = Clients
      /\ \A x : Total(x)' = Total(x) /\ Peers(x)' = Peers(x)
  BY SameNames DEF Server
<1>2. /\ TypeOK /\ args \in Args /\ tcp \in [Links -> {"none", "addr", "end"}]
      /\ qp \in [Links -> {"init", "rts", "destroyed"}]
  BY DEF XInv, TypeOK
<1>3. PICK i : i = accepted + 1
  OBVIOUS
<1>4. /\ pc[Server] = "wait_addr" /\ i \in Clients
      /\ accepted' = i
      /\ tcp' = [tcp EXCEPT ![<<Server, i>>] = "addr"]
      /\ qp' = [qp EXCEPT ![<<Server, i>>] = "rts"]
      /\ IF i = NumClients
         THEN PostFirst /\ pc' = [pc EXCEPT ![Server] = Loop]
         ELSE UNCHANGED <<sq, pp_cnt, pc>>
      /\ UNCHANGED <<srq, broken, unacked, send_cq, recv_cq, cnt>>
  BY <1>3 DEF ServerAccept, SendLocalDest
<1>5. /\ tcp' \in [Links -> {"none", "addr", "end"}]
      /\ qp' \in [Links -> {"init", "rts", "destroyed"}]
      /\ \A l \in Links : tcp'[l] = tcp[l] \/ (l[1] = Server /\ tcp'[l] = "addr")
  <2>1. tcp' \in [Links -> {"none", "addr", "end"}]
    BY <1>2, <1>4
  <2>2. qp' \in [Links -> {"init", "rts", "destroyed"}]
    BY <1>2, <1>4
  <2>3. ASSUME NEW l \in Links
        PROVE  tcp'[l] = tcp[l] \/ (l[1] = Server /\ tcp'[l] = "addr")
    <3>1. CASE l = <<Server, i>>
      <4>1. tcp'[l] = "addr" /\ l[1] = Server
        BY <1>2, <1>4, <3>1
      <4> QED
        BY <4>1
    <3>2. CASE l # <<Server, i>>
      BY <1>2, <1>4, <3>2
    <3> QED
      BY <3>1, <3>2
  <2> QED
    BY <2>1, <2>2, <2>3
<1>6. Server \in Nodes
  BY <1>2, Names
<1>7. \A x \in Nodes : pc'[x] = pc[x] \/ (x = Server /\ pc'[x] = Loop)
  BY <1>2, <1>4 DEF TypeOK
<1>8. ASSUME NEW x \in Nodes PROVE Receives(x)'
  <2>1. Receives(x)
    BY DEF XInv
  <2> QED
    BY <1>4, <1>7, <2>1, ReceivesSame DEF Loop
<1>9. Traffic' /\ sq' \in [Links -> Seq(Message)] /\ pp_cnt' \in [Links -> 0 .. NumTests]
  <2>1. CASE i = NumClients
    BY <1>2, <1>4, <2>1, PostFirstTraffic DEF XInv
  <2>2. CASE i # NumClients
    BY <1>2, <1>4, <2>2, TrafficSame DEF XInv, TypeOK
  <2> QED
    BY <2>1, <2>2
<1>10. Before'
  <2>1. CASE i = NumClients
    <3>1. pc'[Server] = Loop
      BY <1>2, <1>4, <1>6, <2>1 DEF TypeOK
    <3> QED
      BY <3>1, BeforeOver DEF Loop
  <2>2. CASE i # NumClients
    BY <1>4, <2>2, BeforeSame DEF XInv
  <2> QED
    BY <2>1, <2>2
<1>11. Finish'
  <2>1. Finish /\ \A l \in Links : l[1] \in Nodes
    BY <1>2, Names DEF XInv
  <2>2. \A l \in Links : l[1] = Server => tcp[l] # "end"
    BY <1>4, <2>1 DEF Finish
  <2>3. \A l \in Links : tcp'[l] = "end" <=> tcp[l] = "end"
    BY <1>5, <2>2
  <2>4. \A x \in Nodes : RecvTerminationAck(x) => RecvTerminationAck(x)'
    <3> SUFFICES ASSUME NEW x \in Nodes, RecvTerminationAck(x), NEW p \in Peers(x)
                 PROVE  tcp'[<<p, x>>] = "end"
      BY <1>1 DEF RecvTerminationAck
    <3>1. tcp[<<p, x>>] = "end"
      BY DEF RecvTerminationAck
    <3>2. <<p, x>> \in Links
      BY <1>2, Names
    <3> QED
      BY <2>3, <3>1, <3>2
  <2>5. \A x \in Nodes : pc'[x] \in {"drain", "wait_end", "done"} => pc'[x] = pc[x]
    BY <1>7 DEF Loop
  <2>6. \A x \in Nodes : pc[x] \in {"wait_end", "done", "killed"} => pc'[x] = pc[x]
    BY <1>4, <1>7
  <2> QED
    BY <1>1, <1>4, <1>6, <2>1, <2>3, <2>4, <2>5, <2>6 DEF Finish
<1>12. TypeOK'
  <2>1. pc' \in [Nodes -> {"start", "wait_addr", "event", "poll", "drain",
                           "wait_end"} \cup Ended]
    <3>1. Loop \in {"event", "poll"}
      BY DEF Loop
    <3> QED
      BY <1>2, <1>4, <3>1 DEF TypeOK
  <2>2. Types'
    BY DEF WInv
  <2>3. accepted' \in 0 .. NumClients
    <3>1. i \in 1 .. NumClients
      BY <1>4 DEF Clients
    <3> QED
      BY <1>4, <3>1
  <2> QED
    BY <1>1, <1>2, <1>4, <1>5, <1>9, <2>1, <2>2, <2>3 DEF TypeOK, Types, Message
<1> QED
  BY <1>1, <1>8, <1>9, <1>10, <1>11, <1>12 DEF XInv

\* A completion is polled.
LEMMA PollOneXInv ==
    ASSUME XInv, WInv', args' = args, faults' = faults, NEW n \in Nodes, PollOne(n)
    PROVE  XInv'
<1>1. /\ Nodes' = Nodes /\ Links' = Links /\ Server' = Server /\ NumClients' = NumClients
      /\ NumTests' = NumTests /\ Clients' = Clients
      /\ \A x : Total(x)' = Total(x) /\ Peers(x)' = Peers(x)
  BY SameNames DEF Server
<1>2. /\ TypeOK /\ args \in Args /\ srq \in [Nodes -> 0 .. NumClients]
      /\ recv_cq \in [Nodes -> Seq(Clients)] /\ cnt \in [Nodes -> Nat]
  BY DEF XInv, TypeOK
<1>3. /\ pc[n] = "poll" /\ recv_cq[n] # <<>>
      /\ recv_cq' = [recv_cq EXCEPT ![n] = Tail(recv_cq[n])]
      /\ srq' = [srq EXCEPT ![n] = srq[n] + 1]
      /\ cnt' = [cnt EXCEPT ![n] = cnt[n] + 1]
      /\ UNCHANGED <<broken, unacked, send_cq, pc, accepted, tcp, qp>>
  BY DEF PollOne
<1>4. Traffic' /\ sq' \in [Links -> Seq(Message)] /\ pp_cnt' \in [Links -> 0 .. NumTests]
  BY <1>2, PollOneTraffic DEF XInv
<1>5. /\ srq'[n] = srq[n] + 1 /\ srq[n] \in Nat
      /\ Len(recv_cq'[n]) = Len(recv_cq[n]) - 1 /\ Len(recv_cq[n]) \in Nat
  <2>1. recv_cq[n] \in Seq(Clients) /\ recv_cq'[n] = Tail(recv_cq[n])
    BY <1>2, <1>3
  <2> QED
    BY <1>2, <1>3, <2>1
<1>6. ASSUME NEW x \in Nodes PROVE Receives(x)'
  <2>1. Receives(x)
    BY DEF XInv
  <2>2. CASE x # n
    BY <1>2, <1>3, <2>1, <2>2, ReceivesSame
  <2>3. CASE x = n
    <3>1. srq'[n] + Len(recv_cq'[n]) = srq[n] + Len(recv_cq[n])
      <4>1. (srq[n] + 1) + (Len(recv_cq[n]) - 1) = srq[n] + Len(recv_cq[n])
        BY <1>5
      <4> QED
        BY <1>5, <4>1
    <3> QED
      BY <1>1, <1>3, <2>1, <2>3, <3>1 DEF Receives
  <2> QED
    BY <2>2, <2>3
<1>7. Before'
  <2>1. pc[Server] \notin {"start", "wait_addr"}
    BY <1>3 DEF XInv, Before
  <2> QED
    BY <1>3, <2>1, BeforeOver
<1>8. Finish'
  <2>1. \A x \in Nodes : cnt'[x] \in Nat /\ cnt'[x] >= cnt[x]
    BY <1>2, <1>3
  <2> QED
    BY <1>2, <1>3, <2>1, FinishSame DEF XInv
<1>9. TypeOK'
  <2>1. srq' \in [Nodes -> 0 .. NumClients]
    <3>1. /\ srq[n] + Len(recv_cq[n]) <= NumClients /\ NumClients \in Nat
      BY <1>2, Names DEF XInv, Receives
    <3>2. Len(recv_cq'[n]) \in Nat
      <4>1. recv_cq'[n] \in Seq(Clients)
        BY <1>1 DEF WInv, Types
      <4> QED
        BY <4>1
    <3>3. srq[n] + 1 \in 0 .. NumClients
      BY <1>5, <3>1, <3>2
    <3> QED
      BY <1>2, <1>3, <3>3
  <2>2. Types' /\ cnt' \in [Nodes -> Nat]
    BY <1>2, <1>3 DEF WInv
  <2> QED
    BY <1>1, <1>2, <1>3, <1>4, <2>1, <2>2 DEF TypeOK, Types, Message
<1> QED
  BY <1>1, <1>4, <1>6, <1>7, <1>8, <1>9 DEF XInv

\* The send completions are taken, and a client writes END.
LEMMA DrainedXInv ==
    ASSUME XInv, WInv', args' = args, faults' = faults, NEW n \in Nodes, Drained(n)
    PROVE  XInv'
<1>1. /\ Nodes' = Nodes /\ Links' = Links /\ Server' = Server /\ NumClients' = NumClients
      /\ NumTests' = NumTests /\ Clients' = Clients
      /\ \A x : Total(x)' = Total(x) /\ Peers(x)' = Peers(x)
  BY SameNames DEF Server
<1>2. /\ TypeOK /\ args \in Args /\ tcp \in [Links -> {"none", "addr", "end"}]
      /\ send_cq \in [Nodes -> Nat]
  BY DEF XInv, TypeOK
<1>3. /\ pc[n] = "drain" /\ send_cq[n] >= Cardinality(Peers(n))
      /\ IF n = Server THEN UNCHANGED tcp ELSE SendTerminationAck(n)
      /\ pc' = [pc EXCEPT ![n] = "wait_end"]
      /\ UNCHANGED <<srq, sq, broken, unacked, recv_cq, accepted, qp, pp_cnt, cnt>>
  BY DEF Drained
<1>4. Traffic' /\ send_cq' \in [Nodes -> Nat]
  BY <1>2, DrainedTraffic DEF XInv
<1>5. \A x \in Nodes : pc'[x] = IF x = n THEN "wait_end" ELSE pc[x]
  BY <1>2, <1>3 DEF TypeOK
<1>6. /\ tcp' \in [Links -> {"none", "addr", "end"}]
      /\ \A l \in Links : tcp'[l] = IF l[1] = n /\ n # Server THEN "end" ELSE tcp[l]
  BY <1>2, <1>3 DEF SendTerminationAck
<1>7. ASSUME NEW x \in Nodes PROVE Receives(x)'
  <2>1. Receives(x)
    BY DEF XInv
  <2> QED
    BY <1>3, <1>5, <2>1, ReceivesSame
<1>8. Before'
  <2>1. pc[Server] \notin {"start", "wait_addr"}
    <3>1. Cardinality(Peers(n)) \in 1 .. NumClients /\ NumClients \in Nat
      BY <1>2, Numbers, Names
    <3>2. send_cq[n] # 0
      BY <1>3, <3>1
    <3> QED
      BY <3>2 DEF XInv, Before
  <2>2. Server \in Nodes
    BY <1>2, Names
  <2> QED
    BY <1>5, <2>1, <2>2, BeforeOver
<1>9. Finish'
  <2>1. Finish /\ \A l \in Links : l[1] \in Nodes
    BY <1>2, Names DEF XInv
  <2>2. \A x \in Nodes : RecvTerminationAck(x) => RecvTerminationAck(x)'
    <3> SUFFICES ASSUME NEW x \in Nodes, RecvTerminationAck(x), NEW p \in Peers(x)
                 PROVE  tcp'[<<p, x>>] = "end"
      BY <1>1 DEF RecvTerminationAck
    <3>1. tcp[<<p, x>>] = "end"
      BY DEF RecvTerminationAck
    <3>2. <<p, x>> \in Links
      BY <1>2, Names
    <3> QED
      BY <1>6, <3>1, <3>2
  <2>3. cnt[n] >= Total(n)
    BY <1>3, <2>1 DEF Finish
  <2>4. Server \in Nodes
    BY <1>2, Names
  <2>5. ASSUME NEW x \in Nodes
        PROVE  /\ pc'[x] \in {"drain", "wait_end", "done"} => cnt'[x] >= Total(x)
               /\ pc'[x] = "done" => RecvTerminationAck(x)'
    BY <1>3, <1>5, <2>1, <2>2, <2>3 DEF Finish
  <2>6. ASSUME NEW l \in Links, tcp'[l] = "end"
        PROVE  /\ pc'[l[1]] \in {"wait_end", "done", "killed"}
               /\ cnt'[l[1]] >= Total(l[1])
               /\ l[1] = Server => RecvTerminationAck(Server)'
    <3>1. CASE l[1] = n /\ n # Server
      BY <1>3, <1>5, <2>3, <3>1
    <3>2. CASE ~(l[1] = n /\ n # Server)
      <4>1. tcp[l] = "end"
        BY <1>6, <2>6, <3>2
      <4> QED
        BY <1>3, <1>5, <2>1, <2>2, <2>4, <4>1 DEF Finish
    <3> QED
      BY <3>1, <3>2
  <2> QED
    BY <1>1, <2>5, <2>6 DEF Finish
<1>10. TypeOK'
  <2>1. pc' \in [Nodes -> {"start", "wait_addr", "event", "poll", "drain",
                           "wait_end"} \cup Ended]
    BY <1>2, <1>3 DEF TypeOK
  <2>2. Types'
    BY DEF WInv
  <2> QED
    BY <1>1, <1>2, <1>3, <1>4, <1>6, <2>1, <2>2 DEF TypeOK, Types, Message
<1> QED
  BY <1>1, <1>4, <1>7, <1>8, <1>9, <1>10 DEF XInv

\* END has come from all peers: a program ends, and the server tells its
\* clients so.
LEMMA TerminationXInv ==
    ASSUME XInv, WInv', args' = args, faults' = faults, NEW n \in Nodes,
           (ServerTermination /\ n = Server) \/ (ClientTermination(n) /\ n # Server)
    PROVE  XInv'
<1>1. /\ Nodes' = Nodes /\ Links' = Links /\ Server' = Server /\ NumClients' = NumClients
      /\ NumTests' = NumTests /\ Clients' = Clients
      /\ \A x : Total(x)' = Total(x) /\ Peers(x)' = Peers(x)
  BY SameNames DEF Server
<1>2. /\ TypeOK /\ args \in Args /\ tcp \in [Links -> {"none", "addr", "end"}]
      /\ qp \in [Links -> {"init", "rts", "destroyed"}]
  BY DEF XInv, TypeOK
<1>3. /\ pc[n] = "wait_end" /\ RecvTerminationAck(n)
      /\ IF n = Server THEN SendTerminationAck(Server) ELSE UNCHANGED tcp
      /\ pc' = [pc EXCEPT ![n] = "done"]
      /\ qp' = [l \in Links |-> IF l[1] = n THEN "destroyed" ELSE qp[l]]
      /\ UNCHANGED <<srq, sq, broken, unacked, send_cq, recv_cq, armed, events,
                     accepted, pp_cnt, cnt>>
  BY DEF ServerTermination, ClientTermination, Exit, nicVars
<1>4. Traffic'
  BY <1>2, <1>3, TrafficSame DEF XInv
<1>5. \A x \in Nodes : pc'[x] = IF x = n THEN "done" ELSE pc[x]
  BY <1>2, <1>3 DEF TypeOK
<1>6. /\ tcp' \in [Links -> {"none", "addr", "end"}]
      /\ \A l \in Links : tcp'[l] = IF l[1] = Server /\ n = Server THEN "end" ELSE tcp[l]
  BY <1>2, <1>3 DEF SendTerminationAck
<1>7. ASSUME NEW x \in Nodes PROVE Receives(x)'
  <2>1. Receives(x)
    BY DEF XInv
  <2> QED
    BY <1>3, <1>5, <2>1, ReceivesSame
<1>8. Before'
  <2>1. Server \in Nodes
    BY <1>2, Names
  <2> QED
    BY <1>3, <1>5, <2>1, BeforeSame DEF XInv
<1>9. Finish'
  <2>1. Finish /\ \A l \in Links : l[1] \in Nodes
    BY <1>2, Names DEF XInv
  <2>2. \A x \in Nodes : RecvTerminationAck(x) => RecvTerminationAck(x)'
    <3> SUFFICES ASSUME NEW x \in Nodes, RecvTerminationAck(x), NEW p \in Peers(x)
                 PROVE  tcp'[<<p, x>>] = "end"
      BY <1>1 DEF RecvTerminationAck
    <3>1. tcp[<<p, x>>] = "end"
      BY DEF RecvTerminationAck
    <3>2. <<p, x>> \in Links
      BY <1>2, Names
    <3> QED
      BY <1>6, <3>1, <3>2
  <2>3. cnt[n] >= Total(n)
    BY <1>3, <2>1 DEF Finish
  <2>4. Server \in Nodes
    BY <1>2, Names
  <2>5. ASSUME NEW x \in Nodes
        PROVE  /\ pc'[x] \in {"drain", "wait_end", "done"} => cnt'[x] >= Total(x)
               /\ pc'[x] = "done" => RecvTerminationAck(x)'
    BY <1>3, <1>5, <2>1, <2>2, <2>3 DEF Finish
  <2>6. ASSUME NEW l \in Links, tcp'[l] = "end"
        PROVE  /\ pc'[l[1]] \in {"wait_end", "done", "killed"}
               /\ cnt'[l[1]] >= Total(l[1])
               /\ l[1] = Server => RecvTerminationAck(Server)'
    <3>1. CASE l[1] = Server /\ n = Server
      BY <1>3, <1>5, <2>2, <2>3, <2>4, <3>1
    <3>2. CASE ~(l[1] = Server /\ n = Server)
      <4>1. tcp[l] = "end"
        BY <1>6, <2>6, <3>2
      <4> QED
        BY <1>3, <1>5, <2>1, <2>2, <2>4, <4>1 DEF Finish
    <3> QED
      BY <3>1, <3>2
  <2> QED
    BY <1>1, <2>5, <2>6 DEF Finish
<1>10. TypeOK'
  <2>1. pc' \in [Nodes -> {"start", "wait_addr", "event", "poll", "drain",
                           "wait_end"} \cup Ended]
    BY <1>2, <1>3 DEF TypeOK, Ended
  <2>2. Types'
    BY DEF WInv
  <2>3. qp' \in [Links -> {"init", "rts", "destroyed"}]
    BY <1>2, <1>3
  <2> QED
    BY <1>1, <1>2, <1>3, <1>6, <2>1, <2>2, <2>3 DEF TypeOK, Types, Message
<1> QED
  BY <1>1, <1>4, <1>7, <1>8, <1>9, <1>10 DEF XInv

\* A message is delivered.
LEMMA DeliverXInv ==
    ASSUME XInv, WInv', args' = args, faults' = faults, NEW l \in Links, Deliver(l)
    PROVE  XInv'
<1>1. /\ Nodes' = Nodes /\ Links' = Links /\ Server' = Server /\ NumClients' = NumClients
      /\ NumTests' = NumTests /\ Clients' = Clients
      /\ \A x : Total(x)' = Total(x) /\ Peers(x)' = Peers(x)
  BY SameNames DEF Server
<1>2. /\ TypeOK /\ args \in Args /\ srq \in [Nodes -> 0 .. NumClients]
      /\ recv_cq \in [Nodes -> Seq(Clients)] /\ sq \in [Links -> Seq(Message)]
      /\ unacked \in [Links -> Nat]
  BY DEF XInv, TypeOK
<1>3. PICK n : n = Head(sq[l]).to
  OBVIOUS
<1>4. PICK c : c = Client(l)
  OBVIOUS
<1>5. PICK u : u = IF Head(sq[l]).signaled THEN unacked[l] + 1 ELSE unacked[l]
  OBVIOUS
<1>6. /\ sq[l] # <<>> /\ srq[n] > 0
      /\ sq' = [sq EXCEPT ![l] = Tail(sq[l])]
      /\ srq' = [srq EXCEPT ![n] = srq[n] - 1]
      /\ recv_cq' = [recv_cq EXCEPT ![n] = Append(recv_cq[n], c)]
      /\ unacked' = [unacked EXCEPT ![l] = u]
      /\ UNCHANGED <<broken, send_cq, pc, accepted, tcp, qp, pp_cnt, cnt>>
  BY <1>3, <1>4, <1>5 DEF Deliver, mainVars
<1>7. Destinations /\ OneForEach /\ Traffic
  BY DEF XInv, Traffic
<1>8. Traffic' /\ sq' \in [Links -> Seq(Message)]
  <2>1. sq' \in [Links -> Seq(Message)]
    BY <1>2, <1>6, <1>7, MessageDelivered
  <2> QED
    BY <1>2, <1>7, <2>1, DeliverTraffic
<1>9. n \in Nodes
  <2>1. n \in Peers(l[1])
    <3>1. sq' = [sq EXCEPT ![l] = Tail(sq[l])] /\ sq[l] # <<>>
      BY <1>6
    <3> QED
      BY <1>2, <1>3, <1>7, <3>1, MessageDelivered
  <2>2. l[1] \in Nodes
    BY <1>2, Names
  <2> QED
    BY <1>2, <2>1, <2>2, Names
<1>10. c \in Clients
  <2>1. l[1] \in Nodes /\ l[2] \in Peers(l[1]) /\ Peers(Server) = Clients
    BY <1>2, Names
  <2> QED
    BY <1>2, <1>4, <2>1, Names DEF Client
<1>11. /\ srq'[n] = srq[n] - 1 /\ srq[n] \in Nat \ {0}
       /\ Len(recv_cq'[n]) = Len(recv_cq[n]) + 1 /\ Len(recv_cq[n]) \in Nat
  <2>1. recv_cq[n] \in Seq(Clients) /\ recv_cq'[n] = Append(recv_cq[n], c)
    BY <1>2, <1>6, <1>9
  <2>2. srq[n] \in Nat
    <3>1. NumClients \in Nat /\ srq[n] \in 0 .. NumClients
      BY <1>2, <1>9, Names
    <3> QED
      BY <3>1
  <2> QED
    BY <1>2, <1>6, <1>9, <1>10, <2>1, <2>2
<1>12. ASSUME NEW x \in Nodes PROVE Receives(x)'
  <2>1. Receives(x)
    BY DEF XInv
  <2>2. CASE x # n
    BY <1>2, <1>6, <2>1, <2>2, ReceivesSame
  <2>3. CASE x = n
    <3>1. srq'[n] + Len(recv_cq'[n]) = srq[n] + Len(recv_cq[n])
      <4>1. (srq[n] - 1) + (Len(recv_cq[n]) + 1) = srq[n] + Len(recv_cq[n])
        BY <1>11
      <4> QED
        BY <1>11, <4>1
    <3>2. pc[n] # "start"
      BY <1>11, <2>1, <2>3 DEF Receives
    <3> QED
      BY <1>1, <1>6, <2>1, <2>3, <3>1, <3>2 DEF Receives
  <2> QED
    BY <2>2, <2>3
<1>13. Before'
  <2>1. pc[Server] \notin {"start", "wait_addr"}
    BY <1>6 DEF XInv, Before
  <2> QED
    BY <1>6, <2>1, BeforeOver
<1>14. Finish'
  <2>1. \A x \in Nodes : cnt'[x] \in Nat /\ cnt'[x] >= cnt[x]
    BY <1>2, <1>6 DEF TypeOK
  <2> QED
    BY <1>2, <1>6, <2>1, FinishSame DEF XInv
<1>15. TypeOK'
  <2>1. srq' \in [Nodes -> 0 .. NumClients]
    <3>1. NumClients \in Nat /\ srq[n] \in 0 .. NumClients
      BY <1>2, <1>9, Names
    <3>2. srq[n] - 1 \in 0 .. NumClients
      BY <1>11, <3>1
    <3> QED
      BY <1>2, <1>6, <3>2
  <2>2. Types'
    BY DEF WInv
  <2>3. unacked' \in [Links -> Nat]
    <3>1. u \in Nat
      BY <1>2, <1>5
    <3> QED
      BY <1>2, <1>6, <3>1
  <2> QED
    BY <1>1, <1>2, <1>6, <1>8, <2>1, <2>2, <2>3 DEF TypeOK, Types, Message
<1> QED
  BY <1>1, <1>8, <1>12, <1>13, <1>14, <1>15 DEF XInv

\* What the send queue of a link does without its peer: only completions of
\* sends come of it.
LEMMA SendQueueKeeps ==
    ASSUME XInv, WInv', args' = args, faults' = faults, Traffic',
           UNCHANGED <<srq, recv_cq, mainVars>>,
           sq' \in [Links -> Seq(Message)], broken' \subseteq Links,
           unacked' \in [Links -> Nat], send_cq' \in [Nodes -> Nat],
           pc[Server] \notin {"start", "wait_addr"}
    PROVE  XInv'
<1>1. /\ Nodes' = Nodes /\ Links' = Links /\ Server' = Server /\ NumClients' = NumClients
      /\ NumTests' = NumTests /\ Clients' = Clients
      /\ \A x : Total(x)' = Total(x) /\ Peers(x)' = Peers(x)
  BY SameNames DEF Server
<1>2. TypeOK /\ UNCHANGED <<pc, accepted, tcp, qp, pp_cnt, cnt>>
  BY DEF XInv, mainVars
<1>3. ASSUME NEW x \in Nodes PROVE Receives(x)'
  <2>1. Receives(x)
    BY DEF XInv
  <2> QED
    BY <1>2, <2>1, ReceivesSame
<1>4. Before'
  BY <1>2, BeforeOver
<1>5. Finish'
  <2>1. \A x \in Nodes : cnt'[x] \in Nat /\ cnt'[x] >= cnt[x]
    BY <1>2 DEF TypeOK
  <2> QED
    BY <1>2, <2>1, FinishSame DEF XInv
<1>6. TypeOK'
  <2>1. Types'
    BY DEF WInv
  <2> QED
    BY <1>1, <1>2, <2>1 DEF TypeOK, Types, Message
<1> QED
  BY <1>1, <1>3, <1>4, <1>5, <1>6 DEF XInv

LEMMA AcknowledgeXInv ==
    ASSUME XInv, WInv', args' = args, faults' = faults, NEW l \in Links, Acknowledge(l)
    PROVE  XInv'
<1>1. TypeOK /\ args \in Args /\ Traffic
  BY DEF XInv, TypeOK
<1>2. PICK n : n = l[1]
  OBVIOUS
<1>3. /\ unacked[l] > 0
      /\ unacked' = [unacked EXCEPT ![l] = unacked[l] - 1]
      /\ send_cq' = [send_cq EXCEPT ![n] = send_cq[n] + 1]
      /\ UNCHANGED <<srq, sq, broken, recv_cq, mainVars>>
  BY <1>2 DEF Acknowledge
<1>4. Traffic'
  BY <1>1, AcknowledgeTraffic
<1>5. n \in Nodes
  BY <1>1, <1>2, Names
<1>6. unacked' \in [Links -> Nat] /\ send_cq' \in [Nodes -> Nat]
  <2>1. unacked[l] - 1 \in Nat
    <3>1. unacked[l] \in Nat
      BY <1>1 DEF TypeOK
    <3> QED
      BY <3>1, <1>3
  <2>2. send_cq[n] + 1 \in Nat
    BY <1>1, <1>5 DEF TypeOK
  <2> QED
    BY <1>1, <1>3, <2>1, <2>2 DEF TypeOK
<1>7. pc[Server] \notin {"start", "wait_addr"}
  BY <1>3 DEF XInv, Before
<1> QED
  BY <1>1, <1>3, <1>4, <1>6, <1>7, SendQueueKeeps DEF TypeOK

LEMMA SendFailsXInv ==
    ASSUME XInv, WInv', args' = args, faults' = faults, NEW l \in Links, SendFails(l)
    PROVE  XInv'
<1>1. TypeOK /\ args \in Args /\ Traffic
  BY DEF XInv, TypeOK
<1>2. PICK n : n = l[1]
  OBVIOUS
<1>3. /\ sq[l] # <<>>
      /\ broken' = broken \cup {l}
      /\ send_cq' = [send_cq EXCEPT ![n] = send_cq[n] + Len(sq[l])]
      /\ UNCHANGED <<srq, unacked, recv_cq, mainVars>>
  BY <1>2 DEF SendFails
<1>4. Traffic' /\ sq' \in [Links -> Seq(Message)]
  BY <1>1, SendFailsTraffic
<1>5. n \in Nodes
  BY <1>1, <1>2, Names
<1>6. send_cq' \in [Nodes -> Nat]
  <2>1. sq[l] \in Seq(Message) /\ send_cq[n] \in Nat
    BY <1>1, <1>5 DEF TypeOK
  <2>2. Len(sq[l]) \in Nat
    BY <2>1
  <2>3. send_cq[n] + Len(sq[l]) \in Nat
    BY <2>1, <2>2
  <2> QED
    BY <1>1, <1>3, <2>3 DEF TypeOK
<1>7. pc[Server] \notin {"start", "wait_addr"}
  BY <1>3 DEF XInv, Before
<1> QED
  BY <1>1, <1>3, <1>4, <1>6, <1>7, SendQueueKeeps DEF TypeOK

-----------------------------------------------------------------------------
LEMMA InitXInv == Init => XInv
<1> SUFFICES ASSUME Init PROVE XInv
  OBVIOUS
<1>1. /\ args \in Args /\ faults \in FaultSets
      /\ pc = [n \in Nodes |-> "start"]
      /\ accepted = 0
      /\ tcp = [l \in Links |-> "none"]
      /\ qp = [l \in Links |-> "init"]
      /\ srq = [n \in Nodes |-> 0]
      /\ sq = [l \in Links |-> <<>>]
      /\ broken = {}
      /\ unacked = [l \in Links |-> 0]
      /\ send_cq = [n \in Nodes |-> 0]
      /\ recv_cq = [n \in Nodes |-> <<>>]
      /\ armed = [n \in Nodes |-> FALSE]
      /\ events = [n \in Nodes |-> 0]
      /\ pp_cnt = [l \in Links |-> 0]
      /\ cnt = [n \in Nodes |-> 0]
  BY DEF Init
<1>2. WInv
  BY InitWInv
<1>3. NumClients \in Nat /\ NumTests \in Nat /\ 0 \in 0 .. NumClients /\ 0 \in 0 .. NumTests
  BY <1>1, Names
<1>4. TypeOK
  BY <1>1, <1>3 DEF TypeOK
<1>5. \A l \in Links : sq[l] = <<>> /\ Len(sq[l]) = 0 /\ unacked[l] = 0
  BY <1>1
<1>6. \A x, y : ~Has(x, y) /\ ~Asks(x, y)
  BY <1>5 DEF Has, Asks
<1>7. Server \in Nodes /\ Clients \subseteq Nodes
  BY <1>1, Names
<1>8. \A n \in Nodes : recv_cq[n] = <<>> /\ Len(recv_cq[n]) = 0
  BY <1>1
<1>9. Destinations /\ OneForEach /\ NoRepeats(recv_cq[Server])
  BY <1>5, <1>7, <1>8 DEF Destinations, OneForEach, NoRepeats
<1>10. ASSUME NEW c \in Clients PROVE Token(c)
  <2>1. ~In(c, recv_cq[Server])
    BY <1>7, <1>8 DEF In
  <2>2. recv_cq[c] = <<>> /\ Len(recv_cq[c]) <= 1
    BY <1>7, <1>8
  <2> QED
    BY <1>6, <2>1, <2>2 DEF Token
<1>11. ASSUME NEW n \in Nodes PROVE Received(n) /\ Signals(n)
  <2>1. Senders(n) = {} /\ Asked(n) = {}
    BY <1>6 DEF Senders, Asked
  <2>2. Unacked(n) = {}
    BY <1>5 DEF Unacked
  <2>3. IsFiniteSet({}) /\ Cardinality({}) = 0
    BY FS_EmptySet
  <2>4. Cardinality(PostedFor(n)) \in Nat /\ Cardinality(LastPosted(n)) \in Nat
    BY <1>1, Finite
  <2>5. cnt[n] = 0 /\ send_cq[n] = 0 /\ Len(recv_cq[n]) = 0
    BY <1>1, <1>8
  <2>6. Received(n)
    BY <2>1, <2>3, <2>4, <2>5 DEF Received
  <2>7. Signals(n)
    BY <2>1, <2>2, <2>3, <2>4, <2>5 DEF Signals
  <2> QED
    BY <2>6, <2>7
<1>12. \A n \in Nodes : Receives(n)
  <2>1. \A n \in Nodes : srq[n] = 0 /\ pc[n] = "start"
    BY <1>1
  <2> QED
    BY <1>3, <1>8, <2>1 DEF Receives
<1>13. Before
  BY <1>1, <1>5, <1>8 DEF Before
<1>14. Finish
  <2>1. \A l \in Links : tcp[l] # "end"
    BY <1>1
  <2>2. \A n \in Nodes : pc[n] \notin {"drain", "wait_end", "done"}
    BY <1>1
  <2> QED
    BY <2>1, <2>2 DEF Finish
<1> QED
  BY <1>2, <1>4, <1>9, <1>10, <1>11, <1>12, <1>13, <1>14 DEF XInv, Traffic

LEMMA MainXInv ==
    ASSUME XInv, WInv', args' = args, faults' = faults, NEW n \in Nodes, Main(n)
    PROVE  XInv'
<1>1. /\ TypeOK /\ qp \in [Links -> {"init", "rts", "destroyed"}]
      /\ \A x \in Nodes : cnt[x] \in Nat /\ Total(x) \in Nat
  <2>1. TypeOK /\ args \in Args
    BY DEF XInv, TypeOK
  <2> QED
    BY <2>1, Numbers DEF TypeOK
<1>2. CASE GetCqEvent(n)
  <2>1. /\ pc[n] = "event" /\ pc' = [pc EXCEPT ![n] = "poll"]
        /\ UNCHANGED <<srq, sq, broken, unacked, send_cq, recv_cq, accepted, tcp, qp,
                       pp_cnt, cnt>>
    BY <1>2 DEF GetCqEvent
  <2> QED
    BY <1>1, <2>1, MovesKeep
<1>3. CASE PollOne(n)
  BY <1>3, PollOneXInv
<1>4. CASE PollNone(n)
  <2>1. PICK how : how = IF cnt[n] < Total(n) THEN "event" ELSE "drain"
    OBVIOUS
  <2>2. /\ pc[n] = "poll" /\ pc' = [pc EXCEPT ![n] = how]
        /\ UNCHANGED <<srq, sq, broken, unacked, send_cq, recv_cq, accepted, tcp, qp,
                       pp_cnt, cnt>>
    BY <1>4, <2>1 DEF PollNone, nicVars
  <2>3. how \in {"event", "drain"} /\ (how = "drain" => cnt[n] >= Total(n))
    BY <1>1, <2>1
  <2> QED
    BY <1>1, <2>2, <2>3, MovesKeep
<1>5. CASE Drained(n)
  BY <1>5, DrainedXInv
<1>6. CASE n = Server /\ ServerStart
  <2>1. (ServerStart /\ n = Server) \/ (ClientStart(n) /\ n # Server)
    BY <1>6
  <2> QED
    BY <2>1, StartKeeps
<1>7. CASE n = Server /\ ServerAccept
  BY <1>7, AcceptKeeps
<1>8. CASE n = Server /\ ServerTermination
  <2>1. (ServerTermination /\ n = Server) \/ (ClientTermination(n) /\ n # Server)
    BY <1>8
  <2> QED
    BY <2>1, TerminationXInv
<1>9. CASE n # Server /\ ClientStart(n)
  BY <1>9, StartKeeps
<1>10. CASE n # Server /\ ClientConnect(n)
  <2>1. PICK how : how = Loop
    OBVIOUS
  <2>2. /\ pc[n] = "wait_addr" /\ pc' = [pc EXCEPT ![n] = how]
        /\ qp' = [qp EXCEPT ![<<n, Server>>] = "rts"]
        /\ UNCHANGED <<srq, sq, broken, unacked, send_cq, recv_cq, accepted, tcp,
                       pp_cnt, cnt>>
    BY <1>10, <2>1 DEF ClientConnect, nicVars
  <2>3. how \in {"event", "poll"}
    BY <2>1 DEF Loop
  <2>4. qp' \in [Links -> {"init", "rts", "destroyed"}]
    BY <1>1, <2>2
  <2> QED
    BY <2>2, <2>3, <2>4, MovesKeep
<1>11. CASE n # Server /\ ClientTermination(n)
  BY <1>11, TerminationXInv
<1> QED
  BY <1>2, <1>3, <1>4, <1>5, <1>6, <1>7, <1>8, <1>9, <1>10, <1>11 DEF Main

LEMMA NextXInv == XInv /\ [Next]_vars => XInv'
<1> SUFFICES ASSUME XInv, [Next]_vars PROVE XInv'
  OBVIOUS
<1>1. WInv'
  BY NextWInv DEF XInv
<1>2. args' = args /\ faults' = faults
  BY DEF Next, vars
<1>3. ASSUME UNCHANGED runVars PROVE XInv'
  <2>1. TypeOK /\ args \in Args
    BY DEF XInv, TypeOK
  <2>2. UNCHANGED <<srq, sq, broken, unacked, send_cq, recv_cq, accepted, tcp, qp,
                    pp_cnt, cnt, pc>>
    BY <1>3 DEF runVars, nicVars, mainVars
  <2>3. /\ Nodes' = Nodes /\ Links' = Links /\ Server' = Server /\ NumClients' = NumClients
        /\ NumTests' = NumTests /\ Clients' = Clients
    BY <1>2, SameNames DEF Server
  <2>4. TypeOK'
    <3>1. Types'
      BY <1>1 DEF WInv
    <3> QED
      BY <1>2, <2>1, <2>2, <2>3, <3>1 DEF TypeOK, Types, Message
  <2>5. Traffic'
    BY <1>2, <2>1, <2>2, TrafficSame DEF XInv
  <2>6. ASSUME NEW x \in Nodes PROVE Receives(x)'
    <3>1. Receives(x)
      BY DEF XInv
    <3> QED
      BY <1>2, <2>2, <3>1, ReceivesSame
  <2>7. Before'
    BY <1>2, <2>2, BeforeSame DEF XInv
  <2>8. Finish'
    <3>1. \A x \in Nodes : cnt'[x] \in Nat /\ cnt'[x] >= cnt[x]
      BY <2>1, <2>2 DEF TypeOK
    <3> QED
      BY <1>2, <2>1, <2>2, <3>1, FinishSame DEF XInv
  <2> QED
    BY <1>1, <2>3, <2>4, <2>5, <2>6, <2>7, <2>8 DEF XInv
<1>4. ASSUME NEW n \in Nodes, Kill(n) PROVE XInv'
  <2>1. TypeOK /\ qp \in [Links -> {"init", "rts", "destroyed"}]
    BY DEF XInv, TypeOK
  <2>2. PICK how : how = IF pc[n] = "start" THEN "absent" ELSE "killed"
    OBVIOUS
  <2>3. /\ pc' = [pc EXCEPT ![n] = how]
        /\ qp' = [l \in Links |-> IF l[1] = n THEN "destroyed" ELSE qp[l]]
        /\ UNCHANGED <<srq, sq, broken, unacked, send_cq, recv_cq, accepted, tcp,
                       pp_cnt, cnt>>
        /\ pc[n] # "done" /\ pc[n] # "absent"
    BY <1>4, <2>2 DEF Kill, Exit, nicVars, Running, Ended
  <2>4. how \in {"killed", "absent"} /\ (how = "absent" <=> pc[n] = "start")
    BY <2>2
  <2>5. qp' \in [Links -> {"init", "rts", "destroyed"}]
    BY <2>1, <2>3
  <2> QED
    BY <1>1, <1>2, <2>3, <2>4, <2>5, MovesKeep
<1> QED
  BY <1>1, <1>2, <1>3, <1>4, MainXInv, DeliverXInv, AcknowledgeXInv, SendFailsXInv
  DEF Next, Rest, vars

\* The invariant of the exchange: a message between the server and a client is
\* in one place, a receive is posted or has completed, and END is written by
\* those who have received everything.
THEOREM XsrqExchange == Spec => []XInv
<1> QED
  BY InitXInv, NextXInv, PTL DEF Spec

-----------------------------------------------------------------------------
\* As many messages are coming as there are peers with a message for the node:
\* they are counted by their senders.
LEMMA ComingFromSenders ==
    ASSUME args \in Args, Destinations, OneForEach, NEW n \in Nodes
    PROVE  /\ IsFiniteSet(Coming(n))
           /\ Cardinality(Coming(n)) <= Cardinality(Senders(n))
<1>1. ASSUME NEW e \in Coming(n)
      PROVE  /\ e[1] \in Links /\ e[2] \in 1 .. Len(sq[e[1]])
             /\ sq[e[1]][e[2]].to = n /\ e = <<e[1], e[2]>>
  BY DEF Coming
<1>2. ASSUME NEW e \in Coming(n) PROVE e[1][1] \in Senders(n)
  <2>1. e[1] \in Links /\ e[2] \in 1 .. Len(sq[e[1]]) /\ sq[e[1]][e[2]].to = n
    BY <1>1
  <2>2. PICK l \in Links : l = e[1]
    BY <2>1
  <2>3. Has(l[1], n) /\ n \in Peers(l[1])
    BY <2>1, <2>2 DEF Has, Destinations
  <2>4. l[1] \in Peers(n)
    BY <2>3, Names
  <2> QED
    BY <2>2, <2>3, <2>4 DEF Senders
<1>3. ASSUME NEW d \in Coming(n), NEW e \in Coming(n), d[1][1] = e[1][1] PROVE d = e
  <2>1. d[1] = e[1] /\ d[2] = e[2]
    BY <1>1, <1>3 DEF OneForEach
  <2> QED
    BY <1>1, <2>1
<1> DEFINE f == [e \in Coming(n) |-> e[1][1]]
<1>4. f \in [Coming(n) -> Senders(n)] /\ \A d, e \in Coming(n) : f[d] = f[e] => d = e
  BY <1>2, <1>3
<1> HIDE DEF f
<1>5. f \in Injection(Coming(n), Senders(n))
  BY <1>4 DEF Injection, IsInjective
<1> QED
  BY <1>5, Finite, FS_Injection

\* A sequence without repetitions is not longer than the set of its elements.
LEMMA NotLonger ==
    ASSUME NEW T, IsFiniteSet(T), NEW q \in Seq(T), NoRepeats(q)
    PROVE  Len(q) <= Cardinality({x \in T : In(x, q)})
<1> DEFINE R == {x \in T : In(x, q)}
           f == [i \in 1 .. Len(q) |-> q[i]]
<1>1. IsFiniteSet(R)
  BY FS_Subset
<1>2. f \in [1 .. Len(q) -> R] /\ \A i, j \in 1 .. Len(q) : f[i] = f[j] => i = j
  BY DEF In, NoRepeats
<1>3. Len(q) \in Nat
  OBVIOUS
<1> HIDE DEF f, R
<1>4. f \in Injection(1 .. Len(q), R)
  BY <1>2 DEF Injection, IsInjective
<1>5. Cardinality(1 .. Len(q)) <= Cardinality(R)
  BY <1>1, <1>4, FS_Injection
<1>6. Cardinality(1 .. Len(q)) = Len(q)
  <2>1. 1 \in Int /\ Len(q) \in Int
    BY <1>3
  <2>2. Cardinality(1 .. Len(q)) = IF 1 > Len(q) THEN 0 ELSE Len(q) - 1 + 1
    BY <2>1, FS_Interval
  <2> QED
    BY <1>3, <2>2
<1> QED
  BY <1>5, <1>6 DEF R

\* A receive for every message that is coming: at the server because a client
\* whose message has come has sent no other, and at a client because the server
\* has sent one at most, and none while one is not polled.
LEMMA ReceiveForEach ==
    ASSUME XInv, NEW n \in Nodes, pc[n] \notin {"start", "absent"}
    PROVE  Cardinality(Senders(n)) <= srq[n]
<1>1. /\ args \in Args /\ srq[n] \in Nat /\ recv_cq[n] \in Seq(Clients)
      /\ srq[n] + Len(recv_cq[n]) = Cardinality(Peers(n))
  <2>1. TypeOK /\ args \in Args /\ Receives(n)
    BY DEF XInv, TypeOK
  <2>2. NumClients \in Nat /\ srq[n] \in 0 .. NumClients
    BY <2>1, Names DEF TypeOK
  <2> QED
    BY <2>1, <2>2 DEF TypeOK, Receives
<1>2. Len(recv_cq[n]) \in Nat
  BY <1>1
<1>3. /\ IsFiniteSet(Peers(n)) /\ Cardinality(Peers(n)) \in Nat
      /\ IsFiniteSet(Senders(n)) /\ Cardinality(Senders(n)) \in Nat
      /\ Senders(n) \in SUBSET Peers(n)
  BY <1>1, Numbers, Finite, FS_CardinalityType DEF Senders
<1>4. CASE n = Server
  <2> DEFINE come == {x \in Peers(n) : In(x, recv_cq[n])}
  <2>1. Peers(n) = Clients
    BY <1>1, <1>4, Names
  <2>2. Len(recv_cq[n]) <= Cardinality(come)
    BY <1>1, <1>3, <1>4, <2>1, NotLonger DEF XInv, Traffic
  <2>3. come \cap Senders(n) = {}
    BY <1>4, <2>1 DEF Senders, XInv, Traffic, Token
  <2>4. come \in SUBSET Peers(n)
    OBVIOUS
  <2> HIDE DEF come
  <2>5. IsFiniteSet(come) /\ Cardinality(come) \in Nat
    BY <1>3, <2>4, FS_Subset, FS_CardinalityType
  <2>6. Cardinality(come \cup Senders(n))
           = Cardinality(come) + Cardinality(Senders(n)) - Cardinality({})
    BY <1>3, <2>3, <2>5, FS_Union
  <2>7. Cardinality(come \cup Senders(n)) <= Cardinality(Peers(n))
    <3>1. come \cup Senders(n) \in SUBSET Peers(n)
      BY <1>3, <2>4
    <3> QED
      BY <1>3, <3>1, FS_Subset
  <2>8. Cardinality({}) = 0
    BY FS_EmptySet
  <2> QED
    BY <1>1, <1>2, <1>3, <2>2, <2>5, <2>6, <2>7, <2>8
<1>5. CASE n # Server
  <2>1. Peers(n) = {Server} /\ n \in Clients /\ Cardinality(Peers(n)) = 1
    BY <1>1, <1>5, Names, Numbers
  <2>2. Cardinality(Senders(n)) <= 1
    BY <1>3, <2>1, FS_Subset
  <2>3. CASE Senders(n) = {}
    <3>1. Cardinality(Senders(n)) = 0
      BY <2>3, FS_EmptySet
    <3> QED
      BY <1>1, <3>1
  <2>4. CASE Senders(n) # {}
    <3>1. Has(Server, n)
      BY <2>1, <2>4 DEF Senders
    <3>2. recv_cq[n] = <<>>
      BY <2>1, <3>1 DEF XInv, Traffic, Token
    <3>3. Len(recv_cq[n]) = 0
      BY <3>2
    <3> QED
      BY <1>1, <1>3, <2>1, <2>2, <3>3
  <2> QED
    BY <2>3, <2>4
<1> QED
  BY <1>4, <1>5

\* No queue overflows and no message finds its receive queue empty, for any
\* number of clients and messages and on whatever links the round robin puts
\* them, also when programs are killed.
THEOREM QueuesAlwaysSuffice == Spec => []QueuesSuffice
<1>1. XInv => QueuesSuffice
  <2> SUFFICES ASSUME XInv, NEW n \in Nodes, Running(n), pc[n] # "start"
               PROVE  /\ Cardinality(Coming(n)) <= srq[n]
                      /\ srq[n] + Len(recv_cq[n]) = Cardinality(Peers(n))
                      /\ broken = {} => send_cq[n] <= Cardinality(Peers(n))
    BY DEF QueuesSuffice, XInv
  <2>1. TypeOK /\ args \in Args /\ pc[n] \notin {"start", "absent"}
    BY DEF XInv, TypeOK, Running, Ended
  <2>2. Cardinality(Coming(n)) <= srq[n]
    <3>1. Cardinality(Coming(n)) <= Cardinality(Senders(n))
      BY <2>1, ComingFromSenders DEF XInv, Traffic
    <3>2. Cardinality(Senders(n)) <= srq[n] /\ Cardinality(Senders(n)) \in Nat
      BY <2>1, ReceiveForEach, Finite
    <3>3. srq[n] \in Nat
      BY <2>1, Names DEF TypeOK
    <3>4. IsFiniteSet(Coming(n))
      BY <2>1, ComingFromSenders DEF XInv, Traffic
    <3>5. Cardinality(Coming(n)) \in Nat
      BY <3>4, FS_CardinalityType
    <3> QED
      BY <3>1, <3>2, <3>3, <3>5
  <2>3. srq[n] + Len(recv_cq[n]) = Cardinality(Peers(n))
    BY <2>1 DEF XInv, Receives
  <2>4. ASSUME broken = {} PROVE send_cq[n] <= Cardinality(Peers(n))
    <3>1. /\ IsFiniteSet(Unacked(n))
          /\ Cardinality(Asked(n)) + Cardinality(Unacked(n)) + send_cq[n]
                 <= Cardinality(LastPosted(n))
      BY <2>4 DEF XInv, Traffic, Signals
    <3>2. Cardinality(Unacked(n)) \in Nat
      BY <3>1, FS_CardinalityType
    <3>3. /\ Cardinality(Asked(n)) \in Nat /\ Cardinality(LastPosted(n)) \in Nat
          /\ Cardinality(LastPosted(n)) <= Cardinality(Peers(n))
      BY <2>1, Finite
    <3>4. send_cq[n] \in Nat /\ Cardinality(Peers(n)) \in Nat
      BY <2>1, Numbers, FS_CardinalityType DEF TypeOK
    <3> QED
      BY <3>1, <3>2, <3>3, <3>4
  <2> QED
    BY <2>2, <2>3, <2>4
<1> QED
  BY <1>1, XsrqExchange, PTL

\* A node that has counted its messages has none coming: there were only so
\* many for it.
LEMMA AllReceived ==
    ASSUME XInv, NEW n \in Nodes, cnt[n] >= Total(n)
    PROVE  cnt[n] = Total(n) /\ Senders(n) = {}
<1>1. /\ args \in Args /\ cnt[n] \in Nat /\ recv_cq[n] \in Seq(Clients) /\ Received(n)
  BY DEF XInv, TypeOK, Traffic
<1>2. Len(recv_cq[n]) \in Nat
  BY <1>1
<1>3. /\ IsFiniteSet(Senders(n)) /\ Cardinality(Senders(n)) \in Nat
      /\ Cardinality(PostedFor(n)) \in Nat /\ Cardinality(PostedFor(n)) <= Total(n)
      /\ Total(n) \in Nat
  BY <1>1, Finite, Numbers
<1>4. cnt[n] + Len(recv_cq[n]) + Cardinality(Senders(n)) <= Cardinality(PostedFor(n))
  BY <1>1 DEF Received
<1>5. cnt[n] = Total(n) /\ Cardinality(Senders(n)) = 0
  BY <1>1, <1>2, <1>3, <1>4
<1> QED
  BY <1>3, <1>5, FS_EmptySet

\* When a program has destroyed its queue pairs, everybody has received all
\* messages and none travels through any of them: END of the server says that
\* every client has written END, and END is written after the last message.
THEOREM NobodyEverLeavesEarly == Spec => []NobodyLeavesEarly
<1>1. XInv => NobodyLeavesEarly
  <2> SUFFICES ASSUME XInv, NEW n \in Nodes, pc[n] = "done"
               PROVE  /\ \A m \in Nodes : cnt[m] = Total(m)
                      /\ \A l \in Links : sq[l] = <<>>
    BY DEF NobodyLeavesEarly
  <2>1. TypeOK /\ args \in Args /\ Finish /\ Destinations
    BY DEF XInv, TypeOK, Traffic
  <2>2. RecvTerminationAck(Server) /\ cnt[Server] >= Total(Server)
    <3>1. CASE n = Server
      BY <2>1, <3>1 DEF Finish
    <3>2. CASE n # Server
      <4>1. n \in Clients /\ Peers(n) = {Server} /\ <<Server, n>> \in Links
        BY <2>1, <3>2, Names
      <4>2. tcp[<<Server, n>>] = "end"
        BY <2>1, <4>1 DEF Finish, RecvTerminationAck
      <4>3. PICK l \in Links : l = <<Server, n>>
        BY <4>1
      <4>4. tcp[l] = "end" /\ l[1] = Server
        BY <4>2, <4>3
      <4> QED
        BY <2>1, <4>4 DEF Finish
    <3> QED
      BY <3>1, <3>2
  <2>3. ASSUME NEW m \in Nodes PROVE cnt[m] = Total(m) /\ Senders(m) = {}
    <3>1. CASE m = Server
      BY <2>2, <3>1, AllReceived
    <3>2. CASE m # Server
      <4>1. m \in Peers(Server) /\ <<m, Server>> \in Links
        BY <2>1, <3>2, Names
      <4>2. PICK l \in Links : l = <<m, Server>>
        BY <4>1
      <4>3. tcp[l] = "end" /\ l[1] = m
        BY <2>2, <4>1, <4>2 DEF RecvTerminationAck
      <4>4. cnt[m] >= Total(m)
        BY <2>1, <4>3 DEF Finish
      <4> QED
        BY <4>4, AllReceived
    <3> QED
      BY <3>1, <3>2
  <2>4. ASSUME NEW l \in Links PROVE sq[l] = <<>>
    <3>1. SUFFICES ASSUME sq[l] # <<>> PROVE FALSE
      OBVIOUS
    <3>2. 1 \in 1 .. Len(sq[l])
      BY <2>1, <3>1 DEF TypeOK
    <3>3. PICK m : m = sq[l][1].to
      OBVIOUS
    <3>4. m \in Peers(l[1]) /\ Has(l[1], m) /\ l[1] \in Nodes
      BY <2>1, <3>2, <3>3, Names DEF Destinations, Has
    <3>5. m \in Nodes /\ l[1] \in Peers(m)
      BY <2>1, <3>4, Names
    <3> QED
      BY <2>3, <3>4, <3>5 DEF Senders
  <2> QED
    BY <2>3, <2>4
<1> QED
  BY <1>1, XsrqExchange, PTL
=============================================================================
