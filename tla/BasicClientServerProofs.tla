------------------------ MODULE BasicClientServerProofs ------------------------
(***************************************************************************)
(* Whatever fails, a client disconnects only with its answer, and if       *)
(* nothing fails nobody dies, for any number of clients.                   *)
(***************************************************************************)
EXTENDS BasicClientServer, TLAPS

Statuses == {"send", "recv", "error"}

\* What the argument needs of the types.
Types ==
    /\ DOMAIN st = Ends /\ hand \in [Ends -> {"none", "send", "recv"}]
    /\ recvs \in [Ends -> Nat] /\ sq \in [Ends -> Nat] /\ unacked \in [Ends -> Nat]
    /\ cq \in [Ends -> Seq(Statuses)]
    /\ numCompletions \in [Conns -> Nat]
    /\ arrived \in [Ends -> BOOLEAN] /\ printed \in [Ends -> BOOLEAN]

In(x, q) == \E i \in 1 .. Len(q) : q[i] = x
Once(x, q) == \A i, j \in 1 .. Len(q) : q[i] = x /\ q[j] = x => i = j

\* The client's receive is posted, then in the completion queue, then in hand,
\* and then printed: in one place at a time.
OneReceive(c) ==
    LET e == Client(c)
    IN  /\ recvs[e] <= 1 /\ Once("recv", cq[e])
        /\ recvs[e] > 0 => ~In("recv", cq[e]) /\ hand[e] # "recv" /\ ~printed[e]
        /\ In("recv", cq[e]) => hand[e] # "recv" /\ ~printed[e]
        /\ hand[e] = "recv" => ~printed[e]
        /\ In("recv", cq[e]) \/ hand[e] = "recv" \/ printed[e] => arrived[e]
        /\ st[e] = "idle" =>
              recvs[e] = 0 /\ ~In("recv", cq[e]) /\ hand[e] # "recv" /\ ~printed[e]

\* The completion of its SEND has been counted.
Sent(c) == numCompletions[c] > IF printed[Client(c)] THEN 1 ELSE 0

\* The same for its SEND.
OneSend(c) ==
    LET e == Client(c)
    IN  /\ sq[e] + unacked[e] <= 1 /\ Once("send", cq[e])
        /\ sq[e] + unacked[e] > 0 => ~In("send", cq[e]) /\ hand[e] # "send" /\ ~Sent(c)
        /\ In("send", cq[e]) => hand[e] # "send" /\ ~Sent(c)
        /\ hand[e] = "send" => ~Sent(c)
        /\ unacked[e] > 0 \/ In("send", cq[e]) \/ hand[e] = "send" \/ Sent(c)
              => arrived[Server(c)]
        /\ st[e] \in {"idle", "routing", "connecting"} =>
              /\ sq[e] = 0 /\ unacked[e] = 0
              /\ ~In("send", cq[e]) /\ hand[e] # "send" /\ ~Sent(c)

\* The count is that of both.
Counted(c) ==
    LET p == IF printed[Client(c)] THEN 1 ELSE 0
    IN  numCompletions[c] \in {p, p + 1}

Answer(c) ==
    st[Client(c)] = "closing" =>
        printed[Client(c)] /\ arrived[Client(c)] /\ arrived[Server(c)]

ClientInv(c) == OneReceive(c) /\ OneSend(c) /\ Counted(c) /\ Answer(c)

BInv == Types /\ \A c \in Conns : ClientInv(c)

-----------------------------------------------------------------------------
(***************************************************************************)
(* Sequences.                                                              *)
(***************************************************************************)
LEMMA NothingIn ==
    ASSUME NEW x PROVE ~In(x, <<>>) /\ Once(x, <<>>)
BY DEF In, Once

LEMMA AppendIn ==
    ASSUME NEW q \in Seq(Statuses), NEW x, NEW y \in Statuses
    PROVE  /\ Append(q, y) \in Seq(Statuses)
           /\ In(x, Append(q, y)) <=> In(x, q) \/ x = y
           /\ Once(x, q) /\ (x = y => ~In(x, q)) => Once(x, Append(q, y))
BY DEF In, Once

LEMMA TailIn ==
    ASSUME NEW q \in Seq(Statuses), q # <<>>, NEW x
    PROVE  /\ Tail(q) \in Seq(Statuses) /\ In(Head(q), q)
           /\ In(x, Tail(q)) => In(x, q)
           /\ Once(x, q) => Once(x, Tail(q)) /\ (x = Head(q) => ~In(x, Tail(q)))
BY DEF In, Once

LEMMA InitBInv == Init => BInv
<1> SUFFICES ASSUME Init PROVE BInv
  OBVIOUS
<1>1. Types
  BY DEF Init, Types
<1>2. ASSUME NEW c \in Conns PROVE ClientInv(c)
  BY NothingIn DEF Init, ClientInv, OneReceive, OneSend, Sent, Counted, Answer, Client, Ends
<1> QED
  BY <1>1, <1>2 DEF BInv

-----------------------------------------------------------------------------
\* A step that leaves a client's work alone, but may end or advance it.
LEMMA Frame ==
    ASSUME BInv, NEW c \in Conns,
           recvs'[Client(c)] = recvs[Client(c)], sq'[Client(c)] = sq[Client(c)],
           unacked'[Client(c)] = unacked[Client(c)], cq'[Client(c)] = cq[Client(c)],
           hand'[Client(c)] = hand[Client(c)] \/ hand'[Client(c)] = "none",
           numCompletions'[c] = numCompletions[c],
           printed'[Client(c)] = printed[Client(c)],
           arrived[Client(c)] => arrived'[Client(c)],
           arrived[Server(c)] => arrived'[Server(c)],
           \/ st'[Client(c)] = st[Client(c)]
           \/ st'[Client(c)] \notin {"idle", "routing", "connecting", "closing"}
           \/ st'[Client(c)] \in {"routing", "connecting"}
              /\ st[Client(c)] \in {"idle", "routing", "connecting"}
    PROVE  ClientInv(c)'
BY DEF BInv, ClientInv, OneReceive, OneSend, Sent, Counted, Answer

LEMMA EndsAreDifferent ==
    ASSUME NEW c \in Conns
    PROVE  /\ Client(c) \in Ends /\ Server(c) \in Ends
           /\ \A d \in Conns : Client(c) # Server(d) /\ Server(c) # Client(d)
           /\ \A d \in Conns : c # d => Client(c) # Client(d) /\ Server(c) # Server(d)
           /\ \A e \in Ends : e = Client(e[1]) \/ e = Server(e[1])
           /\ \A e \in Ends : e[1] \in Conns
           /\ Peer(Client(c)) = Server(c) /\ Peer(Server(c)) = Client(c)
BY DEF Client, Server, Ends, Peer

(***************************************************************************)
(* The event loops.                                                        *)
(***************************************************************************)
LEMMA ClientEventLoopKeeps ==
    ASSUME BInv, NEW c \in Conns, ClientEventLoop(c)
    PROVE  BInv'
<1> DEFINE e == Client(c)
<1> USE EndsAreDifferent
<1>1. CASE OnAddrResolved(c)
  <2>1. /\ st[e] = "idle" /\ st' = [st EXCEPT ![e] = "routing"]
        /\ recvs' = [recvs EXCEPT ![e] = recvs[e] + 1]
        /\ UNCHANGED <<sq, unacked, cq, hand, numCompletions, arrived, printed>>
    BY <1>1 DEF OnAddrResolved, outVars
  <2>2. Types'
    BY <2>1 DEF BInv, Types
  <2>3. ClientInv(c)'
    BY <2>1, NothingIn DEF BInv, Types, ClientInv, OneReceive, OneSend, Sent, Counted, Answer
  <2>4. \A d \in Conns \ {c} : ClientInv(d)'
    BY <2>1, Frame DEF BInv, Types
  <2> QED
    BY <2>2, <2>3, <2>4 DEF BInv
<1>2. CASE OnConnection(c)
  <2>1. /\ st[e] = "connecting" /\ st' = [st EXCEPT ![e] = "up", ![Server(c)] = "confirmed"]
        /\ sq' = [sq EXCEPT ![e] = sq[e] + 1]
        /\ UNCHANGED <<recvs, unacked, cq, hand, numCompletions, arrived, printed>>
    BY <1>2 DEF OnConnection, outVars
  <2>2. Types'
    BY <2>1 DEF BInv, Types
  <2>a. /\ st'[e] = "up" /\ sq'[e] = sq[e] + 1 /\ sq[e] \in Nat /\ unacked[e] \in Nat
    BY <2>1 DEF BInv, Types
  <2>b. OneReceive(c)' /\ Counted(c)' /\ Answer(c)'
    BY <2>1, <2>a DEF BInv, ClientInv, OneReceive, Counted, Answer
  <2>c. OneSend(c)'
    BY <2>1, <2>a DEF BInv, ClientInv, OneSend, Sent
  <2>3. ClientInv(c)'
    BY <2>b, <2>c DEF ClientInv
  <2>4. \A d \in Conns \ {c} : ClientInv(d)'
    BY <2>1, Frame DEF BInv, Types
  <2> QED
    BY <2>2, <2>3, <2>4 DEF BInv
<1>3. CASE OnDisconnect(e)
  <2>1. /\ st' = [st EXCEPT ![e] = "freed"]
        /\ recvs' = [recvs EXCEPT ![e] = 0] /\ sq' = [sq EXCEPT ![e] = 0]
        /\ unacked' = [unacked EXCEPT ![e] = 0] /\ cq' = [cq EXCEPT ![e] = <<>>]
        /\ UNCHANGED <<hand, numCompletions, arrived, printed>>
    BY <1>3 DEF OnDisconnect, outVars
  <2>2. Types'
    BY <2>1 DEF BInv, Types
  <2>3. ClientInv(c)'
    BY <2>1, NothingIn DEF BInv, Types, ClientInv, OneReceive, OneSend, Sent, Counted, Answer
  <2>4. \A d \in Conns \ {c} : ClientInv(d)'
    BY <2>1, Frame DEF BInv, Types
  <2> QED
    BY <2>2, <2>3, <2>4 DEF BInv
<1>4. CASE OnRouteResolved(c) \/ OnUnknownEvent(c) \/ MainReturns(c)
  <2>1. UNCHANGED <<recvs, sq, unacked, cq, hand, numCompletions, arrived, printed>>
    BY <1>4 DEF OnRouteResolved, OnUnknownEvent, MainReturns, Die, nicVars, outVars
  <2>2. \/ st[e] = "routing" /\ st' = [st EXCEPT ![e] = "connecting", ![Server(c)] = "requested"]
        \/ st' = [st EXCEPT ![e] = "failed"] \/ st' = [st EXCEPT ![e] = "exited"]
    BY <1>4 DEF OnRouteResolved, OnUnknownEvent, MainReturns, Die, Client
  <2>3. Types'
    BY <2>1, <2>2 DEF BInv, Types
  <2>4. \A d \in Conns : ClientInv(d)'
    BY <2>1, <2>2, Frame DEF BInv, Types
  <2> QED
    BY <2>3, <2>4 DEF BInv
<1> QED
  BY <1>1, <1>2, <1>3, <1>4 DEF ClientEventLoop

\* A step at a server's end of a connection, which may have told the client.
LEMMA ServerEnd ==
    ASSUME BInv, NEW c \in Conns, Types',
           \A d \in Conns :
               /\ recvs'[Client(d)] = recvs[Client(d)] /\ sq'[Client(d)] = sq[Client(d)]
               /\ unacked'[Client(d)] = unacked[Client(d)] /\ cq'[Client(d)] = cq[Client(d)]
               /\ hand'[Client(d)] = hand[Client(d)] /\ st'[Client(d)] = st[Client(d)]
               /\ printed'[Client(d)] = printed[Client(d)],
           UNCHANGED <<numCompletions, arrived>>
    PROVE  BInv'
<1>1. \A d \in Conns : ClientInv(d)'
  BY Frame
<1> QED
  BY <1>1 DEF BInv

LEMMA ServerEventLoopKeeps ==
    ASSUME BInv, NEW c \in Conns,
           \/ OnConnectRequest(c) \/ ServerOnConnection(c)
           \/ ServerOnUnknownEvent(c) \/ OnDisconnect(Server(c))
    PROVE  BInv'
<1> DEFINE e == Server(c)
<1>e. e \in Ends /\ \A d \in Conns : Client(d) \in Ends /\ Client(d) # e
  BY EndsAreDifferent
<1>1. /\ UNCHANGED <<hand, numCompletions, arrived, printed>>
      /\ st' = st \/ \E x \in {"accepted", "up", "freed"} : st' = [st EXCEPT ![e] = x]
      /\ \/ recvs' = recvs \/ recvs' = [recvs EXCEPT ![e] = recvs[e] + 1]
         \/ recvs' = [recvs EXCEPT ![e] = 0]
      /\ \/ sq' = sq \/ sq' = [sq EXCEPT ![e] = sq[e] + 1]
         \/ sq' = [sq EXCEPT ![e] = 0]
      /\ unacked' = unacked \/ unacked' = [unacked EXCEPT ![e] = 0]
      /\ cq' = cq \/ cq' = [cq EXCEPT ![e] = <<>>]
  BY DEF OnConnectRequest, ServerOnConnection, ServerOnUnknownEvent, OnDisconnect, Die,
         nicVars, outVars, Server
<1>2. Types'
  <2>1. DOMAIN st' = Ends
    BY <1>1 DEF BInv, Types
  <2>2. recvs' \in [Ends -> Nat]
    <3>1. recvs \in [Ends -> Nat] /\ 0 \in Nat /\ recvs[e] + 1 \in Nat
      BY <1>e DEF BInv, Types
    <3> QED
      BY <1>1, <3>1
  <2>3. sq' \in [Ends -> Nat]
    <3>1. sq \in [Ends -> Nat] /\ 0 \in Nat /\ sq[e] + 1 \in Nat
      BY <1>e DEF BInv, Types
    <3> QED
      BY <1>1, <3>1
  <2>4. unacked' \in [Ends -> Nat]
    <3>1. unacked \in [Ends -> Nat] /\ 0 \in Nat /\ unacked[e] + 1 \in Nat
      BY <1>e DEF BInv, Types
    <3> QED
      BY <1>1, <3>1
  <2>5. cq' \in [Ends -> Seq(Statuses)]
    <3>1. cq \in [Ends -> Seq(Statuses)] /\ <<>> \in Seq(Statuses)
      BY DEF BInv, Types
    <3> QED
      BY <1>1, <3>1
  <2> QED
    BY <1>1, <2>1, <2>2, <2>3, <2>4, <2>5 DEF BInv, Types
<1>3. ASSUME NEW d \in Conns
      PROVE  /\ recvs'[Client(d)] = recvs[Client(d)] /\ sq'[Client(d)] = sq[Client(d)]
             /\ unacked'[Client(d)] = unacked[Client(d)] /\ cq'[Client(d)] = cq[Client(d)]
             /\ st'[Client(d)] = st[Client(d)]
  <2>1. Client(d) # e /\ Client(d) \in Ends
    BY <1>e
  <2>2. recvs'[Client(d)] = recvs[Client(d)]
    BY <1>1, <2>1 DEF BInv, Types
  <2>3. sq'[Client(d)] = sq[Client(d)]
    BY <1>1, <2>1 DEF BInv, Types
  <2>4. unacked'[Client(d)] = unacked[Client(d)]
    BY <1>1, <2>1 DEF BInv, Types
  <2>5. cq'[Client(d)] = cq[Client(d)]
    BY <1>1, <2>1 DEF BInv, Types
  <2>6. st'[Client(d)] = st[Client(d)]
    BY <1>1, <2>1 DEF BInv, Types
  <2> QED
    BY <2>2, <2>3, <2>4, <2>5, <2>6
<1> QED
  BY <1>1, <1>2, <1>3, ServerEnd

-----------------------------------------------------------------------------
(***************************************************************************)
(* The pollers.                                                            *)
(***************************************************************************)
LEMMA DieKeeps ==
    ASSUME BInv, NEW e \in Ends, Die(e)
    PROVE  BInv'
<1>1. /\ UNCHANGED <<recvs, sq, unacked, cq, hand, numCompletions, arrived, printed>>
      /\ st' = st \/ st' = [st EXCEPT ![e] = "failed"]
  BY DEF Die, nicVars, outVars
<1>2. Types'
  BY <1>1 DEF BInv, Types
<1>3. \A d \in Conns : ClientInv(d)'
  BY <1>1, EndsAreDifferent, Frame DEF BInv, Types
<1> QED
  BY <1>2, <1>3 DEF BInv

\* The completion goes from the queue into the poller's hand.
LEMMA PollKeeps ==
    ASSUME BInv, NEW c \in Conns, NEW e \in {Client(c), Server(c)}, Poll(e)
    PROVE  BInv'
<1>e. e \in Ends
  BY EndsAreDifferent
<1>1. CASE Head(cq[e]) = "error"
  BY <1>1, <1>e, DieKeeps DEF Poll
<1>2. CASE Head(cq[e]) # "error"
  <2>1. /\ cq[e] # <<>> /\ hand' = [hand EXCEPT ![e] = Head(cq[e])]
        /\ cq' = [cq EXCEPT ![e] = Tail(cq[e])]
        /\ UNCHANGED <<st, recvs, sq, unacked, numCompletions, arrived, printed>>
        /\ e = Client(c) => hand[e] = "none"
    BY <1>2, EndsAreDifferent DEF Poll, outVars, PollerFree, Client
  <2>2. cq[e] \in Seq(Statuses) /\ Tail(cq[e]) \in Seq(Statuses) /\ In(Head(cq[e]), cq[e])
    BY <1>e, <2>1, TailIn DEF BInv, Types
  <2>a. Head(cq[e]) \in {"send", "recv"}
    BY <1>2, <2>1, <2>2 DEF Statuses
  <2>3. Types'
    BY <1>e, <2>1, <2>2, <2>a DEF BInv, Types
  <2>4. CASE e = Client(c)
    <3>1. /\ cq'[e] = Tail(cq[e]) /\ hand'[e] = Head(cq[e]) /\ hand[e] = "none"
      BY <1>e, <2>1, <2>4 DEF BInv, Types
    <3>2. \A x : /\ In(x, Tail(cq[e])) => In(x, cq[e])
                 /\ Once(x, cq[e]) => Once(x, Tail(cq[e])) /\ (x = Head(cq[e]) => ~In(x, Tail(cq[e])))
      BY <2>1, <2>2, TailIn
    <3>3. OneReceive(c)'
      BY <2>1, <2>2, <2>4, <3>1, <3>2 DEF BInv, ClientInv, OneReceive
    <3>4. OneSend(c)'
      BY <2>1, <2>2, <2>4, <3>1, <3>2 DEF BInv, ClientInv, OneSend, Sent
    <3>5. Counted(c)' /\ Answer(c)'
      BY <2>1 DEF BInv, ClientInv, Counted, Answer
    <3>6. \A d \in Conns \ {c} : ClientInv(d)'
      BY <2>1, <2>4, EndsAreDifferent, Frame DEF BInv, Types
    <3> QED
      BY <2>3, <3>3, <3>4, <3>5, <3>6 DEF BInv, ClientInv
  <2>5. CASE e = Server(c)
    BY <2>1, <2>3, <2>5, EndsAreDifferent, ServerEnd DEF BInv, Types
  <2> QED
    BY <2>4, <2>5
<1> QED
  BY <1>1, <1>2

\* The completion in hand is counted; the second of the two is the one that was
\* still missing, and the client disconnects.
LEMMA ClientCompletionKeeps ==
    ASSUME BInv, NEW c \in Conns, ClientCompletion(c)
    PROVE  BInv'
<1> DEFINE e == Client(c)
<1> DEFINE n == numCompletions[c]
<1>e. e \in Ends /\ Server(c) \in Ends /\ \A d \in Conns \ {c} : Client(d) # e
  BY EndsAreDifferent
<1>1. /\ hand[e] # "none" /\ hand' = [hand EXCEPT ![e] = "none"]
      /\ numCompletions' = [numCompletions EXCEPT ![c] = n + 1]
      /\ printed' = [printed EXCEPT ![e] = printed[e] \/ hand[e] = "recv"]
      /\ arrived' = arrived
  BY DEF ClientCompletion
<1>2. n \in Nat /\ n + 1 \in Nat /\ printed[e] \in BOOLEAN
      /\ (printed[e] \/ hand[e] = "recv") \in BOOLEAN
  BY <1>e DEF BInv, Types
<1>3. hand[e] \in {"send", "recv"} /\ OneReceive(c) /\ OneSend(c) /\ Counted(c)
  BY <1>e, <1>1 DEF BInv, Types, ClientInv
<1>4. /\ hand'[e] = "none" /\ numCompletions'[c] = n + 1
      /\ printed'[e] <=> (printed[e] \/ hand[e] = "recv")
  <2>1. printed'[e] = (printed[e] \/ hand[e] = "recv")
    BY <1>e, <1>1 DEF BInv, Types
  <2>2. hand'[e] = "none" /\ numCompletions'[c] = n + 1
    BY <1>e, <1>1 DEF BInv, Types
  <2> QED
    BY <2>1, <2>2
<1>a. /\ hand[e] = "recv" => ~printed[e]
      /\ hand[e] = "send" => ~Sent(c)
      /\ n \in {IF printed[e] THEN 1 ELSE 0, (IF printed[e] THEN 1 ELSE 0) + 1}
  BY <1>3 DEF OneReceive, OneSend, Counted
<1>b. /\ Counted(c)'
      /\ Sent(c)' <=> (Sent(c) \/ hand[e] = "send")
      /\ n + 1 = 2 => printed'[e] /\ Sent(c)'
  <2>1. CASE hand[e] = "recv"
    BY <1>2, <1>4, <1>a, <2>1 DEF Counted, Sent
  <2>2. CASE hand[e] = "send"
    BY <1>2, <1>4, <1>a, <2>2 DEF Counted, Sent
  <2> QED
    BY <1>3, <2>1, <2>2
<1>5. CASE n + 1 = 2
  <2>1. /\ st' = [st EXCEPT ![e] = "closing"]
        /\ cq' = [cq EXCEPT ![e] = Append(cq[e], "error")] \/ cq' = cq
        /\ recvs' = [recvs EXCEPT ![e] = 0] /\ sq' = [sq EXCEPT ![e] = 0]
        /\ unacked' = [unacked EXCEPT ![e] = 0]
    <3>1. DisconnectNow(c)
      BY <1>5 DEF DisconnectNow
    <3>2. /\ st' = [st EXCEPT ![e] = "closing"]
          /\ recvs' = [recvs EXCEPT ![e] = 0] /\ sq' = [sq EXCEPT ![e] = 0]
          /\ unacked' = [unacked EXCEPT ![e] = 0]
      BY <3>1 DEF ClientCompletion
    <3>3. \/ cq' = [cq EXCEPT ![e] = Append(cq[e], "error")]
          \/ cq' = [cq EXCEPT ![e] = cq[e]]
      BY <3>1 DEF ClientCompletion
    <3>4. cq \in [Ends -> Seq(Statuses)]
      BY DEF BInv, Types
    <3> QED
      BY <3>2, <3>3, <3>4
  <2>2. /\ st'[e] = "closing" /\ recvs'[e] = 0 /\ sq'[e] = 0 /\ unacked'[e] = 0
        /\ cq'[e] = Append(cq[e], "error") \/ cq'[e] = cq[e]
    BY <1>e, <2>1 DEF BInv, Types
  <2>3. cq[e] \in Seq(Statuses) /\ Append(cq[e], "error") \in Seq(Statuses)
    BY <1>e DEF BInv, Types, Statuses
  <2>4. ASSUME NEW x \in {"send", "recv"}
        PROVE  (In(x, cq'[e]) <=> In(x, cq[e])) /\ (Once(x, cq[e]) => Once(x, cq'[e]))
    <3>1. "error" \in Statuses /\ x # "error"
      BY DEF Statuses
    <3>2. /\ In(x, Append(cq[e], "error")) <=> In(x, cq[e])
          /\ Once(x, cq[e]) => Once(x, Append(cq[e], "error"))
      BY <2>3, <3>1, AppendIn
    <3> QED
      BY <2>2, <3>2
  <2>5. Types'
    BY <1>e, <1>1, <1>2, <2>1, <2>3 DEF BInv, Types
  <2>6. OneReceive(c)'
    BY <1>1, <1>3, <1>4, <2>2, <2>4 DEF OneReceive
  <2>7. OneSend(c)'
    BY <1>1, <1>3, <1>4, <1>b, <2>2, <2>4 DEF OneSend
  <2>8. Answer(c)'
    BY <1>5, <1>b, <2>6, <2>7 DEF OneReceive, OneSend, Answer
  <2>9. \A d \in Conns \ {c} : ClientInv(d)'
    BY <1>e, <1>1, <2>1, EndsAreDifferent, Frame DEF BInv, Types
  <2> QED
    BY <1>b, <2>5, <2>6, <2>7, <2>8, <2>9 DEF BInv, ClientInv
<1>6. CASE n + 1 # 2
  <2>1. UNCHANGED <<st, recvs, sq, unacked, cq>>
    BY <1>6 DEF ClientCompletion, DisconnectNow, nicVars
  <2>2. Types'
    BY <1>e, <1>1, <1>2, <2>1 DEF BInv, Types
  <2>3. OneReceive(c)'
    BY <1>1, <1>3, <1>4, <2>1 DEF OneReceive
  <2>4. OneSend(c)'
    BY <1>1, <1>3, <1>4, <1>b, <2>1 DEF OneSend
  <2>5. Answer(c)'
    BY <1>1, <1>4, <2>1 DEF BInv, ClientInv, Answer
  <2>6. \A d \in Conns \ {c} : ClientInv(d)'
    BY <1>e, <1>1, <2>1, EndsAreDifferent, Frame DEF BInv, Types
  <2> QED
    BY <1>b, <2>2, <2>3, <2>4, <2>5, <2>6 DEF BInv, ClientInv
<1> QED
  BY <1>5, <1>6

LEMMA PollersKeep ==
    ASSUME BInv, NEW c \in Conns,
           \/ ClientPoller(c)
           \/ Poll(Server(c)) \/ ServerCompletion(c) \/ StaleConnection(Server(c))
    PROVE  BInv'
<1>1. CASE Poll(Client(c)) \/ Poll(Server(c))
  BY <1>1, PollKeeps
<1>2. CASE ClientCompletion(c)
  BY <1>2, ClientCompletionKeeps
<1>3. CASE ServerCompletion(c)
  <2>1. /\ hand' = [hand EXCEPT ![Server(c)] = "none"]
        /\ printed' = [printed EXCEPT ![Server(c)] = printed[Server(c)] \/ hand[Server(c)] = "recv"]
        /\ UNCHANGED <<st, recvs, sq, unacked, cq, numCompletions, arrived>>
    BY <1>3 DEF ServerCompletion, nicVars
  <2>2. (printed[Server(c)] \/ hand[Server(c)] = "recv") \in BOOLEAN
    BY EndsAreDifferent DEF BInv, Types
  <2>3. Types'
    BY <2>1, <2>2, EndsAreDifferent DEF BInv, Types
  <2> QED
    BY <2>1, <2>3, EndsAreDifferent, ServerEnd DEF BInv, Types
<1>4. ASSUME NEW e \in {Client(c), Server(c)}, StaleConnection(e) PROVE BInv'
  <2>1. e \in Ends
    BY EndsAreDifferent
  <2>2. CASE Die(e)
    BY <2>1, <2>2, DieKeeps
  <2>3. CASE ~Die(e)
    <3>1. /\ hand' = [hand EXCEPT ![e] = "none"]
          /\ UNCHANGED <<st, recvs, sq, unacked, cq, numCompletions, arrived, printed>>
      BY <1>4, <2>3 DEF StaleConnection, nicVars, outVars
    <3>2. Types'
      BY <2>1, <3>1 DEF BInv, Types
    <3>3. \A d \in Conns : ClientInv(d)'
      BY <3>1, EndsAreDifferent, Frame DEF BInv, Types
    <3> QED
      BY <3>2, <3>3 DEF BInv
  <2> QED
    BY <2>2, <2>3
<1> QED
  BY <1>1, <1>2, <1>3, <1>4 DEF ClientPoller

-----------------------------------------------------------------------------
(***************************************************************************)
(* The connection.                                                         *)
(***************************************************************************)

\* The client's SEND arrives: it is no longer posted, and not yet acknowledged.
LEMMA ClientDeliverKeeps ==
    ASSUME BInv, NEW c \in Conns, Deliver(Client(c))
    PROVE  BInv'
<1> DEFINE e == Client(c)
<1> DEFINE p == Server(c)
<1>e. /\ e \in Ends /\ p \in Ends /\ e # p /\ Peer(e) = p
      /\ \A d \in Conns : Client(d) \in Ends /\ Client(d) # p /\ (d # c => Client(d) # e)
  BY EndsAreDifferent
<1>1. /\ sq[e] > 0 /\ recvs[p] > 0
      /\ sq' = [sq EXCEPT ![e] = sq[e] - 1] /\ unacked' = [unacked EXCEPT ![e] = unacked[e] + 1]
      /\ recvs' = [recvs EXCEPT ![p] = recvs[p] - 1] /\ arrived' = [arrived EXCEPT ![p] = TRUE]
      /\ cq' = [cq EXCEPT ![p] = Append(cq[p], "recv")]
      /\ UNCHANGED <<st, hand, numCompletions, printed>>
  BY <1>e DEF Deliver
<1>2. /\ sq[e] \in Nat /\ unacked[e] \in Nat /\ recvs[p] \in Nat
      /\ sq[e] - 1 \in Nat /\ recvs[p] - 1 \in Nat
      /\ unacked[e] + 1 \in Nat /\ Append(cq[p], "recv") \in Seq(Statuses)
  BY <1>e, <1>1 DEF BInv, Types, Statuses
<1>3. Types'
  <2>1. sq' \in [Ends -> Nat] /\ unacked' \in [Ends -> Nat] /\ recvs' \in [Ends -> Nat]
    BY <1>1, <1>2 DEF BInv, Types
  <2>2. cq' \in [Ends -> Seq(Statuses)] /\ arrived' \in [Ends -> BOOLEAN]
    BY <1>1, <1>2 DEF BInv, Types
  <2> QED
    BY <1>1, <2>1, <2>2 DEF BInv, Types
<1>4. /\ sq'[e] = sq[e] - 1 /\ unacked'[e] = unacked[e] + 1 /\ recvs'[e] = recvs[e]
      /\ cq'[e] = cq[e] /\ arrived'[e] = arrived[e] /\ arrived'[p]
  BY <1>e, <1>1 DEF BInv, Types
<1>5. OneReceive(c)' /\ Counted(c)' /\ Answer(c)'
  BY <1>1, <1>4 DEF BInv, ClientInv, OneReceive, Counted, Answer
<1>6. OneSend(c)'
  BY <1>1, <1>2, <1>4 DEF BInv, ClientInv, OneSend, Sent
<1>7. ASSUME NEW d \in Conns \ {c} PROVE ClientInv(d)'
  <2>1. /\ sq'[Client(d)] = sq[Client(d)] /\ unacked'[Client(d)] = unacked[Client(d)]
        /\ recvs'[Client(d)] = recvs[Client(d)] /\ cq'[Client(d)] = cq[Client(d)]
        /\ arrived'[Client(d)] = arrived[Client(d)]
        /\ arrived'[Server(d)] = arrived[Server(d)]
    BY <1>e, <1>1, EndsAreDifferent DEF BInv, Types
  <2> QED
    BY <1>1, <2>1, Frame
<1> QED
  BY <1>3, <1>5, <1>6, <1>7 DEF BInv, ClientInv

\* The server's SEND takes the client's receive and completes it.
LEMMA ServerDeliverKeeps ==
    ASSUME BInv, NEW c \in Conns, Deliver(Server(c))
    PROVE  BInv'
<1> DEFINE e == Server(c)
<1> DEFINE p == Client(c)
<1>e. /\ e \in Ends /\ p \in Ends /\ e # p /\ Peer(e) = p
      /\ \A d \in Conns : Client(d) \in Ends /\ Client(d) # e /\ (d # c => Client(d) # p)
  BY EndsAreDifferent
<1>1. /\ sq[e] > 0 /\ recvs[p] > 0
      /\ sq' = [sq EXCEPT ![e] = sq[e] - 1] /\ unacked' = [unacked EXCEPT ![e] = unacked[e] + 1]
      /\ recvs' = [recvs EXCEPT ![p] = recvs[p] - 1] /\ arrived' = [arrived EXCEPT ![p] = TRUE]
      /\ cq' = [cq EXCEPT ![p] = Append(cq[p], "recv")]
      /\ UNCHANGED <<st, hand, numCompletions, printed>>
  BY <1>e DEF Deliver
<1>2. /\ sq[e] \in Nat /\ unacked[e] \in Nat /\ recvs[p] \in Nat
      /\ sq[e] - 1 \in Nat /\ recvs[p] - 1 \in Nat
      /\ cq[p] \in Seq(Statuses) /\ "recv" \in Statuses
      /\ Append(cq[p], "recv") \in Seq(Statuses)
  BY <1>e, <1>1 DEF BInv, Types, Statuses
<1>3. Types'
  BY SMTT(30), <1>e, <1>1, <1>2 DEF BInv, Types
<1>4. /\ sq'[p] = sq[p] /\ unacked'[p] = unacked[p] /\ recvs'[p] = recvs[p] - 1
      /\ cq'[p] = Append(cq[p], "recv") /\ arrived'[p] /\ arrived'[e] = arrived[e]
  BY <1>e, <1>1 DEF BInv, Types
<1>5. OneReceive(c) /\ OneSend(c) /\ Counted(c) /\ Answer(c)
  BY DEF BInv, ClientInv
<1>6. /\ In("recv", cq'[p]) /\ (Once("recv", cq[p]) /\ ~In("recv", cq[p]) => Once("recv", cq'[p]))
      /\ (In("send", cq'[p]) <=> In("send", cq[p]))
      /\ (Once("send", cq[p]) => Once("send", cq'[p]))
  BY <1>2, <1>4, AppendIn
<1>7. recvs[p] = 1 /\ ~In("recv", cq[p]) /\ hand[p] # "recv" /\ ~printed[p] /\ st[p] # "idle"
  BY <1>1, <1>2, <1>5 DEF OneReceive
<1>8. OneReceive(c)'
  BY <1>1, <1>4, <1>5, <1>6, <1>7 DEF OneReceive
<1>9. OneSend(c)'
  BY <1>1, <1>4, <1>5, <1>6 DEF OneSend, Sent
<1>10. Counted(c)' /\ Answer(c)'
  BY <1>1, <1>4, <1>5 DEF Counted, Answer
<1>11. ASSUME NEW d \in Conns \ {c} PROVE ClientInv(d)'
  <2>1. /\ sq'[Client(d)] = sq[Client(d)] /\ unacked'[Client(d)] = unacked[Client(d)]
        /\ recvs'[Client(d)] = recvs[Client(d)] /\ cq'[Client(d)] = cq[Client(d)]
        /\ arrived'[Client(d)] = arrived[Client(d)]
        /\ arrived'[Server(d)] = arrived[Server(d)]
    BY <1>e, <1>1, EndsAreDifferent DEF BInv, Types
  <2> QED
    BY <1>1, <2>1, Frame
<1> QED
  BY <1>3, <1>8, <1>9, <1>10, <1>11 DEF BInv, ClientInv

\* A SEND of a client is acknowledged, or fails, into its completion queue.
LEMMA ClientSendEnds ==
    ASSUME BInv, NEW c \in Conns, Acknowledge(Client(c)) \/ SendFails(Client(c))
    PROVE  BInv'
<1> DEFINE e == Client(c)
<1>e. e \in Ends /\ \A d \in Conns : Client(d) \in Ends /\ (d # c => Client(d) # e)
  BY EndsAreDifferent
<1>t. /\ sq[e] \in Nat /\ unacked[e] \in Nat /\ cq[e] \in Seq(Statuses)
      /\ "send" \in Statuses /\ "error" \in Statuses
      /\ Append(cq[e], "send") \in Seq(Statuses) /\ Append(cq[e], "error") \in Seq(Statuses)
  BY <1>e DEF BInv, Types, Statuses
<1>i. OneReceive(c) /\ OneSend(c) /\ Counted(c) /\ Answer(c)
  BY DEF BInv, ClientInv
<1>1. CASE Acknowledge(e)
  <2>1. /\ unacked[e] > 0 /\ unacked' = [unacked EXCEPT ![e] = unacked[e] - 1]
        /\ cq' = [cq EXCEPT ![e] = Append(cq[e], "send")]
        /\ UNCHANGED <<st, recvs, sq, hand, numCompletions, arrived, printed>>
    BY <1>1 DEF Acknowledge, outVars
  <2>2. Types'
    BY <1>e, <1>t, <2>1 DEF BInv, Types
  <2>3. unacked'[e] = unacked[e] - 1 /\ cq'[e] = Append(cq[e], "send")
    BY <1>e, <2>1 DEF BInv, Types
  <2>4. /\ In("send", cq'[e]) /\ (Once("send", cq[e]) /\ ~In("send", cq[e]) => Once("send", cq'[e]))
        /\ (In("recv", cq'[e]) <=> In("recv", cq[e]))
        /\ (Once("recv", cq[e]) => Once("recv", cq'[e]))
    BY <1>t, <2>3, AppendIn
  <2>5. /\ unacked[e] = 1 /\ sq[e] = 0 /\ ~In("send", cq[e]) /\ hand[e] # "send" /\ ~Sent(c)
        /\ arrived[Server(c)] /\ st[e] \notin {"idle", "routing", "connecting"}
    BY <1>t, <1>i, <2>1 DEF OneSend
  <2>6. OneSend(c)'
    BY <1>i, <2>1, <2>3, <2>4, <2>5 DEF OneSend, Sent
  <2>7. OneReceive(c)' /\ Counted(c)' /\ Answer(c)'
    BY <1>i, <2>1, <2>4 DEF OneReceive, Counted, Answer
  <2>8. \A d \in Conns \ {c} : ClientInv(d)'
    BY <1>e, <2>1, Frame DEF BInv, Types
  <2> QED
    BY <2>2, <2>6, <2>7, <2>8 DEF BInv, ClientInv
<1>2. CASE SendFails(e)
  <2>1. /\ sq' = [sq EXCEPT ![e] = 0] /\ cq' = [cq EXCEPT ![e] = Append(cq[e], "error")]
        /\ UNCHANGED <<st, recvs, unacked, hand, numCompletions, arrived, printed>>
    BY <1>2 DEF SendFails, outVars
  <2>2. Types'
    BY <1>e, <1>t, <2>1 DEF BInv, Types
  <2>3. sq'[e] = 0 /\ cq'[e] = Append(cq[e], "error")
    BY <1>e, <2>1 DEF BInv, Types
  <2>4. ASSUME NEW x \in {"send", "recv"}
        PROVE  (In(x, cq'[e]) <=> In(x, cq[e])) /\ (Once(x, cq[e]) => Once(x, cq'[e]))
    BY <1>t, <2>3, AppendIn
  <2>5. OneSend(c)'
    BY <1>t, <1>i, <2>1, <2>3, <2>4 DEF OneSend, Sent
  <2>6. OneReceive(c)' /\ Counted(c)' /\ Answer(c)'
    BY <1>i, <2>1, <2>4 DEF OneReceive, Counted, Answer
  <2>7. \A d \in Conns \ {c} : ClientInv(d)'
    BY <1>e, <2>1, Frame DEF BInv, Types
  <2> QED
    BY <2>2, <2>5, <2>6, <2>7 DEF BInv, ClientInv
<1> QED
  BY <1>1, <1>2

LEMMA ServerSendEnds ==
    ASSUME BInv, NEW c \in Conns, Acknowledge(Server(c)) \/ SendFails(Server(c))
    PROVE  BInv'
<1> DEFINE e == Server(c)
<1>e. e \in Ends /\ \A d \in Conns : Client(d) \in Ends /\ Client(d) # e
  BY EndsAreDifferent
<1>t. /\ unacked[e] \in Nat /\ cq[e] \in Seq(Statuses)
      /\ Append(cq[e], "send") \in Seq(Statuses) /\ Append(cq[e], "error") \in Seq(Statuses)
  BY <1>e DEF BInv, Types, Statuses
<1>1. /\ UNCHANGED <<st, recvs, hand, numCompletions, arrived, printed>>
      /\ \E y \in {"send", "error"} : cq' = [cq EXCEPT ![e] = Append(cq[e], y)]
      /\ sq' = sq \/ sq' = [sq EXCEPT ![e] = 0]
      /\ unacked' = unacked
         \/ (unacked[e] > 0 /\ unacked' = [unacked EXCEPT ![e] = unacked[e] - 1])
  BY DEF Acknowledge, SendFails, outVars
<1>2. Types'
  <2>1. /\ sq \in [Ends -> Nat] /\ unacked \in [Ends -> Nat] /\ cq \in [Ends -> Seq(Statuses)]
        /\ 0 \in Nat
    BY DEF BInv, Types
  <2>2. sq' \in [Ends -> Nat]
    BY <1>1, <2>1
  <2>3. unacked[e] > 0 => unacked[e] - 1 \in Nat
    BY <1>t
  <2>4. unacked' \in [Ends -> Nat]
    BY <1>1, <2>1, <2>3
  <2>5. cq' \in [Ends -> Seq(Statuses)]
    <3>1. PICK y \in {"send", "error"} : cq' = [cq EXCEPT ![e] = Append(cq[e], y)]
      BY <1>1
    <3>2. PICK q : q = Append(cq[e], y)
      OBVIOUS
    <3>3. q \in Seq(Statuses)
      BY <1>t, <3>2
    <3> QED
      BY <2>1, <3>1, <3>2, <3>3
  <2> QED
    BY <1>1, <2>2, <2>4, <2>5 DEF BInv, Types
<1>3. ASSUME NEW d \in Conns
      PROVE  /\ sq'[Client(d)] = sq[Client(d)] /\ unacked'[Client(d)] = unacked[Client(d)]
             /\ cq'[Client(d)] = cq[Client(d)]
  BY <1>e, <1>1 DEF BInv, Types
<1> QED
  BY <1>1, <1>2, <1>3, ServerEnd

-----------------------------------------------------------------------------
(***************************************************************************)
(* The theorems.                                                           *)
(***************************************************************************)
LEMMA NextBInv == BInv /\ [Next]_vars => BInv'
<1> SUFFICES ASSUME BInv, [Next]_vars PROVE BInv'
  OBVIOUS
<1>1. ASSUME NEW c \in Conns, ClientEventLoop(c) \/ ClientPoller(c) PROVE BInv'
  BY <1>1, ClientEventLoopKeeps, PollersKeep
<1>2. ASSUME NEW c \in Conns, ClientCrash(c) PROVE BInv'
  <2>1. /\ st' = [st EXCEPT ![Client(c)] = "crashed"]
        /\ UNCHANGED <<recvs, sq, unacked, cq, hand, numCompletions, arrived, printed>>
    BY <1>2 DEF ClientCrash, nicVars, outVars
  <2>2. Types'
    BY <2>1 DEF BInv, Types
  <2>3. \A d \in Conns : ClientInv(d)'
    BY <2>1, EndsAreDifferent, Frame DEF BInv, Types
  <2> QED
    BY <2>2, <2>3 DEF BInv
<1>3. CASE ServerEventLoop
  BY <1>3, ServerEventLoopKeeps DEF ServerEventLoop
<1>4. CASE ServerPoller
  BY <1>4, PollersKeep DEF ServerPoller
<1>5. ASSUME NEW e \in Ends, Nic(e) PROVE BInv'
  <2>1. e[1] \in Conns /\ (e = Client(e[1]) \/ e = Server(e[1]))
    BY DEF Ends, Client, Server
  <2> QED
    BY <1>5, <2>1, ClientDeliverKeeps, ServerDeliverKeeps, ClientSendEnds, ServerSendEnds DEF Nic
<1>6. CASE UNCHANGED runVars
  <2>1. UNCHANGED <<st, recvs, sq, unacked, cq, hand, numCompletions, arrived, printed>>
    BY <1>6 DEF runVars, nicVars, outVars
  <2>2. Types'
    BY <2>1 DEF BInv, Types
  <2>3. \A d \in Conns : ClientInv(d)'
    BY <2>1, Frame
  <2> QED
    BY <2>2, <2>3 DEF BInv
<1> QED
  BY <1>1, <1>2, <1>3, <1>4, <1>5, <1>6 DEF Next, Rest, vars

\* The receive and the SEND of a client are each in one place at a time, and its
\* two completions are counted once each, whatever fails.
THEOREM BasicInvariance == Spec => []BInv
<1> QED
  BY InitBInv, NextBInv, PTL DEF Spec

\* A client that calls rdma_disconnect has printed the server's message, and the
\* server has its own, for any number of clients and whatever fails: on_completion
\* counts to two without looking which two.
THEOREM ClientsHaveAnswers == Spec => []DisconnectHasAnswer
<1>1. BInv => DisconnectHasAnswer
  BY DEF BInv, ClientInv, Answer, DisconnectHasAnswer
<1> QED
  BY <1>1, BasicInvariance, PTL

-----------------------------------------------------------------------------
(***************************************************************************)
(* Without faults nobody dies.                                             *)
(***************************************************************************)

\* A message that waits has not arrived, one whose receive is used has, and the
\* server's end follows the client's.
Order(c) ==
    LET e == Client(c)
        s == Server(c)
    IN  /\ st[e] \in {"idle", "routing", "connecting", "up", "closing", "freed"} \cup Ended
        /\ st[s] \in {"idle", "requested", "accepted", "confirmed", "up", "freed"}
        /\ st[e] \in {"idle", "routing"} => st[s] = "idle"
        /\ st[s] \in {"idle", "requested"} => recvs[s] = 0
        /\ st[s] \in {"idle", "requested", "accepted", "confirmed"} =>
              sq[s] = 0 /\ unacked[s] = 0 /\ ~arrived[e]
        /\ recvs[s] <= 1 /\ sq[s] + unacked[s] <= 1
        /\ sq[s] > 0 => ~arrived[e]
        /\ sq[e] > 0 \/ st[e] \in {"idle", "routing", "connecting"} => ~arrived[s]
        /\ st[s] \in {"accepted", "confirmed", "up"} /\ recvs[s] = 0 => arrived[s]
        /\ st[e] \in {"routing", "connecting", "up"} /\ recvs[e] = 0 => arrived[e]

\* The client leaves first, and with its answer.
Calm(c) ==
    LET e == Client(c)
        s == Server(c)
    IN  faults = {} =>
        /\ st[e] \notin {"failed", "crashed"}
        /\ ~In("error", cq[e]) /\ ~In("error", cq[s])
        /\ st[s] \in {"requested", "accepted"} => st[e] = "connecting"
        /\ st[s] = "freed" => st[e] \in {"closing", "freed", "exited"}
        /\ st[e] \in {"closing", "freed", "exited"} => arrived[e]

NInv ==
    /\ TypeOK /\ (faults = {} => server = "up")
    /\ \A c \in Conns : Order(c) /\ Calm(c)

Progress == {"idle", "routing", "connecting", "requested", "accepted",
             "confirmed", "up", "closing", "freed"} \cup Ended

LEMMA InitNInv == Init => NInv
<1> SUFFICES ASSUME Init PROVE NInv
  OBVIOUS
<1>1. TypeOK
  BY DEF Init, TypeOK
<1>2. ASSUME NEW c \in Conns PROVE Order(c) /\ Calm(c)
  BY EndsAreDifferent, NothingIn DEF Init, Order, Calm
<1> QED
  BY <1>1, <1>2 DEF NInv, Init

\* A step leaves an end as it was, but for completions that are no error.
Kept(x) ==
    /\ st'[x] = st[x] /\ recvs'[x] = recvs[x] /\ sq'[x] = sq[x] /\ unacked'[x] = unacked[x]
    /\ (arrived'[x] <=> arrived[x])
    /\ faults = {} /\ In("error", cq'[x]) => In("error", cq[x])

LEMMA PairKept ==
    ASSUME NInv, NEW c \in Conns, faults' = faults, Kept(Client(c)), Kept(Server(c))
    PROVE  Order(c)' /\ Calm(c)'
<1>1. Order(c) /\ Calm(c)
  BY DEF NInv
<1>2. Order(c)'
  BY <1>1 DEF Kept, Order
<1>3. Calm(c)'
  BY <1>1 DEF Kept, Calm
<1> QED
  BY <1>2, <1>3

\* A step of one connection.
LEMMA Advance ==
    ASSUME NInv, BInv', NEW c \in Conns, faults' = faults,
           server' = server \/ (server' = "dead" /\ faults # {}),
           st' \in [Ends -> Progress],
           \A x \in Ends : x # Client(c) /\ x # Server(c) => Kept(x),
           Order(c)', Calm(c)'
    PROVE  NInv'
<1>1. ASSUME NEW d \in Conns PROVE Order(d)' /\ Calm(d)'
  <2>1. CASE d = c
    BY <2>1
  <2>2. CASE d # c
    <3>1. Kept(Client(d)) /\ Kept(Server(d))
      BY <2>2, EndsAreDifferent
    <3> QED
      BY <3>1, PairKept
  <2> QED
    BY <2>1, <2>2
<1>2. \A x \in Ends : \E d \in Conns : x = Client(d) \/ x = Server(d)
  BY EndsAreDifferent
<1>3. /\ \A x \in Ends : recvs'[x] \in Nat /\ sq'[x] \in Nat /\ unacked'[x] \in Nat
      /\ recvs' \in [Ends -> Nat] /\ sq' \in [Ends -> Nat] /\ unacked' \in [Ends -> Nat]
      /\ numCompletions' \in [Conns -> Nat]
      /\ \A d \in Conns : numCompletions'[d] \in Nat
  BY DEF BInv, Types
<1>4. \A x \in Ends : recvs'[x] <= 1 /\ sq'[x] + unacked'[x] <= 1
  <2>1. \A d \in Conns : /\ recvs'[Client(d)] <= 1
                         /\ sq'[Client(d)] + unacked'[Client(d)] <= 1
    BY DEF BInv, ClientInv, OneReceive, OneSend
  <2>2. \A d \in Conns : /\ recvs'[Server(d)] <= 1
                         /\ sq'[Server(d)] + unacked'[Server(d)] <= 1
    BY <1>1 DEF Order
  <2> QED
    BY <1>2, <2>1, <2>2
<1>5. ASSUME NEW x \in Ends
      PROVE  recvs'[x] \in 0 .. 1 /\ sq'[x] \in 0 .. 1 /\ unacked'[x] \in 0 .. 1
  <2>1. /\ recvs'[x] \in Nat /\ sq'[x] \in Nat /\ unacked'[x] \in Nat
        /\ recvs'[x] <= 1 /\ sq'[x] + unacked'[x] <= 1
    BY <1>3, <1>4
  <2> QED
    BY <2>1
<1>6. \A d \in Conns : numCompletions'[d] \in 0 .. 2
  <2>1. \A d \in Conns : Counted(d)'
    BY DEF BInv, ClientInv
  <2> QED
    BY <1>3, <2>1 DEF Counted
<1>7. recvs' \in [Ends -> 0 .. 1] /\ sq' \in [Ends -> 0 .. 1] /\ unacked' \in [Ends -> 0 .. 1]
  BY <1>3, <1>5
<1>8. numCompletions' \in [Conns -> 0 .. 2]
  BY <1>3, <1>6
<1>9. TypeOK'
  <2>1. faults \in FaultSets /\ server \in {"up", "dead"}
    BY DEF NInv, TypeOK
  <2>2. /\ cq' \in [Ends -> Seq({"send", "recv", "error"})]
        /\ hand' \in [Ends -> {"none", "send", "recv"}]
        /\ arrived' \in [Ends -> BOOLEAN] /\ printed' \in [Ends -> BOOLEAN]
    BY DEF BInv, Types, Statuses
  <2> QED
    BY <1>7, <1>8, <2>1, <2>2 DEF TypeOK, Progress
<1> QED
  BY <1>1, <1>9 DEF NInv

\* The event loop of the client.
LEMMA ClientLoopCalm ==
    ASSUME BInv, NInv, BInv', NEW c \in Conns, faults' = faults,
           ClientEventLoop(c) \/ ClientCrash(c)
    PROVE  NInv'
<1> DEFINE e == Client(c)
<1> DEFINE s == Server(c)
<1>0. /\ e \in Ends /\ s \in Ends /\ e # s /\ Peer(e) = s
      /\ Order(c) /\ Calm(c) /\ st \in [Ends -> Progress]
      /\ faults = {} => server = "up"
      /\ recvs \in [Ends -> Nat] /\ sq \in [Ends -> Nat] /\ unacked \in [Ends -> Nat]
      /\ cq \in [Ends -> Seq(Statuses)] /\ arrived \in [Ends -> BOOLEAN]
  BY EndsAreDifferent DEF NInv, TypeOK, Progress, BInv, Types
<1>s. s[2] = "server" /\ e[2] = "client"
  BY DEF Client, Server
<1>g. Gone(s) <=> server # "up" \/ st[s] \in {"closing", "freed"}
  BY <1>s DEF Gone, Running
<1> HIDE DEF e, s
<1>1. CASE OnAddrResolved(c)
  <2>1. /\ server' = server /\ st[e] = "idle" /\ recvs[e] \in Nat
        /\ sq' = sq /\ unacked' = unacked /\ cq' = cq /\ arrived' = arrived
        /\ \A x \in Ends : st'[x] = IF x = e THEN "routing" ELSE st[x]
        /\ st' \in [Ends -> Progress]
    BY <1>0, <1>1 DEF OnAddrResolved, outVars, Progress, e
  <2>2. \A x \in Ends : recvs'[x] = IF x = e THEN recvs[e] + 1 ELSE recvs[x]
    BY <1>0, <1>1 DEF OnAddrResolved, e
  <2>3. \A x \in Ends : x # e /\ x # s => Kept(x)
    BY <2>1, <2>2 DEF Kept
  <2>4. Order(c)' /\ Calm(c)'
    BY <1>0, <2>1, <2>2 DEF Order, Calm, e, s
  <2> QED
    BY <2>1, <2>3, <2>4, Advance DEF e, s
<1>2. CASE OnRouteResolved(c)
  <2>1. /\ server' = server /\ st[e] = "routing" /\ recvs' = recvs
        /\ sq' = sq /\ unacked' = unacked /\ cq' = cq /\ arrived' = arrived
        /\ \A x \in Ends : st'[x] = IF x = e THEN "connecting" ELSE IF x = s THEN "requested" ELSE st[x]
        /\ st' \in [Ends -> Progress]
    BY <1>0, <1>2 DEF OnRouteResolved, nicVars, outVars, Progress, e, s
  <2>3. \A x \in Ends : x # e /\ x # s => Kept(x)
    BY <2>1 DEF Kept
  <2>4. Order(c)' /\ Calm(c)'
    BY <1>0, <2>1 DEF Order, Calm, e, s
  <2> QED
    BY <2>1, <2>3, <2>4, Advance DEF e, s
<1>3. CASE OnConnection(c)
  <2>1. /\ server' = server /\ st[e] = "connecting" /\ st[s] = "accepted" /\ recvs' = recvs
        /\ unacked' = unacked /\ cq' = cq /\ arrived' = arrived
        /\ \A x \in Ends : st'[x] = IF x = e THEN "up" ELSE IF x = s THEN "confirmed" ELSE st[x]
        /\ st' \in [Ends -> Progress]
    BY <1>0, <1>3 DEF OnConnection, outVars, Progress, e, s
  <2>2. \A x \in Ends : x # e => sq'[x] = sq[x]
    BY <1>0, <1>3 DEF OnConnection, e
  <2>3. \A x \in Ends : x # e /\ x # s => Kept(x)
    BY <2>1, <2>2 DEF Kept
  <2>4. Order(c)' /\ Calm(c)'
    BY <1>0, <2>1, <2>2 DEF Order, Calm, e, s
  <2> QED
    BY <2>1, <2>3, <2>4, Advance DEF e, s
<1>4. CASE OnUnknownEvent(c) \/ ClientCrash(c) \/ MainReturns(c)
  <2>0. PICK to \in {"failed", "crashed", "exited"} :
           /\ st' = [st EXCEPT ![e] = to]
           /\ to # "exited" => faults # {}
           /\ to = "exited" => st[e] = "freed"
    BY <1>0, <1>4, <1>s DEF OnUnknownEvent, Die, ClientCrash, MainReturns, e
  <2>1. /\ server' = server /\ recvs' = recvs /\ sq' = sq
        /\ unacked' = unacked /\ cq' = cq /\ arrived' = arrived
    BY <1>4, <1>s DEF OnUnknownEvent, Die, ClientCrash, MainReturns, nicVars, outVars, e
  <2>2. /\ \A x \in Ends : st'[x] = IF x = e THEN to ELSE st[x]
        /\ st' \in [Ends -> Progress]
    BY <1>0, <2>0 DEF Progress, Ended
  <2>3. \A x \in Ends : x # e /\ x # s => Kept(x)
    BY <2>1, <2>2 DEF Kept
  <2>4. Order(c)'
    BY <1>0, <2>1, <2>2 DEF Order, Ended, e, s
  <2>5. Calm(c)'
    BY <1>0, <2>0, <2>1, <2>2 DEF Calm, e, s
  <2> QED
    BY <2>1, <2>2, <2>3, <2>4, <2>5, Advance DEF e, s
<1>5. CASE OnDisconnect(e)
  <2>1. /\ server' = server /\ arrived' = arrived
        /\ st[e] = "closing" \/ (st[e] = "up" /\ Gone(s))
        /\ \A x \in Ends : st'[x] = IF x = e THEN "freed" ELSE st[x]
        /\ st' \in [Ends -> Progress]
    BY <1>0, <1>5 DEF OnDisconnect, outVars, Progress
  <2>2. /\ \A x \in Ends : recvs'[x] = IF x = e THEN 0 ELSE recvs[x]
        /\ \A x \in Ends : sq'[x] = IF x = e THEN 0 ELSE sq[x]
        /\ \A x \in Ends : unacked'[x] = IF x = e THEN 0 ELSE unacked[x]
        /\ \A x \in Ends : cq'[x] = IF x = e THEN <<>> ELSE cq[x]
    BY <1>0, <1>5 DEF OnDisconnect
  <2>3. \A x \in Ends : x # e /\ x # s => Kept(x)
    BY <2>1, <2>2 DEF Kept
  <2>4. Order(c)'
    BY <1>0, <2>1, <2>2 DEF Order, e, s
  <2>5. Calm(c)'
    <3>1. faults = {} => arrived[e] /\ st[s] \notin {"requested", "accepted"}
      BY <1>0, <1>g, <2>1 DEF Calm, Order, e, s
    <3> QED
      BY <1>0, <2>1, <2>2, <3>1, NothingIn DEF Calm, e, s
  <2> QED
    BY <2>1, <2>3, <2>4, <2>5, Advance DEF e, s
<1> QED
  BY <1>1, <1>2, <1>3, <1>4, <1>5 DEF ClientEventLoop, e

\* The event loop of the server.
LEMMA ServerLoopCalm ==
    ASSUME BInv, NInv, BInv', NEW c \in Conns, faults' = faults,
           \/ OnConnectRequest(c) \/ ServerOnConnection(c)
           \/ ServerOnUnknownEvent(c) \/ OnDisconnect(Server(c))
    PROVE  NInv'
<1> DEFINE e == Client(c)
<1> DEFINE s == Server(c)
<1>0. /\ e \in Ends /\ s \in Ends /\ e # s /\ Peer(s) = e
      /\ Order(c) /\ Calm(c) /\ st \in [Ends -> Progress]
      /\ faults = {} => server = "up"
      /\ recvs \in [Ends -> Nat] /\ sq \in [Ends -> Nat] /\ unacked \in [Ends -> Nat]
      /\ cq \in [Ends -> Seq(Statuses)] /\ arrived \in [Ends -> BOOLEAN]
  BY EndsAreDifferent DEF NInv, TypeOK, Progress, BInv, Types
<1>s. s[2] = "server" /\ e[2] = "client"
  BY DEF Client, Server
<1>g. Gone(e) <=> st[e] \in Ended \cup {"closing", "freed"}
  BY <1>s DEF Gone, Running
<1> HIDE DEF e, s
<1>1. CASE OnConnectRequest(c)
  <2>1. /\ server' = server /\ st[s] = "requested"
        /\ sq' = sq /\ unacked' = unacked /\ cq' = cq /\ arrived' = arrived
        /\ \A x \in Ends : st'[x] = IF x = s THEN "accepted" ELSE st[x]
        /\ st' \in [Ends -> Progress]
    BY <1>0, <1>1 DEF OnConnectRequest, outVars, Progress, s
  <2>2. \A x \in Ends : recvs'[x] = IF x = s THEN recvs[s] + 1 ELSE recvs[x]
    BY <1>0, <1>1 DEF OnConnectRequest, s
  <2>3. \A x \in Ends : x # e /\ x # s => Kept(x)
    BY <2>1, <2>2 DEF Kept
  <2>4. Order(c)' /\ Calm(c)'
    BY <1>0, <2>1, <2>2 DEF Order, Calm, e, s
  <2> QED
    BY <2>1, <2>3, <2>4, Advance DEF e, s
<1>2. CASE ServerOnConnection(c)
  <2>1. /\ server' = server /\ st[s] = "confirmed" /\ recvs' = recvs
        /\ unacked' = unacked /\ cq' = cq /\ arrived' = arrived
        /\ \A x \in Ends : st'[x] = IF x = s THEN "up" ELSE st[x]
        /\ st' \in [Ends -> Progress]
    BY <1>0, <1>2 DEF ServerOnConnection, outVars, Progress, s
  <2>2. \A x \in Ends : sq'[x] = IF x = s THEN sq[s] + 1 ELSE sq[x]
    BY <1>0, <1>2 DEF ServerOnConnection, s
  <2>3. \A x \in Ends : x # e /\ x # s => Kept(x)
    BY <2>1, <2>2 DEF Kept
  <2>4. Order(c)' /\ Calm(c)'
    BY <1>0, <2>1, <2>2 DEF Order, Calm, e, s
  <2> QED
    BY <2>1, <2>3, <2>4, Advance DEF e, s
<1>3. CASE ServerOnUnknownEvent(c)
  <2>1. /\ server' = "dead" /\ st' = st /\ recvs' = recvs /\ sq' = sq
        /\ unacked' = unacked /\ cq' = cq /\ arrived' = arrived
        /\ st[s] = "accepted" /\ Gone(e)
    BY <1>3, <1>s DEF ServerOnUnknownEvent, Die, nicVars, outVars, e, s
  <2>2. faults # {}
    BY <1>0, <1>g, <2>1 DEF Calm, Ended, e, s
  <2>3. \A x \in Ends : Kept(x)
    BY <2>1 DEF Kept
  <2>4. Order(c)' /\ Calm(c)'
    BY <1>0, <2>3, PairKept DEF e, s
  <2> QED
    BY <1>0, <2>1, <2>2, <2>3, <2>4, Advance
<1>4. CASE OnDisconnect(s)
  <2>1. /\ server' = server /\ arrived' = arrived
        /\ st[s] = "up" /\ Gone(e)
        /\ \A x \in Ends : st'[x] = IF x = s THEN "freed" ELSE st[x]
        /\ st' \in [Ends -> Progress]
    BY <1>0, <1>4 DEF OnDisconnect, outVars, Progress, Order, s
  <2>2. /\ \A x \in Ends : recvs'[x] = IF x = s THEN 0 ELSE recvs[x]
        /\ \A x \in Ends : sq'[x] = IF x = s THEN 0 ELSE sq[x]
        /\ \A x \in Ends : unacked'[x] = IF x = s THEN 0 ELSE unacked[x]
        /\ \A x \in Ends : cq'[x] = IF x = s THEN <<>> ELSE cq[x]
    BY <1>0, <1>4 DEF OnDisconnect
  <2>3. \A x \in Ends : x # e /\ x # s => Kept(x)
    BY <2>1, <2>2 DEF Kept
  <2>4. Order(c)'
    BY <1>0, <2>1, <2>2 DEF Order, e, s
  <2>5. Calm(c)'
    <3>1. faults = {} => st[e] \in {"closing", "freed", "exited"}
      BY <1>0, <1>g, <2>1 DEF Calm, Ended, e, s
    <3> QED
      BY <1>0, <2>1, <2>2, <3>1, NothingIn DEF Calm, e, s
  <2> QED
    BY <2>1, <2>3, <2>4, <2>5, Advance DEF e, s
<1> QED
  BY <1>1, <1>2, <1>3, <1>4 DEF s

\* A step that moves no end and no request.
LEMMA StaysCalm ==
    ASSUME NInv, BInv', NEW c \in Conns, faults' = faults,
           server' = server \/ (server' = "dead" /\ faults # {}),
           st' = st, \A x \in Ends : Kept(x)
    PROVE  NInv'
<1>1. Order(c)' /\ Calm(c)'
  BY EndsAreDifferent, PairKept
<1>2. st \in [Ends -> Progress]
  BY DEF NInv, TypeOK, Progress
<1> QED
  BY <1>1, <1>2, Advance

LEMMA DieCalm ==
    ASSUME NInv, BInv', NEW c \in Conns, faults' = faults, faults # {},
           Die(Client(c)) \/ Die(Server(c))
    PROVE  NInv'
<1>0. /\ Client(c)[2] = "client" /\ Server(c)[2] = "server" /\ Client(c) # Server(c)
      /\ Client(c) \in Ends /\ Server(c) \in Ends
      /\ st \in [Ends -> Progress] /\ Order(c)
  BY EndsAreDifferent DEF Client, Server, NInv, TypeOK, Progress
<1>1. UNCHANGED <<recvs, sq, unacked, cq, arrived>>
  BY DEF Die, nicVars, outVars
<1>2. CASE Die(Server(c))
  <2>1. server' = "dead" /\ st' = st
    BY <1>0, <1>2 DEF Die
  <2> QED
    BY <1>1, <2>1, StaysCalm DEF Kept
<1>3. CASE Die(Client(c))
  <2>1. server' = server /\ st' = [st EXCEPT ![Client(c)] = "failed"]
    BY <1>0, <1>3 DEF Die
  <2>2. /\ \A x \in Ends : st'[x] = IF x = Client(c) THEN "failed" ELSE st[x]
        /\ st' \in [Ends -> Progress]
    BY <1>0, <2>1 DEF Progress, Ended
  <2>3. \A x \in Ends : x # Client(c) => Kept(x)
    BY <1>1, <2>2 DEF Kept
  <2>4. Order(c)' /\ Calm(c)'
    BY <1>0, <1>1, <2>2 DEF Order, Calm, Ended
  <2> QED
    BY <2>1, <2>2, <2>3, <2>4, Advance
<1> QED
  BY <1>2, <1>3

\* The pollers take no error, and the client's disconnect flushes nothing.
LEMMA PollersCalm ==
    ASSUME BInv, NInv, BInv', NEW c \in Conns, faults' = faults,
           \/ ClientPoller(c)
           \/ Poll(Server(c)) \/ ServerCompletion(c) \/ StaleConnection(Server(c))
    PROVE  NInv'
<1> DEFINE e == Client(c)
<1>0. /\ e \in Ends /\ Server(c) \in Ends /\ e # Server(c)
      /\ Order(c) /\ Calm(c) /\ st \in [Ends -> Progress]
      /\ recvs \in [Ends -> Nat] /\ sq \in [Ends -> Nat] /\ unacked \in [Ends -> Nat]
      /\ cq \in [Ends -> Seq(Statuses)] /\ hand \in [Ends -> {"none", "send", "recv"}]
      /\ numCompletions \in [Conns -> Nat]
  BY EndsAreDifferent DEF NInv, TypeOK, Progress, BInv, Types
<1>1. ASSUME NEW x \in {e, Server(c)}, Poll(x) PROVE NInv'
  <2>0. x \in Ends /\ cq[x] \in Seq(Statuses) /\ cq[x] # <<>>
    BY <1>0, <1>1 DEF Poll
  <2>1. /\ In(Head(cq[x]), cq[x]) /\ Tail(cq[x]) \in Seq(Statuses)
        /\ In("error", Tail(cq[x])) => In("error", cq[x])
    BY <2>0, TailIn
  <2>2. CASE Head(cq[x]) = "error"
    <3>1. faults # {}
      BY <1>0, <2>1, <2>2 DEF Calm
    <3> QED
      BY <1>1, <2>2, <3>1, DieCalm DEF Poll
  <2>3. CASE Head(cq[x]) # "error"
    <3>1. /\ cq' = [cq EXCEPT ![x] = Tail(cq[x])]
          /\ UNCHANGED <<server, st, recvs, sq, unacked, arrived>>
      BY <1>1, <2>3 DEF Poll, outVars
    <3>2. \A y \in Ends : Kept(y)
      BY <1>0, <2>0, <2>1, <3>1 DEF Kept
    <3> QED
      BY <3>1, <3>2, StaysCalm
  <2> QED
    BY <2>2, <2>3
<1>2. CASE ServerCompletion(c)
  <2>1. UNCHANGED <<server, st, recvs, sq, unacked, cq, arrived>>
    BY <1>2 DEF ServerCompletion, nicVars
  <2> QED
    BY <2>1, StaysCalm DEF Kept
<1>3. ASSUME NEW x \in {e, Server(c)}, StaleConnection(x) PROVE NInv'
  <2>1. CASE "stale_context" \in faults /\ Die(x)
    BY <2>1, DieCalm
  <2>2. CASE UNCHANGED <<server, st, nicVars, outVars>>
    <3>1. UNCHANGED <<server, st, recvs, sq, unacked, cq, arrived>>
      BY <2>2 DEF nicVars, outVars
    <3> QED
      BY <3>1, StaysCalm DEF Kept
  <2> QED
    BY <1>3, <2>1, <2>2 DEF StaleConnection
<1>4. CASE ClientCompletion(c)
  <2>0. UNCHANGED <<server, arrived>> /\ hand[e] \in {"send", "recv"}
    BY <1>0, <1>4 DEF ClientCompletion
  <2>1. CASE ~DisconnectNow(c)
    <3>1. UNCHANGED <<st, recvs, sq, unacked, cq>>
      BY <1>4, <2>1 DEF ClientCompletion, nicVars
    <3> QED
      BY <2>0, <3>1, StaysCalm DEF Kept
  <2>2. CASE DisconnectNow(c)
    <3>1. numCompletions[c] = 1 /\ OneReceive(c) /\ OneSend(c) /\ Counted(c)
      BY <1>0, <2>2 DEF DisconnectNow, BInv, ClientInv
    <3>2. /\ recvs[e] \in Nat /\ sq[e] \in Nat /\ unacked[e] \in Nat
      BY <1>0
    <3>3. recvs[e] = 0 /\ ~(sq[e] + unacked[e] > 0) /\ (hand[e] = "send" \/ Sent(c))
      <4>1. CASE hand[e] = "recv"
        <5>1. ~printed[e] /\ Sent(c)
          BY <3>1, <4>1 DEF OneReceive, Sent
        <5> QED
          BY <3>1, <3>2, <4>1, <5>1 DEF OneReceive, OneSend
      <4>2. CASE hand[e] = "send"
        <5>1. ~Sent(c)
          BY <3>1, <4>2 DEF OneSend
        <5>2. printed[e]
          BY <3>1, <5>1 DEF Sent
        <5> QED
          BY <3>1, <3>2, <4>2, <5>2 DEF OneReceive, OneSend
      <4> QED
        BY <2>0, <4>1, <4>2
    <3>4. recvs[e] = 0 /\ sq[e] = 0 /\ unacked[e] = 0
      BY <3>2, <3>3
    <3>5. /\ st' = [st EXCEPT ![e] = "closing"] /\ cq' = [cq EXCEPT ![e] = cq[e]]
          /\ recvs' = [recvs EXCEPT ![e] = 0] /\ sq' = [sq EXCEPT ![e] = 0]
          /\ unacked' = [unacked EXCEPT ![e] = 0]
      BY <1>4, <2>2, <3>4 DEF ClientCompletion
    <3>6. recvs' = recvs /\ sq' = sq /\ unacked' = unacked /\ cq' = cq
      BY <1>0, <3>4, <3>5
    <3>7. /\ \A x \in Ends : st'[x] = IF x = e THEN "closing" ELSE st[x]
          /\ st' \in [Ends -> Progress]
      BY <1>0, <3>5 DEF Progress
    <3>8. \A x \in Ends : x # e => Kept(x)
      BY <2>0, <3>6, <3>7 DEF Kept
    <3>9. Order(c)'
      BY <1>0, <2>0, <3>6, <3>7 DEF Order
    <3>10. Calm(c)'
      <4>1. Answer(c)'
        BY DEF BInv, ClientInv
      <4>2. arrived'[e]
        BY <1>0, <3>7, <4>1 DEF Answer
      <4>3. faults = {} => st[Server(c)] \notin {"requested", "accepted"}
        <5>1. hand[e] # "none"
          BY <1>4 DEF ClientCompletion
        <5>2. st[e] # "connecting"
          BY <3>1, <3>3 DEF OneSend
        <5> QED
          BY <1>0, <5>2 DEF Calm
      <4> QED
        BY <1>0, <2>0, <3>6, <3>7, <4>2, <4>3 DEF Calm
    <3> QED
      BY <2>0, <3>7, <3>8, <3>9, <3>10, Advance
  <2> QED
    BY <2>1, <2>2
<1> QED
  BY <1>1, <1>2, <1>3, <1>4 DEF ClientPoller

\* A SEND finds the receive of the peer.
LEMMA DeliverCalm ==
    ASSUME BInv, NInv, BInv', NEW c \in Conns, faults' = faults,
           NEW x \in {Client(c), Server(c)}, Deliver(x)
    PROVE  NInv'
<1> DEFINE p == Peer(x)
<1>0. /\ x \in Ends /\ p \in Ends /\ x # p
      /\ (x = Client(c) /\ p = Server(c)) \/ (x = Server(c) /\ p = Client(c))
      /\ Order(c) /\ Calm(c) /\ st \in [Ends -> Progress]
      /\ recvs \in [Ends -> Nat] /\ sq \in [Ends -> Nat] /\ unacked \in [Ends -> Nat]
      /\ cq \in [Ends -> Seq(Statuses)] /\ arrived \in [Ends -> BOOLEAN]
      /\ recvs[p] \in Nat /\ sq[x] \in Nat /\ unacked[x] \in Nat /\ cq[p] \in Seq(Statuses)
  <2>1. /\ x \in Ends /\ p \in Ends /\ x # p
        /\ (x = Client(c) /\ p = Server(c)) \/ (x = Server(c) /\ p = Client(c))
    <3>1. CASE x = Client(c)
      BY <3>1, EndsAreDifferent
    <3>2. CASE x = Server(c)
      BY <3>2, EndsAreDifferent
    <3> QED
      BY <3>1, <3>2
  <2> QED
    BY <2>1 DEF NInv, TypeOK, Progress, BInv, Types
<1>1. /\ UNCHANGED <<server, st>> /\ sq[x] > 0 /\ recvs[p] > 0 /\ Qp(x) /\ Qp(p)
      /\ sq' = [sq EXCEPT ![x] = sq[x] - 1] /\ unacked' = [unacked EXCEPT ![x] = unacked[x] + 1]
      /\ recvs' = [recvs EXCEPT ![p] = recvs[p] - 1] /\ arrived' = [arrived EXCEPT ![p] = TRUE]
      /\ cq' = [cq EXCEPT ![p] = Append(cq[p], "recv")]
  BY DEF Deliver
<1> HIDE DEF p
<1>2. /\ \A y \in Ends : sq'[y] = IF y = x THEN sq[x] - 1 ELSE sq[y]
      /\ \A y \in Ends : unacked'[y] = IF y = x THEN unacked[x] + 1 ELSE unacked[y]
      /\ \A y \in Ends : recvs'[y] = IF y = p THEN recvs[p] - 1 ELSE recvs[y]
      /\ \A y \in Ends : arrived'[y] = IF y = p THEN TRUE ELSE arrived[y]
      /\ \A y \in Ends : cq'[y] = IF y = p THEN Append(cq[p], "recv") ELSE cq[y]
  BY <1>0, <1>1
<1>3. In("error", Append(cq[p], "recv")) <=> In("error", cq[p])
  <2>1. "recv" \in Statuses
    BY DEF Statuses
  <2> QED
    BY <1>0, <2>1, AppendIn
<1>4. sq[x] = 1 /\ recvs[p] = 1 /\ st[x] \in {"confirmed", "accepted", "up"}
      /\ st[p] \in {"confirmed", "accepted", "up"}
  <2>1. sq[x] \in 0 .. 1 /\ recvs[p] \in 0 .. 1
    BY <1>0 DEF NInv, TypeOK
  <2> QED
    BY <1>1, <2>1 DEF Qp
<1>5. \A y \in Ends : y # Client(c) /\ y # Server(c) => Kept(y)
  BY <1>0, <1>1, <1>2 DEF Kept
<1>6. Order(c)'
  <2>1. CASE x = Client(c)
    <3>1. p = Server(c)
      BY <1>0, <2>1
    <3> QED
      BY <1>0, <1>1, <1>2, <1>4, <2>1, <3>1 DEF Order
  <2>2. CASE x = Server(c)
    <3>1. p = Client(c)
      BY <1>0, <2>2
    <3> QED
      BY <1>0, <1>1, <1>2, <1>4, <2>2, <3>1 DEF Order
  <2> QED
    BY <2>1, <2>2
<1>7. Calm(c)'
  <2>1. \A y \in Ends : /\ In("error", cq'[y]) => In("error", cq[y])
                        /\ arrived[y] => arrived'[y]
    BY <1>2, <1>3
  <2> QED
    BY <1>0, <1>1, <2>1, EndsAreDifferent DEF Calm
<1> QED
  BY <1>0, <1>1, <1>5, <1>6, <1>7, Advance

LEMMA AcknowledgeCalm ==
    ASSUME BInv, NInv, BInv', NEW c \in Conns, faults' = faults,
           NEW x \in {Client(c), Server(c)}, Acknowledge(x)
    PROVE  NInv'
<1>0. /\ x \in Ends /\ Client(c) \in Ends /\ Server(c) \in Ends /\ Client(c) # Server(c)
      /\ Order(c) /\ Calm(c) /\ st \in [Ends -> Progress]
      /\ unacked \in [Ends -> Nat] /\ cq \in [Ends -> Seq(Statuses)]
      /\ unacked[x] \in Nat /\ cq[x] \in Seq(Statuses)
      /\ sq[Server(c)] \in Nat
  BY EndsAreDifferent DEF NInv, TypeOK, Progress, BInv, Types
<1>1. /\ UNCHANGED <<server, st, recvs, sq, arrived>> /\ unacked[x] > 0
      /\ unacked' = [unacked EXCEPT ![x] = unacked[x] - 1]
      /\ cq' = [cq EXCEPT ![x] = Append(cq[x], "send")]
  BY DEF Acknowledge, outVars
<1>2. /\ \A y \in Ends : unacked'[y] = IF y = x THEN unacked[x] - 1 ELSE unacked[y]
      /\ \A y \in Ends : cq'[y] = IF y = x THEN Append(cq[x], "send") ELSE cq[y]
  BY <1>0, <1>1
<1>3. In("error", Append(cq[x], "send")) <=> In("error", cq[x])
  <2>1. "send" \in Statuses
    BY DEF Statuses
  <2> QED
    BY <1>0, <2>1, AppendIn
<1>4. \A y \in Ends : y # x => Kept(y)
  BY <1>1, <1>2 DEF Kept
<1>5. Order(c)'
  <2>1. /\ unacked'[Server(c)] <= unacked[Server(c)] /\ unacked'[Server(c)] \in Nat
        /\ unacked[Server(c)] \in Nat
    <3>1. CASE x = Server(c)
      BY <1>0, <1>1, <1>2, <3>1
    <3>2. CASE x # Server(c)
      BY <1>0, <1>2, <3>2
    <3> QED
      BY <3>1, <3>2
  <2>2. unacked[Server(c)] = 0 => unacked'[Server(c)] = 0
    BY <2>1
  <2>3. sq[Server(c)] + unacked[Server(c)] <= 1 => sq[Server(c)] + unacked'[Server(c)] <= 1
    BY <1>0, <2>1
  <2> QED
    BY <1>0, <1>1, <2>2, <2>3 DEF Order
<1>6. Calm(c)'
  <2>1. \A y \in Ends : In("error", cq'[y]) => In("error", cq[y])
    BY <1>2, <1>3
  <2> QED
    BY <1>0, <1>1, <2>1 DEF Calm
<1> QED
  BY <1>0, <1>1, <1>4, <1>5, <1>6, Advance

\* A SEND that fails needs a fault: the peer has its receive until the message
\* arrives, and does not leave before.
LEMMA SendFailsCalm ==
    ASSUME BInv, NInv, BInv', NEW c \in Conns, faults' = faults,
           NEW x \in {Client(c), Server(c)}, SendFails(x)
    PROVE  NInv'
<1> DEFINE e == Client(c)
<1> DEFINE s == Server(c)
<1>0. /\ x \in Ends /\ e \in Ends /\ s \in Ends /\ e # s /\ Peer(e) = s /\ Peer(s) = e
      /\ Order(c) /\ Calm(c) /\ st \in [Ends -> Progress]
      /\ faults = {} => server = "up"
      /\ sq \in [Ends -> Nat] /\ cq \in [Ends -> Seq(Statuses)]
      /\ sq[x] \in Nat /\ unacked[s] \in Nat
  BY EndsAreDifferent DEF NInv, TypeOK, Progress, BInv, Types
<1>s. e[2] = "client" /\ s[2] = "server"
  BY DEF Client, Server
<1>1. /\ UNCHANGED <<server, st, recvs, unacked, arrived>> /\ sq[x] > 0 /\ Qp(x)
      /\ Gone(Peer(x)) \/ (Qp(Peer(x)) /\ recvs[Peer(x)] = 0)
      /\ sq' = [sq EXCEPT ![x] = 0]
      /\ cq' = [cq EXCEPT ![x] = Append(cq[x], "error")]
  BY DEF SendFails, outVars
<1>g. /\ Gone(s) <=> server # "up" \/ st[s] \in {"closing", "freed"}
      /\ Gone(e) <=> st[e] \in Ended \cup {"closing", "freed"}
  BY <1>s DEF Gone, Running
<1> HIDE DEF e, s
<1>2. faults # {}
  <2> SUFFICES ASSUME faults = {} PROVE FALSE
    OBVIOUS
  <2>1. CASE x = e
    <3>1. ~arrived[s] /\ st[e] = "up" /\ ~(Qp(s) /\ recvs[s] = 0)
      <4>1. sq[e] > 0 /\ st[e] \in {"accepted", "confirmed", "up"}
        BY <1>1, <2>1 DEF Qp
      <4> QED
        BY <1>0, <4>1 DEF Order, Qp, Ended, e, s
    <3>2. st[s] = "freed"
      BY <1>0, <1>1, <1>g, <2>1, <3>1 DEF Order, e, s
    <3> QED
      BY <1>0, <3>1, <3>2 DEF Calm, e, s
  <2>2. CASE x = s
    <3>1. ~arrived[e] /\ ~(Qp(e) /\ recvs[e] = 0)
      <4>1. sq[s] > 0
        BY <1>1, <2>2
      <4>2. Qp(e) => st[e] = "up"
        BY <1>0 DEF Order, Qp, Ended, e, s
      <4> QED
        BY <1>0, <4>1, <4>2 DEF Order, e, s
    <3>2. st[e] \in {"closing", "freed", "exited"}
      BY <1>0, <1>1, <1>g, <2>2, <3>1 DEF Calm, Ended, e, s
    <3> QED
      BY <1>0, <3>1, <3>2 DEF Calm, e, s
  <2> QED
    BY <2>1, <2>2 DEF e, s
<1>3. \A y \in Ends : sq'[y] = IF y = x THEN 0 ELSE sq[y]
  BY <1>0, <1>1
<1>4. \A y \in Ends : y # x => Kept(y)
  BY <1>0, <1>1, <1>3 DEF Kept
<1>5. Order(c)'
  BY <1>0, <1>1, <1>3 DEF Order, e, s
<1>6. Calm(c)'
  BY <1>2 DEF Calm
<1> QED
  BY <1>0, <1>1, <1>4, <1>5, <1>6, Advance DEF e, s

LEMMA NextNInv == BInv /\ NInv /\ BInv' /\ [Next]_vars => NInv'
<1> SUFFICES ASSUME BInv, NInv, BInv', [Next]_vars PROVE NInv'
  OBVIOUS
<1>0. faults' = faults
  BY DEF Next, vars
<1>1. ASSUME NEW c \in Conns, ClientEventLoop(c) \/ ClientPoller(c) \/ ClientCrash(c) PROVE NInv'
  BY <1>0, <1>1, ClientLoopCalm, PollersCalm
<1>2. CASE ServerEventLoop
  BY <1>0, <1>2, ServerLoopCalm DEF ServerEventLoop
<1>3. CASE ServerPoller
  BY <1>0, <1>3, PollersCalm DEF ServerPoller
<1>4. ASSUME NEW x \in Ends, Nic(x) PROVE NInv'
  <2>1. x[1] \in Conns /\ x \in {Client(x[1]), Server(x[1])}
    BY DEF Ends, Client, Server
  <2> QED
    BY <1>0, <1>4, <2>1, DeliverCalm, AcknowledgeCalm, SendFailsCalm DEF Nic
<1>5. CASE UNCHANGED runVars
  <2>1. UNCHANGED <<server, st, recvs, sq, unacked, cq, hand, numCompletions, arrived, printed>>
    BY <1>5 DEF runVars, nicVars, outVars
  <2>2. TypeOK'
    BY <1>0, <2>1 DEF NInv, TypeOK
  <2>3. \A c \in Conns : Order(c)' /\ Calm(c)'
    BY <1>0, <2>1, EndsAreDifferent, PairKept DEF Kept
  <2> QED
    BY <1>0, <2>1, <2>2, <2>3 DEF NInv
<1> QED
  BY <1>1, <1>2, <1>3, <1>4, <1>5 DEF Next, Rest, vars

\* Whatever fails, an end has posted at most one receive and one SEND and a
\* client counts no further than two; and if nothing fails, no completion is an
\* error and no process ends in die().  The SENDs are not retried, so that each
\* must find the receive that build_connection has posted; and the disconnect of
\* a client at its second completion has nothing left to flush.
THEOREM NobodyEverDies == Spec => []NobodyDies
<1>1. BInv /\ NInv /\ [Next]_vars => NInv'
  BY NextBInv, NextNInv
<1>2. Spec => []NInv
  BY InitNInv, <1>1, BasicInvariance, PTL DEF Spec
<1>3. NInv => NobodyDies
  <2> SUFFICES ASSUME NInv PROVE NobodyDies
    OBVIOUS
  <2>2. ASSUME faults = {}, NEW x \in Ends
        PROVE  st[x] # "failed" /\ \A i \in 1 .. Len(cq[x]) : cq[x][i] # "error"
    <3>1. x[1] \in Conns /\ x \in {Client(x[1]), Server(x[1])}
      BY DEF Ends, Client, Server
    <3>2. Order(x[1]) /\ Calm(x[1])
      BY <3>1 DEF NInv
    <3>3. st[x] # "failed" /\ ~In("error", cq[x])
      BY <2>2, <3>1, <3>2 DEF Order, Calm
    <3> QED
      BY <3>3 DEF In
  <2> QED
    BY <2>2 DEF NInv, NobodyDies
<1> QED
  BY <1>2, <1>3, PTL

-----------------------------------------------------------------------------
(***************************************************************************)
(* An end's poller takes a completion whenever there is one: what it       *)
(* sleeps on, the completion channel, loses no wake-up, however many       *)
(* completions arrive and whenever they do.                                *)
(***************************************************************************)
CONSTANT Completions
VARIABLES poller_pc, poller_armed, poller_events, poller_cq, poller_handled

Poller == INSTANCE CompletionPoller
          WITH pc <- poller_pc, armed <- poller_armed, events <- poller_events,
               cq <- poller_cq, handled <- poller_handled

LEMMA PollerInit == Poller!Init => Poller!IInv
BY DEF Poller!Init, Poller!IInv, Poller!TypeOK, Poller!Wakeup

\* Each step of the NIC and of the poller keeps the invariant.
LEMMA PollerNext == Poller!IInv /\ [Poller!Next]_(Poller!vars) => Poller!IInv'
<1> SUFFICES ASSUME Poller!IInv, [Poller!Next]_(Poller!vars) PROVE Poller!IInv'
  OBVIOUS
<1> USE DEF Poller!IInv, Poller!TypeOK, Poller!Wakeup
<1>1. CASE Poller!Complete
  <2>0. ~poller_armed' /\ poller_armed' \in BOOLEAN
    BY <1>1, Zenon DEF Poller!Complete
  <2>1. poller_cq' \in Nat /\ poller_pc' = poller_pc /\ poller_handled' = poller_handled
    BY <1>1 DEF Poller!Complete
  <2>2. CASE poller_armed
    <3>1. poller_events = 0 /\ poller_pc # "rearm"
      BY <2>2
    <3>2. poller_events' = 1
      BY <1>1, <2>2, <3>1 DEF Poller!Complete
    <3> QED
      BY <2>0, <2>1, <3>1, <3>2
  <2>3. CASE ~poller_armed
    BY <1>1, <2>0, <2>1, <2>3 DEF Poller!Complete
  <2> QED
    BY <2>2, <2>3
<1>2. CASE Poller!GetEvent
  BY <1>2 DEF Poller!GetEvent
<1>3. CASE Poller!Rearm
  BY <1>3 DEF Poller!Rearm
<1>4. CASE Poller!Poll
  BY <1>4 DEF Poller!Poll
<1>5. CASE Poller!Handle
  BY <1>5 DEF Poller!Handle
<1>6. CASE Poller!Drained
  BY <1>6 DEF Poller!Drained
<1>7. CASE Poller!Rest \/ UNCHANGED Poller!vars
  BY <1>7 DEF Poller!Rest, Poller!vars
<1> QED
  BY <1>1, <1>2, <1>3, <1>4, <1>5, <1>6, <1>7 DEF Poller!Next, Poller!PollCq

\* poll_cq never sleeps in ibv_get_cq_event on a queue that is not empty
\* without an event on its way: outside the moment between taking an event and
\* re-arming, the queue is armed or an event is in the channel.
THEOREM NoWakeupIsLost == Poller!Spec => []Poller!NoLostWakeup
<1>1. Poller!IInv => Poller!NoLostWakeup
  BY DEF Poller!IInv, Poller!TypeOK, Poller!Wakeup, Poller!NoLostWakeup
<1> QED
  BY <1>1, PollerInit, PollerNext, PTL DEF Poller!Spec
=============================================================================
