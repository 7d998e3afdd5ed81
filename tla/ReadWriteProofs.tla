--------------------------- MODULE ReadWriteProofs ---------------------------
(***************************************************************************)
(* Theorems about ReadWrite for any number of clients and all faults, in   *)
(* both modes, when acknowledgements are in order: the ack of a SEND       *)
(* arrives before a later message of the peer.                             *)
(***************************************************************************)
EXTENDS ReadWrite, FiniteSetTheorems, FunctionTheorems,
        SequenceTheorems, TLAPS

One(b) == IF b THEN 1 ELSE 0
Count(q, x) == Cardinality({i \in 1 .. Len(q) : q[i] = x})

\* Requests of the end that have completed, whether or not the handler has
\* counted them.
Sent(e) == sendState[e] + One(hand[e] = "send") + Count(cq[e], "send")

\* Messages that have arrived, and the receives that wait or were used for one
\* that is not counted.
Had(e)   == recvState[e] + One(hand[e] = "recv") + Count(cq[e], "recv")
Slots(e) == recvs[e] + One(hand[e] = "recv") + Count(cq[e], "recv")

Idle(e) == sq[e] = <<>> /\ unacked[e] = <<>>

\* An end makes three requests: its region, the transfer, and DONE behind it.
\* One that fails takes those behind it along.
Requests(e) ==
    /\ Sent(e) <= 3
    /\ \/ Idle(e)
       \/ /\ Sent(e) \in {0, 2}
          /\ \/ unacked[e] = <<>> /\ sq[e] = <<"msg">>
             \/ unacked[e] = <<"msg">> /\ sq[e] = <<>>
       \/ /\ Sent(e) = 1
          /\ \/ unacked[e] = <<>> /\ sq[e] = <<"rdma", "msg">>
             \/ unacked[e] = <<"rdma">> /\ sq[e] = <<"msg">>
             \/ unacked[e] = <<"rdma", "msg">> /\ sq[e] = <<>>
             \/ unacked[e] = <<"rdma">> /\ sq[e] = <<>>

\* DONE is in send_msg from the transfer on, which is started once.
Message(e) ==
    /\ sendMsg[e] = "MSG_DONE" => sendState[e] >= 1 /\ recvState[e] >= 1
    /\ sendMsg[e] # "MSG_DONE" => Sent(e) <= 1 /\ (Sent(e) = 1 => Idle(e))
    /\ hand[e] = "decide" /\ MrsExchanged(e) => sendMsg[e] # "MSG_DONE"

\* Of the two messages an end receives, DONE is the second.
Receives(e) ==
    /\ Slots(e) <= 1 /\ Had(e) <= 2 /\ recvState[e] + Slots(e) <= 2
    /\ Had(e) = 2 =>
          /\ sendMsg[Peer(e)] = "MSG_DONE" /\ sq[Peer(e)] = <<>>
          /\ recvMsg[e] = "MSG_DONE"
    /\ Had(e) > 0 /\ sq[Peer(e)] # <<>> => sendMsg[Peer(e)] = "MSG_DONE"

\* The client begins, the server answers.
Quiet(e) ==
    IF e[2] = "client" THEN st[e] \in {"idle", "routing", "connecting"}
    ELSE recvState[e] = 0 \/ hand[e] = "reply"

Silent(e) ==
    Quiet(e) =>
        /\ Sent(e) = 0 /\ Idle(e) /\ sendMsg[e] # "MSG_DONE"
        /\ Had(Peer(e)) = 0

\* Where the event loop is, and what cannot have happened before.
Stage(e) ==
    /\ st[e] \in IF e[2] = "client"
                 THEN {"idle", "routing", "connecting", "up", "closing", "freed"} \cup Ended
                 ELSE {"idle", "requested", "accepted", "confirmed", "up", "closing", "freed"}
    /\ st[e] \in {"idle", "requested", "routing", "connecting"} =>
          /\ recvs[e] = One(e[2] = "client" /\ st[e] # "idle")
          /\ recvState[e] = 0 /\ hand[e] = "none" /\ cq[e] = <<>>
    /\ st[e] = "freed" => cq[e] = <<>> /\ Idle(e)
    /\ e[2] = "client" /\ st[e] \in {"idle", "routing"} => st[Peer(e)] = "idle"
    /\ Count(cq[e], "error") > 0 => Gone(e) \/ Gone(Peer(e))

\* The client handles no message before the completion of its first SEND, so
\* it does not send its region twice.
InOrder(e) ==
    /\ hand[e] = "reply" => recvState[e] >= 1
    /\ e[2] = "client" =>
          /\ hand[e] # "reply"
          /\ hand[e] = "recv" => sendState[e] >= 1
          /\ Count(cq[e], "recv") > 0 /\ sendState[e] = 0 /\ hand[e] # "send" =>
                Head(cq[e]) = "send"
          /\ st[e] = "up" /\ ~Gone(Peer(e)) => Sent(e) >= 1 \/ ~Idle(e)

\* The message of the peer has come when the transfer that brings it has been
\* executed or completed.
Data(e) ==
    /\ mode = "M_WRITE" =>
          /\ Sent(Peer(e)) >= 2 => got[e]
          /\ (unacked[Peer(e)] # <<>> /\ unacked[Peer(e)][1] = "rdma") => got[e]
          /\ Had(e) = 2 => got[e]
    /\ mode = "M_READ" /\ Sent(e) >= 2 => got[e]
    /\ printed[e] => got[e]

Fin(e) == sendState[e] = SS_DONE_SENT /\ recvState[e] = RS_DONE_RECV

\* If nothing fails, a disconnect comes from an end that is done.
NoFault(e) ==
    faults = {} =>
        /\ server = "up" /\ st[e] \notin {"failed", "crashed"}
        /\ Count(cq[e], "error") = 0
        /\ e[2] = "server" /\ st[e] \in {"requested", "accepted"} => st[Peer(e)] = "connecting"
        /\ st[e] \in {"closing", "freed", "exited"} => Fin(e) \/ Fin(Peer(e))

EndOK(e) ==
    /\ Requests(e) /\ Message(e) /\ Receives(e) /\ Silent(e)
    /\ Stage(e) /\ InOrder(e) /\ Data(e) /\ NoFault(e)

RWInv == TypeOK /\ \A e \in Ends : EndOK(e)

-----------------------------------------------------------------------------
(***************************************************************************)
(* Counting in a sequence.                                                 *)
(***************************************************************************)
Places(q, x) == {i \in 1 .. Len(q) : q[i] = x}

LEMMA CountType ==
    ASSUME NEW T, NEW q \in Seq(T), NEW x
    PROVE  /\ Count(q, x) \in Nat /\ IsFiniteSet(Places(q, x))
           /\ Count(q, x) = Cardinality(Places(q, x))
<1>1. Len(q) \in Nat /\ Places(q, x) \subseteq 1 .. Len(q)
  BY DEF Places
<1>2. IsFiniteSet(1 .. Len(q))
  BY <1>1, FS_Interval
<1>3. IsFiniteSet(Places(q, x))
  BY <1>1, <1>2, FS_Subset
<1>4. Cardinality(Places(q, x)) \in Nat
  BY <1>3, FS_CardinalityType
<1> QED
  BY <1>3, <1>4 DEF Count, Places

LEMMA CountEmpty ==
    ASSUME NEW x PROVE Count(<<>>, x) = 0
<1>1. Places(<<>>, x) = {}
  BY DEF Places
<1> QED
  BY <1>1, FS_EmptySet DEF Places, Count

LEMMA CountAppend ==
    ASSUME NEW T, NEW q \in Seq(T), NEW y \in T, NEW x
    PROVE  Count(Append(q, y), x) = Count(q, x) + One(y = x)
<1> DEFINE n == Len(q) + 1
<1> DEFINE r == Append(q, y)
<1>1. /\ r \in Seq(T) /\ Len(r) = n /\ Len(q) \in Nat /\ r[n] = y
      /\ \A i \in 1 .. Len(q) : r[i] = q[i]
  OBVIOUS
<1>2. n \notin Places(q, x)
  BY <1>1 DEF Places
<1>3. /\ IsFiniteSet(Places(q, x)) /\ Count(q, x) = Cardinality(Places(q, x)) /\ Count(q, x) \in Nat
      /\ Count(r, x) = Cardinality(Places(r, x))
  BY <1>1, CountType
<1> HIDE DEF r
<1>4. CASE y = x
  <2>1. Places(r, x) = Places(q, x) \cup {n}
    BY <1>1, <1>4 DEF Places
  <2>2. Cardinality(Places(q, x) \cup {n}) = Cardinality(Places(q, x)) + 1
    BY <1>2, <1>3, FS_AddElement
  <2> QED
    BY <1>3, <1>4, <2>1, <2>2 DEF One, r
<1>5. CASE y # x
  <2>1. Places(r, x) = Places(q, x)
    BY <1>1, <1>5 DEF Places
  <2> QED
    BY <1>3, <1>5, <2>1 DEF One, r
<1> QED
  BY <1>4, <1>5

LEMMA CountTail ==
    ASSUME NEW T, NEW q \in Seq(T), q # <<>>, NEW x
    PROVE  /\ Tail(q) \in Seq(T) /\ Head(q) \in T
           /\ Count(q, x) = Count(Tail(q), x) + One(Head(q) = x)
<1> DEFINE t == Tail(q)
<1> DEFINE B == {i \in 2 .. Len(q) : q[i] = x}
<1>1. /\ t \in Seq(T) /\ Head(q) \in T /\ Len(q) \in Nat /\ Len(q) >= 1 /\ Len(t) = Len(q) - 1
      /\ Head(q) = q[1] /\ \A i \in 1 .. Len(q) - 1 : t[i] = q[i + 1]
  OBVIOUS
<1> HIDE DEF t
<1>2. ExistsBijection(Places(t, x), B)
  <2> DEFINE f == [i \in Places(t, x) |-> i + 1]
  <2>1. \A i \in Places(t, x) : i \in Nat /\ f[i] = i + 1 /\ f[i] \in B
    BY <1>1 DEF Places
  <2>2. f \in [Places(t, x) -> B]
    BY <2>1
  <2>3. \A i, j \in Places(t, x) : f[i] = f[j] => i = j
    BY <2>1
  <2>4. \A k \in B : k - 1 \in Places(t, x) /\ f[k - 1] = k
    BY <1>1 DEF Places
  <2>5. \A k \in B : \E i \in Places(t, x) : f[i] = k
    BY <2>4
  <2> HIDE DEF f, B
  <2>6. f \in Bijection(Places(t, x), B)
    BY <2>2, <2>3, <2>5, Fun_IsBij
  <2> QED
    BY <2>6, Fun_ExistsBij
<1>3. /\ IsFiniteSet(Places(t, x)) /\ Count(t, x) = Cardinality(Places(t, x)) /\ Count(t, x) \in Nat
      /\ Count(q, x) = Cardinality(Places(q, x))
  BY <1>1, CountType
<1>4. Places(q, x) = B \cup IF Head(q) = x THEN {1} ELSE {}
  BY <1>1 DEF Places
<1>5. 1 \notin B
  OBVIOUS
<1> HIDE DEF B
<1>6. IsFiniteSet(B) /\ Cardinality(B) = Count(t, x)
  BY <1>2, <1>3, FS_Bijection
<1>7. Cardinality(B \cup {1}) = Cardinality(B) + 1
  BY <1>5, <1>6, FS_AddElement
<1>8. CASE Head(q) = x
  <2>1. Places(q, x) = B \cup {1}
    BY <1>4, <1>8
  <2> QED
    BY <1>1, <1>3, <1>6, <1>7, <1>8, <2>1 DEF One, t
<1>9. CASE Head(q) # x
  <2>1. Places(q, x) = B
    BY <1>4, <1>9
  <2> QED
    BY <1>1, <1>3, <1>6, <1>9, <2>1 DEF One, t
<1> QED
  BY <1>8, <1>9

\* The sequences of Requests.
LEMMA Queues ==
    /\ <<"msg">> # <<>> /\ <<"rdma">> # <<>> /\ <<"rdma", "msg">> # <<>>
    /\ Head(<<"msg">>) = "msg" /\ Head(<<"rdma">>) = "rdma" /\ Head(<<"rdma", "msg">>) = "rdma"
    /\ Tail(<<"msg">>) = <<>> /\ Tail(<<"rdma">>) = <<>> /\ Tail(<<"rdma", "msg">>) = <<"msg">>
    /\ Append(<<>>, "msg") = <<"msg">> /\ Append(<<>>, "rdma") = <<"rdma">>
    /\ Append(<<"rdma">>, "msg") = <<"rdma", "msg">>
    /\ <<>> \o <<"rdma", "msg">> = <<"rdma", "msg">>
    /\ <<"msg">> # <<"rdma">> /\ <<"msg">> # <<"rdma", "msg">> /\ <<"rdma">> # <<"rdma", "msg">>
<1>1. /\ <<"msg">> # <<>> /\ <<"rdma">> # <<>> /\ <<"rdma", "msg">> # <<>>
  OBVIOUS
<1>2. /\ Head(<<"msg">>) = "msg" /\ Head(<<"rdma">>) = "rdma" /\ Head(<<"rdma", "msg">>) = "rdma"
  OBVIOUS
<1>3. Tail(<<"msg">>) = <<>> /\ Tail(<<"rdma">>) = <<>>
  OBVIOUS
<1>4. Tail(<<"rdma", "msg">>) = <<"msg">>
  OBVIOUS
<1>5. Append(<<>>, "msg") = <<"msg">> /\ Append(<<>>, "rdma") = <<"rdma">>
  OBVIOUS
<1>6. Append(<<"rdma">>, "msg") = <<"rdma", "msg">>
  <2> DEFINE a == Append(<<"rdma">>, "msg")
  <2> DEFINE b == <<"rdma", "msg">>
  <2>1. a \in Seq(Work) /\ Len(a) = 2 /\ a[1] = "rdma" /\ a[2] = "msg"
    BY DEF Work
  <2>2. b \in Seq(Work) /\ Len(b) = 2 /\ b[1] = "rdma" /\ b[2] = "msg"
    BY DEF Work
  <2> HIDE DEF a, b
  <2>3. \A i \in 1 .. Len(a) : a[i] = b[i]
    BY <2>1, <2>2
  <2>4. a = b
    BY <2>1, <2>2, <2>3, SeqEqual
  <2> QED
    BY <2>4 DEF a, b
<1>7. <<>> \o <<"rdma", "msg">> = <<"rdma", "msg">>
  OBVIOUS
<1>8. /\ <<"msg">> # <<"rdma">> /\ <<"msg">> # <<"rdma", "msg">> /\ <<"rdma">> # <<"rdma", "msg">>
  OBVIOUS
<1> QED
  BY <1>1, <1>2, <1>3, <1>4, <1>5, <1>6, <1>7, <1>8

-----------------------------------------------------------------------------
(***************************************************************************)
(* Ends, and the types of what is counted.                                 *)
(***************************************************************************)
LEMMA BothEnds ==
    /\ \A e \in Ends :
          /\ Peer(e) \in Ends /\ Peer(Peer(e)) = e /\ Peer(e) # e
          /\ e[2] \in {"client", "server"}
          /\ e[2] = "client" <=> Peer(e)[2] = "server"
          /\ e[2] = "client" <=> Peer(e)[2] # "client"
    /\ \A c \in Conns :
          /\ Client(c) \in Ends /\ Server(c) \in Ends
          /\ Peer(Client(c)) = Server(c) /\ Peer(Server(c)) = Client(c)
          /\ Client(c)[2] = "client" /\ Server(c)[2] = "server"
<1>1. \A e \in Ends : e = <<e[1], e[2]>> /\ e[1] \in Conns /\ e[2] \in {"client", "server"}
  BY DEF Ends
<1>2. \A c, d : Client(c)[2] = "client" /\ Server(c)[2] = "server" /\ Client(c)[1] = c /\ Server(c)[1] = c
  BY DEF Client, Server
<1>3. \A c \in Conns : Client(c) \in Ends /\ Server(c) \in Ends
  BY DEF Client, Server, Ends
<1>4. \A c \in Conns : Peer(Client(c)) = Server(c) /\ Peer(Server(c)) = Client(c)
  BY <1>2 DEF Peer
<1>5. ASSUME NEW e \in Ends
      PROVE  /\ Peer(e) \in Ends /\ Peer(Peer(e)) = e /\ Peer(e) # e
             /\ e[2] = "client" <=> Peer(e)[2] = "server"
             /\ e[2] = "client" <=> Peer(e)[2] # "client"
  <2>1. CASE e[2] = "client"
    <3>1. e = Client(e[1]) /\ Peer(e) = Server(e[1])
      BY <1>1, <2>1 DEF Client, Peer
    <3> QED
      BY <1>1, <1>2, <1>3, <1>4, <2>1, <3>1
  <2>2. CASE e[2] = "server"
    <3>1. e = Server(e[1]) /\ Peer(e) = Client(e[1])
      BY <1>1, <2>2 DEF Server, Peer
    <3> QED
      BY <1>1, <1>2, <1>3, <1>4, <2>2, <3>1
  <2> QED
    BY <1>1, <2>1, <2>2
<1> QED
  BY <1>1, <1>2, <1>3, <1>4, <1>5

LEMMA Numbers ==
    ASSUME TypeOK, NEW e \in Ends
    PROVE  /\ cq[e] \in Seq(Wc) /\ sq[e] \in Seq(Work) /\ unacked[e] \in Seq(Work)
           /\ sendState[e] \in Nat /\ recvState[e] \in Nat /\ recvs[e] \in Nat
           /\ Count(cq[e], "send") \in Nat /\ Count(cq[e], "recv") \in Nat
           /\ Count(cq[e], "error") \in Nat
           /\ Sent(e) \in Nat /\ Had(e) \in Nat /\ Slots(e) \in Nat
<1>1. /\ cq[e] \in Seq(Wc) /\ sq[e] \in Seq(Work) /\ unacked[e] \in Seq(Work)
      /\ sendState[e] \in Nat /\ recvState[e] \in Nat /\ recvs[e] \in Nat
  <2>1. sendState[e] \in 0 .. 3 /\ recvState[e] \in 0 .. 2
    BY DEF TypeOK, SS_INIT, SS_DONE_SENT, RS_INIT, RS_DONE_RECV
  <2>2. cq[e] \in Seq(Wc) /\ sq[e] \in Seq(Work) /\ unacked[e] \in Seq(Work) /\ recvs[e] \in Nat
    BY DEF TypeOK
  <2> QED
    BY <2>1, <2>2
<1>2. /\ Count(cq[e], "send") \in Nat /\ Count(cq[e], "recv") \in Nat
      /\ Count(cq[e], "error") \in Nat
  BY <1>1, CountType
<1>3. \A b : One(b) \in Nat
  BY DEF One
<1>4. \A i, j, k \in Nat : i + j + k \in Nat
  OBVIOUS
<1> QED
  BY <1>1, <1>2, <1>3, <1>4 DEF Sent, Had, Slots

LEMMA NumbersNext ==
    ASSUME TypeOK', NEW e \in Ends
    PROVE  /\ Sent(e)' \in Nat /\ Had(e)' \in Nat /\ Slots(e)' \in Nat
<1>1. sendState'[e] \in 0 .. 3 /\ recvState'[e] \in 0 .. 2
  BY DEF TypeOK, SS_INIT, SS_DONE_SENT, RS_INIT, RS_DONE_RECV
<1>2. cq'[e] \in Seq(Wc) /\ recvs'[e] \in Nat
  BY DEF TypeOK
<1>3. Count(cq'[e], "send") \in Nat /\ Count(cq'[e], "recv") \in Nat
  BY <1>2, CountType
<1>4. \A b : One(b) \in Nat
  BY DEF One
<1>5. \A i, j, k \in Nat : i + j + k \in Nat
  OBVIOUS
<1>6. sendState'[e] \in Nat /\ recvState'[e] \in Nat
  BY <1>1
<1> QED
  BY <1>2, <1>3, <1>4, <1>5, <1>6 DEF Sent, Had, Slots

LEMMA InitRWInv == Init => RWInv
<1> SUFFICES ASSUME Init PROVE RWInv
  OBVIOUS
<1>1. TypeOK
  <2>1. /\ SS_INIT \in SS_INIT .. SS_DONE_SENT /\ RS_INIT \in RS_INIT .. RS_DONE_RECV
        /\ <<>> \in Seq(Work) /\ <<>> \in Seq(Wc) /\ 0 \in Nat
    BY DEF SS_INIT, SS_DONE_SENT, RS_INIT, RS_DONE_RECV
  <2> QED
    BY <2>1 DEF Init, TypeOK, MsgTypes
<1>2. ASSUME NEW e \in Ends PROVE EndOK(e)
  <2>1. /\ Peer(e) \in Ends /\ e[2] \in {"client", "server"}
    BY BothEnds
  <2>2. \A x \in Ends : /\ st[x] = "idle" /\ sendState[x] = 0 /\ recvState[x] = 0 /\ recvs[x] = 0
                        /\ sendMsg[x] = "none" /\ sq[x] = <<>> /\ unacked[x] = <<>>
                        /\ cq[x] = <<>> /\ hand[x] = "none" /\ ~printed[x]
    BY DEF Init, SS_INIT, RS_INIT
  <2>3. \A x \in Ends : /\ Count(cq[x], "send") = 0 /\ Count(cq[x], "recv") = 0
                        /\ Count(cq[x], "error") = 0
    BY <2>2, CountEmpty
  <2>4. \A x \in Ends : Sent(x) = 0 /\ Had(x) = 0 /\ Slots(x) = 0 /\ Idle(x)
    BY <2>2, <2>3 DEF Sent, Had, Slots, Idle, One
  <2>5. Requests(e) /\ Message(e) /\ Receives(e) /\ Silent(e)
    BY <2>1, <2>2, <2>4 DEF Requests, Message, Receives, Silent
  <2>6. Stage(e) /\ InOrder(e)
    BY <2>1, <2>2, <2>3, <2>4 DEF Stage, InOrder, One
  <2>7. Data(e) /\ NoFault(e)
    BY <2>1, <2>2, <2>3, <2>4 DEF Data, NoFault, Init
  <2> QED
    BY <2>5, <2>6, <2>7 DEF EndOK
<1> QED
  BY <1>1, <1>2 DEF RWInv

-----------------------------------------------------------------------------
(***************************************************************************)
(* Event loops: steps that change the stage of an end only.                *)
(***************************************************************************)
LEMMA SameCounts ==
    ASSUME UNCHANGED <<sendState, recvState, hand, cq>>
    PROVE  \A x \in Ends : Sent(x)' = Sent(x) /\ Had(x)' = Had(x)
BY DEF Sent, Had

LEMMA GoneStays ==
    ASSUME server' = server \/ server' = "dead", server' \in {"up", "dead"},
           \A x \in Ends :
              /\ st[x] \in {"closing", "freed"} => st'[x] \in {"closing", "freed"} \cup Ended
              /\ st[x] \in Ended => st'[x] \in Ended,
           \A x \in Ends : x[2] = "server" => st'[x] \notin Ended
    PROVE  \A x \in Ends : Gone(x) => Gone(x)'
<1> SUFFICES ASSUME NEW x \in Ends, Gone(x) PROVE Gone(x)'
  OBVIOUS
<1>1. x[2] \in {"client", "server"}
  BY BothEnds
<1>2. CASE x[2] = "client"
  BY <1>2 DEF Gone, Running
<1>3. CASE x[2] = "server"
  <2>1. Gone(x) <=> server # "up" \/ st[x] \in {"closing", "freed"}
    BY <1>3 DEF Gone, Running
  <2>2. Gone(x)' <=> server' # "up" \/ st'[x] \in {"closing", "freed"}
    BY <1>3 DEF Gone, Running
  <2> QED
    BY <1>3, <2>1, <2>2
<1> QED
  BY <1>1, <1>2, <1>3

LEMMA StageOnly ==
    ASSUME RWInv, UNCHANGED <<mode, faults, sendState, recvState, bufVars, nicVars, hand, outVars>>,
           TypeOK',
           \A x \in Ends : Gone(x) => Gone(x)',
           \A x \in Ends : x[2] = "client" /\ st'[x] = "up" => st[x] = "up",
           \A x \in Ends : Quiet(x)' => Quiet(x),
           \A x \in Ends : Stage(x)' /\ NoFault(x)'
    PROVE  RWInv'
<1>1. /\ sendState' = sendState /\ recvState' = recvState
      /\ recvMsg' = recvMsg /\ sendMsg' = sendMsg /\ recvs' = recvs /\ sq' = sq
      /\ unacked' = unacked /\ cq' = cq /\ hand' = hand /\ got' = got /\ printed' = printed
  BY DEF bufVars, nicVars, outVars
<1>2. \A x \in Ends : /\ Sent(x)' = Sent(x) /\ Had(x)' = Had(x) /\ Slots(x)' = Slots(x)
                      /\ Idle(x)' <=> Idle(x)
  BY <1>1, SameCounts DEF Slots, Idle
<1>3. ASSUME NEW x \in Ends PROVE EndOK(x)'
  <2>0. EndOK(x) /\ Peer(x) \in Ends
    BY BothEnds DEF RWInv
  <2>1. Requests(x)'
    BY <1>1, <1>2, <2>0 DEF EndOK, Requests
  <2>2. Message(x)'
    BY <1>1, <1>2, <2>0 DEF EndOK, Message, MrsExchanged
  <2>3. Receives(x)'
    BY <1>1, <1>2, <2>0 DEF EndOK, Receives
  <2>4. Silent(x)'
    BY <1>1, <1>2, <2>0 DEF EndOK, Silent
  <2>5. InOrder(x)'
    BY <1>1, <1>2, <2>0 DEF EndOK, InOrder
  <2>6. Data(x)'
    BY <1>1, <1>2, <2>0 DEF EndOK, Data
  <2> QED
    BY <2>1, <2>2, <2>3, <2>4, <2>5, <2>6 DEF EndOK
<1> QED
  BY <1>3 DEF RWInv

\* A client goes on in its event loop, ends, or is ended.
LEMMA ClientMoves ==
    ASSUME RWInv, NEW c \in Conns, NEW to \in {"connecting", "exited", "failed", "crashed"},
           UNCHANGED <<server, mode, faults, stateVars, bufVars, nicVars, hand, outVars>>,
           st[Client(c)] \notin Ended,
           \A x \in Ends : st'[x] = IF x = Client(c) THEN to
                                    ELSE IF x = Server(c) /\ to = "connecting" THEN "requested"
                                    ELSE st[x],
           st' \in [Ends -> {"idle", "routing", "connecting", "requested", "accepted",
                             "confirmed", "up", "closing", "freed"} \cup Ended],
           to = "connecting" => st[Client(c)] = "routing",
           to = "exited" => st[Client(c)] = "freed",
           to \in {"failed", "crashed"} => faults # {}
    PROVE  RWInv'
<1> DEFINE e == Client(c)
<1> DEFINE p == Server(c)
<1>0. /\ e \in Ends /\ p \in Ends /\ e # p /\ Peer(e) = p /\ Peer(p) = e
      /\ e[2] = "client" /\ p[2] = "server"
      /\ \A x \in Ends : Peer(x) \in Ends /\ x[2] \in {"client", "server"}
      /\ \A x \in Ends : Peer(x) = e => x = p
      /\ \A x \in Ends : Peer(x) = p => x = e
  BY BothEnds
<1>1. /\ TypeOK /\ \A x \in Ends : EndOK(x)
  BY DEF RWInv
<1> HIDE DEF e, p
<1>2. /\ sendState' = sendState /\ recvState' = recvState /\ recvs' = recvs
      /\ sq' = sq /\ unacked' = unacked
      /\ cq' = cq /\ hand' = hand /\ server' = server /\ faults' = faults
  BY DEF stateVars, nicVars
<1>3. TypeOK'
  BY <1>1 DEF TypeOK, stateVars, bufVars, nicVars, outVars
<1>4. \A x \in Ends : st'[x] = IF x = e THEN to
                               ELSE IF x = p /\ to = "connecting" THEN "requested" ELSE st[x]
  BY DEF e, p
<1>5. \A x \in Ends : x[2] = "server" => st[x] \notin Ended
  BY <1>1 DEF EndOK, Stage, Ended
<1>6. to = "connecting" => st[e] = "routing" /\ st[p] = "idle"
  BY <1>0, <1>1 DEF EndOK, Stage, e
<1>7. \A x \in Ends : Gone(x) => Gone(x)'
  <2>1. server' \in {"up", "dead"}
    BY <1>1, <1>2 DEF TypeOK
  <2>2. \A x \in Ends : /\ st[x] \in {"closing", "freed"} => st'[x] \in {"closing", "freed"} \cup Ended
                        /\ st[x] \in Ended => st'[x] \in Ended
    BY <1>0, <1>4, <1>5, <1>6 DEF Ended, e
  <2>3. \A x \in Ends : x[2] = "server" => st'[x] \notin Ended
    BY <1>0, <1>4, <1>5 DEF Ended
  <2> QED
    BY <1>2, <2>1, <2>2, <2>3, GoneStays
<1>8. \A x \in Ends : x[2] = "client" /\ st'[x] = "up" => st[x] = "up"
  BY <1>4
<1>9. \A x \in Ends : Quiet(x)' => Quiet(x)
  BY <1>0, <1>2, <1>4, <1>6 DEF Quiet
<1>10. ASSUME NEW x \in Ends PROVE Stage(x)'
  <2>1. st[x] = "idle" => recvs[x] = 0 /\ recvState[x] = 0 /\ hand[x] = "none" /\ cq[x] = <<>>
    BY <1>1 DEF EndOK, Stage, One
  <2>2. st[e] = "routing" => recvs[e] = 1 /\ recvState[e] = 0 /\ hand[e] = "none" /\ cq[e] = <<>>
    BY <1>0, <1>1 DEF EndOK, Stage, One
  <2>3. CASE x = e
    BY <1>0, <1>1, <1>2, <1>4, <1>6, <1>7, <2>2, <2>3 DEF EndOK, Stage, Ended, One
  <2>4. CASE x = p
    BY <1>0, <1>1, <1>2, <1>4, <1>6, <1>7, <2>1, <2>4 DEF EndOK, Stage, Idle, Ended, One
  <2>5. CASE x # e /\ x # p
    <3>1. st'[x] = st[x] /\ st'[Peer(x)] = st[Peer(x)]
      BY <1>0, <1>4, <2>5
    <3> QED
      BY <1>0, <1>1, <1>2, <1>7, <2>5, <3>1 DEF EndOK, Stage, Idle
  <2> QED
    BY <2>3, <2>4, <2>5
<1>11. ASSUME NEW x \in Ends PROVE NoFault(x)'
  <2>1. \A y \in Ends : Fin(y)' <=> Fin(y)
    BY <1>2 DEF Fin
  <2>2. CASE x = e
    BY <1>0, <1>1, <1>2, <1>4, <1>6, <2>1, <2>2 DEF EndOK, NoFault, e
  <2>3. CASE x = p
    BY <1>0, <1>1, <1>2, <1>4, <1>6, <2>1, <2>3 DEF EndOK, NoFault, e, Ended
  <2>4. CASE x # e /\ x # p
    <3>1. st'[x] = st[x] /\ st'[Peer(x)] = st[Peer(x)]
      BY <1>0, <1>4, <2>4
    <3> QED
      BY <1>0, <1>1, <1>2, <2>1, <2>4, <3>1 DEF EndOK, NoFault
  <2> QED
    BY <2>2, <2>3, <2>4
<1> QED
  BY <1>2, <1>3, <1>7, <1>8, <1>9, <1>10, <1>11, StageOnly

\* die() of either process, where something may fail.
LEMMA DieKeeps ==
    ASSUME RWInv, NEW e \in Ends, Running(e), Die(e), faults # {}, UNCHANGED <<mode, faults>>
    PROVE  RWInv'
<1>0. e[2] \in {"client", "server"} /\ TypeOK /\ \A x \in Ends : EndOK(x)
  BY BothEnds DEF RWInv
<1>1. CASE e[2] = "client"
  <2>1. PICK c \in Conns : e = Client(c)
    BY <1>1 DEF Ends, Client
  <2>2. /\ st' = [st EXCEPT ![e] = "failed"] /\ server' = server
        /\ UNCHANGED <<stateVars, bufVars, nicVars, hand, outVars>>
    BY <1>1 DEF Die
  <2>3. \A x \in Ends : st'[x] = IF x = e THEN "failed" ELSE st[x]
    BY <1>0, <2>2 DEF TypeOK
  <2>4. st' \in [Ends -> {"idle", "routing", "connecting", "requested", "accepted",
                             "confirmed", "up", "closing", "freed"} \cup Ended]
    BY <1>0, <2>2 DEF TypeOK, Ended
  <2>5. st[e] \notin Ended
    BY <1>1 DEF Running
  <2> QED
    BY <2>1, <2>2, <2>3, <2>4, <2>5, ClientMoves
<1>2. CASE e[2] = "server"
  <2>1. /\ server' = "dead" /\ st' = st
        /\ UNCHANGED <<stateVars, bufVars, nicVars, hand, outVars>>
    BY <1>2 DEF Die
  <2>2. TypeOK'
    BY <1>0, <2>1 DEF TypeOK, stateVars, bufVars, nicVars, outVars
  <2>3. \A x \in Ends : x[2] = "server" => st[x] \notin Ended
    BY <1>0 DEF EndOK, Stage, Ended
  <2>4. \A x \in Ends : Gone(x) => Gone(x)'
    BY <2>1, <2>3, GoneStays
  <2>5. /\ recvState' = recvState /\ recvs' = recvs /\ cq' = cq /\ hand' = hand
        /\ sendState' = sendState /\ sq' = sq /\ unacked' = unacked
    BY <2>1 DEF stateVars, nicVars
  <2>6. \A x \in Ends : Quiet(x)' => Quiet(x)
    BY <2>1, <2>5 DEF Quiet
  <2>7. \A x \in Ends : Stage(x)' /\ NoFault(x)'
    BY <1>0, <2>1, <2>4, <2>5, BothEnds DEF EndOK, Stage, NoFault, Idle
  <2> QED
    BY <2>1, <2>2, <2>4, <2>5, <2>6, <2>7, StageOnly
<1> QED
  BY <1>0, <1>1, <1>2

LEMMA EventsKeep ==
    ASSUME RWInv, NEW c \in Conns, UNCHANGED <<mode, faults>>,
           \/ OnRouteResolved(c) \/ OnUnknownEvent(c) \/ MainReturns(c) \/ ClientCrash(c)
           \/ ServerOnUnknownEvent(c)
    PROVE  RWInv'
<1> DEFINE e == Client(c)
<1> DEFINE p == Server(c)
<1> DEFINE StType == [Ends -> {"idle", "routing", "connecting", "requested", "accepted",
                               "confirmed", "up", "closing", "freed"} \cup Ended]
<1>0. /\ e \in Ends /\ p \in Ends /\ e # p /\ Peer(p) = e /\ e[2] = "client" /\ p[2] = "server"
  BY BothEnds
<1>1. /\ TypeOK /\ \A x \in Ends : EndOK(x)
  BY DEF RWInv
<1>2. st \in StType
  BY <1>1 DEF TypeOK
<1>3. faults = {} => server = "up"
  BY <1>0, <1>1 DEF EndOK, NoFault
<1> HIDE DEF e, p, StType
<1>4. CASE OnRouteResolved(c)
  <2>1. /\ st[e] = "routing" /\ server' = server
        /\ st' = [st EXCEPT ![e] = "connecting", ![p] = "requested"]
        /\ UNCHANGED <<stateVars, bufVars, nicVars, hand, outVars>>
    BY <1>4 DEF OnRouteResolved, e, p
  <2>2. /\ \A x \in Ends : st'[x] = IF x = e THEN "connecting" ELSE IF x = p THEN "requested" ELSE st[x]
        /\ st' \in StType
    BY <1>0, <1>2, <2>1 DEF StType
  <2> QED
    BY <2>1, <2>2, ClientMoves DEF Ended, e, p, StType
<1>5. ASSUME NEW to \in {"exited", "crashed"}, st' = [st EXCEPT ![e] = to],
             server' = server, UNCHANGED <<stateVars, bufVars, nicVars, hand, outVars>>,
             st[e] \notin Ended, to = "exited" => st[e] = "freed", to = "crashed" => faults # {}
      PROVE  RWInv'
  <2>1. (\A x \in Ends : st'[x] = IF x = e THEN to ELSE st[x]) /\ st' \in StType
    BY <1>0, <1>2, <1>5 DEF StType, Ended
  <2> QED
    BY <1>5, <2>1, ClientMoves DEF e, p, StType
<1>6. CASE MainReturns(c)
  BY <1>5, <1>6 DEF MainReturns, Ended, e
<1>7. CASE ClientCrash(c)
  BY <1>5, <1>7 DEF ClientCrash, e
<1>8. CASE OnUnknownEvent(c)
  <2>1. Running(e) /\ Die(e) /\ faults # {}
    BY <1>0, <1>3, <1>8 DEF OnUnknownEvent, Running, Ended, e
  <2> QED
    BY <1>0, <2>1, DieKeeps
<1>9. CASE ServerOnUnknownEvent(c)
  <2>1. Running(p) /\ Die(p) /\ st[p] = "accepted" /\ Gone(e)
    BY <1>0, <1>9 DEF ServerOnUnknownEvent, Running, e, p
  <2>2. faults # {}
    BY <1>0, <1>1, <2>1 DEF EndOK, NoFault, Gone, Running, Ended
  <2> QED
    BY <1>0, <2>1, <2>2, DieKeeps
<1> QED
  BY <1>4, <1>6, <1>7, <1>8, <1>9

\* The first receive of an end is posted before the connection is up.
LEMMA BuildKeeps ==
    ASSUME RWInv, NEW c \in Conns, UNCHANGED <<mode, faults>>,
           OnAddrResolved(c) \/ OnConnectRequest(c)
    PROVE  RWInv'
<1>1. PICK e \in {Client(c), Server(c)} :
         /\ st[e] = IF e[2] = "client" THEN "idle" ELSE "requested"
         /\ st' = [st EXCEPT ![e] = IF e[2] = "client" THEN "routing" ELSE "accepted"]
         /\ recvs' = [recvs EXCEPT ![e] = @ + 1]
         /\ UNCHANGED <<server, stateVars, bufVars, sq, unacked, cq, hand, outVars>>
  BY BothEnds DEF OnAddrResolved, OnConnectRequest
<1> DEFINE p == Peer(e)
<1>0. /\ e \in Ends /\ p \in Ends /\ e # p /\ Peer(p) = e
      /\ e[2] \in {"client", "server"} /\ (e[2] = "client" <=> p[2] = "server")
      /\ \A x \in Ends : Peer(x) \in Ends /\ x[2] \in {"client", "server"} /\ Peer(x) # x
      /\ \A x \in Ends : Peer(x) = e => x = p
      /\ \A x \in Ends : Peer(x) = p => x = e
  BY BothEnds
<1> HIDE DEF p
<1>2. /\ TypeOK /\ \A x \in Ends : EndOK(x)
  BY DEF RWInv
<1>3. /\ connected' = connected /\ sendState' = sendState /\ recvState' = recvState
      /\ recvMsg' = recvMsg /\ sendMsg' = sendMsg /\ sq' = sq /\ server' = server
      /\ unacked' = unacked /\ cq' = cq /\ hand' = hand /\ got' = got /\ printed' = printed
      /\ mode' = mode /\ faults' = faults
  BY <1>1 DEF stateVars, bufVars, outVars
<1>4. /\ \A x \in Ends : recvs'[x] = IF x = e THEN recvs[x] + 1 ELSE recvs[x]
      /\ \A x \in Ends : st'[x] = IF x = e THEN IF e[2] = "client" THEN "routing" ELSE "accepted" ELSE st[x]
      /\ recvs' \in [Ends -> Nat]
      /\ st' \in [Ends -> {"idle", "routing", "connecting", "requested", "accepted",
                             "confirmed", "up", "closing", "freed"} \cup Ended]
  <2> DEFINE to == IF e[2] = "client" THEN "routing" ELSE "accepted"
  <2>1. st' = [st EXCEPT ![e] = to] /\ to \in {"routing", "accepted"}
    BY <1>1
  <2> HIDE DEF to
  <2>2. /\ \A x \in Ends : recvs'[x] = IF x = e THEN recvs[x] + 1 ELSE recvs[x]
        /\ recvs' \in [Ends -> Nat]
    <3>1. recvs \in [Ends -> Nat] /\ recvs[e] \in Nat
      BY <1>0, <1>2, Numbers DEF TypeOK
    <3>2. recvs' = [recvs EXCEPT ![e] = recvs[e] + 1]
      BY <1>1
    <3> QED
      BY <1>0, <3>1, <3>2
  <2>3. /\ \A x \in Ends : st'[x] = IF x = e THEN to ELSE st[x]
        /\ st' \in [Ends -> {"idle", "routing", "connecting", "requested", "accepted",
                             "confirmed", "up", "closing", "freed"} \cup Ended]
    BY <1>0, <1>2, <2>1 DEF TypeOK
  <2> QED
    BY <2>2, <2>3 DEF to
<1>5. TypeOK'
  BY <1>2, <1>3, <1>4 DEF TypeOK
<1>6. \A x \in Ends : /\ Sent(x)' = Sent(x) /\ Had(x)' = Had(x) /\ (Idle(x)' <=> Idle(x))
                      /\ x # e => Slots(x)' = Slots(x)
  BY <1>3, <1>4, SameCounts DEF Idle, Slots
<1>7. /\ recvs[e] = 0 /\ recvState[e] = 0 /\ hand[e] = "none" /\ cq[e] = <<>>
      /\ Slots(e)' = 1
  <2>1. recvs[e] = 0 /\ recvState[e] = 0 /\ hand[e] = "none" /\ cq[e] = <<>>
    BY <1>0, <1>1, <1>2 DEF EndOK, Stage, One
  <2>2. Count(cq[e], "recv") = 0
    BY <2>1, CountEmpty
  <2> QED
    BY <1>0, <1>3, <1>4, <2>1, <2>2 DEF Slots, One
<1>8. \A x \in Ends : Gone(x)' <=> Gone(x)
  BY <1>0, <1>1, <1>3, <1>4 DEF Gone, Running, Ended
<1>9. ASSUME NEW x \in Ends PROVE EndOK(x)'
  <2>0. EndOK(x) /\ Peer(x) \in Ends
    BY <1>0, <1>2
  <2>1. Requests(x)'
    BY <1>3, <1>6, <2>0 DEF EndOK, Requests
  <2>2. Message(x)'
    BY <1>3, <1>6, <2>0 DEF EndOK, Message, MrsExchanged
  <2>3. Receives(x)'
    <3>1. /\ Slots(x)' <= 1 /\ recvState'[x] + Slots(x)' <= 2
      BY <1>3, <1>6, <1>7, <2>0 DEF EndOK, Receives
    <3> QED
      BY <1>3, <1>6, <2>0, <3>1 DEF EndOK, Receives
  <2>4. Silent(x)'
    BY <1>0, <1>1, <1>3, <1>4, <1>6, <2>0 DEF EndOK, Silent, Quiet
  <2>5. Stage(x)'
    <3>1. CASE x = e
      BY <1>0, <1>1, <1>3, <1>4, <1>7, <1>8, <2>0, <3>1 DEF EndOK, Stage, One
    <3>2. CASE x = p
      BY <1>0, <1>1, <1>2, <1>3, <1>4, <1>6, <1>8, <2>0, <3>2 DEF EndOK, Stage, One
    <3>3. CASE x # e /\ x # p
      <4>1. st'[x] = st[x] /\ st'[Peer(x)] = st[Peer(x)] /\ recvs'[x] = recvs[x]
        BY <1>0, <1>4, <3>3
      <4> QED
        BY <1>0, <1>3, <1>6, <1>8, <2>0, <4>1 DEF EndOK, Stage
    <3> QED
      BY <3>1, <3>2, <3>3
  <2>6. InOrder(x)'
    BY <1>0, <1>1, <1>3, <1>4, <1>6, <1>8, <2>0 DEF EndOK, InOrder
  <2>7. Data(x)'
    BY <1>3, <1>6, <2>0 DEF EndOK, Data
  <2>8. NoFault(x)'
    <3>1. \A y \in Ends : Fin(y)' <=> Fin(y)
      BY <1>3 DEF Fin
    <3>2. CASE x = e
      BY <1>0, <1>1, <1>2, <1>3, <1>4, <1>7, <2>0, <3>1, <3>2 DEF EndOK, NoFault, Stage
    <3>3. CASE x = p
      BY <1>0, <1>1, <1>2, <1>3, <1>4, <2>0, <3>1, <3>3 DEF EndOK, NoFault
    <3>4. CASE x # e /\ x # p
      <4>1. st'[x] = st[x] /\ st'[Peer(x)] = st[Peer(x)]
        BY <1>0, <1>4, <3>4
      <4> QED
        BY <1>3, <2>0, <3>1, <4>1 DEF EndOK, NoFault
    <3> QED
      BY <3>2, <3>3, <3>4
  <2> QED
    BY <2>1, <2>2, <2>3, <2>4, <2>5, <2>6, <2>7, <2>8 DEF EndOK
<1> QED
  BY <1>5, <1>9 DEF RWInv

LEMMA ServerConnectionKeeps ==
    ASSUME RWInv, NEW c \in Conns, UNCHANGED <<mode, faults>>, ServerOnConnection(c)
    PROVE  RWInv'
<1> DEFINE e == Server(c)
<1>0. /\ e \in Ends /\ e[2] = "server" /\ \A x \in Ends : Peer(x) \in Ends
      /\ TypeOK /\ \A x \in Ends : EndOK(x)
  BY BothEnds DEF RWInv
<1>1. /\ st[e] = "confirmed" /\ st' = [st EXCEPT ![e] = "up"] /\ server' = server
      /\ connected' = [connected EXCEPT ![e] = TRUE]
      /\ sendState' = sendState /\ recvState' = recvState /\ UNCHANGED <<bufVars, nicVars, hand, outVars>>
  BY DEF ServerOnConnection
<1> HIDE DEF e
<1>2. /\ recvs' = recvs /\ cq' = cq /\ hand' = hand /\ faults' = faults
      /\ sq' = sq /\ unacked' = unacked
  BY <1>1 DEF nicVars
<1>3. \A x \in Ends : st'[x] = IF x = e THEN "up" ELSE st[x]
  BY <1>0, <1>1 DEF TypeOK
<1>4. TypeOK'
  BY <1>0, <1>1 DEF TypeOK, bufVars, nicVars, outVars
<1>5. \A x \in Ends : Gone(x)' <=> Gone(x)
  BY <1>0, <1>1, <1>3 DEF Gone, Running, Ended
<1>6. \A x \in Ends : x[2] = "client" /\ st'[x] = "up" => st[x] = "up"
  BY <1>0, <1>3
<1>7. \A x \in Ends : Quiet(x)' => Quiet(x)
  BY <1>0, <1>1, <1>2, <1>3 DEF Quiet
<1>8. \A x \in Ends : Fin(x)' <=> Fin(x)
  BY <1>1 DEF Fin
<1>9. ASSUME NEW x \in Ends PROVE Stage(x)' /\ NoFault(x)'
  BY <1>0, <1>1, <1>2, <1>3, <1>5, <1>8 DEF EndOK, Stage, NoFault, Idle
<1> QED
  BY <1>1, <1>4, <1>5, <1>6, <1>7, <1>9, StageOnly

\* The client sends its region when its connection is up.
LEMMA ConnectionKeeps ==
    ASSUME RWInv, NEW c \in Conns, UNCHANGED <<mode, faults>>, OnConnection(c)
    PROVE  RWInv'
<1> DEFINE e == Client(c)
<1> DEFINE p == Server(c)
<1>0. /\ e \in Ends /\ p \in Ends /\ e # p /\ Peer(e) = p /\ Peer(p) = e
      /\ e[2] = "client" /\ p[2] = "server"
      /\ \A x \in Ends : Peer(x) \in Ends /\ x[2] \in {"client", "server"} /\ Peer(x) # x
      /\ \A x \in Ends : Peer(x) = e => x = p
      /\ \A x \in Ends : Peer(x) = p => x = e
  BY BothEnds
<1>1. /\ st[e] = "connecting" /\ st[p] = "accepted" /\ server = "up" /\ server' = server
      /\ st' = [st EXCEPT ![e] = "up", ![p] = "confirmed"]
      /\ connected' = [connected EXCEPT ![e] = TRUE]
      /\ sendMsg' = [sendMsg EXCEPT ![e] = "MSG_MR"]
      /\ sq' = [sq EXCEPT ![e] = Append(@, "msg")]
      /\ sendState' = sendState /\ recvState' = recvState /\ recvMsg' = recvMsg /\ recvs' = recvs
      /\ unacked' = unacked /\ cq' = cq /\ hand' = hand /\ got' = got /\ printed' = printed
      /\ mode' = mode /\ faults' = faults
  BY DEF OnConnection, outVars
<1> HIDE DEF e, p
<1>2. /\ TypeOK /\ \A x \in Ends : EndOK(x)
  BY DEF RWInv
<1>3. Sent(e) = 0 /\ Idle(e) /\ Had(p) = 0 /\ sendMsg[e] # "MSG_DONE"
  BY <1>0, <1>1, <1>2 DEF EndOK, Silent, Quiet
<1>4. /\ \A x \in Ends : st'[x] = IF x = e THEN "up" ELSE IF x = p THEN "confirmed" ELSE st[x]
      /\ \A x \in Ends : sendMsg'[x] = IF x = e THEN "MSG_MR" ELSE sendMsg[x]
      /\ \A x \in Ends : sq'[x] = IF x = e THEN <<"msg">> ELSE sq[x]
  <2>1. Append(sq[e], "msg") = <<"msg">>
    BY <1>3, Queues DEF Idle
  <2>2. sq' = [sq EXCEPT ![e] = <<"msg">>]
    BY <1>1, <2>1
  <2> QED
    BY <1>0, <1>1, <1>2, <2>2 DEF TypeOK
<1>5. TypeOK'
  <2>0. <<"msg">> \in Seq(Work)
    BY DEF Work
  <2>1. \A x \in Ends : sq'[x] \in Seq(Work)
    BY <1>2, <1>4, <2>0, Numbers
  <2>2. sq' \in [Ends -> Seq(Work)]
    BY <1>1, <1>2, <2>1 DEF TypeOK
  <2>3. /\ st' \in [Ends -> {"idle", "routing", "connecting", "requested", "accepted",
                             "confirmed", "up", "closing", "freed"} \cup Ended]
        /\ sendMsg' \in [Ends -> MsgTypes] /\ connected' \in [Ends -> BOOLEAN]
    BY <1>0, <1>1, <1>2 DEF TypeOK, MsgTypes
  <2> QED
    BY <1>1, <1>2, <2>2, <2>3 DEF TypeOK
<1>6. \A x \in Ends : /\ Sent(x)' = Sent(x) /\ Had(x)' = Had(x) /\ Slots(x)' = Slots(x)
                      /\ x # e => (Idle(x)' <=> Idle(x))
                      /\ x = e => ~Idle(x)'
  BY <1>1, <1>4, SameCounts, Queues DEF Idle, Slots
<1>7. ASSUME NEW x \in Ends PROVE Gone(x)' <=> Gone(x)
  <2>1. CASE x = e
    <3>1. st[x] = "connecting" /\ st'[x] = "up" /\ x[2] = "client"
      BY <1>0, <1>1, <1>4, <2>1
    <3> QED
      BY <3>1 DEF Gone, Running, Ended
  <2>2. CASE x = p
    <3>1. st[x] = "accepted" /\ st'[x] = "confirmed" /\ x[2] = "server"
      BY <1>0, <1>1, <1>4, <2>2
    <3> QED
      BY <1>1, <3>1 DEF Gone, Running
  <2>3. CASE x # e /\ x # p
    <3>1. st'[x] = st[x]
      BY <1>4, <2>3
    <3> QED
      BY <1>1, <3>1 DEF Gone, Running
  <2> QED
    BY <2>1, <2>2, <2>3
<1>8. ASSUME NEW x \in Ends PROVE EndOK(x)'
  <2>0. EndOK(x) /\ Peer(x) \in Ends
    BY <1>0, <1>2
  <2>1. Requests(x)'
    BY <1>1, <1>3, <1>4, <1>6, <2>0 DEF EndOK, Requests, Idle
  <2>2. Message(x)'
    BY <1>1, <1>3, <1>4, <1>6, <2>0 DEF EndOK, Message, MrsExchanged
  <2>3. Receives(x)'
    <3>1. CASE x = p
      BY <1>0, <1>1, <1>3, <1>4, <1>6, <2>0, <3>1 DEF EndOK, Receives
    <3>2. CASE x # p
      <4>1. sq'[Peer(x)] = sq[Peer(x)] /\ sendMsg'[Peer(x)] = sendMsg[Peer(x)]
        BY <1>0, <1>4, <3>2
      <4> QED
        BY <1>1, <1>6, <2>0, <4>1 DEF EndOK, Receives
    <3> QED
      BY <3>1, <3>2
  <2>4. Silent(x)'
    BY <1>0, <1>1, <1>4, <1>6, <2>0 DEF EndOK, Silent, Quiet
  <2>5. Stage(x)'
    <3>1. CASE x = e
      <4>1. st'[x] = "up" /\ x[2] = "client" /\ Peer(x) = p
        BY <1>0, <1>4, <3>1
      <4> QED
        BY <1>0, <1>1, <1>7, <2>0, <4>1 DEF EndOK, Stage
    <3>4. CASE x = p
      <4>1. st'[x] = "confirmed" /\ x[2] = "server" /\ Peer(x) = e
        BY <1>0, <1>4, <3>4
      <4> QED
        BY <1>0, <1>1, <1>7, <2>0, <4>1 DEF EndOK, Stage
    <3>2. CASE x # e /\ x # p
      <4>1. st'[x] = st[x] /\ st'[Peer(x)] = st[Peer(x)]
        BY <1>0, <1>4, <3>2
      <4> QED
        BY <1>0, <1>1, <1>6, <1>7, <2>0, <4>1 DEF EndOK, Stage
    <3> QED
      BY <3>1, <3>2, <3>4
  <2>6. InOrder(x)'
    BY <1>0, <1>1, <1>4, <1>6, <1>7, <2>0 DEF EndOK, InOrder
  <2>7. Data(x)'
    BY <1>1, <1>6, <2>0 DEF EndOK, Data
  <2>8. NoFault(x)'
    <3>1. \A y \in Ends : Fin(y)' <=> Fin(y)
      BY <1>1 DEF Fin
    <3>2. CASE x = e \/ x = p
      <4>1. st'[x] = (IF x = e THEN "up" ELSE "confirmed") /\ st'[x] \in {"up", "confirmed"}
        BY <1>0, <1>4, <3>2
      <4> QED
        BY <1>1, <2>0, <3>1, <4>1 DEF EndOK, NoFault
    <3>3. CASE x # e /\ x # p
      <4>1. st'[x] = st[x] /\ st'[Peer(x)] = st[Peer(x)]
        BY <1>0, <1>4, <3>3
      <4> QED
        BY <1>1, <2>0, <3>1, <4>1 DEF EndOK, NoFault
    <3> QED
      BY <3>2, <3>3
  <2> QED
    BY <2>1, <2>2, <2>3, <2>4, <2>5, <2>6, <2>7, <2>8 DEF EndOK
<1> QED
  BY <1>5, <1>8 DEF RWInv

\* The connection is destroyed with all that is posted or completed.
LEMMA DisconnectKeeps ==
    ASSUME RWInv, NEW c \in Conns, UNCHANGED <<mode, faults>>,
           OnDisconnect(c) \/ ServerOnDisconnect(c)
    PROVE  RWInv'
<1>1. PICK e \in {Client(c), Server(c)} :
         /\ st[e] = "closing" \/ (st[e] = "up" /\ Gone(Peer(e)))
         /\ st' = [st EXCEPT ![e] = "freed"]
         /\ recvs' = [recvs EXCEPT ![e] = 0]
         /\ sq' = [sq EXCEPT ![e] = <<>>]
         /\ unacked' = [unacked EXCEPT ![e] = <<>>]
         /\ cq' = [cq EXCEPT ![e] = <<>>]
         /\ UNCHANGED <<server, stateVars, bufVars, hand, outVars>>
  BY BothEnds DEF OnDisconnect, ServerOnDisconnect
<1> DEFINE p == Peer(e)
<1>0. /\ e \in Ends /\ p \in Ends /\ e # p /\ Peer(p) = e
      /\ e[2] \in {"client", "server"} /\ (e[2] = "client" <=> p[2] = "server")
      /\ \A x \in Ends : Peer(x) \in Ends /\ x[2] \in {"client", "server"} /\ Peer(x) # x
      /\ \A x \in Ends : Peer(x) = e => x = p
      /\ \A x \in Ends : Peer(x) = p => x = e
  BY BothEnds
<1>p. st[e] = "closing" \/ (st[e] = "up" /\ Gone(p))
  BY <1>1
<1> HIDE DEF p
<1>2. /\ TypeOK /\ \A x \in Ends : EndOK(x)
  BY DEF RWInv
<1>3. /\ connected' = connected /\ sendState' = sendState /\ recvState' = recvState
      /\ recvMsg' = recvMsg /\ sendMsg' = sendMsg /\ server' = server
      /\ hand' = hand /\ got' = got /\ printed' = printed /\ mode' = mode /\ faults' = faults
  BY <1>1 DEF stateVars, bufVars, outVars
<1>4. /\ \A x \in Ends : st'[x] = IF x = e THEN "freed" ELSE st[x]
      /\ \A x \in Ends : recvs'[x] = IF x = e THEN 0 ELSE recvs[x]
      /\ \A x \in Ends : sq'[x] = IF x = e THEN <<>> ELSE sq[x]
      /\ \A x \in Ends : unacked'[x] = IF x = e THEN <<>> ELSE unacked[x]
      /\ \A x \in Ends : cq'[x] = IF x = e THEN <<>> ELSE cq[x]
  BY <1>0, <1>1, <1>2 DEF TypeOK
<1>5. TypeOK'
  <2>1. <<>> \in Seq(Work) /\ <<>> \in Seq(Wc) /\ 0 \in Nat
    OBVIOUS
  <2>2. recvs' \in [Ends -> Nat] /\ sq' \in [Ends -> Seq(Work)]
    BY <1>0, <1>1, <1>2, <2>1 DEF TypeOK
  <2>3. unacked' \in [Ends -> Seq(Work)] /\ cq' \in [Ends -> Seq(Wc)]
    BY <1>0, <1>1, <1>2, <2>1 DEF TypeOK
  <2>4. st' \in [Ends -> {"idle", "routing", "connecting", "requested", "accepted",
                             "confirmed", "up", "closing", "freed"} \cup Ended]
    BY <1>0, <1>1, <1>2 DEF TypeOK
  <2> QED
    BY <1>2, <1>3, <2>2, <2>3, <2>4 DEF TypeOK
<1>6. \A x \in Ends : /\ Sent(x) \in Nat /\ Had(x) \in Nat /\ Slots(x) \in Nat
                      /\ Sent(x)' \in Nat /\ Had(x)' \in Nat /\ Slots(x)' \in Nat
                      /\ sendState[x] \in Nat /\ recvState[x] \in Nat /\ recvs[x] \in Nat
  BY <1>2, <1>5, Numbers, NumbersNext
<1>7. /\ \A x \in Ends : x # e => /\ Sent(x)' = Sent(x) /\ Had(x)' = Had(x) /\ Slots(x)' = Slots(x)
                                  /\ (Idle(x)' <=> Idle(x))
      /\ Sent(e)' <= Sent(e) /\ Had(e)' <= Had(e) /\ Slots(e)' <= Slots(e) /\ Idle(e)'
  <2>1. \A x \in Ends : x # e => cq'[x] = cq[x] /\ sq'[x] = sq[x] /\ unacked'[x] = unacked[x] /\ recvs'[x] = recvs[x]
    BY <1>4
  <2>2. \A x \in Ends : x # e => /\ Sent(x)' = Sent(x) /\ Had(x)' = Had(x) /\ Slots(x)' = Slots(x)
                                  /\ (Idle(x)' <=> Idle(x))
    BY <1>3, <2>1 DEF Sent, Had, Slots, Idle
  <2>3. /\ Count(cq'[e], "send") = 0 /\ Count(cq'[e], "recv") = 0
    BY <1>0, <1>4, CountEmpty
  <2>4. /\ Count(cq[e], "send") \in Nat /\ Count(cq[e], "recv") \in Nat
    BY <1>0, <1>2, Numbers
  <2>5. \A b : One(b) \in Nat
    BY DEF One
  <2>6. /\ sendState[e] \in Nat /\ recvState[e] \in Nat /\ recvs[e] \in Nat /\ recvs'[e] = 0
    BY <1>0, <1>4, <1>6
  <2>7. Sent(e)' <= Sent(e) /\ Had(e)' <= Had(e) /\ Slots(e)' <= Slots(e)
    BY <1>3, <2>3, <2>4, <2>5, <2>6 DEF Sent, Had, Slots
  <2>8. Idle(e)'
    BY <1>0, <1>4 DEF Idle
  <2> QED
    BY <2>2, <2>7, <2>8
<1>8. \A x \in Ends : Gone(x) => Gone(x)'
  <2>1. \A x \in Ends : x[2] = "server" => st[x] \notin Ended
    BY <1>2 DEF EndOK, Stage, Ended
  <2>2. /\ \A x \in Ends : /\ st[x] \in {"closing", "freed"} => st'[x] \in {"closing", "freed"} \cup Ended
                           /\ st[x] \in Ended => st'[x] \in Ended
        /\ \A x \in Ends : x[2] = "server" => st'[x] \notin Ended
    BY <1>4, <1>p, <2>1 DEF Ended
  <2>3. server' \in {"up", "dead"}
    BY <1>2, <1>3 DEF TypeOK
  <2> QED
    BY <1>3, <2>2, <2>3, GoneStays
<1>9. ASSUME NEW x \in Ends PROVE EndOK(x)'
  <2>0. EndOK(x) /\ Peer(x) \in Ends
    BY <1>0, <1>2
  <2>a. Sent(x)' <= Sent(x) /\ Had(x)' <= Had(x) /\ Slots(x)' <= Slots(x)
    BY <1>6, <1>7
  <2>b. /\ Sent(Peer(x))' <= Sent(Peer(x)) /\ Had(Peer(x))' <= Had(Peer(x))
        /\ Sent(Peer(x)) \in Nat /\ Had(Peer(x)) \in Nat /\ Sent(Peer(x))' \in Nat /\ Had(Peer(x))' \in Nat
    BY <1>6, <1>7, <2>0
  <2>1. Requests(x)'
    BY <1>4, <1>6, <1>7, <2>0, <2>a DEF EndOK, Requests
  <2>2. Message(x)'
    BY <1>3, <1>6, <1>7, <2>0, <2>a DEF EndOK, Message, MrsExchanged
  <2>3. Receives(x)'
    <3>1. sq'[Peer(x)] = sq[Peer(x)] \/ sq'[Peer(x)] = <<>>
      BY <1>4, <2>0
    <3>2. recvState[x] + Slots(x)' <= recvState[x] + Slots(x)
      BY <1>6, <2>a
    <3>3. Receives(x)
      BY <2>0 DEF EndOK
    <3>4. /\ Slots(x)' <= 1 /\ Had(x)' <= 2 /\ recvState'[x] + Slots(x)' <= 2
      BY <1>3, <1>6, <2>a, <3>2, <3>3 DEF Receives
    <3>5. (Had(x)' = 2 => Had(x) = 2) /\ (Had(x)' > 0 => Had(x) > 0)
      BY <1>6, <2>a, <3>3 DEF Receives
    <3> QED
      BY <1>3, <3>1, <3>3, <3>4, <3>5 DEF Receives
  <2>4. Silent(x)'
    <3>1. Quiet(x)' => Quiet(x)
      BY <1>3, <1>4 DEF Quiet
    <3>2. Idle(x) => Idle(x)'
      BY <1>7
    <3> QED
      BY <1>3, <1>6, <2>0, <2>a, <2>b, <3>1, <3>2 DEF EndOK, Silent
  <2>5. Stage(x)'
    <3>1. CASE x = e
      <4>1. st'[x] = "freed" /\ cq'[x] = <<>> /\ Count(cq'[x], "error") = 0
        BY <1>4, <3>1, CountEmpty
      <4> QED
        BY <1>0, <1>7, <3>1, <4>1 DEF Stage
    <3>2. CASE x = p
      <4>1. st'[x] = st[x] /\ cq'[x] = cq[x] /\ recvs'[x] = recvs[x] /\ Peer(x) = e /\ st[e] # "idle"
        BY <1>0, <1>4, <1>p, <3>2
      <4> QED
        BY <1>0, <1>3, <1>7, <1>8, <2>0, <4>1 DEF EndOK, Stage
    <3>3. CASE x # e /\ x # p
      <4>1. st'[x] = st[x] /\ st'[Peer(x)] = st[Peer(x)] /\ cq'[x] = cq[x] /\ recvs'[x] = recvs[x]
        BY <1>0, <1>4, <3>3
      <4> QED
        BY <1>3, <1>7, <1>8, <2>0, <4>1 DEF EndOK, Stage
    <3> QED
      BY <3>1, <3>2, <3>3
  <2>6. InOrder(x)'
    <3>1. CASE x = e
      <4>1. st'[x] = "freed" /\ Count(cq'[x], "recv") = 0
        BY <1>4, <3>1, CountEmpty
      <4> QED
        BY <1>3, <2>0, <4>1 DEF EndOK, InOrder
    <3>2. CASE x # e
      <4>1. st'[x] = st[x] /\ cq'[x] = cq[x] /\ Sent(x)' = Sent(x) /\ (Idle(x)' <=> Idle(x))
        BY <1>4, <1>7, <3>2
      <4> QED
        BY <1>3, <1>8, <2>0, <4>1 DEF EndOK, InOrder
    <3> QED
      BY <3>1, <3>2
  <2>7. Data(x)'
    <3>1. unacked'[Peer(x)] = unacked[Peer(x)] \/ unacked'[Peer(x)] = <<>>
      BY <1>4, <2>0
    <3>2. /\ Sent(x)' >= 2 => Sent(x) >= 2
          /\ Sent(Peer(x))' >= 2 => Sent(Peer(x)) >= 2
      BY <1>6, <2>a, <2>b
    <3>3. Had(x)' = 2 => Had(x) = 2
      BY <1>6, <2>0, <2>a DEF EndOK, Receives
    <3> QED
      BY <1>3, <2>0, <3>1, <3>2, <3>3 DEF EndOK, Data
  <2>8. NoFault(x)'
    <3>1. \A y \in Ends : Fin(y)' <=> Fin(y)
      BY <1>3 DEF Fin
    <3>2. CASE x = e
      <4>1. st'[x] = "freed" /\ Count(cq'[x], "error") = 0 /\ Peer(x) = p
        BY <1>4, <3>2, CountEmpty DEF p
      <4>2. ASSUME faults = {}, Gone(p) PROVE st[p] \in {"closing", "freed", "exited"}
        BY <1>0, <1>2, <4>2 DEF Gone, Running, Ended, EndOK, NoFault
      <4>3. faults = {} => Fin(e) \/ Fin(p)
        <5>1. NoFault(e) /\ NoFault(p)
          BY <1>0, <1>2 DEF EndOK
        <5>2. Peer(e) = p
          BY DEF p
        <5> QED
          BY <1>0, <1>p, <4>2, <5>1, <5>2 DEF NoFault
      <4>4. faults = {} => server = "up"
        BY <2>0 DEF EndOK, NoFault
      <4> QED
        BY <1>3, <3>1, <3>2, <4>1, <4>3, <4>4, <1>0 DEF NoFault
    <3>3. CASE x = p
      <4>1. st'[x] = st[x] /\ cq'[x] = cq[x] /\ Peer(x) = e /\ st[e] # "connecting"
        BY <1>0, <1>4, <1>p, <3>3
      <4> QED
        BY <1>0, <1>3, <2>0, <3>1, <4>1 DEF EndOK, NoFault
    <3>4. CASE x # e /\ x # p
      <4>1. st'[x] = st[x] /\ st'[Peer(x)] = st[Peer(x)] /\ cq'[x] = cq[x]
        BY <1>0, <1>4, <3>4
      <4> QED
        BY <1>3, <2>0, <3>1, <4>1 DEF EndOK, NoFault
    <3> QED
      BY <3>2, <3>3, <3>4
  <2> QED
    BY <2>1, <2>2, <2>3, <2>4, <2>5, <2>6, <2>7, <2>8 DEF EndOK
<1> QED
  BY <1>5, <1>9 DEF RWInv

-----------------------------------------------------------------------------
(***************************************************************************)
(* The poller: steps that change one end only.                             *)
(***************************************************************************)
\* The end is as before, but for a message that a WRITE may have brought.
Same(x) ==
    /\ st'[x] = st[x] /\ sendState'[x] = sendState[x] /\ recvState'[x] = recvState[x]
    /\ recvs'[x] = recvs[x] /\ recvMsg'[x] = recvMsg[x] /\ sendMsg'[x] = sendMsg[x]
    /\ sq'[x] = sq[x] /\ unacked'[x] = unacked[x] /\ cq'[x] = cq[x] /\ hand'[x] = hand[x]
    /\ (got[x] => got'[x]) /\ (printed'[x] <=> printed[x])

\* What the peer of an end must know of a step of the end.
ForPeer(e) ==
    /\ Had(e) = 0 => Had(e)' = 0
    /\ Had(Peer(e)) = 2 => sendMsg'[e] = "MSG_DONE" /\ sq'[e] = <<>>
    /\ Had(Peer(e)) > 0 /\ sq'[e] # <<>> => sendMsg'[e] = "MSG_DONE"
    /\ (st[e] # "idle" /\ st[e] # "connecting") \/ st'[e] = st[e]
    /\ mode = "M_WRITE" /\ Sent(e)' >= 2 => got'[Peer(e)]
    /\ mode = "M_WRITE" /\ unacked'[e] # <<>> /\ unacked'[e][1] = "rdma" => got'[Peer(e)]
    /\ Fin(e) => Fin(e)'

\* An end is not disturbed when it and its peer stay the same.
LEMMA OthersKeep ==
    ASSUME RWInv, NEW x \in Ends, UNCHANGED <<server, mode, faults>>, Same(x), Same(Peer(x)),
           \A y \in Ends : Gone(y) => Gone(y)'
    PROVE  EndOK(x)'
<1>0. EndOK(x) /\ Peer(x) \in Ends
  BY BothEnds DEF RWInv
<1>1. \A y : Same(y) => /\ Sent(y)' = Sent(y) /\ Had(y)' = Had(y) /\ Slots(y)' = Slots(y)
                        /\ (Idle(y)' <=> Idle(y)) /\ (Fin(y)' <=> Fin(y))
                        /\ (Quiet(y)' <=> Quiet(y))
  BY DEF Same, Sent, Had, Slots, Idle, Fin, Quiet
<1>2. Requests(x)'
  BY <1>0, <1>1 DEF Same, EndOK, Requests
<1>3. Message(x)'
  BY <1>0, <1>1 DEF Same, EndOK, Message, MrsExchanged
<1>4. InOrder(x)'
  BY <1>0, <1>1 DEF Same, EndOK, InOrder
<1>5. Receives(x)'
  BY <1>0, <1>1 DEF Same, EndOK, Receives
<1>6. Silent(x)'
  BY <1>0, <1>1 DEF Same, EndOK, Silent
<1>7. Stage(x)'
  BY <1>0, <1>1 DEF Same, EndOK, Stage
<1>8. Data(x)'
  BY <1>0, <1>1 DEF Same, EndOK, Data
<1>9. NoFault(x)'
  BY <1>0, <1>1 DEF Same, EndOK, NoFault
<1> QED
  BY <1>2, <1>3, <1>4, <1>5, <1>6, <1>7, <1>8, <1>9 DEF EndOK

LEMMA LocalStep ==
    ASSUME RWInv, TypeOK', NEW e \in Ends, UNCHANGED <<server, mode, faults>>,
           \A x \in Ends : x # e => Same(x),
           \A x \in Ends : Gone(x) => Gone(x)',
           EndOK(e)', ForPeer(e)
    PROVE  RWInv'
<1> DEFINE p == Peer(e)
<1>0. /\ p \in Ends /\ Peer(p) = e /\ p # e
      /\ \A x \in Ends : Peer(x) \in Ends /\ Peer(x) # x
      /\ \A x \in Ends : Peer(x) = e => x = p
  BY BothEnds
<1> HIDE DEF p
<1>1. \A x \in Ends : EndOK(x)
  BY DEF RWInv
<1>2. \A x \in Ends : x # e => /\ Sent(x)' = Sent(x) /\ Had(x)' = Had(x) /\ Slots(x)' = Slots(x)
                               /\ (Idle(x)' <=> Idle(x)) /\ (Fin(x)' <=> Fin(x))
                               /\ (Quiet(x)' <=> Quiet(x))
  BY DEF Same, Sent, Had, Slots, Idle, Fin, Quiet
<1>3. ASSUME NEW x \in Ends, x # e PROVE EndOK(x)'
  <2>0. EndOK(x) /\ Peer(x) \in Ends /\ Same(x)
    BY <1>0, <1>1, <1>3
  <2>1. Requests(x)' /\ Message(x)' /\ InOrder(x)'
    <3>1. Requests(x)'
      BY <1>2, <1>3, <2>0 DEF Same, EndOK, Requests
    <3>2. Message(x)'
      BY <1>2, <1>3, <2>0 DEF Same, EndOK, Message, MrsExchanged
    <3>3. InOrder(x)'
      BY <1>2, <1>3, <2>0 DEF Same, EndOK, InOrder
    <3> QED
      BY <3>1, <3>2, <3>3
  <2>2. CASE x = p
    <3>0. /\ Peer(x) = e
          /\ (Had(e) = 0 => Had(e)' = 0)
          /\ (Had(x) = 2 => sendMsg'[e] = "MSG_DONE" /\ sq'[e] = <<>>)
          /\ (Had(x) > 0 /\ sq'[e] # <<>> => sendMsg'[e] = "MSG_DONE")
          /\ (st[e] # "idle" /\ st[e] # "connecting") \/ st'[e] = st[e]
          /\ (mode = "M_WRITE" /\ Sent(e)' >= 2 => got'[x])
          /\ (mode = "M_WRITE" /\ unacked'[e] # <<>> /\ unacked'[e][1] = "rdma" => got'[x])
          /\ (Fin(e) => Fin(e)')
      BY <1>0, <2>2 DEF ForPeer, p
    <3>1. Receives(x)'
      BY <1>2, <1>3, <2>0, <3>0 DEF Same, EndOK, Receives
    <3>2. Silent(x)'
      BY <1>2, <1>3, <2>0, <3>0 DEF Same, EndOK, Silent
    <3>3. Stage(x)'
      BY <1>2, <1>3, <2>0, <3>0 DEF Same, EndOK, Stage
    <3>4. Data(x)'
      BY <1>2, <1>3, <2>0, <3>0 DEF Same, EndOK, Data
    <3>5. NoFault(x)'
      BY <1>2, <1>3, <2>0, <3>0 DEF Same, EndOK, NoFault
    <3> QED
      BY <2>1, <3>1, <3>2, <3>3, <3>4, <3>5 DEF EndOK
  <2>3. CASE x # p
    <3>1. Peer(x) # e /\ Same(Peer(x))
      BY <1>0, <2>3
    <3> QED
      BY <2>0, <3>1, OthersKeep
  <2> QED
    BY <2>2, <2>3
<1> QED
  BY <1>3 DEF RWInv

\* A handler runs, or a completion waits, on a connection that has been built.
LEMMA Built ==
    ASSUME RWInv, NEW e \in Ends, hand[e] # "none" \/ cq[e] # <<>>
    PROVE  st[e] \notin {"idle", "requested", "routing", "connecting"}
BY DEF RWInv, EndOK, Stage

LEMMA PollKeeps ==
    ASSUME RWInv, NEW e \in Ends, UNCHANGED <<mode, faults>>, Poll(e)
    PROVE  RWInv'
<1>0. /\ TypeOK /\ EndOK(e) /\ Running(e) /\ hand[e] = "none" /\ cq[e] # <<>>
      /\ e[2] \in {"client", "server"} /\ Peer(e) \in Ends
  <2>1. e[2] = "server" => \E c \in Conns : e = Server(c)
    BY DEF Ends, Server
  <2>2. e[2] \in {"client", "server"} /\ Peer(e) \in Ends
    BY BothEnds
  <2> QED
    BY <2>1, <2>2 DEF RWInv, Poll, PollerFree
<1>1. /\ Tail(cq[e]) \in Seq(Wc) /\ Head(cq[e]) \in Wc
      /\ \A x : Count(cq[e], x) = Count(Tail(cq[e]), x) + One(Head(cq[e]) = x)
      /\ \A x : Count(Tail(cq[e]), x) \in Nat
  <2>1. cq[e] \in Seq(Wc)
    BY <1>0, Numbers
  <2>2. /\ Tail(cq[e]) \in Seq(Wc) /\ Head(cq[e]) \in Wc
        /\ \A x : Count(cq[e], x) = Count(Tail(cq[e]), x) + One(Head(cq[e]) = x)
    BY <1>0, <2>1, CountTail
  <2> QED
    BY <2>2, CountType
<1>2. CASE Head(cq[e]) = "error" /\ Die(e)
  <2>1. Count(cq[e], "error") > 0
    BY <1>1, <1>2 DEF One
  <2>2. faults # {}
    BY <1>0, <2>1 DEF EndOK, NoFault
  <2> QED
    BY <1>0, <1>2, <2>2, DieKeeps
<1>3. CASE /\ Head(cq[e]) # "error"
           /\ hand' = [hand EXCEPT ![e] = Head(cq[e])]
           /\ cq' = [cq EXCEPT ![e] = Tail(@)]
           /\ UNCHANGED <<server, st, stateVars, bufVars, recvs, sq, unacked, outVars>>
  <2>0. /\ server' = server /\ st' = st /\ connected' = connected /\ sendState' = sendState
        /\ recvState' = recvState /\ recvMsg' = recvMsg /\ sendMsg' = sendMsg /\ recvs' = recvs
        /\ sq' = sq /\ unacked' = unacked /\ got' = got /\ printed' = printed
        /\ mode' = mode /\ faults' = faults
    BY <1>3 DEF stateVars, bufVars, outVars
  <2>1. /\ \A x \in Ends : hand'[x] = IF x = e THEN Head(cq[e]) ELSE hand[x]
        /\ \A x \in Ends : cq'[x] = IF x = e THEN Tail(cq[e]) ELSE cq[x]
        /\ Head(cq[e]) \in {"send", "recv"}
    BY <1>0, <1>1, <1>3 DEF TypeOK, Wc
  <2>2. TypeOK'
    <3>1. hand' \in [Ends -> {"none", "send", "recv", "reply", "decide"}]
      BY <1>0, <1>3, <2>1 DEF TypeOK
    <3>2. cq' \in [Ends -> Seq(Wc)]
      BY <1>0, <1>1, <1>3 DEF TypeOK
    <3> QED
      BY <1>0, <2>0, <3>1, <3>2 DEF TypeOK
  <2>3. \A x \in Ends : x # e => Same(x)
    BY <2>0, <2>1 DEF Same
  <2>4. \A x \in Ends : Gone(x)' <=> Gone(x)
    BY <2>0 DEF Gone, Running
  <2>5. /\ Sent(e)' = Sent(e) /\ Had(e)' = Had(e) /\ Slots(e)' = Slots(e) /\ (Idle(e)' <=> Idle(e))
        /\ Count(cq'[e], "error") = Count(cq[e], "error")
    <3>1. \A x : /\ Count(cq[e], x) = Count(cq'[e], x) + One(Head(cq[e]) = x)
                 /\ Count(cq'[e], x) \in Nat
      BY <1>1, <2>1
    <3>2. /\ sendState[e] \in Nat /\ recvState[e] \in Nat /\ recvs[e] \in Nat
      BY <1>0, Numbers
    <3>3. /\ hand'[e] = Head(cq[e]) /\ hand[e] = "none" /\ Head(cq[e]) # "error"
      BY <1>0, <1>3, <2>1
    <3>4. /\ Count(cq[e], "send") = Count(cq'[e], "send") + One(hand'[e] = "send")
          /\ Count(cq[e], "recv") = Count(cq'[e], "recv") + One(hand'[e] = "recv")
          /\ Count(cq[e], "error") = Count(cq'[e], "error") + One(hand'[e] = "error")
          /\ One(hand'[e] = "error") = 0 /\ One(hand[e] = "send") = 0 /\ One(hand[e] = "recv") = 0
          /\ One(hand'[e] = "send") \in Nat /\ One(hand'[e] = "recv") \in Nat
          /\ Count(cq'[e], "send") \in Nat /\ Count(cq'[e], "recv") \in Nat /\ Count(cq'[e], "error") \in Nat
      BY <3>1, <3>3 DEF One
    <3> QED
      BY <2>0, <3>2, <3>4 DEF Sent, Had, Slots, Idle
  <2>6. EndOK(e)'
    <3>1. Requests(e)'
      BY <1>0, <2>0, <2>5 DEF EndOK, Requests
    <3>2. Message(e)'
      BY <1>0, <2>0, <2>1, <2>5 DEF EndOK, Message, MrsExchanged
    <3>3. Receives(e)'
      BY <1>0, <2>0, <2>1, <2>5 DEF EndOK, Receives
    <3>4. Silent(e)'
      <4>1. Quiet(e)' => Quiet(e)
        BY <1>0, <2>0, <2>1 DEF Quiet
      <4>2. Had(Peer(e))' = Had(Peer(e))
        BY <2>3, BothEnds DEF Same, Had
      <4> QED
        BY <1>0, <2>0, <2>1, <2>5, <4>1, <4>2 DEF EndOK, Silent
    <3>5. Stage(e)'
      <4>1. st[e] # "freed" /\ st[e] \notin {"idle", "requested", "routing", "connecting"}
        BY <1>0, Built DEF EndOK, Stage
      <4> QED
        BY <1>0, <2>0, <2>4, <2>5, <4>1 DEF EndOK, Stage
    <3>6. InOrder(e)'
      <4>1. CASE Head(cq[e]) = "send"
        BY <1>0, <2>0, <2>1, <2>4, <2>5, <4>1 DEF EndOK, InOrder
      <4>2. CASE Head(cq[e]) = "recv"
        <5>1. Count(cq[e], "recv") > 0
          BY <1>1, <4>2 DEF One
        <5>2. e[2] = "client" => sendState[e] >= 1
          <6>1. sendState[e] \in Nat
            BY <1>0, Numbers
          <6> QED
            BY <1>0, <4>2, <5>1, <6>1 DEF EndOK, InOrder
        <5> QED
          BY <1>0, <2>0, <2>1, <2>4, <2>5, <4>2, <5>2 DEF EndOK, InOrder
      <4> QED
        BY <2>1, <4>1, <4>2
    <3>7. Data(e)'
      <4>1. Sent(Peer(e))' = Sent(Peer(e))
        BY <2>3, BothEnds DEF Same, Sent
      <4> QED
        BY <1>0, <2>0, <2>5, <4>1 DEF EndOK, Data
    <3>8. NoFault(e)'
      BY <1>0, <2>0, <2>5 DEF EndOK, NoFault, Fin
    <3> QED
      BY <3>1, <3>2, <3>3, <3>4, <3>5, <3>6, <3>7, <3>8 DEF EndOK
  <2>7. ForPeer(e)
    <3>1. EndOK(Peer(e)) /\ Peer(Peer(e)) = e
      BY BothEnds DEF RWInv
    <3>2. Fin(e) => Fin(e)'
      BY <2>0 DEF Fin
    <3> QED
      BY <2>0, <2>5, <3>1, <3>2 DEF ForPeer, EndOK, Receives, Data
  <2> QED
    BY <2>0, <2>2, <2>3, <2>4, <2>6, <2>7, LocalStep
<1> QED
  BY <1>2, <1>3 DEF Poll

\* The handler goes from one of its places to another.
LEMMA HandType ==
    ASSUME TypeOK, NEW e \in Ends, NEW h \in {"none", "send", "recv", "reply", "decide"},
           hand' = [hand EXCEPT ![e] = h]
    PROVE  /\ hand' \in [Ends -> {"none", "send", "recv", "reply", "decide"}]
           /\ \A x \in Ends : hand'[x] = IF x = e THEN h ELSE hand[x]
BY DEF TypeOK

LEMMA HandlerCounts ==
    ASSUME TypeOK, NEW e \in Ends, cq'[e] = cq[e],
           sendState'[e] + One(hand'[e] = "send") = sendState[e] + One(hand[e] = "send"),
           recvState'[e] + One(hand'[e] = "recv") = recvState[e] + One(hand[e] = "recv")
    PROVE  /\ Sent(e)' = Sent(e) /\ Had(e)' = Had(e)
           /\ recvs'[e] + One(hand'[e] = "recv") = recvs[e] + One(hand[e] = "recv") =>
                 Slots(e)' = Slots(e)
BY DEF Sent, Had, Slots

LEMMA HandleSendKeeps ==
    ASSUME RWInv, NEW e \in Ends, UNCHANGED <<mode, faults>>, HandleSend(e)
    PROVE  RWInv'
<1>0. /\ TypeOK /\ EndOK(e) /\ hand[e] = "send" /\ e[2] \in {"client", "server"}
      /\ Peer(e) \in Ends /\ Peer(Peer(e)) = e /\ Peer(e) # e /\ EndOK(Peer(e))
  BY BothEnds DEF RWInv, HandleSend, Handling
<1>1. /\ server' = server /\ st' = st /\ connected' = connected /\ recvState' = recvState
      /\ recvMsg' = recvMsg /\ sendMsg' = sendMsg /\ recvs' = recvs
      /\ sq' = sq /\ unacked' = unacked /\ cq' = cq /\ got' = got /\ printed' = printed
      /\ mode' = mode /\ faults' = faults
  BY DEF HandleSend, bufVars, nicVars, outVars
<1>2. /\ hand' \in [Ends -> {"none", "send", "recv", "reply", "decide"}]
      /\ \A x \in Ends : hand'[x] = IF x = e THEN "decide" ELSE hand[x]
  BY <1>0, HandType DEF HandleSend
<1>3. /\ sendState[e] \in Nat /\ sendState[e] <= 2
      /\ \A x \in Ends : sendState'[x] = IF x = e THEN sendState[e] + 1 ELSE sendState[x]
      /\ sendState' \in [Ends -> 0 .. 3]
  <2>1. sendState[e] \in Nat /\ Count(cq[e], "send") \in Nat /\ One(hand[e] = "send") = 1
    BY <1>0, Numbers DEF One
  <2>2. Sent(e) <= 3 /\ Sent(e) = sendState[e] + 1 + Count(cq[e], "send")
    BY <1>0, <2>1 DEF EndOK, Requests, Sent
  <2>3. sendState \in [Ends -> 0 .. 3]
    BY <1>0 DEF TypeOK, SS_INIT, SS_DONE_SENT
  <2>4. sendState[e] <= 2 /\ sendState[e] + 1 \in 0 .. 3
    BY <2>1, <2>2
  <2>5. sendState' = [sendState EXCEPT ![e] = sendState[e] + 1]
    BY DEF HandleSend
  <2> QED
    BY <2>1, <2>3, <2>4, <2>5
<1>4. TypeOK'
  BY <1>0, <1>1, <1>2, <1>3 DEF TypeOK, SS_INIT, SS_DONE_SENT
<1>5. \A x \in Ends : x # e => Same(x)
  BY <1>1, <1>2, <1>3 DEF Same
<1>6. \A x \in Ends : Gone(x)' <=> Gone(x)
  BY <1>1 DEF Gone, Running
<1>7. /\ Sent(e)' = Sent(e) /\ Had(e)' = Had(e) /\ Slots(e)' = Slots(e)
      /\ (Idle(e)' <=> Idle(e)) /\ Sent(e) >= 1
  <2>1. /\ sendState[e] \in Nat /\ recvState[e] \in Nat /\ recvs[e] \in Nat
        /\ Count(cq[e], "send") \in Nat
    BY <1>0, Numbers
  <2>2. /\ One(hand[e] = "send") = 1 /\ One(hand'[e] = "send") = 0
        /\ One(hand[e] = "recv") = 0 /\ One(hand'[e] = "recv") = 0
    BY <1>0, <1>2 DEF One
  <2> QED
    BY <1>0, <1>1, <1>3, <2>1, <2>2, HandlerCounts DEF Idle, Sent
<1>8. EndOK(e)'
  <2>1. Requests(e)'
    BY <1>0, <1>1, <1>7 DEF EndOK, Requests
  <2>2. Message(e)'
    <3>1. sendMsg[e] = "MSG_DONE" => sendState[e] >= 1
      BY <1>0 DEF EndOK, Message
    <3> QED
      BY <1>0, <1>1, <1>2, <1>3, <1>7, <3>1 DEF EndOK, Message, MrsExchanged, SS_MR_SENT
  <2>3. Receives(e)'
    BY <1>0, <1>1, <1>7 DEF EndOK, Receives
  <2>4. Silent(e)'
    <3>1. Quiet(e)' => Quiet(e)
      BY <1>0, <1>1, <1>2 DEF Quiet
    <3> QED
      BY <1>0, <1>7, <3>1 DEF EndOK, Silent
  <2>5. Stage(e)'
    <3>1. st[e] \notin {"idle", "requested", "routing", "connecting"}
      BY <1>0, Built
    <3> QED
      BY <1>0, <1>1, <1>6, <1>7, <3>1 DEF EndOK, Stage
  <2>6. InOrder(e)'
    BY <1>0, <1>1, <1>2, <1>3, <1>6, <1>7 DEF EndOK, InOrder
  <2>7. Data(e)'
    <3>1. Sent(Peer(e))' = Sent(Peer(e))
      BY <1>0, <1>5 DEF Same, Sent
    <3> QED
      BY <1>0, <1>1, <1>7, <3>1 DEF EndOK, Data
  <2>8. NoFault(e)'
    <3>1. ~Fin(e)
      BY <1>3 DEF Fin, SS_DONE_SENT
    <3>2. Fin(Peer(e))' <=> Fin(Peer(e))
      BY <1>0, <1>5 DEF Same, Fin
    <3> QED
      BY <1>0, <1>1, <3>1, <3>2 DEF EndOK, NoFault
  <2> QED
    BY <2>1, <2>2, <2>3, <2>4, <2>5, <2>6, <2>7, <2>8 DEF EndOK
<1>9. ForPeer(e)
  <2>1. ~Fin(e)
    BY <1>3 DEF Fin, SS_DONE_SENT
  <2> QED
    BY <1>0, <1>1, <1>7, <2>1 DEF ForPeer, EndOK, Receives, Data
<1> QED
  BY <1>1, <1>4, <1>5, <1>6, <1>8, <1>9, LocalStep

LEMMA HandleRecvKeeps ==
    ASSUME RWInv, NEW e \in Ends, UNCHANGED <<mode, faults>>, HandleRecv(e)
    PROVE  RWInv'
<1> DEFINE mr == recvMsg[e] = "MSG_MR"
<1> DEFINE reply == mr /\ sendState[e] = SS_INIT
<1>0. /\ TypeOK /\ EndOK(e) /\ hand[e] = "recv" /\ e[2] \in {"client", "server"}
      /\ Peer(e) \in Ends /\ Peer(Peer(e)) = e /\ Peer(e) # e /\ EndOK(Peer(e))
  BY BothEnds DEF RWInv, HandleRecv, Handling
<1>1. /\ server' = server /\ st' = st /\ connected' = connected /\ sendState' = sendState
      /\ recvMsg' = recvMsg
      /\ sq' = sq /\ unacked' = unacked /\ cq' = cq /\ got' = got /\ printed' = printed
      /\ mode' = mode /\ faults' = faults
  BY DEF HandleRecv, outVars
<1>2. /\ recvs[e] = 0 /\ recvState[e] \in {0, 1} /\ Slots(e) = 1 /\ Count(cq[e], "recv") = 0
      /\ Had(e) = recvState[e] + 1 /\ (mr => recvState[e] = 0)
  <2>1. /\ recvState[e] \in Nat /\ recvs[e] \in Nat /\ Count(cq[e], "recv") \in Nat
        /\ One(hand[e] = "recv") = 1
    BY <1>0, Numbers DEF One
  <2>2. Slots(e) <= 1 /\ recvState[e] + Slots(e) <= 2 /\ (Had(e) = 2 => recvMsg[e] = "MSG_DONE")
    BY <1>0 DEF EndOK, Receives
  <2>3. recvs[e] = 0 /\ Count(cq[e], "recv") = 0 /\ Slots(e) = 1
    BY <2>1, <2>2 DEF Slots
  <2>4. Had(e) = recvState[e] + 1
    BY <2>1, <2>3 DEF Had
  <2> QED
    BY <2>1, <2>2, <2>3, <2>4
<1>3. /\ \A x \in Ends : recvState'[x] = IF x = e THEN recvState[e] + 1 ELSE recvState[x]
      /\ recvState' \in [Ends -> 0 .. 2]
      /\ \A x \in Ends : recvs'[x] = IF x = e THEN One(mr) ELSE recvs[x]
      /\ recvs' \in [Ends -> Nat]
  <2>1. recvState \in [Ends -> 0 .. 2] /\ recvs \in [Ends -> Nat]
    BY <1>0 DEF TypeOK, RS_INIT, RS_DONE_RECV
  <2>2. recvState' = [recvState EXCEPT ![e] = recvState[e] + 1] /\ recvState[e] + 1 \in 0 .. 2
    BY <1>2 DEF HandleRecv
  <2>3. recvs' = [recvs EXCEPT ![e] = One(mr)] /\ One(mr) \in Nat
    <3>1. recvs' = [recvs EXCEPT ![e] = IF mr THEN recvs[e] + 1 ELSE recvs[e]]
      BY DEF HandleRecv
    <3>2. (IF mr THEN recvs[e] + 1 ELSE recvs[e]) = One(mr)
      BY <1>2 DEF One
    <3>3. recvs' = [recvs EXCEPT ![e] = One(mr)]
      BY <3>1, <3>2, Zenon
    <3> QED
      BY <3>3 DEF One
  <2> HIDE DEF mr
  <2>4. \A x \in Ends : recvState'[x] = IF x = e THEN recvState[e] + 1 ELSE recvState[x]
    BY <2>1, <2>2
  <2>5. recvState' \in [Ends -> 0 .. 2]
    BY <2>1, <2>2
  <2> QED
    BY <2>1, <2>3, <2>4, <2>5
<1>4. /\ hand' \in [Ends -> {"none", "send", "recv", "reply", "decide"}]
      /\ \A x \in Ends : x # e => hand'[x] = hand[x] /\ sendMsg'[x] = sendMsg[x]
      /\ reply => hand'[e] = "reply" /\ sendMsg'[e] = "MSG_MR"
      /\ ~reply => hand'[e] = "decide" /\ sendMsg'[e] = sendMsg[e]
      /\ sendMsg' \in [Ends -> MsgTypes]
  <2>1. CASE reply
    <3>1. hand' = [hand EXCEPT ![e] = "reply"] /\ sendMsg' = [sendMsg EXCEPT ![e] = "MSG_MR"]
      BY <2>1 DEF HandleRecv
    <3>2. /\ \A x \in Ends : sendMsg'[x] = IF x = e THEN "MSG_MR" ELSE sendMsg[x]
          /\ sendMsg' \in [Ends -> MsgTypes]
      BY <1>0, <3>1 DEF TypeOK, MsgTypes
    <3> QED
      BY <1>0, <2>1, <3>1, <3>2, HandType
  <2>2. CASE ~reply
    <3>1. hand' = [hand EXCEPT ![e] = "decide"] /\ sendMsg' = sendMsg
      BY <2>2 DEF HandleRecv
    <3> QED
      BY <1>0, <2>2, <3>1, HandType DEF TypeOK
  <2> QED
    BY <2>1, <2>2
<1>5. TypeOK'
  BY <1>0, <1>1, <1>3, <1>4 DEF TypeOK, RS_INIT, RS_DONE_RECV
<1>6. /\ \A x \in Ends : x # e => Same(x)
      /\ \A x \in Ends : Gone(x)' <=> Gone(x)
  BY <1>1, <1>3, <1>4 DEF Same, Gone, Running
<1>7. /\ Sent(e)' = Sent(e) /\ Had(e)' = Had(e) /\ Slots(e)' = One(mr)
      /\ (Idle(e)' <=> Idle(e)) /\ recvState'[e] = recvState[e] + 1 /\ Had(e) >= 1
  <2>1. /\ sendState[e] \in Nat /\ recvState[e] \in Nat
    BY <1>0, Numbers
  <2>2. hand'[e] \in {"reply", "decide"}
    BY <1>4
  <2>3. /\ One(hand[e] = "send") = 0 /\ One(hand'[e] = "send") = 0
        /\ One(hand[e] = "recv") = 1 /\ One(hand'[e] = "recv") = 0
    BY <1>0, <2>2 DEF One
  <2>4. Sent(e)' = Sent(e) /\ Had(e)' = Had(e)
    BY <1>0, <1>1, <1>3, <2>1, <2>3, HandlerCounts
  <2>5. recvs'[e] = One(mr) /\ Count(cq'[e], "recv") = 0 /\ One(mr) \in Nat
    BY <1>1, <1>2, <1>3 DEF One
  <2>6. Slots(e)' = One(mr)
    BY <2>3, <2>5 DEF Slots
  <2> QED
    BY <1>1, <1>2, <1>3, <2>1, <2>4, <2>6 DEF Idle
\* Only the server answers, and it has sent nothing yet.
<1>8. reply => /\ e[2] = "server" /\ recvState[e] = 0
               /\ Sent(e) = 0 /\ Idle(e) /\ sendMsg[e] # "MSG_DONE" /\ Had(Peer(e)) = 0
  <2>1. ASSUME reply PROVE e[2] = "server"
    BY <1>0, <2>1 DEF EndOK, InOrder, SS_INIT
  <2> QED
    BY <1>0, <1>2, <2>1 DEF EndOK, Silent, Quiet
<1> HIDE DEF mr, reply
<1>9. EndOK(e)'
  <2>1. Requests(e)'
    BY <1>0, <1>1, <1>7 DEF EndOK, Requests
  <2>2. Message(e)'
    <3>1. Message(e)
      BY <1>0 DEF EndOK
    <3>2. CASE reply
      BY <1>1, <1>4, <1>7, <1>8, <3>2 DEF Message
    <3>3. CASE ~reply
      <4>1. recvState[e] = 0 => sendMsg[e] # "MSG_DONE"
        BY <1>2, <3>1 DEF Message
      <4> QED
        BY <1>1, <1>2, <1>4, <1>7, <3>1, <3>3, <4>1 DEF Message, MrsExchanged, RS_MR_RECV
    <3> QED
      BY <3>2, <3>3
  <2>3. Receives(e)'
    <3>1. Slots(e)' <= 1 /\ recvState'[e] + Slots(e)' <= 2
      BY <1>2, <1>7 DEF One, mr
    <3>2. sendMsg'[Peer(e)] = sendMsg[Peer(e)]
      BY <1>0, <1>4
    <3> QED
      BY <1>0, <1>1, <1>7, <3>1, <3>2 DEF EndOK, Receives
  <2>4. Silent(e)'
    <3>1. Had(Peer(e))' = Had(Peer(e))
      BY <1>0, <1>6 DEF Same, Had
    <3>2. CASE e[2] = "client"
      BY <1>0, <1>1, <1>4, <1>7, <1>8, <3>1, <3>2 DEF EndOK, Silent, Quiet
    <3>3. CASE e[2] = "server"
      <4>1. Quiet(e)' => reply
        BY <1>2, <1>4, <1>7, <3>3 DEF Quiet
      <4> QED
        BY <1>4, <1>7, <1>8, <3>1, <4>1 DEF Silent
    <3> QED
      BY <1>0, <3>2, <3>3
  <2>5. Stage(e)'
    <3>1. st[e] \notin {"idle", "requested", "routing", "connecting"}
      BY <1>0, Built
    <3> QED
      BY <1>0, <1>1, <1>6, <1>7, <3>1 DEF EndOK, Stage
  <2>6. InOrder(e)'
    <3>1. e[2] = "client" => ~reply /\ sendState[e] >= 1
      BY <1>0, <1>8 DEF EndOK, InOrder
    <3>2. recvState'[e] >= 1
      BY <1>2, <1>7
    <3>3. sendState[e] \in Nat
      BY <1>0, Numbers
    <3> QED
      BY <1>0, <1>1, <1>4, <1>6, <1>7, <3>1, <3>2, <3>3 DEF EndOK, InOrder
  <2>7. Data(e)'
    <3>1. Sent(Peer(e))' = Sent(Peer(e))
      BY <1>0, <1>6 DEF Same, Sent
    <3> QED
      BY <1>0, <1>1, <1>7, <3>1 DEF EndOK, Data
  <2>8. NoFault(e)'
    <3>1. ~Fin(e)
      BY <1>2 DEF Fin, RS_DONE_RECV
    <3>2. Fin(Peer(e))' <=> Fin(Peer(e))
      BY <1>0, <1>6 DEF Same, Fin
    <3> QED
      BY <1>0, <1>1, <3>1, <3>2 DEF EndOK, NoFault
  <2> QED
    BY <2>1, <2>2, <2>3, <2>4, <2>5, <2>6, <2>7, <2>8 DEF EndOK
<1>10. ForPeer(e)
  <2>1. ~Fin(e)
    BY <1>2 DEF Fin, RS_DONE_RECV
  <2>2. reply \/ sendMsg'[e] = sendMsg[e]
    BY <1>4
  <2> QED
    BY <1>0, <1>1, <1>7, <1>8, <2>1, <2>2 DEF ForPeer, EndOK, Receives, Data
<1> QED
  BY <1>1, <1>5, <1>6, <1>9, <1>10, LocalStep

LEMMA SendReplyKeeps ==
    ASSUME RWInv, NEW e \in Ends, UNCHANGED <<mode, faults>>, SendReply(e)
    PROVE  RWInv'
<1>0. /\ TypeOK /\ EndOK(e) /\ hand[e] = "reply" /\ e[2] = "server"
      /\ Peer(e) \in Ends /\ Peer(Peer(e)) = e /\ Peer(e) # e /\ EndOK(Peer(e))
  BY BothEnds DEF RWInv, SendReply, Handling, EndOK, InOrder
<1>1. /\ server' = server /\ st' = st /\ connected' = connected /\ sendState' = sendState
      /\ recvState' = recvState /\ recvMsg' = recvMsg /\ sendMsg' = sendMsg /\ recvs' = recvs
      /\ unacked' = unacked /\ cq' = cq /\ got' = got /\ printed' = printed
      /\ mode' = mode /\ faults' = faults
  BY DEF SendReply, stateVars, bufVars, outVars
<1>2. /\ hand' \in [Ends -> {"none", "send", "recv", "reply", "decide"}]
      /\ \A x \in Ends : hand'[x] = IF x = e THEN "decide" ELSE hand[x]
  BY <1>0, HandType DEF SendReply
<1>3. Sent(e) = 0 /\ Idle(e) /\ sendMsg[e] # "MSG_DONE" /\ Had(Peer(e)) = 0 /\ recvState[e] >= 1
  BY <1>0 DEF EndOK, Silent, Quiet, InOrder
<1>4. /\ \A x \in Ends : sq'[x] = IF x = e THEN <<"msg">> ELSE sq[x]
      /\ sq' \in [Ends -> Seq(Work)]
  <2>1. Append(sq[e], "msg") = <<"msg">> /\ <<"msg">> \in Seq(Work)
    BY <1>3, Queues DEF Idle, Work
  <2>2. sq' = [sq EXCEPT ![e] = <<"msg">>]
    BY <2>1 DEF SendReply
  <2> QED
    BY <1>0, <2>1, <2>2 DEF TypeOK
<1>5. TypeOK'
  BY <1>0, <1>1, <1>2, <1>4 DEF TypeOK
<1>6. /\ \A x \in Ends : x # e => Same(x)
      /\ \A x \in Ends : Gone(x)' <=> Gone(x)
  BY <1>1, <1>2, <1>4 DEF Same, Gone, Running
<1>7. /\ Sent(e)' = Sent(e) /\ Had(e)' = Had(e) /\ Slots(e)' = Slots(e)
  <2>1. /\ One(hand[e] = "send") = 0 /\ One(hand'[e] = "send") = 0
        /\ One(hand[e] = "recv") = 0 /\ One(hand'[e] = "recv") = 0
    BY <1>0, <1>2 DEF One
  <2> QED
    BY <1>0, <1>1, <2>1, HandlerCounts
<1>8. EndOK(e)'
  <2>1. Requests(e)'
    BY <1>1, <1>3, <1>4, <1>7 DEF Requests, Idle
  <2>2. Message(e)'
    BY <1>0, <1>1, <1>3, <1>7 DEF EndOK, Message
  <2>3. Receives(e)'
    BY <1>0, <1>1, <1>4, <1>7 DEF EndOK, Receives
  <2>4. Silent(e)'
    <3>1. recvState[e] \in Nat
      BY <1>0, Numbers
    <3> QED
      BY <1>0, <1>1, <1>2, <1>3, <3>1 DEF Silent, Quiet
  <2>5. Stage(e)'
    <3>1. st[e] \notin {"idle", "requested", "routing", "connecting", "freed"}
      BY <1>0, Built DEF SendReply, Handling
    <3> QED
      BY <1>0, <1>1, <1>6, <3>1 DEF EndOK, Stage
  <2>6. InOrder(e)'
    BY <1>0, <1>2 DEF InOrder
  <2>7. Data(e)'
    <3>1. Sent(Peer(e))' = Sent(Peer(e))
      BY <1>0, <1>6 DEF Same, Sent
    <3> QED
      BY <1>0, <1>1, <1>7, <3>1 DEF EndOK, Data
  <2>8. NoFault(e)'
    BY <1>0, <1>1 DEF EndOK, NoFault, Fin
  <2> QED
    BY <2>1, <2>2, <2>3, <2>4, <2>5, <2>6, <2>7, <2>8 DEF EndOK
<1>9. ForPeer(e)
  <2>1. Fin(e) => Fin(e)'
    BY <1>1 DEF Fin
  <2> QED
    BY <1>0, <1>1, <1>3, <1>7, <2>1 DEF ForPeer, EndOK, Data
<1> QED
  BY <1>1, <1>5, <1>6, <1>8, <1>9, LocalStep

LEMMA StartTransferKeeps ==
    ASSUME RWInv, NEW e \in Ends, UNCHANGED <<mode, faults>>, StartTransfer(e)
    PROVE  RWInv'
<1>0. /\ TypeOK /\ EndOK(e) /\ hand[e] = "decide" /\ sendState[e] = 1 /\ recvState[e] = 1
      /\ e[2] \in {"client", "server"}
      /\ Peer(e) \in Ends /\ Peer(Peer(e)) = e /\ Peer(e) # e /\ EndOK(Peer(e))
  BY BothEnds DEF RWInv, StartTransfer, Handling, MrsExchanged, SS_MR_SENT, RS_MR_RECV
<1>1. /\ server' = server /\ st' = st /\ connected' = connected /\ sendState' = sendState
      /\ recvState' = recvState /\ recvMsg' = recvMsg /\ recvs' = recvs
      /\ unacked' = unacked /\ cq' = cq /\ got' = got /\ printed' = printed
      /\ mode' = mode /\ faults' = faults
  BY DEF StartTransfer, stateVars, outVars
<1>2. /\ hand' \in [Ends -> {"none", "send", "recv", "reply", "decide"}]
      /\ \A x \in Ends : hand'[x] = IF x = e THEN "none" ELSE hand[x]
  BY <1>0, HandType DEF StartTransfer
<1>3. sendMsg[e] # "MSG_DONE" /\ Sent(e) = 1 /\ Idle(e)
  <2>1. sendMsg[e] # "MSG_DONE"
    BY <1>0 DEF EndOK, Message, StartTransfer
  <2>2. Sent(e) \in Nat /\ Sent(e) >= 1
    <3>1. Count(cq[e], "send") \in Nat /\ One(hand[e] = "send") = 0
      BY <1>0, Numbers DEF One
    <3> QED
      BY <1>0, <3>1 DEF Sent
  <2> QED
    BY <1>0, <2>1, <2>2 DEF EndOK, Message
<1>4. /\ \A x \in Ends : sq'[x] = IF x = e THEN <<"rdma", "msg">> ELSE sq[x]
      /\ sq' \in [Ends -> Seq(Work)]
      /\ \A x \in Ends : sendMsg'[x] = IF x = e THEN "MSG_DONE" ELSE sendMsg[x]
      /\ sendMsg' \in [Ends -> MsgTypes]
  <2>1. sq[e] \o <<"rdma", "msg">> = <<"rdma", "msg">> /\ <<"rdma", "msg">> \in Seq(Work)
    BY <1>3, Queues DEF Idle, Work
  <2>2. sq' = [sq EXCEPT ![e] = <<"rdma", "msg">>]
    BY <2>1 DEF StartTransfer
  <2>3. sendMsg' = [sendMsg EXCEPT ![e] = "MSG_DONE"]
    BY DEF StartTransfer
  <2> QED
    BY <1>0, <2>1, <2>2, <2>3 DEF TypeOK, MsgTypes
<1>5. TypeOK'
  BY <1>0, <1>1, <1>2, <1>4 DEF TypeOK
<1>6. /\ \A x \in Ends : x # e => Same(x)
      /\ \A x \in Ends : Gone(x)' <=> Gone(x)
  BY <1>1, <1>2, <1>4 DEF Same, Gone, Running
<1>7. /\ Sent(e)' = Sent(e) /\ Had(e)' = Had(e) /\ Slots(e)' = Slots(e)
  <2>1. /\ One(hand[e] = "send") = 0 /\ One(hand'[e] = "send") = 0
        /\ One(hand[e] = "recv") = 0 /\ One(hand'[e] = "recv") = 0
    BY <1>0, <1>2 DEF One
  <2> QED
    BY <1>0, <1>1, <2>1, HandlerCounts
<1>8. st[e] \notin {"idle", "requested", "routing", "connecting", "freed"}
  BY <1>0, Built DEF StartTransfer, Handling
<1>9. EndOK(e)'
  <2>1. Requests(e)'
    BY <1>1, <1>3, <1>4, <1>7 DEF Requests, Idle
  <2>2. Message(e)'
    BY <1>0, <1>1, <1>2, <1>4 DEF Message
  <2>3. Receives(e)'
    BY <1>0, <1>1, <1>4, <1>7 DEF EndOK, Receives
  <2>4. Silent(e)'
    BY <1>0, <1>1, <1>2, <1>8 DEF Silent, Quiet
  <2>5. Stage(e)'
    BY <1>0, <1>1, <1>6, <1>8 DEF EndOK, Stage
  <2>6. InOrder(e)'
    BY <1>0, <1>1, <1>2, <1>3, <1>7 DEF InOrder
  <2>7. Data(e)'
    <3>1. Sent(Peer(e))' = Sent(Peer(e))
      BY <1>0, <1>6 DEF Same, Sent
    <3> QED
      BY <1>0, <1>1, <1>7, <3>1 DEF EndOK, Data
  <2>8. NoFault(e)'
    BY <1>0, <1>1 DEF EndOK, NoFault, Fin
  <2> QED
    BY <2>1, <2>2, <2>3, <2>4, <2>5, <2>6, <2>7, <2>8 DEF EndOK
<1>10. ForPeer(e)
  <2>1. Fin(e) => Fin(e)'
    BY <1>1 DEF Fin
  <2>2. Had(Peer(e)) # 2
    BY <1>0, <1>3 DEF EndOK, Receives
  <2> QED
    BY <1>0, <1>1, <1>3, <1>4, <1>7, <2>1, <2>2 DEF ForPeer, EndOK, Data
<1> QED
  BY <1>1, <1>5, <1>6, <1>9, <1>10, LocalStep

\* An end that is done has nothing left that rdma_disconnect could flush.
LEMMA NothingFlushed ==
    ASSUME RWInv, NEW e \in Ends, hand[e] = "decide", BothDone(e)
    PROVE  /\ Sent(e) = 3 /\ Had(e) = 2 /\ Idle(e) /\ recvs[e] = 0 /\ Fin(e)
<1>0. TypeOK /\ EndOK(e) /\ sendState[e] = 3 /\ recvState[e] = 2
  BY DEF RWInv, BothDone, SS_DONE_SENT, RS_DONE_RECV
<1>1. /\ Count(cq[e], "send") \in Nat /\ Count(cq[e], "recv") \in Nat /\ recvs[e] \in Nat
      /\ One(hand[e] = "send") = 0 /\ One(hand[e] = "recv") = 0
  BY <1>0, Numbers DEF One
<1>2. Sent(e) <= 3 /\ Had(e) <= 2 /\ recvState[e] + Slots(e) <= 2
  BY <1>0 DEF EndOK, Requests, Receives
<1>3. Sent(e) = 3
  BY <1>0, <1>1, <1>2 DEF Sent
<1>4. Had(e) = 2
  BY <1>0, <1>1, <1>2 DEF Had
<1>5. recvs[e] = 0
  BY <1>0, <1>1, <1>2 DEF Slots
<1>6. Idle(e)
  BY <1>0, <1>3 DEF EndOK, Requests
<1> QED
  BY <1>0, <1>3, <1>4, <1>5, <1>6 DEF Fin, SS_DONE_SENT, RS_DONE_RECV

LEMMA FinishKeeps ==
    ASSUME RWInv, NEW e \in Ends, UNCHANGED <<mode, faults>>, Finish(e)
    PROVE  RWInv'
<1>0. /\ TypeOK /\ EndOK(e) /\ hand[e] = "decide" /\ Running(e)
      /\ e[2] \in {"client", "server"}
      /\ Peer(e) \in Ends /\ Peer(Peer(e)) = e /\ Peer(e) # e /\ EndOK(Peer(e))
  BY BothEnds DEF RWInv, Finish, Handling
<1>1. /\ Sent(e) = 3 /\ Had(e) = 2 /\ Idle(e) /\ recvs[e] = 0 /\ Fin(e)
  BY <1>0, NothingFlushed DEF Finish
<1>2. /\ server' = server /\ connected' = connected /\ sendState' = sendState
      /\ recvState' = recvState /\ recvMsg' = recvMsg /\ sendMsg' = sendMsg /\ recvs' = recvs
      /\ sq' = sq /\ unacked' = unacked /\ cq' = cq /\ got' = got
      /\ mode' = mode /\ faults' = faults
  <2>1. /\ sq' = [sq EXCEPT ![e] = <<>>] /\ unacked' = [unacked EXCEPT ![e] = <<>>]
        /\ recvs' = [recvs EXCEPT ![e] = 0]
        /\ cq' = [cq EXCEPT ![e] = cq[e]]
    BY <1>1 DEF Finish, Idle
  <2>2. sq[e] = <<>> /\ unacked[e] = <<>> /\ recvs[e] = 0
    BY <1>1 DEF Idle
  <2>3. /\ sq \in [Ends -> Seq(Work)] /\ unacked \in [Ends -> Seq(Work)]
        /\ recvs \in [Ends -> Nat] /\ cq \in [Ends -> Seq(Wc)]
    BY <1>0 DEF TypeOK
  <2>4. sq' = sq /\ unacked' = unacked /\ recvs' = recvs /\ cq' = cq
    BY <2>1, <2>2, <2>3
  <2> QED
    BY <2>4 DEF Finish, stateVars, bufVars
<1>3. /\ hand' \in [Ends -> {"none", "send", "recv", "reply", "decide"}]
      /\ \A x \in Ends : hand'[x] = IF x = e THEN "none" ELSE hand[x]
  BY <1>0, HandType DEF Finish
<1>4. /\ \A x \in Ends : st'[x] = IF x = e THEN "closing" ELSE st[x]
      /\ st' \in [Ends -> {"idle", "routing", "connecting", "requested", "accepted",
                             "confirmed", "up", "closing", "freed"} \cup Ended]
      /\ \A x \in Ends : x # e => printed'[x] = printed[x]
      /\ printed' \in [Ends -> BOOLEAN]
  BY <1>0 DEF TypeOK, Finish
<1>5. TypeOK'
  BY <1>0, <1>2, <1>3, <1>4 DEF TypeOK
<1>6. \A x \in Ends : x # e => Same(x)
  BY <1>2, <1>3, <1>4 DEF Same
<1>7. /\ Sent(e)' = Sent(e) /\ Had(e)' = Had(e) /\ Slots(e)' = Slots(e) /\ (Idle(e)' <=> Idle(e))
  <2>1. /\ One(hand[e] = "send") = 0 /\ One(hand'[e] = "send") = 0
        /\ One(hand[e] = "recv") = 0 /\ One(hand'[e] = "recv") = 0
    BY <1>0, <1>3 DEF One
  <2> QED
    BY <1>0, <1>2, <2>1, HandlerCounts DEF Idle
<1>8. st[e] \notin {"idle", "requested", "routing", "connecting", "freed"} \cup Ended
  <2>1. st[e] \notin Ended
    BY <1>0 DEF Running, EndOK, Stage, Ended
  <2> QED
    BY <1>0, <2>1, Built DEF Finish, Handling
<1>9. \A x \in Ends : Gone(x) => Gone(x)'
  <2>1. \A x \in Ends : x[2] = "server" => st[x] \notin Ended
    BY DEF RWInv, EndOK, Stage, Ended
  <2>2. /\ \A x \in Ends : /\ st[x] \in {"closing", "freed"} => st'[x] \in {"closing", "freed"} \cup Ended
                           /\ st[x] \in Ended => st'[x] \in Ended
        /\ \A x \in Ends : x[2] = "server" => st'[x] \notin Ended
    BY <1>4, <1>8, <2>1 DEF Ended
  <2>3. server' \in {"up", "dead"}
    BY <1>0, <1>2 DEF TypeOK
  <2> QED
    BY <1>2, <2>2, <2>3, GoneStays
<1>10. EndOK(e)'
  <2>1. Requests(e)'
    BY <1>0, <1>2, <1>7 DEF EndOK, Requests
  <2>2. Message(e)'
    BY <1>0, <1>2, <1>3, <1>7 DEF EndOK, Message
  <2>3. Receives(e)'
    BY <1>0, <1>2, <1>7 DEF EndOK, Receives
  <2>4. Silent(e)'
    <3>1. recvState[e] = 2 /\ e \in Ends
      BY <1>1 DEF Fin, RS_DONE_RECV
    <3> QED
      BY <1>0, <1>2, <1>3, <1>4, <3>1 DEF Silent, Quiet
  <2>5. Stage(e)'
    <3>1. st'[e] = "closing"
      BY <1>4
    <3> QED
      BY <1>0, <1>2, <1>9, <3>1 DEF EndOK, Stage
  <2>6. InOrder(e)'
    <3>1. sendState[e] = 3 /\ st'[e] = "closing" /\ hand'[e] = "none"
      BY <1>1, <1>3, <1>4 DEF Fin, SS_DONE_SENT
    <3> QED
      BY <1>2, <3>1 DEF InOrder
  <2>7. Data(e)'
    <3>1. Sent(Peer(e))' = Sent(Peer(e))
      BY <1>0, <1>6 DEF Same, Sent
    <3>2. mode \in {"M_WRITE", "M_READ"}
      BY <1>0, ModeAssumption DEF TypeOK
    <3>3. got[e]
      BY <1>0, <1>1, <3>2 DEF EndOK, Data
    <3> QED
      BY <1>0, <1>2, <1>7, <3>1, <3>3 DEF EndOK, Data
  <2>8. NoFault(e)'
    <3>1. st'[e] = "closing" /\ Fin(e)'
      BY <1>1, <1>2, <1>4 DEF Fin
    <3> QED
      BY <1>0, <1>2, <3>1 DEF EndOK, NoFault
  <2> QED
    BY <2>1, <2>2, <2>3, <2>4, <2>5, <2>6, <2>7, <2>8 DEF EndOK
<1>11. ForPeer(e)
  <2>1. Fin(e) => Fin(e)'
    BY <1>2 DEF Fin
  <2> QED
    BY <1>0, <1>2, <1>7, <1>8, <2>1 DEF ForPeer, EndOK, Receives, Data
<1> QED
  BY <1>2, <1>5, <1>6, <1>9, <1>10, <1>11, LocalStep

\* The handler returns, or has met a connection that was freed.
LEMMA ReturnKeeps ==
    ASSUME RWInv, NEW e \in Ends, UNCHANGED <<mode, faults>>, KeepWaiting(e) \/ StaleConnection(e)
    PROVE  RWInv'
<1>0. /\ TypeOK /\ EndOK(e) /\ Running(e) /\ hand[e] # "none" /\ e[2] \in {"client", "server"}
      /\ hand[e] = "decide" \/ st[e] = "freed"
      /\ Peer(e) \in Ends /\ Peer(Peer(e)) = e /\ Peer(e) # e /\ EndOK(Peer(e))
  BY BothEnds DEF RWInv, KeepWaiting, StaleConnection, Handling
<1>1. CASE "stale_context" \in faults /\ Die(e)
  BY <1>0, <1>1, DieKeeps
<1>2. CASE /\ hand' = [hand EXCEPT ![e] = "none"]
           /\ UNCHANGED <<server, st, stateVars, bufVars, nicVars, outVars>>
  <2>1. /\ server' = server /\ st' = st /\ connected' = connected /\ sendState' = sendState
        /\ recvState' = recvState /\ recvMsg' = recvMsg /\ sendMsg' = sendMsg /\ recvs' = recvs
        /\ sq' = sq /\ unacked' = unacked /\ cq' = cq /\ got' = got /\ printed' = printed
        /\ mode' = mode /\ faults' = faults
    BY <1>2 DEF stateVars, bufVars, nicVars, outVars
  <2>2. /\ hand' \in [Ends -> {"none", "send", "recv", "reply", "decide"}]
        /\ \A x \in Ends : hand'[x] = IF x = e THEN "none" ELSE hand[x]
    BY <1>0, <1>2, HandType
  <2>3. TypeOK'
    BY <1>0, <2>1, <2>2 DEF TypeOK
  <2>4. /\ \A x \in Ends : x # e => Same(x)
        /\ \A x \in Ends : Gone(x)' <=> Gone(x)
    BY <2>1, <2>2 DEF Same, Gone, Running
  <2>5. /\ Sent(e)' <= Sent(e) /\ Had(e)' <= Had(e) /\ Slots(e)' <= Slots(e)
        /\ (Idle(e)' <=> Idle(e))
        /\ hand[e] = "decide" => Sent(e)' = Sent(e)
        /\ Sent(e)' \in Nat /\ Had(e)' \in Nat /\ Slots(e)' \in Nat
        /\ Sent(e) \in Nat /\ Had(e) \in Nat /\ Slots(e) \in Nat
    <3>1. /\ sendState[e] \in Nat /\ recvState[e] \in Nat /\ recvs[e] \in Nat
          /\ Count(cq[e], "send") \in Nat /\ Count(cq[e], "recv") \in Nat
          /\ Sent(e)' \in Nat /\ Had(e)' \in Nat /\ Slots(e)' \in Nat
          /\ Sent(e) \in Nat /\ Had(e) \in Nat /\ Slots(e) \in Nat
      BY <1>0, <2>3, Numbers, NumbersNext
    <3>2. /\ One(hand'[e] = "send") = 0 /\ One(hand'[e] = "recv") = 0
          /\ One(hand[e] = "send") \in Nat /\ One(hand[e] = "recv") \in Nat
          /\ hand[e] = "decide" => One(hand[e] = "send") = 0
      BY <2>2 DEF One
    <3>3. Sent(e)' <= Sent(e) /\ Had(e)' <= Had(e) /\ Slots(e)' <= Slots(e)
      BY <2>1, <3>1, <3>2 DEF Sent, Had, Slots
    <3>4. hand[e] = "decide" => Sent(e)' = Sent(e)
      BY <2>1, <3>1, <3>2 DEF Sent
    <3> QED
      BY <2>1, <3>1, <3>3, <3>4 DEF Idle
  <2>6. /\ st[e] = "freed" => cq[e] = <<>> /\ Idle(e) /\ Count(cq[e], "recv") = 0
        /\ st[e] \notin {"idle", "requested", "routing", "connecting"}
    BY <1>0, Built, CountEmpty DEF EndOK, Stage
  <2>7. EndOK(e)'
    <3>1. Requests(e)'
      BY <1>0, <2>1, <2>5, <2>6 DEF EndOK, Requests, Idle
    <3>2. Message(e)'
      BY <1>0, <2>1, <2>2, <2>5, <2>6 DEF EndOK, Message
    <3>3. Receives(e)'
      <4>1. Receives(e) /\ recvState[e] \in Nat
        BY <1>0, Numbers DEF EndOK
      <4>2. /\ Slots(e)' <= 1 /\ Had(e)' <= 2 /\ recvState'[e] + Slots(e)' <= 2
            /\ (Had(e)' = 2 => Had(e) = 2) /\ (Had(e)' > 0 => Had(e) > 0)
        BY <2>1, <2>5, <4>1 DEF Receives
      <4> QED
        BY <2>1, <4>1, <4>2 DEF Receives
    <3>4. Silent(e)'
      <4>1. Quiet(e)' => Quiet(e)
        BY <1>0, <2>1, <2>2 DEF Quiet
      <4>2. Had(Peer(e))' = Had(Peer(e))
        BY <1>0, <2>4 DEF Same, Had
      <4> QED
        BY <1>0, <2>1, <2>5, <4>1, <4>2 DEF EndOK, Silent
    <3>5. Stage(e)'
      BY <1>0, <2>1, <2>4, <2>5, <2>6 DEF EndOK, Stage
    <3>6. InOrder(e)'
      <4>1. CASE st[e] = "freed"
        BY <1>0, <2>1, <2>2, <2>6, <4>1 DEF InOrder
      <4>2. CASE hand[e] = "decide"
        BY <1>0, <2>1, <2>2, <2>4, <2>5, <4>2 DEF EndOK, InOrder
      <4> QED
        BY <1>0, <4>1, <4>2
    <3>7. Data(e)'
      <4>1. Sent(Peer(e))' = Sent(Peer(e))
        BY <1>0, <2>4 DEF Same, Sent
      <4>2. (Sent(e)' >= 2 => Sent(e) >= 2) /\ (Had(e)' = 2 => Had(e) = 2)
        BY <1>0, <2>5 DEF EndOK, Receives
      <4> QED
        BY <1>0, <2>1, <4>1, <4>2 DEF EndOK, Data
    <3>8. NoFault(e)'
      BY <1>0, <2>1 DEF EndOK, NoFault, Fin
    <3> QED
      BY <3>1, <3>2, <3>3, <3>4, <3>5, <3>6, <3>7, <3>8 DEF EndOK
  <2>8. ForPeer(e)
    <3>1. Fin(e) => Fin(e)'
      BY <2>1 DEF Fin
    <3>2. (Sent(e)' >= 2 => Sent(e) >= 2) /\ (Had(e) = 0 => Had(e)' = 0)
      BY <2>5
    <3> QED
      BY <1>0, <2>1, <3>1, <3>2 DEF ForPeer, EndOK, Receives, Data
  <2> QED
    BY <2>1, <2>3, <2>4, <2>7, <2>8, LocalStep
<1> QED
  BY <1>1, <1>2 DEF KeepWaiting, StaleConnection

-----------------------------------------------------------------------------
(***************************************************************************)
(* The reliable connection.                                                *)
(***************************************************************************)

\* A completion is put at the end of the end's queue.
LEMMA Completes ==
    ASSUME TypeOK, NEW e \in Ends, NEW w \in Wc, cq' = [cq EXCEPT ![e] = Append(@, w)]
    PROVE  /\ cq' \in [Ends -> Seq(Wc)]
           /\ \A x \in Ends : x # e => cq'[x] = cq[x]
           /\ \A y : Count(cq'[e], y) = Count(cq[e], y) + One(w = y)
           /\ cq[e] # <<>> => Head(cq'[e]) = Head(cq[e])
           /\ cq[e] = <<>> => Head(cq'[e]) = w
<1>1. cq \in [Ends -> Seq(Wc)] /\ cq[e] \in Seq(Wc)
  BY DEF TypeOK
<1>2. cq'[e] = Append(cq[e], w) /\ \A x \in Ends : x # e => cq'[x] = cq[x]
  BY <1>1
<1>3. Append(cq[e], w) \in Seq(Wc)
  BY <1>1
<1>4. cq' \in [Ends -> Seq(Wc)]
  BY <1>1, <1>3
<1>5. \A y : Count(cq'[e], y) = Count(cq[e], y) + One(w = y)
  BY <1>1, <1>2, CountAppend
<1>6. /\ cq[e] # <<>> => Head(Append(cq[e], w)) = Head(cq[e])
      /\ cq[e] = <<>> => Head(Append(cq[e], w)) = w
  BY <1>1
<1> QED
  BY <1>2, <1>4, <1>5, <1>6

\* A queue pair belongs to a running process and to a connection that is not
\* closed.
LEMMA Connected ==
    ASSUME RWInv, NEW e \in Ends, Qp(e)
    PROVE  /\ st[e] \in {"accepted", "confirmed", "up"} /\ ~Gone(e)
           /\ e[2] = "client" => st[e] = "up"
           /\ e[2] = "server" => server = "up"
<1>1. Stage(e) /\ e[2] \in {"client", "server"}
  BY BothEnds DEF RWInv, EndOK
<1>2. st[e] \in {"accepted", "confirmed", "up"} /\ Running(e)
  BY DEF Qp
<1> QED
  BY <1>1, <1>2 DEF Gone, Running, Stage, Ended

LEMMA RequestFailsKeeps ==
    ASSUME RWInv, NEW e \in Ends, UNCHANGED <<mode, faults>>, RequestFails(e)
    PROVE  RWInv'
<1>0. /\ TypeOK /\ EndOK(e) /\ sq[e] # <<>> /\ Gone(Peer(e)) /\ e[2] \in {"client", "server"}
      /\ st[e] \in {"accepted", "confirmed", "up"}
      /\ Peer(e) \in Ends /\ Peer(Peer(e)) = e /\ Peer(e) # e /\ EndOK(Peer(e))
  BY BothEnds, Connected DEF RWInv, RequestFails
<1>1. /\ server' = server /\ st' = st /\ connected' = connected /\ sendState' = sendState
      /\ recvState' = recvState /\ recvMsg' = recvMsg /\ sendMsg' = sendMsg /\ recvs' = recvs
      /\ unacked' = unacked /\ hand' = hand /\ got' = got /\ printed' = printed
      /\ mode' = mode /\ faults' = faults
  BY DEF RequestFails, stateVars, bufVars, outVars
<1>2. /\ sq' \in [Ends -> Seq(Work)]
      /\ \A x \in Ends : sq'[x] = IF x = e THEN <<>> ELSE sq[x]
  BY <1>0 DEF TypeOK, RequestFails
<1>3. /\ cq' \in [Ends -> Seq(Wc)]
      /\ \A x \in Ends : x # e => cq'[x] = cq[x]
      /\ \A y : Count(cq'[e], y) = Count(cq[e], y) + One("error" = y)
      /\ cq[e] # <<>> => Head(cq'[e]) = Head(cq[e])
  <2>1. "error" \in Wc
    BY DEF Wc
  <2> QED
    BY <1>0, <2>1, Completes DEF RequestFails
<1>4. /\ Count(cq'[e], "send") = Count(cq[e], "send")
      /\ Count(cq'[e], "recv") = Count(cq[e], "recv")
  <2>1. One("error" = "send") = 0 /\ One("error" = "recv") = 0
    BY DEF One
  <2>2. Count(cq[e], "send") \in Nat /\ Count(cq[e], "recv") \in Nat
    BY <1>0, Numbers
  <2> QED
    BY <1>3, <2>1, <2>2
<1>5. Sent(e)' = Sent(e) /\ Had(e)' = Had(e) /\ Slots(e)' = Slots(e)
  BY <1>1, <1>4 DEF Sent, Had, Slots
<1>6. TypeOK'
  BY <1>0, <1>1, <1>2, <1>3 DEF TypeOK
<1>7. /\ \A x \in Ends : x # e => Same(x)
      /\ \A x \in Ends : Gone(x)' <=> Gone(x)
  BY <1>1, <1>2, <1>3 DEF Same, Gone, Running
<1>8. faults # {}
  <2>0. SUFFICES ASSUME faults = {} PROVE FALSE
    OBVIOUS
  <2>1. st[Peer(e)] \in {"closing", "freed", "exited"}
    BY <1>0, <2>0 DEF Gone, Running, Ended, EndOK, NoFault
  <2>2. Fin(Peer(e)) \/ Fin(e)
    BY <1>0, <2>0, <2>1 DEF EndOK, NoFault
  <2>3. CASE Fin(e)
    <3>1. sendState[e] = 3 /\ Count(cq[e], "send") \in Nat /\ One(hand[e] = "send") \in Nat
      BY <1>0, <2>3, Numbers DEF Fin, SS_DONE_SENT, One
    <3>2. Sent(e) >= 3
      BY <3>1 DEF Sent
    <3> QED
      BY <1>0, <3>2 DEF EndOK, Requests, Idle
  <2>4. CASE Fin(Peer(e))
    <3>1. /\ recvState[Peer(e)] = 2 /\ Count(cq[Peer(e)], "recv") \in Nat
          /\ One(hand[Peer(e)] = "recv") \in Nat
      BY <1>0, <2>4, Numbers DEF Fin, RS_DONE_RECV, One
    <3>2. Had(Peer(e)) >= 2 /\ Had(Peer(e)) \in Nat
      BY SMTT(30), <1>0, <3>1, Numbers DEF Had
    <3>3. Had(Peer(e)) = 2
      BY <1>0, <3>2 DEF EndOK, Receives
    <3> QED
      BY <1>0, <3>3 DEF EndOK, Receives
  <2> QED
    BY <2>2, <2>3, <2>4
<1>9. EndOK(e)'
  <2>1. Requests(e)'
    BY <1>0, <1>1, <1>2, <1>5 DEF EndOK, Requests, Idle
  <2>2. Message(e)'
    BY <1>0, <1>1, <1>2, <1>5 DEF EndOK, Message, MrsExchanged, Idle
  <2>3. Receives(e)'
    <3>1. sq'[Peer(e)] = sq[Peer(e)]
      BY <1>0, <1>2
    <3> QED
      BY <1>0, <1>1, <1>5, <3>1 DEF EndOK, Receives
  <2>4. Silent(e)'
    <3>1. ~Quiet(e)
      BY <1>0 DEF EndOK, Silent, Idle
    <3> QED
      BY <1>1, <3>1 DEF Silent, Quiet
  <2>5. Stage(e)'
    BY <1>0, <1>1, <1>7 DEF EndOK, Stage
  <2>6. InOrder(e)'
    <3>1. Count(cq[e], "recv") > 0 => cq[e] # <<>>
      BY CountEmpty
    <3> QED
      BY <1>0, <1>1, <1>3, <1>4, <1>7, <3>1 DEF EndOK, InOrder
  <2>7. Data(e)'
    <3>1. Sent(Peer(e))' = Sent(Peer(e))
      BY <1>0, <1>7 DEF Same, Sent
    <3> QED
      BY <1>0, <1>1, <1>5, <3>1 DEF EndOK, Data
  <2>8. NoFault(e)'
    BY <1>1, <1>8 DEF NoFault
  <2> QED
    BY <2>1, <2>2, <2>3, <2>4, <2>5, <2>6, <2>7, <2>8 DEF EndOK
<1>10. ForPeer(e)
  <2>1. Fin(e) => Fin(e)'
    BY <1>1 DEF Fin
  <2> QED
    BY <1>0, <1>1, <1>2, <1>5, <2>1 DEF ForPeer, EndOK, Receives, Data
<1> QED
  BY <1>1, <1>6, <1>7, <1>9, <1>10, LocalStep

LEMMA AcknowledgeKeeps ==
    ASSUME RWInv, NEW e \in Ends, UNCHANGED <<mode, faults>>, Acknowledge(e)
    PROVE  RWInv'
<1>0. /\ TypeOK /\ EndOK(e) /\ unacked[e] # <<>> /\ e[2] \in {"client", "server"}
      /\ st[e] \in {"accepted", "confirmed", "up"}
      /\ Peer(e) \in Ends /\ Peer(Peer(e)) = e /\ Peer(e) # e /\ EndOK(Peer(e))
  BY BothEnds, Connected DEF RWInv, Acknowledge
<1>1. /\ server' = server /\ st' = st /\ connected' = connected /\ sendState' = sendState
      /\ recvState' = recvState /\ recvMsg' = recvMsg /\ sendMsg' = sendMsg /\ recvs' = recvs
      /\ sq' = sq /\ hand' = hand /\ printed' = printed
      /\ mode' = mode /\ faults' = faults
  BY DEF Acknowledge, stateVars, bufVars
<1>2. /\ unacked[e] \in Seq(Work) /\ Tail(unacked[e]) \in Seq(Work)
      /\ Head(unacked[e]) = unacked[e][1]
      /\ unacked' \in [Ends -> Seq(Work)]
      /\ \A x \in Ends : unacked'[x] = IF x = e THEN Tail(unacked[e]) ELSE unacked[x]
  <2>1. unacked[e] \in Seq(Work) /\ unacked \in [Ends -> Seq(Work)]
    BY <1>0 DEF TypeOK
  <2>2. Tail(unacked[e]) \in Seq(Work) /\ Head(unacked[e]) = unacked[e][1]
    BY <1>0, <2>1
  <2> QED
    BY <2>1, <2>2 DEF Acknowledge
<1>3. /\ cq' \in [Ends -> Seq(Wc)]
      /\ \A x \in Ends : x # e => cq'[x] = cq[x]
      /\ \A y : Count(cq'[e], y) = Count(cq[e], y) + One("send" = y)
      /\ cq[e] # <<>> => Head(cq'[e]) = Head(cq[e])
  <2>1. "send" \in Wc
    BY DEF Wc
  <2> QED
    BY <1>0, <2>1, Completes DEF Acknowledge
<1>4. /\ Count(cq'[e], "send") = Count(cq[e], "send") + 1
      /\ Count(cq'[e], "recv") = Count(cq[e], "recv")
      /\ Count(cq'[e], "error") = Count(cq[e], "error")
  <2>1. One("send" = "send") = 1 /\ One("send" = "recv") = 0 /\ One("send" = "error") = 0
    BY DEF One
  <2>2. /\ Count(cq[e], "send") \in Nat /\ Count(cq[e], "recv") \in Nat
        /\ Count(cq[e], "error") \in Nat
    BY <1>0, Numbers
  <2> QED
    BY <1>3, <2>1, <2>2
<1>5. /\ Sent(e)' = Sent(e) + 1 /\ Had(e)' = Had(e) /\ Slots(e)' = Slots(e)
      /\ Sent(e) \in Nat
  <2>1. /\ sendState[e] \in Nat /\ Count(cq[e], "send") \in Nat /\ One(hand[e] = "send") \in Nat
        /\ Sent(e) \in Nat
    BY <1>0, Numbers DEF One
  <2>2. Sent(e)' = Sent(e) + 1
    BY <1>1, <1>4, <2>1 DEF Sent
  <2> QED
    BY <1>1, <1>4, <2>1, <2>2 DEF Had, Slots
<1>6. /\ got' \in [Ends -> BOOLEAN]
      /\ \A x \in Ends : x # e => got'[x] = got[x]
      /\ got[e] => got'[e]
      /\ mode = "M_WRITE" => got'[e] = got[e]
      /\ mode = "M_READ" /\ unacked[e][1] = "rdma" => got'[e]
  BY <1>0, <1>2 DEF Acknowledge, TypeOK
<1>7. /\ unacked[e][1] = "rdma" <=> Sent(e) = 1
      /\ Tail(unacked[e]) = <<>> \/ Tail(unacked[e]) = <<"msg">>
      /\ Requests(e)'
      /\ sendMsg[e] # "MSG_DONE" => Sent(e) = 0 /\ Idle(e)'
  <2>0. Requests(e) /\ ~Idle(e) /\ Message(e)
    BY <1>0 DEF EndOK, Idle
  <2>1. CASE Sent(e) \in {0, 2} /\ unacked[e] = <<"msg">> /\ sq[e] = <<>>
    <3>1. Tail(unacked[e]) = <<>> /\ unacked[e][1] = "msg"
      BY <2>1, Queues
    <3>2. Idle(e)'
      BY <1>1, <1>2, <2>1, <3>1 DEF Idle
    <3> QED
      BY <1>5, <2>0, <2>1, <3>1, <3>2 DEF Requests, Message
  <2>2. CASE Sent(e) = 1 /\ unacked[e] = <<"rdma">> /\ sq[e] = <<"msg">>
    <3>1. Tail(unacked[e]) = <<>> /\ unacked[e][1] = "rdma"
      BY <2>2, Queues
    <3> QED
      BY <1>1, <1>2, <1>5, <2>0, <2>2, <3>1 DEF Requests, Message
  <2>3. CASE Sent(e) = 1 /\ unacked[e] = <<"rdma", "msg">> /\ sq[e] = <<>>
    <3>1. Tail(unacked[e]) = <<"msg">> /\ unacked[e][1] = "rdma"
      BY <2>3, Queues
    <3> QED
      BY <1>1, <1>2, <1>5, <2>0, <2>3, <3>1 DEF Requests, Message
  <2>4. CASE Sent(e) = 1 /\ unacked[e] = <<"rdma">> /\ sq[e] = <<>>
    <3>1. Tail(unacked[e]) = <<>> /\ unacked[e][1] = "rdma"
      BY <2>4, Queues
    <3>2. Idle(e)'
      BY <1>1, <1>2, <2>4, <3>1 DEF Idle
    <3> QED
      BY <1>5, <2>0, <2>4, <3>1, <3>2 DEF Requests, Message
  <2> QED
    BY <1>0, <2>0, <2>1, <2>2, <2>3, <2>4 DEF Requests
<1>8. TypeOK'
  BY <1>0, <1>1, <1>2, <1>3, <1>6 DEF TypeOK
<1>9. /\ \A x \in Ends : x # e => Same(x)
      /\ \A x \in Ends : Gone(x)' <=> Gone(x)
  BY <1>1, <1>2, <1>3, <1>6 DEF Same, Gone, Running
<1>10. EndOK(e)'
  <2>2. Message(e)'
    BY <1>0, <1>1, <1>5, <1>7 DEF EndOK, Message, MrsExchanged
  <2>3. Receives(e)'
    BY <1>0, <1>1, <1>5 DEF EndOK, Receives
  <2>4. Silent(e)'
    <3>1. ~Quiet(e)
      BY <1>0 DEF EndOK, Silent, Idle
    <3> QED
      BY <1>1, <3>1 DEF Silent, Quiet
  <2>5. Stage(e)'
    BY <1>0, <1>1, <1>4, <1>9 DEF EndOK, Stage
  <2>6. InOrder(e)'
    <3>1. Count(cq[e], "recv") > 0 => cq[e] # <<>>
      BY CountEmpty
    <3>2. Sent(e)' >= 1
      BY <1>5
    <3> QED
      BY <1>0, <1>1, <1>3, <1>4, <3>1, <3>2 DEF EndOK, InOrder
  <2>7. Data(e)'
    <3>1. Sent(Peer(e))' = Sent(Peer(e)) /\ unacked'[Peer(e)] = unacked[Peer(e)]
      BY <1>0, <1>9 DEF Same, Sent
    <3>2. mode = "M_READ" /\ Sent(e)' >= 2 => got'[e]
      <4>1. Sent(e)' >= 2 => Sent(e) >= 2 \/ Sent(e) = 1
        BY <1>5
      <4> QED
        BY <1>0, <1>6, <1>7, <4>1 DEF EndOK, Data
    <3>3. mode = "M_WRITE" =>
             /\ Sent(Peer(e))' >= 2 => got'[e]
             /\ (unacked'[Peer(e)] # <<>> /\ unacked'[Peer(e)][1] = "rdma") => got'[e]
             /\ Had(e)' = 2 => got'[e]
      BY <1>0, <1>5, <1>6, <3>1 DEF EndOK, Data
    <3>4. printed'[e] => got'[e]
      BY <1>0, <1>1, <1>6 DEF EndOK, Data
    <3> QED
      BY <1>1, <3>2, <3>3, <3>4 DEF Data
  <2>8. NoFault(e)'
    BY <1>0, <1>1, <1>4 DEF EndOK, NoFault, Fin
  <2> QED
    BY <1>7, <2>2, <2>3, <2>4, <2>5, <2>6, <2>7, <2>8 DEF EndOK
<1>11. ForPeer(e)
  <2>1. Fin(e) => Fin(e)'
    BY <1>1 DEF Fin
  <2>2. mode = "M_WRITE" /\ Sent(e)' >= 2 => got'[Peer(e)]
    <3>1. Sent(e)' >= 2 => Sent(e) >= 2 \/ Sent(e) = 1
      BY <1>5
    <3> QED
      BY <1>0, <1>6, <1>7, <3>1 DEF EndOK, Data
  <2>3. ~(unacked'[e] # <<>> /\ unacked'[e][1] = "rdma")
    <3>1. unacked'[e] = <<>> \/ unacked'[e] = <<"msg">>
      BY <1>2, <1>7
    <3> QED
      BY <3>1
  <2> QED
    BY <1>0, <1>1, <1>5, <2>1, <2>2, <2>3 DEF ForPeer, EndOK, Receives
<1> QED
  BY <1>1, <1>8, <1>9, <1>10, <1>11, LocalStep

LEMMA DeliverRdmaKeeps ==
    ASSUME RWInv, NEW e \in Ends, UNCHANGED <<mode, faults>>, DeliverRdma(e)
    PROVE  RWInv'
<1>0. /\ TypeOK /\ EndOK(e) /\ sq[e] # <<>> /\ Head(sq[e]) = "rdma"
      /\ e[2] \in {"client", "server"} /\ st[e] \in {"accepted", "confirmed", "up"}
      /\ Peer(e) \in Ends /\ Peer(Peer(e)) = e /\ Peer(e) # e /\ EndOK(Peer(e))
  BY BothEnds, Connected DEF RWInv, DeliverRdma
<1>1. /\ server' = server /\ st' = st /\ connected' = connected /\ sendState' = sendState
      /\ recvState' = recvState /\ recvMsg' = recvMsg /\ sendMsg' = sendMsg /\ recvs' = recvs
      /\ cq' = cq /\ hand' = hand /\ printed' = printed /\ mode' = mode /\ faults' = faults
  BY DEF DeliverRdma, stateVars, bufVars
<1>2. Sent(e) = 1 /\ unacked[e] = <<>> /\ sq[e] = <<"rdma", "msg">>
  <2>1. sq[e] # <<"msg">>
    BY <1>0, Queues
  <2> QED
    BY <1>0, <2>1 DEF EndOK, Requests, Idle
<1>3. /\ sq' \in [Ends -> Seq(Work)] /\ unacked' \in [Ends -> Seq(Work)]
      /\ \A x \in Ends : sq'[x] = IF x = e THEN <<"msg">> ELSE sq[x]
      /\ \A x \in Ends : unacked'[x] = IF x = e THEN <<"rdma">> ELSE unacked[x]
  <2>1. /\ Tail(sq[e]) = <<"msg">> /\ Append(unacked[e], "rdma") = <<"rdma">>
        /\ <<"msg">> \in Seq(Work) /\ <<"rdma">> \in Seq(Work)
    BY <1>2, Queues DEF Work
  <2>2. sq' = [sq EXCEPT ![e] = <<"msg">>] /\ unacked' = [unacked EXCEPT ![e] = <<"rdma">>]
    BY <2>1 DEF DeliverRdma
  <2> QED
    BY <1>0, <2>1, <2>2 DEF TypeOK
<1>4. /\ got' \in [Ends -> BOOLEAN]
      /\ \A x \in Ends : got[x] => got'[x]
      /\ mode = "M_WRITE" => got'[Peer(e)]
  BY <1>0 DEF DeliverRdma, TypeOK
<1>5. \A x \in Ends : Sent(x)' = Sent(x) /\ Had(x)' = Had(x) /\ Slots(x)' = Slots(x)
  BY <1>1, SameCounts DEF Slots
<1>6. TypeOK'
  BY <1>0, <1>1, <1>3, <1>4 DEF TypeOK
<1>7. /\ \A x \in Ends : x # e => Same(x)
      /\ \A x \in Ends : Gone(x)' <=> Gone(x)
  BY <1>1, <1>3, <1>4 DEF Same, Gone, Running
<1>8. sendMsg[e] = "MSG_DONE" /\ ~Quiet(e)
  BY <1>0, <1>2, Queues DEF EndOK, Message, Silent, Idle
<1>9. EndOK(e)'
  <2>1. Requests(e)'
    BY <1>0, <1>2, <1>3, <1>5 DEF EndOK, Requests
  <2>2. Message(e)'
    BY <1>0, <1>1, <1>8 DEF EndOK, Message, MrsExchanged
  <2>3. Receives(e)'
    <3>1. sq'[Peer(e)] = sq[Peer(e)]
      BY <1>0, <1>3
    <3> QED
      BY <1>0, <1>1, <1>5, <3>1 DEF EndOK, Receives
  <2>4. Silent(e)'
    BY <1>1, <1>8 DEF Silent, Quiet
  <2>5. Stage(e)'
    BY <1>0, <1>1, <1>7 DEF EndOK, Stage
  <2>6. InOrder(e)'
    BY <1>0, <1>1, <1>2, <1>5 DEF EndOK, InOrder
  <2>7. Data(e)'
    <3>1. unacked'[Peer(e)] = unacked[Peer(e)]
      BY <1>0, <1>3
    <3> QED
      BY <1>0, <1>1, <1>4, <1>5, <3>1 DEF EndOK, Data
  <2>8. NoFault(e)'
    BY <1>0, <1>1 DEF EndOK, NoFault, Fin
  <2> QED
    BY <2>1, <2>2, <2>3, <2>4, <2>5, <2>6, <2>7, <2>8 DEF EndOK
<1>10. ForPeer(e)
  <2>1. Fin(e) => Fin(e)'
    BY <1>1 DEF Fin
  <2>2. Had(Peer(e)) # 2
    BY <1>0 DEF EndOK, Receives
  <2> QED
    BY <1>0, <1>1, <1>4, <1>5, <1>8, <2>1, <2>2 DEF ForPeer
<1> QED
  BY <1>1, <1>6, <1>7, <1>9, <1>10, LocalStep

\* The first message the client takes up comes after the completion of its own
\* first SEND.
LEMMA AckComesFirst ==
    ASSUME RWInv, AcksInOrder, NEW e \in Ends, DeliverMessage(e), Peer(e)[2] = "client",
           sendState[Peer(e)] = 0, hand[Peer(e)] # "send", Count(cq[Peer(e)], "recv") = 0
    PROVE  cq[Peer(e)] # <<>> /\ Head(cq[Peer(e)]) = "send"
<1>0. /\ TypeOK /\ EndOK(e) /\ Peer(e) \in Ends /\ Peer(Peer(e)) = e /\ EndOK(Peer(e))
      /\ e[2] = "server" /\ Qp(e) /\ Qp(Peer(e)) /\ sq[e] # <<>> /\ ~AwaitsAck(Peer(e))
  BY BothEnds DEF RWInv, DeliverMessage
<1>1. ~Gone(e) /\ ~Gone(Peer(e)) /\ st[Peer(e)] = "up"
  BY <1>0, Connected
<1>2. cq[Peer(e)] \in Seq(Wc) /\ Count(cq[Peer(e)], "error") \in Nat
  BY <1>0, Numbers
<1>3. Count(cq[Peer(e)], "error") = 0
  BY <1>0, <1>1, <1>2 DEF EndOK, Stage
<1>4. ASSUME cq[Peer(e)] # <<>> PROVE Head(cq[Peer(e)]) = "send"
  <2>1. /\ Head(cq[Peer(e)]) \in Wc
        /\ \A y : Count(cq[Peer(e)], y)
                    = Count(Tail(cq[Peer(e)]), y) + One(Head(cq[Peer(e)]) = y)
        /\ \A y : Count(Tail(cq[Peer(e)]), y) \in Nat
    <3>1. /\ Tail(cq[Peer(e)]) \in Seq(Wc) /\ Head(cq[Peer(e)]) \in Wc
          /\ \A y : Count(cq[Peer(e)], y)
                      = Count(Tail(cq[Peer(e)]), y) + One(Head(cq[Peer(e)]) = y)
      BY <1>2, <1>4, CountTail
    <3> QED
      BY <3>1, CountType
  <2>2. /\ One(Head(cq[Peer(e)]) = "recv") = 0
        /\ One(Head(cq[Peer(e)]) = "error") = 0
    BY <1>3, <2>1 DEF One
  <2> QED
    BY <2>1, <2>2 DEF One, Wc
<1>5. ASSUME cq[Peer(e)] = <<>> PROVE FALSE
  <2>1. Sent(Peer(e)) = 0
    <3>1. Count(cq[Peer(e)], "send") = 0 /\ One(hand[Peer(e)] = "send") = 0
      BY <1>5, CountEmpty DEF One
    <3> QED
      BY <3>1 DEF Sent
  <2>2. ~Idle(Peer(e))
    BY <1>0, <1>1, <2>1 DEF EndOK, InOrder
  <2>3. unacked[Peer(e)] # <<"msg">>
    BY <1>0, Queues DEF AwaitsAck
  <2>4. sq[Peer(e)] # <<>> /\ sendMsg[Peer(e)] # "MSG_DONE"
    BY <1>0, <2>1, <2>2, <2>3, Queues DEF EndOK, Requests, Message
  <2>5. Had(e) = 0
    <3>1. Had(e) \in Nat
      BY <1>0, Numbers
    <3> QED
      BY <1>0, <2>4, <3>1 DEF EndOK, Receives
  <2>6. recvState[e] = 0
    <3>1. recvState[e] \in Nat /\ One(hand[e] = "recv") \in Nat /\ Count(cq[e], "recv") \in Nat
      BY <1>0, Numbers DEF One
    <3> QED
      BY <2>5, <3>1 DEF Had
  <2> QED
    BY <1>0, <2>6 DEF EndOK, Silent, Quiet, Idle
<1> QED
  BY <1>4, <1>5

LEMMA DeliverMessageKeeps ==
    ASSUME RWInv, AcksInOrder, NEW e \in Ends, UNCHANGED <<mode, faults>>, DeliverMessage(e)
    PROVE  RWInv'
<1> DEFINE p == Peer(e)
<1>0. /\ TypeOK /\ EndOK(e) /\ sq[e] # <<>> /\ Head(sq[e]) = "msg" /\ recvs[p] > 0
      /\ e[2] \in {"client", "server"} /\ p[2] \in {"client", "server"}
      /\ e[2] = "client" <=> p[2] # "client"
      /\ st[e] \in {"accepted", "confirmed", "up"} /\ st[p] \in {"accepted", "confirmed", "up"}
      /\ ~Gone(e) /\ ~Gone(p)
      /\ p \in Ends /\ Peer(p) = e /\ p # e /\ EndOK(p)
      /\ \A x \in Ends : Peer(x) \in Ends /\ (Peer(x) = e => x = p) /\ (Peer(x) = p => x = e)
  BY BothEnds, Connected DEF RWInv, DeliverMessage
<1>1. /\ server' = server /\ st' = st /\ connected' = connected /\ sendState' = sendState
      /\ recvState' = recvState /\ sendMsg' = sendMsg /\ hand' = hand /\ got' = got
      /\ printed' = printed /\ mode' = mode /\ faults' = faults
  BY DEF DeliverMessage, stateVars, outVars
<1>2. /\ cq' \in [Ends -> Seq(Wc)]
      /\ \A x \in Ends : x # p => cq'[x] = cq[x]
      /\ \A y : Count(cq'[p], y) = Count(cq[p], y) + One("recv" = y)
      /\ cq[p] # <<>> => Head(cq'[p]) = Head(cq[p])
  <2>1. "recv" \in Wc
    BY DEF Wc
  <2> QED
    BY <1>0, <2>1, Completes DEF DeliverMessage
<1>3. /\ sq' \in [Ends -> Seq(Work)] /\ unacked' \in [Ends -> Seq(Work)]
      /\ \A x \in Ends : sq'[x] = IF x = e THEN Tail(sq[e]) ELSE sq[x]
      /\ \A x \in Ends : unacked'[x] = IF x = e THEN Append(unacked[e], "msg") ELSE unacked[x]
  <2>1. /\ sq \in [Ends -> Seq(Work)] /\ unacked \in [Ends -> Seq(Work)]
        /\ sq[e] \in Seq(Work) /\ unacked[e] \in Seq(Work) /\ "msg" \in Work
    BY <1>0 DEF TypeOK, Work
  <2>2. Tail(sq[e]) \in Seq(Work) /\ Append(unacked[e], "msg") \in Seq(Work)
    BY <1>0, <2>1
  <2> QED
    BY <2>1, <2>2 DEF DeliverMessage
<1>4. /\ recvs' \in [Ends -> Nat] /\ recvs'[p] = recvs[p] - 1
      /\ \A x \in Ends : x # p => recvs'[x] = recvs[x]
  <2>1. recvs \in [Ends -> Nat] /\ recvs[p] \in Nat /\ recvs[p] - 1 \in Nat
    <3>1. recvs[p] \in Nat /\ recvs[p] > 0
      BY <1>0, Numbers
    <3>2. recvs[p] - 1 \in Nat
      BY <3>1
    <3> QED
      BY <1>0, <3>1, <3>2 DEF TypeOK
  <2>2. recvs' = [recvs EXCEPT ![p] = recvs[p] - 1]
    BY DEF DeliverMessage
  <2> QED
    BY <1>0, <2>1, <2>2
<1>5. /\ recvMsg' \in [Ends -> MsgTypes] /\ recvMsg'[p] = sendMsg[e]
      /\ \A x \in Ends : x # p => recvMsg'[x] = recvMsg[x]
  BY <1>0 DEF DeliverMessage, TypeOK
<1> HIDE DEF p
<1>6. TypeOK'
  BY <1>0, <1>1, <1>2, <1>3, <1>4, <1>5 DEF TypeOK
<1>7. \A x \in Ends : Gone(x)' <=> Gone(x)
  BY <1>1 DEF Gone, Running
\* Where the sender was.
<1>8. /\ unacked[e] = <<>> \/ (unacked[e] = <<"rdma">> /\ Sent(e) = 1)
      /\ Tail(sq[e]) = <<>>
      /\ \/ Sent(e) \in {0, 2} /\ Append(unacked[e], "msg") = <<"msg">>
         \/ /\ Sent(e) = 1 /\ unacked[e] = <<"rdma">>
            /\ Append(unacked[e], "msg") = <<"rdma", "msg">>
  <2>1. sq[e] = <<"msg">>
    BY <1>0, Queues DEF EndOK, Requests, Idle
  <2>2. Requests(e) /\ <<"msg">> # <<>> /\ <<"msg">> # <<"rdma", "msg">>
    BY <1>0, Queues DEF EndOK
  <2>3. \/ unacked[e] = <<>> /\ Sent(e) \in {0, 2}
        \/ unacked[e] = <<"rdma">> /\ Sent(e) = 1
    BY <2>1, <2>2 DEF Requests, Idle
  <2>4. Tail(sq[e]) = <<>>
    BY <2>1, Queues
  <2>5. CASE unacked[e] = <<>> /\ Sent(e) \in {0, 2}
    <3>1. Append(unacked[e], "msg") = <<"msg">>
      BY <2>5, Queues
    <3> QED
      BY <2>4, <2>5, <3>1
  <2>6. CASE unacked[e] = <<"rdma">> /\ Sent(e) = 1
    <3>1. Append(unacked[e], "msg") = <<"rdma", "msg">>
      BY <2>6, Queues
    <3> QED
      BY <2>4, <2>6, <3>1
  <2> QED
    BY <2>3, <2>5, <2>6
<1>9. ~Quiet(e) /\ ~Idle(e) /\ ~Idle(e)'
  <2>1. ~Idle(e) /\ ~Quiet(e)
    BY <1>0 DEF EndOK, Silent, Idle
  <2>2. unacked'[e] # <<>>
    BY <1>3, <1>8, Queues
  <2> QED
    BY <2>1, <2>2 DEF Idle
\* Where the receiver was.
<1>10. /\ hand[p] # "recv" /\ Count(cq[p], "recv") = 0 /\ recvs[p] = 1
       /\ recvState[p] \in 0 .. 1 /\ Had(p) = recvState[p]
  <2>1. /\ recvs[p] \in Nat /\ recvState[p] \in Nat /\ Count(cq[p], "recv") \in Nat
        /\ One(hand[p] = "recv") \in Nat
    BY <1>0, Numbers DEF One
  <2>2. Slots(p) <= 1 /\ recvState[p] + Slots(p) <= 2
    BY <1>0 DEF EndOK, Receives
  <2>3. Count(cq[p], "recv") = 0 /\ recvs[p] = 1 /\ One(hand[p] = "recv") = 0
    BY <1>0, <2>1, <2>2 DEF Slots
  <2>4. Slots(p) = 1
    BY <2>3 DEF Slots
  <2>5. hand[p] # "recv"
    BY <2>3 DEF One
  <2> QED
    BY <2>1, <2>2, <2>3, <2>4, <2>5 DEF Had
<1>11. /\ Count(cq'[p], "send") = Count(cq[p], "send")
       /\ Count(cq'[p], "recv") = 1
       /\ Count(cq'[p], "error") = Count(cq[p], "error")
  <2>1. One("recv" = "send") = 0 /\ One("recv" = "recv") = 1 /\ One("recv" = "error") = 0
    BY DEF One
  <2>2. /\ Count(cq[p], "send") \in Nat /\ Count(cq[p], "recv") = 0
        /\ Count(cq[p], "error") \in Nat
    BY <1>0, <1>10, Numbers
  <2> QED
    BY <1>2, <2>1, <2>2
<1>12. /\ Sent(p)' = Sent(p) /\ Had(p)' = recvState[p] + 1 /\ Slots(p)' = 1
       /\ Sent(e)' = Sent(e) /\ Had(e)' = Had(e) /\ Slots(e)' = Slots(e)
  <2>1. Sent(p)' = Sent(p)
    BY <1>1, <1>11 DEF Sent
  <2>2. One(hand'[p] = "recv") = 0 /\ recvs'[p] = 0
    BY <1>1, <1>4, <1>10 DEF One
  <2>3. Had(p)' = recvState[p] + 1 /\ Slots(p)' = 1
    BY <1>1, <1>10, <1>11, <2>2 DEF Had, Slots
  <2>4. cq'[e] = cq[e] /\ recvs'[e] = recvs[e]
    BY <1>0, <1>2, <1>4
  <2> QED
    BY <1>1, <2>1, <2>3, <2>4 DEF Sent, Had, Slots
<1>13. Had(p)' = 2 => sendMsg[e] = "MSG_DONE"
  <2>1. Had(p)' = 2 => Had(p) > 0
    BY <1>10, <1>12
  <2> QED
    BY <1>0, <2>1 DEF EndOK, Receives
<1>14. EndOK(e)'
  <2>1. Requests(e)'
    BY <1>0, <1>3, <1>8, <1>12 DEF EndOK, Requests
  <2>2. Message(e)'
    BY <1>0, <1>1, <1>9, <1>12 DEF EndOK, Message, MrsExchanged
  <2>3. Receives(e)'
    BY <1>0, <1>1, <1>3, <1>5, <1>12 DEF EndOK, Receives
  <2>4. Silent(e)'
    BY <1>1, <1>9 DEF Silent, Quiet
  <2>5. Stage(e)'
    <3>1. cq'[e] = cq[e]
      BY <1>0, <1>2
    <3> QED
      BY <1>0, <1>1, <1>7, <3>1 DEF EndOK, Stage
  <2>6. InOrder(e)'
    <3>1. cq'[e] = cq[e]
      BY <1>0, <1>2
    <3> QED
      BY <1>0, <1>1, <1>9, <3>1 DEF EndOK, InOrder
  <2>7. Data(e)'
    <3>1. unacked'[p] = unacked[p]
      BY <1>0, <1>3
    <3> QED
      BY <1>0, <1>1, <1>12, <3>1 DEF EndOK, Data, p
  <2>8. NoFault(e)'
    <3>1. cq'[e] = cq[e]
      BY <1>0, <1>2
    <3> QED
      BY <1>0, <1>1, <3>1 DEF EndOK, NoFault, Fin
  <2> QED
    BY <2>1, <2>2, <2>3, <2>4, <2>5, <2>6, <2>7, <2>8 DEF EndOK
<1>15. EndOK(p)'
  <2>0. sq'[p] = sq[p] /\ unacked'[p] = unacked[p] /\ (Idle(p)' <=> Idle(p)) /\ sq'[e] = <<>>
    BY <1>0, <1>3, <1>8 DEF Idle
  <2>1. Requests(p)'
    BY <1>0, <1>12, <2>0 DEF EndOK, Requests
  <2>2. Message(p)'
    BY <1>0, <1>1, <1>12, <2>0 DEF EndOK, Message, MrsExchanged
  <2>3. Receives(p)'
    <3>1. /\ Slots(p)' <= 1 /\ Had(p)' <= 2 /\ recvState'[p] + Slots(p)' <= 2
      BY <1>1, <1>10, <1>12
    <3> QED
      BY <1>0, <1>1, <1>5, <1>13, <2>0, <3>1 DEF Receives
  <2>4. Silent(p)'
    BY <1>0, <1>1, <1>12, <2>0 DEF EndOK, Silent, Quiet
  <2>5. Stage(p)'
    BY <1>0, <1>1, <1>7, <1>11 DEF EndOK, Stage
  <2>6. InOrder(p)'
    <3>1. p[2] = "client" /\ sendState[p] = 0 /\ hand[p] # "send" => Head(cq'[p]) = "send"
      BY <1>2, <1>10, AckComesFirst DEF p
    <3> QED
      BY <1>0, <1>1, <1>7, <1>12, <2>0, <3>1 DEF EndOK, InOrder
  <2>7. Data(p)'
    <3>1. Sent(e) \in Nat /\ sendState[e] \in Nat /\ One(hand[e] = "send") \in Nat
          /\ Count(cq[e], "send") \in Nat
      BY <1>0, Numbers DEF One
    <3>2. sendMsg[e] = "MSG_DONE" => Sent(e) >= 1
      <4>1. sendMsg[e] = "MSG_DONE" => sendState[e] >= 1
        BY <1>0 DEF EndOK, Message
      <4> QED
        BY <3>1, <4>1 DEF Sent
    <3>3. mode = "M_WRITE" /\ (Sent(e) = 2 \/ unacked[e] = <<"rdma">>) => got[p]
      <4>1. unacked[e] = <<"rdma">> => unacked[e] # <<>> /\ unacked[e][1] = "rdma"
        BY Queues
      <4> QED
        BY <1>0, <3>1, <4>1 DEF EndOK, Data
    <3>4. mode = "M_WRITE" /\ Had(p)' = 2 => got[p]
      BY <1>8, <1>13, <3>2, <3>3
    <3>5. unacked'[e] # <<>> /\ unacked'[e][1] = "rdma" => unacked[e] = <<"rdma">>
      <4>1. <<"msg">>[1] # "rdma"
        OBVIOUS
      <4> QED
        BY <1>0, <1>3, <1>8, <4>1
    <3>6. mode = "M_READ" /\ Sent(p)' >= 2 => got'[p]
      BY <1>0, <1>1, <1>12 DEF EndOK, Data
    <3>7. printed'[p] => got'[p]
      BY <1>0, <1>1 DEF EndOK, Data
    <3>8. mode = "M_WRITE" /\ Sent(e)' >= 2 => got'[p]
      BY <1>0, <1>1, <1>12 DEF EndOK, Data
    <3> QED
      BY <1>0, <1>1, <3>3, <3>4, <3>5, <3>6, <3>7, <3>8 DEF Data
  <2>8. NoFault(p)'
    BY <1>0, <1>1, <1>11 DEF EndOK, NoFault, Fin
  <2> QED
    BY <2>1, <2>2, <2>3, <2>4, <2>5, <2>6, <2>7, <2>8 DEF EndOK
<1>16. ASSUME NEW x \in Ends, x # e, x # p PROVE EndOK(x)'
  <2>1. Same(x) /\ Same(Peer(x))
    <3>1. \A y \in Ends : y # e /\ y # p => Same(y)
      BY <1>1, <1>2, <1>3, <1>4, <1>5 DEF Same
    <3> QED
      BY <1>0, <1>16, <3>1
  <2> QED
    BY <1>1, <1>7, <2>1, OthersKeep
<1> QED
  BY <1>6, <1>14, <1>15, <1>16 DEF RWInv

-----------------------------------------------------------------------------
(***************************************************************************)
(* Every step keeps the invariant.                                         *)
(***************************************************************************)
LEMMA OnCompletionKeeps ==
    ASSUME RWInv, NEW e \in Ends, UNCHANGED <<mode, faults>>, OnCompletion(e)
    PROVE  RWInv'
BY HandleRecvKeeps, SendReplyKeeps, HandleSendKeeps, StartTransferKeeps, FinishKeeps, ReturnKeeps
   DEF OnCompletion

LEMMA NicKeeps ==
    ASSUME RWInv, AcksInOrder, NEW e \in Ends, UNCHANGED <<mode, faults>>, Nic(e)
    PROVE  RWInv'
BY DeliverMessageKeeps, DeliverRdmaKeeps, AcknowledgeKeeps, RequestFailsKeeps DEF Nic

LEMMA StutterKeeps ==
    ASSUME RWInv, UNCHANGED vars
    PROVE  RWInv'
<1>1. /\ server' = server /\ st' = st /\ connected' = connected /\ sendState' = sendState
      /\ recvState' = recvState /\ recvMsg' = recvMsg /\ sendMsg' = sendMsg /\ recvs' = recvs
      /\ sq' = sq /\ unacked' = unacked /\ cq' = cq /\ hand' = hand /\ got' = got
      /\ printed' = printed /\ mode' = mode /\ faults' = faults
  BY DEF vars, runVars, stateVars, bufVars, nicVars, outVars
<1>2. TypeOK'
  BY <1>1 DEF RWInv, TypeOK
<1>3. \A x \in Ends : Same(x) /\ Peer(x) \in Ends
  BY <1>1, BothEnds DEF Same
<1>4. \A x \in Ends : Gone(x)' <=> Gone(x)
  BY <1>1 DEF Gone, Running
<1>5. \A x \in Ends : EndOK(x)'
  BY <1>1, <1>3, <1>4, OthersKeep
<1> QED
  BY <1>2, <1>5 DEF RWInv

LEMMA NextRWInv == AcksInOrder /\ RWInv /\ [Next]_vars => RWInv'
<1> SUFFICES ASSUME AcksInOrder, RWInv, [Next]_vars PROVE RWInv'
  OBVIOUS
<1>1. CASE UNCHANGED vars
  BY <1>1, StutterKeeps
<1>2. CASE Next
  <2>0. UNCHANGED <<mode, faults>> /\ \A c \in Conns : Client(c) \in Ends /\ Server(c) \in Ends
    BY <1>2, BothEnds DEF Next
  <2>1. ASSUME NEW c \in Conns, ClientEventLoop(c) \/ ClientCrash(c) PROVE RWInv'
    BY <2>0, <2>1, EventsKeep, BuildKeeps, ConnectionKeeps, DisconnectKeeps DEF ClientEventLoop
  <2>2. ASSUME NEW c \in Conns, Poll(Client(c)) \/ OnCompletion(Client(c)) PROVE RWInv'
    BY <2>0, <2>2, PollKeeps, OnCompletionKeeps
  <2>3. CASE ServerEventLoop
    BY <2>0, <2>3, EventsKeep, BuildKeeps, ServerConnectionKeeps, DisconnectKeeps
       DEF ServerEventLoop
  <2>4. CASE ServerPoller
    BY <2>0, <2>4, PollKeeps, OnCompletionKeeps DEF ServerPoller
  <2>5. ASSUME NEW e \in Ends, Nic(e) PROVE RWInv'
    BY <2>0, <2>5, NicKeeps
  <2>6. CASE Rest
    BY <2>0, <2>6, StutterKeeps DEF Rest, vars
  <2> QED
    BY <1>2, <2>1, <2>2, <2>3, <2>4, <2>5, <2>6 DEF Next
<1> QED
  BY <1>1, <1>2

-----------------------------------------------------------------------------
(***************************************************************************)
(* What the invariant says of an end.                                      *)
(***************************************************************************)
LEMMA NoError ==
    ASSUME NEW q \in Seq(Wc), Count(q, "error") = 0
    PROVE  \A i \in 1 .. Len(q) : q[i] # "error"
<1>1. /\ IsFiniteSet(Places(q, "error")) /\ Cardinality(Places(q, "error")) = 0
  BY CountType
<1>2. Places(q, "error") = {}
  BY <1>1, FS_EmptySet
<1> QED
  BY <1>2 DEF Places

\* When an end is done both have the other's message, if the two write.
LEMMA FinHasAll ==
    ASSUME RWInv, NEW e \in Ends, Fin(e), mode = "M_WRITE"
    PROVE  got[e] /\ got[Peer(e)]
<1>0. /\ TypeOK /\ EndOK(e) /\ Peer(e) \in Ends /\ Peer(Peer(e)) = e /\ EndOK(Peer(e))
      /\ sendState[e] = 3 /\ recvState[e] = 2
  BY BothEnds DEF RWInv, Fin, SS_DONE_SENT, RS_DONE_RECV
<1>1. /\ Count(cq[e], "send") \in Nat /\ Count(cq[e], "recv") \in Nat
      /\ One(hand[e] = "send") \in Nat /\ One(hand[e] = "recv") \in Nat
  BY <1>0, Numbers DEF One
<1>2. Sent(e) >= 2
  BY <1>0, <1>1 DEF Sent
<1>3. Had(e) >= 2 /\ Had(e) \in Nat /\ Had(e) <= 2
  BY SMTT(30), <1>0, <1>1, Numbers DEF Had, EndOK, Receives
<1>4. Had(e) = 2
  BY <1>3
<1> QED
  BY <1>0, <1>2, <1>4 DEF EndOK, Data

\* send_msg is written only when no request of the end is posted.
LEMMA SendMsgFree ==
    ASSUME RWInv, [Next]_vars, NEW e \in Ends, sendMsg'[e] # sendMsg[e]
    PROVE  Idle(e)
<1>0. TypeOK /\ \A x \in Ends : EndOK(x) /\ x[2] \in {"client", "server"}
  BY BothEnds DEF RWInv
<1>1. ASSUME NEW c \in Conns, OnConnection(c) PROVE Idle(e)
  <2>1. Client(c) \in Ends /\ Client(c)[2] = "client"
    BY BothEnds
  <2>2. e = Client(c)
    BY <1>0, <1>1, <2>1 DEF OnConnection, TypeOK
  <2> QED
    BY <1>0, <1>1, <2>1, <2>2 DEF OnConnection, EndOK, Silent, Quiet
<1>2. ASSUME NEW x \in Ends, HandleRecv(x) PROVE Idle(e)
  <2>1. x = e /\ hand[e] = "recv" /\ recvMsg[e] = "MSG_MR" /\ sendState[e] = 0
    BY <1>0, <1>2 DEF HandleRecv, Handling, TypeOK, SS_INIT
  <2>2. e[2] = "server"
    BY <1>0, <2>1 DEF EndOK, InOrder
  <2>3. recvState[e] = 0
    <3>1. /\ Had(e) # 2 /\ Had(e) <= 2 /\ Had(e) \in Nat /\ recvState[e] \in Nat
          /\ Count(cq[e], "recv") \in Nat /\ One(hand[e] = "recv") = 1
      BY <1>0, <2>1, Numbers DEF EndOK, Receives, One
    <3> QED
      BY <3>1 DEF Had
  <2> QED
    BY <1>0, <2>2, <2>3 DEF EndOK, Silent, Quiet
<1>3. ASSUME NEW x \in Ends, StartTransfer(x) PROVE Idle(e)
  <2>1. /\ x = e /\ hand[e] = "decide" /\ MrsExchanged(e) /\ sendState[e] = 1
    BY <1>0, <1>3 DEF StartTransfer, Handling, TypeOK, MrsExchanged, SS_MR_SENT
  <2>2. sendMsg[e] # "MSG_DONE"
    BY <1>0, <2>1 DEF EndOK, Message
  <2>3. /\ Sent(e) \in Nat /\ Count(cq[e], "send") \in Nat /\ One(hand[e] = "send") \in Nat
    BY <1>0, Numbers DEF One
  <2>4. Sent(e) >= 1
    BY <2>1, <2>3 DEF Sent
  <2> QED
    BY <1>0, <2>2, <2>3, <2>4 DEF EndOK, Message
<1>4. ASSUME NEW x \in Ends, OnCompletion(x) PROVE Idle(e)
  <2>1. CASE HandleRecv(x) \/ StartTransfer(x)
    BY <1>2, <1>3, <2>1
  <2>2. CASE SendReply(x) \/ HandleSend(x) \/ Finish(x) \/ KeepWaiting(x) \/ StaleConnection(x)
    BY <2>2 DEF SendReply, HandleSend, Finish, KeepWaiting, StaleConnection, Die, bufVars
  <2> QED
    BY <1>4, <2>1, <2>2 DEF OnCompletion
<1>5. ASSUME NEW x \in Ends, Poll(x) PROVE Idle(e)
  BY <1>5 DEF Poll, Die, bufVars
<1>6. ASSUME NEW x \in Ends, Nic(x) PROVE Idle(e)
  BY <1>6 DEF Nic, DeliverMessage, DeliverRdma, Acknowledge, RequestFails, bufVars
<1>7. ASSUME NEW c \in Conns, ClientEventLoop(c) \/ ClientCrash(c) PROVE Idle(e)
  <2>1. CASE OnConnection(c)
    BY <1>1, <2>1
  <2>2. CASE \/ OnAddrResolved(c) \/ OnRouteResolved(c) \/ OnUnknownEvent(c)
             \/ OnDisconnect(c) \/ MainReturns(c) \/ ClientCrash(c)
    BY <2>2 DEF OnAddrResolved, OnRouteResolved, OnUnknownEvent, OnDisconnect, MainReturns,
                ClientCrash, Die, bufVars
  <2> QED
    BY <1>7, <2>1, <2>2 DEF ClientEventLoop
<1>8. CASE ServerEventLoop
  BY <1>8 DEF ServerEventLoop, OnConnectRequest, ServerOnConnection, ServerOnUnknownEvent,
              ServerOnDisconnect, Die, bufVars
<1>9. CASE Rest \/ UNCHANGED vars
  BY <1>9 DEF Rest, vars, runVars, bufVars
<1>10. \A c \in Conns : Client(c) \in Ends /\ Server(c) \in Ends
  BY BothEnds
<1> QED
  BY <1>4, <1>5, <1>6, <1>7, <1>8, <1>9, <1>10 DEF Next, ServerPoller

-----------------------------------------------------------------------------
(***************************************************************************)
(* Theorems.                                                               *)
(***************************************************************************)

\* The invariant of the exchange: an end posts its region, the transfer and
\* MSG_DONE once each and in that order (send_message, write_remote,
\* read_remote), takes two messages, of which MSG_DONE is the second, and the
\* two counters on_completion compares for equality never pass their last
\* value.
THEOREM RWInvariant ==
    ASSUME AcksInOrder
    PROVE  Spec => []RWInv
<1>1. Init => RWInv
  BY InitRWInv
<1>2. RWInv /\ [Next]_vars => RWInv'
  BY NextRWInv
<1> QED
  BY <1>1, <1>2, PTL DEF Spec

\* on_completion prints "remote buffer" only when the peer's message is in
\* get_peer_message_region: in M_READ the end's own READ has completed, in
\* M_WRITE the peer's WRITE was executed before the MSG_DONE behind it.
THEOREM PrintsThePeers ==
    ASSUME AcksInOrder
    PROVE  Spec => []PrintedIsPeers
<1>1. Spec => []RWInv
  BY RWInvariant
<1>2. RWInv => PrintedIsPeers
  BY DEF RWInv, EndOK, Data, PrintedIsPeers
<1> QED
  BY <1>1, <1>2, PTL

\* If nothing fails, no completion is an error and no process ends in die():
\* the end that calls rdma_disconnect has nothing posted, and the SENDs of the
\* other have all been delivered.  A client that writes and exits leaves each
\* side with the other's message.
THEOREM NobodyEverDies ==
    ASSUME AcksInOrder
    PROVE  Spec => []NobodyDies
<1>1. Spec => []RWInv
  BY RWInvariant
<1>2. Spec => [](Conns = {} => server = "up")
  <2>1. Init => (Conns = {} => server = "up")
    BY DEF Init
  <2>2. (Conns = {} => server = "up") /\ [Next]_vars => (Conns = {} => server = "up")'
    BY DEF Next, ServerEventLoop, ServerPoller, Ends, Rest, vars, runVars
  <2> QED
    BY <2>1, <2>2, PTL DEF Spec
<1>3. RWInv /\ (Conns = {} => server = "up") => NobodyDies
  <2> SUFFICES ASSUME RWInv, Conns = {} => server = "up", faults = {} PROVE NobodyDies
    BY DEF NobodyDies
  <2>0. \A e \in Ends : EndOK(e) /\ cq[e] \in Seq(Wc)
    BY Numbers DEF RWInv
  <2>1. \A e \in Ends : st[e] # "failed" /\ Count(cq[e], "error") = 0
    BY <2>0 DEF EndOK, NoFault
  <2>2. \A e \in Ends : \A i \in 1 .. Len(cq[e]) : cq[e][i] # "error"
    BY <2>0, <2>1, NoError
  <2>3. ASSUME NEW c \in Conns PROVE
           /\ server = "up"
           /\ st[Client(c)] = "exited" /\ mode = "M_WRITE" => got[Client(c)] /\ got[Server(c)]
    <3>1. Client(c) \in Ends /\ Server(c) \in Ends
          /\ Peer(Client(c)) = Server(c) /\ Peer(Server(c)) = Client(c)
      BY BothEnds
    <3>2. /\ server = "up"
          /\ st[Client(c)] = "exited" => Fin(Client(c)) \/ Fin(Server(c))
      BY <2>0, <3>1 DEF EndOK, NoFault
    <3> QED
      BY <3>1, <3>2, FinHasAll
  <2> QED
    BY <2>1, <2>2, <2>3 DEF NobodyDies
<1> QED
  BY <1>1, <1>2, <1>3, PTL

\* The one send_msg of a connection is written only while none of its requests
\* is posted, and while a handler looks at recv_msg no receive is posted that
\* could bring the next message into it.
THEOREM MessagesLeftAlone ==
    ASSUME AcksInOrder
    PROVE  Spec => MsgsLeftAlone
<1>1. Spec => []RWInv
  BY RWInvariant
<1>2. RWInv /\ [Next]_vars =>
         [\A e \in Ends :
             (\E i \in 1 .. Len(sq[e]) : sq[e][i] = "msg")
             \/ (\E i \in 1 .. Len(unacked[e]) : unacked[e][i] = "msg")
                 => sendMsg'[e] = sendMsg[e]
         ]_sendMsg
  <2>1. \A e : Idle(e) => /\ ~\E i \in 1 .. Len(sq[e]) : sq[e][i] = "msg"
                          /\ ~\E i \in 1 .. Len(unacked[e]) : unacked[e][i] = "msg"
    BY DEF Idle
  <2> QED
    BY <2>1, SendMsgFree
<1>3. RWInv => \A e \in Ends : hand[e] = "recv" /\ st[e] # "freed" => recvs[e] = 0
  <2> SUFFICES ASSUME RWInv, NEW e \in Ends, hand[e] = "recv" PROVE recvs[e] = 0
    OBVIOUS
  <2>1. /\ recvs[e] \in Nat /\ Count(cq[e], "recv") \in Nat /\ One(hand[e] = "recv") = 1
        /\ Slots(e) <= 1
    BY Numbers DEF RWInv, EndOK, Receives, One
  <2> QED
    BY <2>1 DEF Slots
<1> QED
  BY <1>1, <1>2, <1>3, PTL DEF Spec, MsgsLeftAlone

=============================================================================
