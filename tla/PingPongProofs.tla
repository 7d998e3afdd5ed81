---------------------------- MODULE PingPongProofs ----------------------------
(***************************************************************************)
(* The accounts of the ping-pong programs, for any number of queue pairs,  *)
(* iterations and receives, every program of the family and all faults.    *)
(***************************************************************************)
EXTENDS PingPong, FiniteSetTheorems, FunctionTheorems,
        SequenceTheorems, TLAPS

Before  == {"start", "wait_addr", "connect", "wait_done", "own"}
InLoop  == {"event", "poll", "handle"}
Closes  == {"close_ok", "close_failed", "close_stuck"}

Types ==
    /\ args \in Args /\ faults \in FaultSets
    /\ pc \in [Sides -> Before \cup InLoop \cup Closes \cup Ended]
    /\ tcp \in [Sides -> Seq({"addr", "split", "done"})]
    /\ qp \in [Sides -> {"init", "rts", "destroyed"}]
    /\ recvs \in [Sides -> 0 .. RxDepth]
    /\ routs \in [Sides -> 0 .. RxDepth]
    /\ sq \in [Sides -> [Qps -> Nat]]
    /\ net \in [Sides -> [Qps -> Nat]]
    /\ unacked \in [Sides -> [Qps -> Nat]]
    /\ cq \in [Sides -> Seq(Completions)]
    /\ wc \in [Sides -> Seq(Completions)]
    /\ armed \in [Sides -> BOOLEAN]
    /\ events \in [Sides -> Nat]
    /\ pending \in [Sides -> [Qps -> SUBSET {"recv", "send"}]]
    /\ scnt \in [Sides -> Nat]
    /\ rcnt \in [Sides -> Nat]

\* Where main is and what it has: its queue pairs are connected from "connect"
\* (the client) or the address (the server) on, and nothing is posted before
\* the loop.
Stage(s) ==
    /\ qp[s] = "init" <=> pc[s] \in {"start", "wait_addr", "connect"}
    /\ qp[s] = "destroyed" <=> pc[s] \in Ended
    /\ pc[s] = "event" => UseEvent
    /\ pc[s] = "own" => Program = "UMR" \/ s = "client"
    /\ pc[s] \in Closes => Program = "UMR"
    /\ pc[s] \in Before =>
          /\ \A q \in Qps : pending[s][q] = {}
          /\ scnt[s] = 0 /\ rcnt[s] = 0
    /\ pc[s] \in Before \cup {"event", "poll"} => wc[s] = <<>>
    /\ qp[s] = "init" => cq[s] = <<>>

\* A client that has gone further than reading addresses has a server that has
\* connected.
ServerFirst ==
    qp["server"] = "init" =>
        /\ tcp["client"] = <<>>
        /\ pc["client"] \in {"start", "wait_addr"} \cup Ended
        /\ scnt["client"] = 0 /\ \A q \in Qps : pending["client"][q] = {}

\* Completions of messages sent, whatever their status, and of those received.
Own  == {"send", "error"} \X Qps
Recv == {"recv"} \X Qps

OwnOn(s, q) == Unseen(s, {"send", "error"} \X {q})
AllOwn(s)   == Unseen(s, Own)

SendPending(s) == {q \in Qps : "send" \in pending[s][q]}
OnQp(s) == {q \in Qps : sq[s][q] + unacked[s][q] > 0}

\* Queue pairs on which main has the peer's message and has not answered it.
Hold(s) == {q \in Qps : pc[s] \in InLoop \cup Closes /\ "recv" \notin pending[s][q]}

\* Messages main has posted.
Posted(s) == scnt[s] + Cardinality(SendPending(s))

One(b) == IF b THEN 1 ELSE 0

\* What is pending is outstanding, on each queue pair and in total.
SendOut(s) ==
    /\ \A q \in Qps :
          /\ sq[s][q] > 0 => "send" \in pending[s][q]
          /\ Reliable => net[s][q] = 0
          /\ Running(s) =>
                One("send" \in pending[s][q]) =
                    sq[s][q] + unacked[s][q] + OwnOn(s, q)
    /\ Running(s) => Cardinality(OnQp(s)) + AllOwn(s) = Cardinality(SendPending(s))

Receives(s) ==
    Running(s) =>
        /\ routs[s] = recvs[s] + AllReceived(s)
        /\ IF pc[s] = "start" \/ (Program = "UMR" /\ pc[s] \in Before)
           THEN routs[s] = 0 ELSE routs[s] >= NumQp

\* A queue pair has one message, posted, on its way, received or to be answered.
Token(q) ==
    LET at(s) == One(q \in Hold(s)) + sq[s][q] + net[s][q] + Received(s, q)
    IN  at("client") + at("server") <= 1

\* What a side has received, or is to receive, its peer has posted; a reliable
\* connection loses none of it while the side runs.
Delivered(s) ==
    LET had == rcnt[s] + AllReceived(s) + Cardinality(Coming(s))
    IN  /\ had <= Posted(Peer(s))
        /\ Reliable /\ Running(s) => had = Posted(Peer(s))

\* A message is posted for each one received, and the client's first.
Answers(s) ==
    Posted(s) + Cardinality(Hold(s)) <= rcnt[s] + IF s = "client" THEN NumQp ELSE 0

\* None is posted after the last, but other queue pairs may be at theirs.
Bound(s) == Posted(s) <= Iters + NumQp - 1

Done(s) == pc[s] \in {"close_ok", "ok"} => rcnt[s] >= Iters /\ scnt[s] >= Iters

Counts ==
    /\ \A s \in Sides : SendOut(s) /\ Receives(s) /\ Delivered(s) /\ Answers(s) /\ Bound(s) /\ Done(s)
    /\ \A q \in Qps : Token(q)

\* A program called with --events has an armed queue or an event; a completion
\* that main is not about to poll for has raised one.
Wakeup(s) ==
    UseEvent /\ Running(s) /\ pc[s] # "start" =>
        /\ armed[s] \/ events[s] > 0
        /\ pc[s] # "poll" /\ cq[s] # <<>> => events[s] > 0

PInv ==
    /\ Types /\ ServerFirst /\ Counts
    /\ \A s \in Sides : Stage(s) /\ Wakeup(s)

-----------------------------------------------------------------------------
(***************************************************************************)
(* Counting in sequences.                                                  *)
(***************************************************************************)
Places(q, S) == {i \in 1 .. Len(q) : q[i] \in S}

LEMMA UpTo ==
    ASSUME NEW n \in Nat
    PROVE  IsFiniteSet(1 .. n) /\ Cardinality(1 .. n) = n
BY FS_Interval

LEMMA CountType ==
    ASSUME NEW T, NEW q \in Seq(T), NEW S
    PROVE  /\ Count(q, S) \in Nat /\ Count(q, S) <= Len(q)
           /\ IsFiniteSet(Places(q, S)) /\ Count(q, S) = Cardinality(Places(q, S))
<1>1. Len(q) \in Nat /\ Places(q, S) \subseteq 1 .. Len(q)
  BY DEF Places
<1>2. IsFiniteSet(1 .. Len(q)) /\ Cardinality(1 .. Len(q)) = Len(q)
  BY <1>1, UpTo
<1>3. IsFiniteSet(Places(q, S)) /\ Cardinality(Places(q, S)) <= Len(q)
  BY <1>1, <1>2, FS_Subset
<1>4. Cardinality(Places(q, S)) \in Nat
  BY <1>3, FS_CardinalityType
<1>5. Count(q, S) = Cardinality(Places(q, S))
  BY DEF Count, Places
<1> QED
  BY <1>3, <1>4, <1>5

LEMMA CountEmpty ==
    ASSUME NEW S PROVE Count(<<>>, S) = 0
<1>1. Places(<<>>, S) = {}
  BY DEF Places
<1> QED
  BY <1>1, FS_EmptySet DEF Places, Count

LEMMA CountAppend ==
    ASSUME NEW T, NEW q \in Seq(T), NEW x \in T, NEW S
    PROVE  Count(Append(q, x), S) = Count(q, S) + One(x \in S)
<1> DEFINE n == Len(q) + 1
<1> DEFINE r == Append(q, x)
<1>1. /\ r \in Seq(T) /\ Len(r) = n /\ Len(q) \in Nat /\ r[n] = x
      /\ \A i \in 1 .. Len(q) : r[i] = q[i]
  OBVIOUS
<1>2. n \notin Places(q, S)
  BY <1>1 DEF Places
<1>3. /\ IsFiniteSet(Places(q, S)) /\ Count(q, S) = Cardinality(Places(q, S)) /\ Count(q, S) \in Nat
      /\ Count(r, S) = Cardinality(Places(r, S))
  BY <1>1, CountType
<1> HIDE DEF r
<1>4. CASE x \in S
  <2>1. Places(r, S) = Places(q, S) \cup {n}
    BY <1>1, <1>4 DEF Places
  <2>2. Cardinality(Places(q, S) \cup {n}) = Cardinality(Places(q, S)) + 1
    BY <1>2, <1>3, FS_AddElement
  <2> QED
    BY <1>3, <1>4, <2>1, <2>2 DEF One, r
<1>5. CASE x \notin S
  <2>1. Places(r, S) = Places(q, S)
    BY <1>1, <1>5 DEF Places
  <2> QED
    BY <1>3, <1>5, <2>1 DEF One, r
<1> QED
  BY <1>4, <1>5

\* Completions taken from the front, and those that stay.
LEMMA CountSplit ==
    ASSUME NEW T, NEW q \in Seq(T), NEW n \in 0 .. Len(q), NEW S
    PROVE  Count(SubSeq(q, 1, n), S) + Count(SubSeq(q, n + 1, Len(q)), S) = Count(q, S)
<1> DEFINE a == SubSeq(q, 1, n)
<1> DEFINE b == SubSeq(q, n + 1, Len(q))
<1>1. /\ Len(q) \in Nat /\ n \in Nat /\ n <= Len(q)
      /\ a \in Seq(T) /\ Len(a) = n /\ \A i \in 1 .. n : a[i] = q[i]
      /\ b \in Seq(T) /\ Len(b) = Len(q) - n /\ \A i \in 1 .. Len(q) - n : b[i] = q[n + i]
  OBVIOUS
<1> HIDE DEF a, b
<1> DEFINE A == Places(a, S)
<1> DEFINE B == {i \in n + 1 .. Len(q) : q[i] \in S}
<1>2. Places(q, S) = A \cup B /\ A \cap B = {}
  BY <1>1 DEF Places
<1>3. ExistsBijection(Places(b, S), B)
  <2> DEFINE f == [i \in Places(b, S) |-> n + i]
  <2>1. \A i \in Places(b, S) : i \in Nat /\ f[i] = n + i /\ f[i] \in B
    BY <1>1 DEF Places
  <2>2. f \in [Places(b, S) -> B]
    BY <2>1
  <2>3. \A i, j \in Places(b, S) : f[i] = f[j] => i = j
    BY <1>1, <2>1
  <2>4. \A k \in B : k - n \in Places(b, S) /\ f[k - n] = k
    BY SMTT(30), <1>1 DEF Places
  <2>5. \A k \in B : \E i \in Places(b, S) : f[i] = k
    BY <2>4
  <2> HIDE DEF f, B
  <2>6. f \in Bijection(Places(b, S), B)
    BY <2>2, <2>3, <2>5, Fun_IsBij
  <2> QED
    BY <2>6, Fun_ExistsBij
<1>4. /\ IsFiniteSet(A) /\ Count(a, S) = Cardinality(A) /\ Count(a, S) \in Nat
      /\ IsFiniteSet(Places(b, S)) /\ Count(b, S) = Cardinality(Places(b, S)) /\ Count(b, S) \in Nat
      /\ Count(q, S) = Cardinality(Places(q, S))
  BY <1>1, CountType
<1> HIDE DEF A, B
<1>5. IsFiniteSet(B) /\ Cardinality(B) = Count(b, S)
  BY <1>3, <1>4, FS_Bijection
<1>6. Cardinality(A \cup B) = Cardinality(A) + Cardinality(B) - Cardinality(A \cap B)
  BY <1>4, <1>5, FS_Union
<1>7. Cardinality(A \cap B) = 0
  BY <1>2, FS_EmptySet
<1> QED
  BY <1>2, <1>4, <1>5, <1>6, <1>7 DEF a, b

LEMMA CountTail ==
    ASSUME NEW T, NEW q \in Seq(T), q # <<>>, NEW S
    PROVE  /\ Tail(q) \in Seq(T) /\ Head(q) \in T
           /\ Count(q, S) = Count(Tail(q), S) + One(Head(q) \in S)
<1> DEFINE a == SubSeq(q, 1, 1)
<1>1. /\ Len(q) \in Nat /\ 1 \in 0 .. Len(q) /\ Tail(q) \in Seq(T) /\ Head(q) \in T
      /\ a \in Seq(T) /\ Len(a) = 1 /\ a[1] = Head(q)
  OBVIOUS
<1>2. Count(a, S) + Count(SubSeq(q, 1 + 1, Len(q)), S) = Count(q, S)
  BY <1>1, CountSplit
<1>3. Count(SubSeq(q, 1 + 1, Len(q)), S) = Count(Tail(q), S)
  <2>1. Tail(q) = SubSeq(q, 2, Len(q)) /\ 1 + 1 = 2
    BY TailIsSubSeq
  <2> QED
    BY <2>1, Zenon
<1>4. Count(a, S) = One(Head(q) \in S)
  <2> HIDE DEF a
  <2>1. Places(a, S) = IF Head(q) \in S THEN {1} ELSE {}
    BY <1>1 DEF Places
  <2> QED
    BY SMTT(30), <1>1, <2>1, CountType, FS_Singleton, FS_EmptySet DEF One
<1>5. Count(Tail(q), S) \in Nat /\ One(Head(q) \in S) \in Nat
  BY <1>1, CountType DEF One
<1> QED
  BY <1>1, <1>2, <1>3, <1>4, <1>5

\* A completion is one of a receive or one of an own request.
LEMMA CountAll ==
    ASSUME NEW q \in Seq(Completions)
    PROVE  Len(q) = Count(q, Recv) + Count(q, Own)
<1>1. \A x \in Completions : (x \in Recv \/ x \in Own) /\ ~(x \in Recv /\ x \in Own)
  BY DEF Completions, Recv, Own
<1>a. \A i \in 1 .. Len(q) : q[i] \in Completions
  OBVIOUS
<1>2. Places(q, Recv) \cup Places(q, Own) = 1 .. Len(q) /\ Places(q, Recv) \cap Places(q, Own) = {}
  BY <1>1, <1>a DEF Places
<1>3. /\ IsFiniteSet(Places(q, Recv)) /\ Count(q, Recv) = Cardinality(Places(q, Recv))
      /\ IsFiniteSet(Places(q, Own)) /\ Count(q, Own) = Cardinality(Places(q, Own))
      /\ Len(q) \in Nat /\ Count(q, Recv) \in Nat /\ Count(q, Own) \in Nat
  BY CountType
<1>4. Cardinality(1 .. Len(q)) = Len(q)
  BY <1>3, UpTo
<1>5. Cardinality(Places(q, Recv) \cup Places(q, Own)) = Cardinality(Places(q, Recv))
        + Cardinality(Places(q, Own)) - Cardinality(Places(q, Recv) \cap Places(q, Own))
  BY <1>3, FS_Union
<1>6. Cardinality(Places(q, Recv) \cap Places(q, Own)) = 0
  BY <1>2, FS_EmptySet
<1>7. Cardinality(Places(q, Recv) \cup Places(q, Own)) = Len(q)
  BY <1>2, <1>4, Zenon
<1> QED
  BY <1>3, <1>5, <1>6, <1>7

-----------------------------------------------------------------------------
(***************************************************************************)
(* The arguments, and numbers in a state.                                  *)
(***************************************************************************)
LEMMA Arguments ==
    ASSUME args \in Args
    PROVE  /\ NumQp \in Nat /\ NumQp > 0 /\ Iters \in Nat /\ Iters > 0
           /\ RxDepth \in Nat /\ NumQp <= RxDepth /\ UseEvent \in BOOLEAN
           /\ Program # "SRQ" => NumQp = 1
           /\ IsFiniteSet(Qps) /\ Cardinality(Qps) = NumQp
<1>1. /\ args.num_qp \in Nat \ {0} /\ args.iters \in Nat \ {0} /\ args.rx_depth \in Nat \ {0}
      /\ args.use_event \in BOOLEAN
      /\ IF args.program = "SRQ" THEN args.num_qp <= args.rx_depth ELSE args.num_qp = 1
  BY PingPongAssumption
<1>2. IsFiniteSet(1 .. args.num_qp) /\ Cardinality(1 .. args.num_qp) = args.num_qp
  BY <1>1, UpTo
<1> QED
  BY <1>1, <1>2 DEF NumQp, Iters, RxDepth, UseEvent, Program, Qps

LEMMA SameArguments ==
    ASSUME args' = args
    PROVE  /\ NumQp' = NumQp /\ Iters' = Iters /\ RxDepth' = RxDepth /\ UseEvent' = UseEvent
           /\ Program' = Program /\ Qps' = Qps /\ (Reliable <=> Reliable')
           /\ Completions' = Completions /\ Own' = Own /\ Recv' = Recv
BY DEF NumQp, Iters, RxDepth, UseEvent, Program, Qps, Reliable, Completions, Own, Recv

LEMMA BothSides ==
    \A s \in Sides : Peer(s) \in Sides /\ Peer(s) # s /\ Peer(Peer(s)) = s
                    /\ \A x \in Sides : x # s => x = Peer(s)
BY DEF Sides, Peer

\* A set of queue pairs, and one of which the members differ in q at most.
LEMMA QpSet ==
    ASSUME args \in Args, NEW S \in SUBSET Qps
    PROVE  /\ IsFiniteSet(S) /\ Cardinality(S) \in Nat /\ Cardinality(S) <= NumQp
           /\ (Cardinality(S) = 0 <=> S = {})
<1>1. IsFiniteSet(Qps) /\ Cardinality(Qps) = NumQp
  BY Arguments
<1>2. IsFiniteSet(S) /\ Cardinality(S) <= NumQp
  BY <1>1, FS_Subset
<1> QED
  BY <1>2, FS_CardinalityType, FS_EmptySet

LEMMA QpStep ==
    ASSUME args \in Args, NEW S \in SUBSET Qps, NEW T \in SUBSET Qps, NEW q \in Qps,
           \A r \in Qps : r # q => (r \in S <=> r \in T)
    PROVE  Cardinality(T) + One(q \in S) = Cardinality(S) + One(q \in T)
<1>1. /\ IsFiniteSet(S) /\ Cardinality(S) \in Nat
      /\ IsFiniteSet(T) /\ Cardinality(T) \in Nat
  BY QpSet
<1>2. CASE q \in S /\ q \in T
  <2>1. S = T
    BY <1>2
  <2> QED
    BY <1>1, <1>2, <2>1
<1>3. CASE q \notin S /\ q \notin T
  <2>1. S = T
    BY <1>3
  <2> QED
    BY <1>1, <1>3, <2>1
<1>4. CASE q \in S /\ q \notin T
  <2>1. S = T \cup {q}
    BY <1>4
  <2> QED
    BY <1>1, <1>4, <2>1, FS_AddElement DEF One
<1>5. CASE q \notin S /\ q \in T
  <2>1. T = S \cup {q}
    BY <1>5
  <2> QED
    BY <1>1, <1>5, <2>1, FS_AddElement DEF One
<1> QED
  BY <1>2, <1>3, <1>4, <1>5

LEMMA CountMono ==
    ASSUME NEW T, NEW q \in Seq(T), NEW S, NEW R, S \subseteq R
    PROVE  Count(q, S) <= Count(q, R)
<1>1. Places(q, S) \subseteq Places(q, R)
  BY DEF Places
<1>2. /\ IsFiniteSet(Places(q, R)) /\ Count(q, R) = Cardinality(Places(q, R))
      /\ Count(q, S) = Cardinality(Places(q, S))
  BY CountType
<1> QED
  BY <1>1, <1>2, FS_Subset

\* The numbers of one side, and how they bound each other.
LEMMA Numbers ==
    ASSUME Types, NEW s \in Sides
    PROVE  /\ Cardinality(SendPending(s)) \in Nat /\ Cardinality(SendPending(s)) <= NumQp
           /\ Cardinality(Hold(s)) \in Nat /\ Cardinality(Coming(s)) \in Nat
           /\ Cardinality(OnQp(s)) \in Nat
           /\ AllReceived(s) \in Nat /\ AllOwn(s) \in Nat
           /\ Len(cq[s]) \in Nat /\ Len(cq[s]) <= AllReceived(s) + AllOwn(s)
           /\ scnt[s] \in Nat /\ rcnt[s] \in Nat /\ recvs[s] \in Nat /\ routs[s] \in Nat
           /\ recvs[s] <= RxDepth /\ routs[s] <= RxDepth /\ Posted(s) \in Nat
<1>1. /\ SendPending(s) \in SUBSET Qps /\ Hold(s) \in SUBSET Qps
      /\ Coming(s) \in SUBSET Qps /\ OnQp(s) \in SUBSET Qps
  BY DEF SendPending, Hold, Coming, OnQp
<1>2. /\ Cardinality(SendPending(s)) \in Nat /\ Cardinality(SendPending(s)) <= NumQp
      /\ Cardinality(Hold(s)) \in Nat /\ Cardinality(Coming(s)) \in Nat
      /\ Cardinality(OnQp(s)) \in Nat
  BY <1>1, QpSet DEF Types
<1>3. cq[s] \in Seq(Completions) /\ wc[s] \in Seq(Completions)
  BY DEF Types
<1>4. /\ Count(cq[s], Recv) \in Nat /\ Count(wc[s], Recv) \in Nat
      /\ Count(cq[s], Own) \in Nat /\ Count(wc[s], Own) \in Nat
  BY <1>3, CountType
<1>5. Len(cq[s]) = Count(cq[s], Recv) + Count(cq[s], Own)
  BY <1>3, CountAll
<1>6. /\ AllReceived(s) = Count(cq[s], Recv) + Count(wc[s], Recv)
      /\ AllOwn(s) = Count(cq[s], Own) + Count(wc[s], Own)
  BY DEF AllReceived, AllOwn, Unseen, Recv
<1>7. /\ scnt[s] \in Nat /\ rcnt[s] \in Nat /\ recvs[s] \in 0 .. RxDepth /\ routs[s] \in 0 .. RxDepth
      /\ RxDepth \in Nat
  BY Arguments DEF Types
<1>8. Posted(s) \in Nat
  BY <1>2, <1>7 DEF Posted
<1>9. AllReceived(s) \in Nat /\ AllOwn(s) \in Nat /\ Len(cq[s]) <= AllReceived(s) + AllOwn(s)
  BY <1>4, <1>5, <1>6
<1>10. Len(cq[s]) \in Nat /\ recvs[s] \in Nat /\ routs[s] \in Nat
       /\ recvs[s] <= RxDepth /\ routs[s] <= RxDepth
  BY <1>3, <1>7
<1> QED
  BY <1>2, <1>7, <1>8, <1>9, <1>10

LEMMA QpNumbers ==
    ASSUME Types, NEW s \in Sides, NEW q \in Qps
    PROVE  /\ Received(s, q) \in Nat /\ Received(s, q) <= AllReceived(s)
           /\ OwnOn(s, q) \in Nat /\ OwnOn(s, q) <= AllOwn(s)
           /\ sq[s][q] \in Nat /\ net[s][q] \in Nat /\ unacked[s][q] \in Nat
           /\ pending[s][q] \in SUBSET {"recv", "send"}
<1>1. cq[s] \in Seq(Completions) /\ wc[s] \in Seq(Completions)
  BY DEF Types
<1>2. {"recv"} \X {q} \subseteq Recv /\ {"send", "error"} \X {q} \subseteq Own
  BY DEF Recv, Own
<1>3. \A S : /\ Count(cq[s], S) \in Nat /\ Count(wc[s], S) \in Nat
  BY <1>1, CountType
<1>4. /\ Count(cq[s], {"recv"} \X {q}) <= Count(cq[s], Recv)
      /\ Count(wc[s], {"recv"} \X {q}) <= Count(wc[s], Recv)
      /\ Count(cq[s], {"send", "error"} \X {q}) <= Count(cq[s], Own)
      /\ Count(wc[s], {"send", "error"} \X {q}) <= Count(wc[s], Own)
  BY <1>1, <1>2, CountMono
<1>5. /\ AllReceived(s) = Count(cq[s], Recv) + Count(wc[s], Recv)
      /\ AllOwn(s) = Count(cq[s], Own) + Count(wc[s], Own)
      /\ Received(s, q) = Count(cq[s], {"recv"} \X {q}) + Count(wc[s], {"recv"} \X {q})
      /\ OwnOn(s, q) = Count(cq[s], {"send", "error"} \X {q}) + Count(wc[s], {"send", "error"} \X {q})
  BY DEF AllReceived, AllOwn, Received, OwnOn, Unseen, Recv
<1>6. /\ sq[s][q] \in Nat /\ net[s][q] \in Nat /\ unacked[s][q] \in Nat
      /\ pending[s][q] \in SUBSET {"recv", "send"}
  BY DEF Types
<1> QED
  BY <1>3, <1>4, <1>5, <1>6

\* No more messages are on their way, received or to be answered than there
\* are queue pairs: what one side has is posted by the other, and what a side
\* posts it has received, but for the client's first.
LEMMA Circulating ==
    ASSUME Types, Counts
    PROVE  Cardinality(Hold("client")) + Cardinality(Coming("client")) + AllReceived("client")
           + Cardinality(Hold("server")) + Cardinality(Coming("server")) + AllReceived("server")
               <= NumQp
<1>1. "client" \in Sides /\ "server" \in Sides /\ Peer("client") = "server" /\ Peer("server") = "client"
  BY DEF Sides, Peer
<1>2. /\ rcnt["client"] + AllReceived("client") + Cardinality(Coming("client")) <= Posted("server")
      /\ rcnt["server"] + AllReceived("server") + Cardinality(Coming("server")) <= Posted("client")
      /\ Posted("client") + Cardinality(Hold("client")) <= rcnt["client"] + NumQp
      /\ Posted("server") + Cardinality(Hold("server")) <= rcnt["server"] + 0
  BY <1>1 DEF Counts, Delivered, Answers
<1>3. NumQp \in Nat
  BY Arguments DEF Types
<1>4. \A x \in Sides : /\ Cardinality(Hold(x)) \in Nat /\ Cardinality(Coming(x)) \in Nat
                       /\ AllReceived(x) \in Nat /\ rcnt[x] \in Nat /\ Posted(x) \in Nat
  BY Numbers
<1> HIDE DEF Sides
<1> QED
  BY <1>1, <1>2, <1>3, <1>4

\* The completion queue does not overflow, and wc[] holds all of it.
LEMMA QueueHolds ==
    ASSUME Types, Counts, NEW s \in Sides, Running(s)
    PROVE  /\ AllReceived(s) <= NumQp
           /\ Len(cq[s]) <= Batch /\ Len(cq[s]) <= RxDepth + NumQp /\ Batch \in Nat
<1>0. args \in Args
  BY DEF Types
<1>1. AllReceived(s) <= NumQp
  <2>1. \A x \in {"client", "server"} :
           /\ Cardinality(Hold(x)) \in Nat /\ Cardinality(Coming(x)) \in Nat
           /\ AllReceived(x) \in Nat
    BY Numbers DEF Sides
  <2>2. s = "client" \/ s = "server"
    BY DEF Sides
  <2>3. NumQp \in Nat
    BY <1>0, Arguments
  <2> QED
    BY <2>1, <2>2, <2>3, Circulating
<1>2. Cardinality(OnQp(s)) + AllOwn(s) = Cardinality(SendPending(s))
  BY DEF Counts, SendOut
<1>3. Len(cq[s]) <= 2 * NumQp
  <2>1. /\ Cardinality(SendPending(s)) \in Nat /\ Cardinality(SendPending(s)) <= NumQp
        /\ Cardinality(OnQp(s)) \in Nat /\ AllReceived(s) \in Nat /\ AllOwn(s) \in Nat
        /\ Len(cq[s]) \in Nat /\ Len(cq[s]) <= AllReceived(s) + AllOwn(s)
    BY Numbers
  <2>2. NumQp \in Nat
    BY <1>0, Arguments
  <2> QED
    BY <1>1, <1>2, <2>1, <2>2
<1>4. Batch = IF Program = "SRQ" THEN NumQp + RxDepth ELSE 2
  BY DEF Batch
<1>5. NumQp \in Nat /\ RxDepth \in Nat /\ NumQp <= RxDepth /\ (Program # "SRQ" => NumQp = 1)
  BY <1>0, Arguments
<1>6. Len(cq[s]) \in Nat
  BY Numbers
<1> QED
  BY <1>1, <1>3, <1>4, <1>5, <1>6

-----------------------------------------------------------------------------
(***************************************************************************)
(* What main has not looked at, in each kind of step.                      *)
(***************************************************************************)
\* The counts of side x, c and w being what its queue and wc[] hold.
LEMMA Unseens ==
    ASSUME NEW x
    PROVE  /\ AllReceived(x) = Count(cq[x], Recv) + Count(wc[x], Recv)
           /\ AllOwn(x) = Count(cq[x], Own) + Count(wc[x], Own)
           /\ \A r : /\ Received(x, r) = Count(cq[x], {"recv"} \X {r}) + Count(wc[x], {"recv"} \X {r})
                     /\ OwnOn(x, r) = Count(cq[x], {"send", "error"} \X {r})
                                      + Count(wc[x], {"send", "error"} \X {r})
BY DEF AllReceived, AllOwn, Received, OwnOn, Unseen, Recv

LEMMA UnseensNext ==
    ASSUME args' = args, NEW x
    PROVE  /\ AllReceived(x)' = Count(cq'[x], Recv) + Count(wc'[x], Recv)
           /\ AllOwn(x)' = Count(cq'[x], Own) + Count(wc'[x], Own)
           /\ \A r : /\ Received(x, r)' = Count(cq'[x], {"recv"} \X {r}) + Count(wc'[x], {"recv"} \X {r})
                     /\ OwnOn(x, r)' = Count(cq'[x], {"send", "error"} \X {r})
                                       + Count(wc'[x], {"send", "error"} \X {r})
<1>1. Qps' = Qps /\ Own' = Own /\ Recv' = Recv
  BY SameArguments
<1> QED
  BY <1>1 DEF AllReceived, AllOwn, Received, OwnOn, Unseen, Recv

SeenSame(x) ==
    /\ AllReceived(x)' = AllReceived(x) /\ AllOwn(x)' = AllOwn(x)
    /\ \A r \in Qps : Received(x, r)' = Received(x, r) /\ OwnOn(x, r)' = OwnOn(x, r)

LEMMA Unlooked ==
    ASSUME args' = args, NEW x, cq'[x] = cq[x], wc'[x] = wc[x]
    PROVE  SeenSame(x)
<1>1. AllReceived(x)' = AllReceived(x) /\ AllOwn(x)' = AllOwn(x)
  BY Unseens, UnseensNext
<1>2. ASSUME NEW r \in Qps PROVE Received(x, r)' = Received(x, r) /\ OwnOn(x, r)' = OwnOn(x, r)
  <2>1. /\ Received(x, r) = Count(cq[x], {"recv"} \X {r}) + Count(wc[x], {"recv"} \X {r})
        /\ OwnOn(x, r) = Count(cq[x], {"send", "error"} \X {r}) + Count(wc[x], {"send", "error"} \X {r})
    BY Unseens
  <2>2. /\ Received(x, r)' = Count(cq[x], {"recv"} \X {r}) + Count(wc[x], {"recv"} \X {r})
        /\ OwnOn(x, r)' = Count(cq[x], {"send", "error"} \X {r}) + Count(wc[x], {"send", "error"} \X {r})
    BY SMTT(30), UnseensNext
  <2> QED
    BY <2>1, <2>2
<1> QED
  BY <1>1, <1>2 DEF SeenSame

\* A completion is added.
LEMMA Completed ==
    ASSUME Types, args' = args, NEW s \in Sides, NEW what \in {"recv", "send", "error"}, NEW q \in Qps,
           Complete(s, what, q), wc' = wc
    PROVE  /\ \A x \in Sides : x # s => SeenSame(x) /\ cq'[x] = cq[x]
           /\ AllReceived(s)' = AllReceived(s) + One(what = "recv")
           /\ AllOwn(s)' = AllOwn(s) + One(what # "recv")
           /\ \A r \in Qps :
                 /\ Received(s, r)' = Received(s, r) + One(what = "recv" /\ r = q)
                 /\ OwnOn(s, r)' = OwnOn(s, r) + One(what # "recv" /\ r = q)
           /\ cq' \in [Sides -> Seq(Completions)] /\ cq'[s] # <<>>
<1> DEFINE c == <<what, q>>
<1>1. /\ cq \in [Sides -> Seq(Completions)] /\ wc \in [Sides -> Seq(Completions)]
      /\ c \in Completions
  BY DEF Types, Completions
<1>2. cq' = [cq EXCEPT ![s] = Append(cq[s], c)]
  BY DEF Complete
<1>3. \A S : Count(cq'[s], S) = Count(cq[s], S) + One(c \in S)
  BY <1>1, <1>2, CountAppend
<1>4. \A S : Count(cq[s], S) \in Nat /\ Count(wc[s], S) \in Nat /\ One(c \in S) \in Nat
  BY <1>1, CountType DEF One
<1>5. \A x \in Sides : x # s => cq'[x] = cq[x] /\ wc'[x] = wc[x]
  BY <1>1, <1>2
<1>6. /\ (c \in Recv <=> what = "recv") /\ (c \in Own <=> what # "recv")
      /\ \A r \in Qps : /\ (c \in {"recv"} \X {r} <=> what = "recv" /\ r = q)
                        /\ (c \in {"send", "error"} \X {r} <=> what # "recv" /\ r = q)
  BY DEF Recv, Own
<1>7. cq' \in [Sides -> Seq(Completions)] /\ cq'[s] # <<>>
  BY SMTT(30), <1>1, <1>2
<1> HIDE DEF c
<1>8. AllReceived(s)' = AllReceived(s) + One(what = "recv")
  BY <1>3, <1>4, <1>6, Unseens, UnseensNext DEF One
<1>9. AllOwn(s)' = AllOwn(s) + One(what # "recv")
  BY <1>3, <1>4, <1>6, Unseens, UnseensNext DEF One
<1>10. ASSUME NEW r \in Qps
       PROVE  /\ Received(s, r)' = Received(s, r) + One(what = "recv" /\ r = q)
              /\ OwnOn(s, r)' = OwnOn(s, r) + One(what # "recv" /\ r = q)
  <2>1. /\ Received(s, r) = Count(cq[s], {"recv"} \X {r}) + Count(wc[s], {"recv"} \X {r})
        /\ OwnOn(s, r) = Count(cq[s], {"send", "error"} \X {r}) + Count(wc[s], {"send", "error"} \X {r})
    BY Unseens
  <2>2. /\ Received(s, r)' = Count(cq'[s], {"recv"} \X {r}) + Count(wc[s], {"recv"} \X {r})
        /\ OwnOn(s, r)' = Count(cq'[s], {"send", "error"} \X {r})
                          + Count(wc[s], {"send", "error"} \X {r})
    BY UnseensNext
  <2>3. One(c \in {"recv"} \X {r}) = One(what = "recv" /\ r = q)
    BY <1>6 DEF One
  <2>4. One(c \in {"send", "error"} \X {r}) = One(what # "recv" /\ r = q)
    BY <1>6 DEF One
  <2> QED
    BY <1>3, <1>4, <2>1, <2>2, <2>3, <2>4
<1> QED
  BY <1>5, <1>7, <1>8, <1>9, <1>10, Unlooked

\* main has handled the first completion of wc[].
LEMMA Handled ==
    ASSUME Types, args' = args, NEW s \in Sides, wc[s] # <<>>,
           wc' = [wc EXCEPT ![s] = Tail(wc[s])], cq' = cq
    PROVE  LET what == Head(wc[s])[1]
               q == Head(wc[s])[2]
           IN  /\ \A x \in Sides : x # s => SeenSame(x)
               /\ q \in Qps
               /\ AllReceived(s) = AllReceived(s)' + One(what = "recv")
               /\ AllOwn(s) = AllOwn(s)' + One(what # "recv")
               /\ \A r \in Qps :
                     /\ Received(s, r) = Received(s, r)' + One(what = "recv" /\ r = q)
                     /\ OwnOn(s, r) = OwnOn(s, r)' + One(what # "recv" /\ r = q)
               /\ AllReceived(s)' \in Nat /\ AllOwn(s)' \in Nat
               /\ \A r \in Qps : Received(s, r)' \in Nat /\ OwnOn(s, r)' \in Nat
               /\ wc' \in [Sides -> Seq(Completions)]
<1> DEFINE c == Head(wc[s])
<1> DEFINE what == c[1]
<1> DEFINE q == c[2]
<1>1. /\ cq \in [Sides -> Seq(Completions)] /\ wc \in [Sides -> Seq(Completions)]
  BY DEF Types
<1>2. /\ c \in Completions /\ Tail(wc[s]) \in Seq(Completions)
      /\ \A S : Count(wc[s], S) = Count(Tail(wc[s]), S) + One(c \in S)
  BY <1>1, CountTail
<1>3. /\ wc'[s] = Tail(wc[s]) /\ cq'[s] = cq[s] /\ wc' \in [Sides -> Seq(Completions)]
      /\ \A x \in Sides : x # s => cq'[x] = cq[x] /\ wc'[x] = wc[x]
  BY <1>1, <1>2
<1>4. \A S : /\ Count(cq[s], S) \in Nat /\ Count(wc[s], S) \in Nat /\ One(c \in S) \in Nat
             /\ Count(Tail(wc[s]), S) \in Nat
  BY <1>1, <1>2, CountType DEF One
<1>5. q \in Qps /\ what \in {"recv", "send", "error"} /\ c = <<what, q>>
  BY <1>2 DEF Completions
<1>6. /\ (c \in Recv <=> what = "recv") /\ (c \in Own <=> what # "recv")
      /\ \A r \in Qps : /\ (c \in {"recv"} \X {r} <=> what = "recv" /\ r = q)
                        /\ (c \in {"send", "error"} \X {r} <=> what # "recv" /\ r = q)
  BY <1>5 DEF Recv, Own
<1> HIDE DEF c, what, q
<1>7. AllReceived(s) = AllReceived(s)' + One(what = "recv") /\ AllReceived(s)' \in Nat
  BY SMTT(30), <1>2, <1>3, <1>4, <1>6, Unseens, UnseensNext DEF One
<1>8. AllOwn(s) = AllOwn(s)' + One(what # "recv") /\ AllOwn(s)' \in Nat
  BY SMTT(30), <1>2, <1>3, <1>4, <1>6, Unseens, UnseensNext DEF One
<1>9. ASSUME NEW r \in Qps
      PROVE  /\ Received(s, r) = Received(s, r)' + One(what = "recv" /\ r = q)
             /\ OwnOn(s, r) = OwnOn(s, r)' + One(what # "recv" /\ r = q)
             /\ Received(s, r)' \in Nat /\ OwnOn(s, r)' \in Nat
  <2>1. /\ Received(s, r) = Count(cq[s], {"recv"} \X {r}) + Count(wc[s], {"recv"} \X {r})
        /\ OwnOn(s, r) = Count(cq[s], {"send", "error"} \X {r}) + Count(wc[s], {"send", "error"} \X {r})
    BY Unseens
  <2>2. /\ Received(s, r)' = Count(cq[s], {"recv"} \X {r}) + Count(Tail(wc[s]), {"recv"} \X {r})
        /\ OwnOn(s, r)' = Count(cq[s], {"send", "error"} \X {r})
                          + Count(Tail(wc[s]), {"send", "error"} \X {r})
    BY <1>3, UnseensNext
  <2>3. One(c \in {"recv"} \X {r}) = One(what = "recv" /\ r = q)
    BY <1>6 DEF One
  <2>4. One(c \in {"send", "error"} \X {r}) = One(what # "recv" /\ r = q)
    BY <1>6 DEF One
  <2> DEFINE R == {"recv"} \X {r}
  <2> DEFINE O == {"send", "error"} \X {r}
  <2>5. /\ Count(wc[s], R) = Count(Tail(wc[s]), R) + One(c \in R)
        /\ Count(wc[s], O) = Count(Tail(wc[s]), O) + One(c \in O)
        /\ \A S \in {R, O} : /\ Count(cq[s], S) \in Nat /\ One(c \in S) \in Nat
                             /\ Count(Tail(wc[s]), S) \in Nat
    BY <1>2, <1>4
  <2> HIDE DEF R, O
  <2>6. /\ Received(s, r) = Received(s, r)' + One(what = "recv" /\ r = q)
        /\ Received(s, r)' \in Nat
    BY SMTT(30), <2>1, <2>2, <2>3, <2>5 DEF R
  <2>7. /\ OwnOn(s, r) = OwnOn(s, r)' + One(what # "recv" /\ r = q)
        /\ OwnOn(s, r)' \in Nat
    BY <2>1, <2>2, <2>4, <2>5 DEF O
  <2> QED
    BY <2>6, <2>7
<1>10. \A x \in Sides : x # s => SeenSame(x)
  BY <1>3, Unlooked
<1> QED
  BY <1>3, <1>5, <1>7, <1>8, <1>9, <1>10 DEF what, q, c

-----------------------------------------------------------------------------
(***************************************************************************)
(* Steps that change none of the counts.                                   *)
(***************************************************************************)
LEMMA SetsNext ==
    ASSUME args' = args, NEW x
    PROVE  /\ SendPending(x)' = {r \in Qps : "send" \in pending'[x][r]}
           /\ Coming(x)' = {r \in Qps : sq'[Peer(x)][r] + net'[Peer(x)][r] > 0}
           /\ OnQp(x)' = {r \in Qps : sq'[x][r] + unacked'[x][r] > 0}
           /\ Hold(x)' = {r \in Qps : pc'[x] \in InLoop \cup Closes /\ "recv" \notin pending'[x][r]}
           /\ Posted(x)' = scnt'[x] + Cardinality(SendPending(x)')
BY SameArguments DEF SendPending, Coming, OnQp, Hold, Posted, Peer

\* The sets of side x, and when they stay.
LEMMA SameSets ==
    ASSUME args' = args, NEW x
    PROVE  /\ (\A r \in Qps : "send" \in pending'[x][r] <=> "send" \in pending[x][r])
                  => SendPending(x)' = SendPending(x)
           /\ sq'[Peer(x)] = sq[Peer(x)] /\ net'[Peer(x)] = net[Peer(x)] => Coming(x)' = Coming(x)
           /\ sq'[x] = sq[x] /\ unacked'[x] = unacked[x] => OnQp(x)' = OnQp(x)
           /\ pc'[x] = pc[x] /\ pending'[x] = pending[x] => Hold(x)' = Hold(x)
<1>1. ASSUME \A r \in Qps : "send" \in pending'[x][r] <=> "send" \in pending[x][r]
      PROVE  SendPending(x)' = SendPending(x)
  BY <1>1, SetsNext DEF SendPending
<1>2. ASSUME sq'[Peer(x)] = sq[Peer(x)], net'[Peer(x)] = net[Peer(x)]
      PROVE  Coming(x)' = Coming(x)
  BY <1>2, SetsNext DEF Coming
<1>3. ASSUME sq'[x] = sq[x], unacked'[x] = unacked[x]
      PROVE  OnQp(x)' = OnQp(x)
  BY <1>3, SetsNext DEF OnQp
<1>4. ASSUME pc'[x] = pc[x], pending'[x] = pending[x]
      PROVE  Hold(x)' = Hold(x)
  BY <1>4, SetsNext DEF Hold
<1> QED
  BY <1>1, <1>2, <1>3, <1>4

\* Of what it has not looked at, a side that ends may drop some.
SeenLess(x) ==
    /\ AllReceived(x)' \in Nat /\ AllReceived(x)' <= AllReceived(x)
    /\ \A r \in Qps : Received(x, r)' \in Nat /\ Received(x, r)' <= Received(x, r)
    /\ Running(x)' => SeenSame(x)

LEMMA SameSeenLess ==
    ASSUME Types, args' = args, NEW x \in Sides, SeenSame(x)
    PROVE  SeenLess(x)
<1>1. AllReceived(x) \in Nat /\ \A r \in Qps : Received(x, r) \in Nat
  BY Numbers, QpNumbers
<1> QED
  BY <1>1 DEF SeenSame, SeenLess

LEMMA Still ==
    ASSUME Types, Counts, args' = args, UNCHANGED <<sq, net, unacked, scnt, rcnt>>,
           \A x \in Sides :
              /\ Running(x)' => Running(x)
              /\ \A r \in Qps : "send" \in pending'[x][r] <=> "send" \in pending[x][r]
              /\ \A r \in Qps : r \in Hold(x)' => r \in Hold(x)
              /\ SeenLess(x) /\ Receives(x)' /\ Done(x)'
    PROVE  Counts'
<1> USE DEF One
<1>0. /\ Qps' = Qps /\ (Reliable' <=> Reliable) /\ Iters' = Iters /\ NumQp' = NumQp
  BY SameArguments
<1>1. ASSUME NEW x \in Sides
      PROVE  /\ SendPending(x)' = SendPending(x) /\ Coming(x)' = Coming(x) /\ OnQp(x)' = OnQp(x)
             /\ Posted(x)' = Posted(x)
  <2>1. SendPending(x)' = SendPending(x) /\ Coming(x)' = Coming(x) /\ OnQp(x)' = OnQp(x)
    BY SameSets
  <2> QED
    BY <2>1 DEF Posted
<1>2. ASSUME NEW x \in Sides PROVE Cardinality(Hold(x)') \in Nat /\ Cardinality(Hold(x)') <= Cardinality(Hold(x))
  <2>1. Hold(x) \in SUBSET Qps /\ Hold(x)' \in SUBSET Hold(x)
    BY SetsNext DEF Hold
  <2>2. IsFiniteSet(Hold(x))
    BY <2>1, QpSet DEF Types
  <2> QED
    BY <2>1, <2>2, FS_Subset, FS_CardinalityType
<1>3. ASSUME NEW x \in Sides PROVE SendOut(x)'
  <2>1. /\ \A r \in Qps : /\ sq[x][r] > 0 => "send" \in pending'[x][r]
                          /\ Reliable => net[x][r] = 0
    BY DEF Counts, SendOut
  <2>2. ASSUME Running(x)'
        PROVE  /\ \A r \in Qps : One("send" \in pending'[x][r]) = sq[x][r] + unacked[x][r] + OwnOn(x, r)'
               /\ Cardinality(OnQp(x)') + AllOwn(x)' = Cardinality(SendPending(x)')
    <3>1. Running(x) /\ SeenSame(x)
      BY <2>2 DEF SeenLess
    <3> QED
      BY <1>1, <3>1 DEF Counts, SendOut, SeenSame
  <2> QED
    BY <1>0, <2>1, <2>2 DEF SendOut
<1>4. ASSUME NEW x \in Sides PROVE Delivered(x)'
  <2>1. Peer(x) \in Sides
    BY BothSides
  <2>2. Posted(Peer(x))' = Posted(Peer(x)) /\ Posted(Peer(x)) \in Nat
    BY <1>1, <2>1, Numbers
  <2>3. rcnt[x] + AllReceived(x) + Cardinality(Coming(x)) <= Posted(Peer(x))
    BY DEF Counts, Delivered
  <2>4. /\ AllReceived(x)' \in Nat /\ AllReceived(x)' <= AllReceived(x) /\ AllReceived(x) \in Nat
        /\ rcnt[x] \in Nat /\ Cardinality(Coming(x)) \in Nat
    BY Numbers DEF SeenLess
  <2>5. rcnt'[x] + AllReceived(x)' + Cardinality(Coming(x)') <= Posted(Peer(x))'
    BY <1>1, <2>2, <2>3, <2>4
  <2>6. ASSUME Reliable', Running(x)'
        PROVE  rcnt'[x] + AllReceived(x)' + Cardinality(Coming(x)') = Posted(Peer(x))'
    BY <1>0, <1>1, <2>2, <2>6 DEF Counts, Delivered, SeenLess, SeenSame
  <2> QED
    BY <2>5, <2>6 DEF Delivered
<1>5. ASSUME NEW x \in Sides PROVE Answers(x)' /\ Bound(x)'
  <2>1. /\ Posted(x) \in Nat /\ Cardinality(Hold(x)) \in Nat /\ rcnt[x] \in Nat /\ NumQp \in Nat
    BY Numbers, Arguments DEF Types
  <2> QED
    BY <1>0, <1>1, <1>2, <2>1 DEF Counts, Answers, Bound
<1>6. ASSUME NEW r \in Qps PROVE Token(r)'
  <2>1. \A x \in {"client", "server"} :
           /\ Received(x, r)' \in Nat /\ Received(x, r)' <= Received(x, r) /\ Received(x, r) \in Nat
           /\ sq[x][r] \in Nat /\ net[x][r] \in Nat
           /\ r \in Hold(x)' => r \in Hold(x)
    BY QpNumbers DEF SeenLess, Sides
  <2>2. Token(r)
    BY DEF Counts
  <2> QED
    BY <2>1, <2>2 DEF Token
<1> QED
  BY <1>0, <1>3, <1>4, <1>5, <1>6 DEF Counts

-----------------------------------------------------------------------------
(***************************************************************************)
(* main goes on, or ends.                                                  *)
(***************************************************************************)
Places3 == Before \cup InLoop \cup Closes \cup Ended

\* main of side s goes on to another place, past "start", and with events not from "poll".
LEMMA MainMoves ==
    ASSUME PInv, args' = args, faults' = faults, NEW s \in Sides, NEW to \in Places3,
           UNCHANGED <<nicVars, loopVars>>,
           tcp' \in [Sides -> Seq({"addr", "split", "done"})],
           pc' = [pc EXCEPT ![s] = to],
           qp' \in [Sides -> {"init", "rts", "destroyed"}],
           \A x \in Sides : x # s => qp'[x] = qp[x],
           Stage(s)', ServerFirst', Done(s)',
           to \notin Ended =>
               /\ Running(s) /\ pc[s] # "start" /\ to # "start"
               /\ pc[s] # "poll" \/ ~UseEvent
               /\ (pc[s] \in Before <=> to \in Before)
    PROVE  PInv'
<1>0. UNCHANGED <<recvs, sq, net, unacked, cq, armed, events, wc, routs, pending, scnt, rcnt>>
  BY DEF nicVars, loopVars
<1>1. /\ NumQp' = NumQp /\ Iters' = Iters /\ RxDepth' = RxDepth /\ UseEvent' = UseEvent
      /\ Program' = Program /\ Qps' = Qps /\ (Reliable <=> Reliable')
      /\ Completions' = Completions
  BY SameArguments
<1>2. Types /\ Counts /\ ServerFirst /\ \A x \in Sides : Stage(x) /\ Wakeup(x)
  BY DEF PInv
<1>3. pc' \in [Sides -> Places3] /\ pc'[s] = to /\ \A x \in Sides : x # s => pc'[x] = pc[x]
  BY <1>2 DEF Types, Places3
<1>4. Types'
  BY <1>0, <1>1, <1>2, <1>3 DEF Types, Places3
<1>5. ASSUME NEW x \in Sides PROVE SeenLess(x)
  BY <1>0, <1>2, Unlooked, SameSeenLess
<1>6. ASSUME NEW x \in Sides
      PROVE  /\ Running(x)' => Running(x)
             /\ \A r \in Qps : r \in Hold(x)' => r \in Hold(x)
  <2>1. CASE x = s
    <3>1. to \in InLoop \cup Closes => pc[s] \in InLoop \cup Closes
      BY <1>2 DEF Running, InLoop, Closes, Before, Ended, Types
    <3> QED
      BY <1>0, <1>3, <2>1, <3>1, SetsNext DEF Hold, Running
  <2>2. CASE x # s
    BY <1>0, <1>3, <2>2, SameSets DEF Running
  <2> QED
    BY <2>1, <2>2
<1>7. ASSUME NEW x \in Sides PROVE Receives(x)'
  <2>1. AllReceived(x)' = AllReceived(x)
    BY <1>0, Unlooked DEF SeenSame
  <2>2. Receives(x)
    BY <1>2 DEF Counts
  <2>3. CASE x = s
    BY <1>0, <1>1, <1>3, <2>1, <2>2, <2>3 DEF Receives, Running
  <2>4. CASE x # s
    BY <1>0, <1>1, <1>3, <2>1, <2>2, <2>4 DEF Receives, Running
  <2> QED
    BY <2>3, <2>4
<1>8. ASSUME NEW x \in Sides PROVE Done(x)'
  <2>1. Done(x)
    BY <1>2 DEF Counts
  <2> QED
    BY <1>0, <1>1, <1>3, <2>1 DEF Done
<1>9. Counts'
  BY <1>0, <1>2, <1>5, <1>6, <1>7, <1>8, Still
<1>10. ASSUME NEW x \in Sides, x # s PROVE Stage(x)' /\ Wakeup(x)'
  <2>1. Stage(x) /\ Wakeup(x) /\ pc'[x] = pc[x] /\ qp'[x] = qp[x]
    BY <1>2, <1>3, <1>10
  <2> QED
    BY <1>0, <1>1, <2>1 DEF Stage, Wakeup, Running
<1>11. Wakeup(s)'
  BY <1>0, <1>1, <1>2, <1>3 DEF Wakeup, Running
<1> QED
  BY <1>2, <1>4, <1>9, <1>10, <1>11 DEF PInv

\* A process ends.
LEMMA ExitKeeps ==
    ASSUME PInv, args' = args, faults' = faults, NEW s \in Sides,
           NEW how \in {"ok", "failed", "stuck", "killed"},
           Exit(s, how), UNCHANGED <<tcp, nicVars, loopVars>>,
           how = "ok" => pc[s] # "start" /\ rcnt[s] >= Iters /\ scnt[s] >= Iters
    PROVE  PInv'
<1> DEFINE to == IF pc[s] = "start" THEN "absent" ELSE how
<1>0. Types /\ Stage(s) /\ ServerFirst /\ Iters' = Iters
  BY SameArguments DEF PInv
<1>1. /\ pc' = [pc EXCEPT ![s] = to] /\ qp' = [qp EXCEPT ![s] = "destroyed"]
      /\ to \in Ended /\ to \in Places3
  BY DEF Exit, Ended, Places3
<1>2. /\ tcp' = tcp /\ wc' = wc /\ pending' = pending /\ scnt' = scnt /\ rcnt' = rcnt /\ cq' = cq
  BY DEF nicVars, loopVars
<1>3. /\ qp' \in [Sides -> {"init", "rts", "destroyed"}] /\ qp'[s] = "destroyed"
      /\ \A x \in Sides : x # s => qp'[x] = qp[x] /\ pc'[x] = pc[x]
      /\ pc'[s] = to
  BY <1>0, <1>1 DEF Types
<1>4. Stage(s)'
  BY <1>1, <1>3 DEF Stage, Ended, Before, Closes
<1>5. Done(s)'
  BY <1>0, <1>1, <1>2, <1>3 DEF Done
<1>6. ServerFirst'
  <2>1. Qps' = Qps
    BY SameArguments
  <2> QED
    BY <1>0, <1>1, <1>2, <1>3, <2>1 DEF ServerFirst, Sides
<1>7. tcp' \in [Sides -> Seq({"addr", "split", "done"})]
  BY <1>0, <1>2 DEF Types
<1> HIDE DEF to
<1> QED
  BY <1>1, <1>3, <1>4, <1>5, <1>6, <1>7, MainMoves

LEMMA TcpMessages ==
    LET T == Seq({"addr", "split", "done"})
    IN  <<>> \in T /\ <<"addr">> \in T /\ <<"split">> \in T /\ <<"done">> \in T
OBVIOUS

LEMMA ServerConnectKeeps ==
    ASSUME PInv, args' = args, faults' = faults, ServerConnect
    PROVE  PInv'
<1> DEFINE s == "server"
<1>0. Types /\ Stage(s) /\ s \in Sides
  BY DEF PInv, Sides
<1>1. /\ pc[s] = "wait_addr" /\ pc' = [pc EXCEPT ![s] = "wait_done"]
      /\ qp' = [qp EXCEPT ![s] = "rts"]
      /\ UNCHANGED <<nicVars, loopVars>>
      /\ \E a \in {"addr", "split"} : tcp' = [tcp EXCEPT ![s] = <<>>, !["client"] = <<a>>]
  BY DEF ServerConnect, Address
<1>2. tcp' \in [Sides -> Seq({"addr", "split", "done"})]
  <2>1. tcp \in [Sides -> Seq({"addr", "split", "done"})]
    BY <1>0 DEF Types
  <2> QED
    BY <1>0, <1>1, <2>1, TcpMessages
<1>3. /\ qp' \in [Sides -> {"init", "rts", "destroyed"}] /\ qp'[s] = "rts"
      /\ \A x \in Sides : x # s => qp'[x] = qp[x]
      /\ pc'[s] = "wait_done"
  BY <1>0, <1>1 DEF Types
<1>4. Stage(s)'
  <2>1. UNCHANGED <<pending, scnt, rcnt, wc, cq>> /\ Qps' = Qps
    BY <1>1, SameArguments DEF nicVars, loopVars
  <2> QED
    BY <1>0, <1>1, <1>3, <2>1 DEF Stage, Ended, Before, Closes
<1>5. Done(s)' /\ ServerFirst'
  BY <1>3 DEF Done, ServerFirst
<1>6. "wait_done" \in Places3 /\ "wait_done" \notin Ended /\ Running(s)
      /\ pc[s] \in Before /\ "wait_done" \in Before
  BY <1>1 DEF Places3, Ended, Running, Before
<1> QED
  BY <1>0, <1>1, <1>2, <1>3, <1>4, <1>5, <1>6, MainMoves

LEMMA ClientReadsKeeps ==
    ASSUME PInv, args' = args, faults' = faults, ClientReadAddress \/ ReadReset
    PROVE  PInv'
<1> DEFINE s == "client"
<1>0. Types /\ Stage(s) /\ Stage("server") /\ ServerFirst /\ s \in Sides /\ "server" \in Sides
      /\ Peer(s) = "server"
  BY DEF PInv, Sides, Peer
<1>1. /\ pc[s] = "wait_addr" /\ pc' = [pc EXCEPT ![s] = "connect"] /\ qp' = qp
      /\ UNCHANGED <<nicVars, loopVars>>
      /\ tcp' = tcp \/ tcp' = [tcp EXCEPT ![s] = <<>>, !["server"] = <<"done">>]
  BY DEF ClientReadAddress, ReadReset
<1>2. tcp' \in [Sides -> Seq({"addr", "split", "done"})]
  <2>1. tcp \in [Sides -> Seq({"addr", "split", "done"})]
    BY <1>0 DEF Types
  <2> QED
    BY <1>0, <1>1, <2>1, TcpMessages
<1>3. /\ qp' \in [Sides -> {"init", "rts", "destroyed"}] /\ pc'[s] = "connect"
      /\ \A x \in Sides : x # s => qp'[x] = qp[x]
  BY <1>0, <1>1 DEF Types
<1>4. Stage(s)'
  <2>1. UNCHANGED <<pending, scnt, rcnt, wc, cq>> /\ Qps' = Qps
    BY <1>1, SameArguments DEF nicVars, loopVars
  <2> QED
    BY <1>0, <1>1, <1>3, <2>1 DEF Stage, Ended, Before, Closes
<1>5. qp["server"] # "init"
  <2>1. CASE ClientReadAddress
    <3>1. tcp[s] # <<>>
      BY <2>1 DEF ClientReadAddress, ReadsAddress
    <3> QED
      BY <1>0, <3>1 DEF ServerFirst
  <2>2. CASE ReadReset
    <3>1. pc["server"] \in Ended
      BY <1>0, <2>2 DEF ReadReset, PeerGone
    <3> QED
      BY <1>0, <3>1 DEF Stage
  <2> QED
    BY <2>1, <2>2
<1>6. Done(s)' /\ ServerFirst'
  BY <1>1, <1>3, <1>5 DEF Done, ServerFirst
<1>7. "connect" \in Places3 /\ "connect" \notin Ended /\ Running(s)
      /\ pc[s] \in Before /\ "connect" \in Before
  BY <1>1 DEF Places3, Ended, Running, Before
<1> QED
  BY <1>0, <1>1, <1>2, <1>3, <1>4, <1>6, <1>7, MainMoves

\* A work request of the side's own comes first.
LEMMA OwnWorkKeeps ==
    ASSUME PInv, args' = args, faults' = faults, NEW s \in Sides, HasOwnWork(s),
           \/ ClientConnect /\ s = "client"
           \/ ServerReady /\ s = "server"
    PROVE  PInv'
<1>0. Types /\ Stage(s) /\ ServerFirst
  BY DEF PInv
<1>1. /\ pc[s] = (IF s = "client" THEN "connect" ELSE "wait_done")
      /\ pc' = [pc EXCEPT ![s] = "own"]
      /\ UNCHANGED <<nicVars, loopVars>>
      /\ IF s = "client" THEN tcp' = tcp /\ qp' = [qp EXCEPT ![s] = "rts"]
                         ELSE tcp' = [tcp EXCEPT ![s] = <<>>] /\ qp' = qp
  BY DEF ClientConnect, ServerReady, EnterOwnWork, nicVars, loopVars, Sides
<1>2. tcp' \in [Sides -> Seq({"addr", "split", "done"})]
  <2>1. tcp \in [Sides -> Seq({"addr", "split", "done"})]
    BY <1>0 DEF Types
  <2> QED
    BY <1>0, <1>1, <2>1, TcpMessages
<1>3. /\ qp' \in [Sides -> {"init", "rts", "destroyed"}] /\ pc'[s] = "own"
      /\ \A x \in Sides : x # s => qp'[x] = qp[x]
  BY <1>0, <1>1 DEF Types
<1>4. qp[s] \in {"init", "rts", "destroyed"} /\ qp'[s] = "rts"
  BY <1>0, <1>1 DEF Stage, Ended, Types
<1>5. Stage(s)'
  <2>1. UNCHANGED <<pending, scnt, rcnt, wc, cq>> /\ Qps' = Qps /\ Program' = Program
    BY <1>1, SameArguments DEF nicVars, loopVars
  <2>2. Program = "UMR" \/ s = "client"
    BY DEF HasOwnWork
  <2> QED
    BY <1>0, <1>1, <1>3, <1>4, <2>1, <2>2 DEF Stage, Ended, Before, Closes
<1>6. Done(s)' /\ ServerFirst'
  <2>1. qp["server"] # "init" => qp'["server"] # "init"
    BY <1>0, <1>3, <1>4 DEF Types, Sides
  <2>2. s = "client" => qp["server"] # "init"
    BY <1>0, <1>1 DEF ServerFirst, Ended
  <2>3. s = "server" => qp'["server"] # "init"
    BY <1>4
  <2> QED
    BY <1>3, <2>1, <2>2, <2>3 DEF Done, ServerFirst, Sides
<1>7. "own" \in Places3 /\ "own" \notin Ended /\ Running(s) /\ pc[s] # "start" /\ pc[s] # "poll"
      /\ pc[s] \in Before /\ "own" \in Before
  BY <1>1 DEF Places3, Ended, Running, Before
<1> QED
  BY <1>1, <1>2, <1>3, <1>5, <1>6, <1>7, MainMoves

\* pp_close_ctx, or the invalidation of the memory key before it.
LEMMA CloseKeeps ==
    ASSUME PInv, args' = args, faults' = faults, NEW s \in Sides, NEW how \in {"ok", "failed", "stuck"},
           pc[s] \in InLoop, pc[s] # "poll" \/ ~UseEvent,
           Close(s, how), UNCHANGED <<tcp, nicVars, loopVars>>,
           how = "ok" => rcnt[s] >= Iters /\ scnt[s] >= Iters
    PROVE  PInv'
<1>0. Types /\ Stage(s) /\ ServerFirst /\ Iters' = Iters /\ pc[s] # "start" /\ Program' = Program
  BY SameArguments DEF PInv, InLoop
<1>1. CASE Program = "UMR"
  <2> DEFINE to == Closing[how]
  <2>1. /\ pc' = [pc EXCEPT ![s] = to] /\ qp' = qp
        /\ to \in Closes /\ (to = "close_ok" => how = "ok")
    BY <1>1 DEF Close, Closing, Closes
  <2>2. /\ tcp' = tcp /\ wc' = wc /\ pending' = pending /\ scnt' = scnt /\ rcnt' = rcnt /\ cq' = cq
    BY DEF nicVars, loopVars
  <2>3. /\ qp' \in [Sides -> {"init", "rts", "destroyed"}] /\ pc'[s] = to
    BY <1>0, <2>1 DEF Types
  <2> HIDE DEF to
  <2>4. Stage(s)'
    BY <1>0, <1>1, <2>1, <2>2, <2>3 DEF Stage, Ended, Before, Closes, InLoop
  <2>5. Done(s)'
    BY <1>0, <2>1, <2>2, <2>3 DEF Done, Closes
  <2>6. ServerFirst'
    <3>1. Qps' = Qps
      BY SameArguments
    <3>2. s = "client" => qp["server"] # "init"
      BY <1>0 DEF ServerFirst, Ended, InLoop
    <3>3. s = "server" => qp["server"] # "init"
      BY <1>0 DEF Stage, InLoop
    <3> QED
      BY <2>1, <3>2, <3>3 DEF ServerFirst, Sides
  <2>7. tcp' \in [Sides -> Seq({"addr", "split", "done"})]
    BY <1>0, <2>2 DEF Types
  <2>8. /\ to \in Places3 /\ to # "start" /\ Running(s) /\ pc[s] \notin Before /\ to \notin Before
        /\ UNCHANGED <<nicVars, loopVars>>
    BY <2>1 DEF Places3, InLoop, Closes, Before, Ended, Running
  <2> QED
    BY <1>0, <2>1, <2>3, <2>4, <2>5, <2>6, <2>7, <2>8, MainMoves
<1>2. CASE Program # "UMR"
  <2>1. Exit(s, how)
    BY <1>2 DEF Close
  <2> QED
    BY <1>0, <2>1, ExitKeeps
<1> QED
  BY <1>1, <1>2

LEMMA EndingsKeep ==
    ASSUME PInv, args' = args, faults' = faults, NEW s \in Sides,
           Finish(s) \/ CompletionFails(s) \/ ExchangeFails(s) \/ Kill(s)
    PROVE  PInv'
<1>0. Types /\ rcnt[s] \in Nat /\ scnt[s] \in Nat /\ Iters \in Nat /\ UseEvent \in BOOLEAN
  BY Arguments DEF PInv, Types
<1>1. CASE Finish(s)
  <2>1. /\ pc[s] \in InLoop /\ (pc[s] # "poll" \/ ~UseEvent)
        /\ Close(s, "ok") /\ UNCHANGED <<tcp, nicVars, loopVars>>
    BY <1>1 DEF Finish, Loop, InLoop
  <2>2. rcnt[s] >= Iters /\ scnt[s] >= Iters
    BY <1>0, <1>1 DEF Finish, More
  <2> QED
    BY <2>1, <2>2, CloseKeeps
<1>2. CASE CompletionFails(s)
  <2>1. /\ pc[s] \in InLoop /\ pc[s] # "poll"
        /\ Close(s, "stuck") \/ Close(s, "failed")
        /\ UNCHANGED <<tcp, nicVars, loopVars>>
    BY <1>2 DEF CompletionFails, InLoop
  <2> QED
    BY <2>1, CloseKeeps
<1>3. CASE ExchangeFails(s)
  <2>1. Exit(s, "failed") /\ UNCHANGED <<tcp, nicVars, loopVars>>
    BY <1>3 DEF ExchangeFails
  <2> QED
    BY <2>1, ExitKeeps
<1>4. CASE Kill(s)
  <2>1. Exit(s, "killed") /\ UNCHANGED <<tcp, nicVars, loopVars>>
    BY <1>4 DEF Kill
  <2> QED
    BY <2>1, ExitKeeps
<1> QED
  BY <1>1, <1>2, <1>3, <1>4

LEMMA NextRoundKeeps ==
    ASSUME PInv, args' = args, faults' = faults, NEW s \in Sides, NextRound(s)
    PROVE  PInv'
<1>0. Types /\ Stage(s) /\ ServerFirst /\ Done(s) /\ UseEvent' = UseEvent
  BY SameArguments DEF PInv, Counts
<1>1. /\ pc[s] = "handle" /\ wc[s] = <<>> /\ pc' = [pc EXCEPT ![s] = Loop] /\ qp' = qp
      /\ UNCHANGED <<tcp, nicVars, loopVars>>
  BY DEF NextRound
<1>2. Loop \in {"event", "poll"} /\ (Loop = "event" => UseEvent)
  BY DEF Loop
<1>3. /\ qp' \in [Sides -> {"init", "rts", "destroyed"}] /\ pc'[s] = Loop
      /\ tcp' \in [Sides -> Seq({"addr", "split", "done"})]
  BY <1>0, <1>1 DEF Types
<1>4. Stage(s)'
  <2>1. UNCHANGED <<pending, scnt, rcnt, wc, cq>> /\ Qps' = Qps
    BY <1>1, SameArguments DEF nicVars, loopVars
  <2> QED
    BY <1>0, <1>1, <1>2, <1>3, <2>1 DEF Stage, Ended, Before, Closes
<1>5. qp["server"] # "init"
  BY <1>0, <1>1 DEF ServerFirst, Stage, Ended, Sides
<1>6. Done(s)' /\ ServerFirst'
  BY <1>1, <1>2, <1>3, <1>5 DEF Done, ServerFirst
<1>7. Loop \in Places3 /\ Loop \notin Ended /\ Running(s) /\ pc[s] \notin Before /\ Loop \notin Before
      /\ Loop # "start"
  BY <1>1, <1>2 DEF Places3, Ended, Running, Before, InLoop
<1> QED
  BY <1>1, <1>3, <1>4, <1>6, <1>7, MainMoves

-----------------------------------------------------------------------------
(***************************************************************************)
(* Waiting for an event, and polling.                                      *)
(***************************************************************************)
LEMMA OtherSide ==
    ASSUME args' = args, NEW x, Stage(x), Wakeup(x),
           pc'[x] = pc[x], qp'[x] = qp[x], cq'[x] = cq[x], armed'[x] = armed[x],
           events'[x] = events[x], pending'[x] = pending[x], scnt'[x] = scnt[x],
           rcnt'[x] = rcnt[x], wc'[x] = wc[x]
    PROVE  Stage(x)' /\ Wakeup(x)'
<1>1. UseEvent' = UseEvent /\ Qps' = Qps /\ Program' = Program
  BY SameArguments
<1> QED
  BY <1>1 DEF Stage, Wakeup, Running

LEMMA ServerFirstStays ==
    ASSUME args' = args, ServerFirst, tcp' = tcp, qp'["server"] = qp["server"],
           pending' = pending, scnt' = scnt,
           pc'["client"] = pc["client"] \/ pc["client"] \notin {"start", "wait_addr"} \cup Ended
    PROVE  ServerFirst'
<1>1. Qps' = Qps
  BY SameArguments
<1> QED
  BY <1>1 DEF ServerFirst

LEMMA GetEventKeeps ==
    ASSUME PInv, args' = args, faults' = faults, NEW s \in Sides, GetEvent(s)
    PROVE  PInv'
<1>0. /\ Types /\ Counts /\ ServerFirst /\ Stage(s) /\ Wakeup(s) /\ Receives(s) /\ Done(s)
      /\ \A x \in Sides : Stage(x) /\ Wakeup(x) /\ Receives(x) /\ Done(x)
  BY DEF PInv, Counts
<1>1. /\ pc[s] = "event" /\ pc' = [pc EXCEPT ![s] = "poll"]
      /\ events[s] > 0 /\ events' = [events EXCEPT ![s] = events[s] - 1]
      /\ armed' = [armed EXCEPT ![s] = TRUE]
      /\ UNCHANGED <<tcp, qp, recvs, sq, net, unacked, cq, wc, routs, pending, scnt, rcnt>>
  BY DEF GetEvent, loopVars
<1>2. /\ NumQp' = NumQp /\ Iters' = Iters /\ RxDepth' = RxDepth /\ UseEvent' = UseEvent
      /\ Program' = Program /\ Qps' = Qps /\ (Reliable <=> Reliable')
      /\ Completions' = Completions
  BY SameArguments
<1>3. /\ pc'[s] = "poll" /\ armed'[s] = TRUE
      /\ \A x \in Sides : x # s => pc'[x] = pc[x] /\ armed'[x] = armed[x] /\ events'[x] = events[x]
  BY <1>0, <1>1 DEF Types
<1>4. Types'
  <2>1. events[s] - 1 \in Nat
    BY <1>0, <1>1 DEF Types
  <2>2. pc' \in [Sides -> Before \cup InLoop \cup Closes \cup Ended] /\ armed' \in [Sides -> BOOLEAN]
        /\ events' \in [Sides -> Nat]
    BY <1>0, <1>1, <2>1 DEF Types, InLoop
  <2> QED
    BY <1>0, <1>1, <1>2, <2>2 DEF Types
<1>5. ASSUME NEW x \in Sides
      PROVE  /\ Running(x)' => Running(x)
             /\ \A r \in Qps : r \in Hold(x)' => r \in Hold(x)
             /\ SeenLess(x) /\ Receives(x)' /\ Done(x)'
  <2>1. SeenSame(x) /\ SeenLess(x)
    BY <1>0, <1>1, Unlooked, SameSeenLess
  <2>2. CASE x # s
    <3>1. pc'[x] = pc[x]
      BY <1>3, <2>2
    <3> QED
      BY <1>0, <1>1, <1>2, <2>1, <3>1, SameSets DEF Running, Receives, Done, SeenSame
  <2>3. CASE x = s
    <3>1. Running(x) /\ (\A r \in Qps : r \in Hold(x)' => r \in Hold(x)) /\ Done(x)'
      BY <1>1, <1>3, <2>3, SetsNext DEF Running, Ended, Hold, InLoop, Done
    <3>2. Receives(x)'
      BY <1>0, <1>1, <1>2, <1>3, <2>1, <2>3, <3>1 DEF Receives, SeenSame, Before
    <3> QED
      BY <2>1, <3>1, <3>2
  <2> QED
    BY <2>2, <2>3
<1>6. Counts'
  BY <1>0, <1>1, <1>5, Still
<1>7. ServerFirst'
  BY <1>0, <1>1, <1>3, ServerFirstStays DEF Ended, Sides
<1>8. Stage(s)' /\ Wakeup(s)'
  BY <1>0, <1>1, <1>2, <1>3 DEF Stage, Wakeup, Ended, Before, Closes
<1>9. ASSUME NEW x \in Sides, x # s PROVE Stage(x)' /\ Wakeup(x)'
  BY <1>0, <1>1, <1>3, <1>9, OtherSide
<1> QED
  BY <1>4, <1>6, <1>7, <1>8, <1>9 DEF PInv

\* ibv_poll_cq takes all there is: nothing waits without an event.
LEMMA PollCqKeeps ==
    ASSUME PInv, args' = args, faults' = faults, NEW s \in Sides, PollCq(s)
    PROVE  PInv'
<1>0. /\ Types /\ Counts /\ ServerFirst /\ Stage(s) /\ Wakeup(s) /\ Receives(s) /\ Done(s)
      /\ \A x \in Sides : Stage(x) /\ Wakeup(x) /\ Receives(x) /\ Done(x)
  BY DEF PInv, Counts
<1> DEFINE n == IF Len(cq[s]) < Batch THEN Len(cq[s]) ELSE Batch
<1>1. /\ pc[s] = "poll" /\ pc' = [pc EXCEPT ![s] = "handle"]
      /\ wc' = [wc EXCEPT ![s] = SubSeq(cq[s], 1, n)]
      /\ cq' = [cq EXCEPT ![s] = SubSeq(cq[s], n + 1, Len(cq[s]))]
      /\ UNCHANGED <<tcp, qp, recvs, sq, net, unacked, armed, events, routs, pending, scnt, rcnt>>
  BY DEF PollCq
<1>2. /\ NumQp' = NumQp /\ Iters' = Iters /\ RxDepth' = RxDepth /\ UseEvent' = UseEvent
      /\ Program' = Program /\ Qps' = Qps /\ (Reliable <=> Reliable')
      /\ Completions' = Completions
  BY SameArguments
<1>3. Running(s) /\ wc[s] = <<>>
  BY <1>0, <1>1 DEF Running, Ended, Stage
<1>4. cq[s] \in Seq(Completions) /\ Len(cq[s]) \in Nat /\ Len(cq[s]) <= Batch /\ Batch \in Nat
  BY <1>0, <1>3, QueueHolds DEF Types
<1>5. n = Len(cq[s]) /\ n \in 0 .. Len(cq[s])
  BY <1>4
<1> HIDE DEF n
<1>6. /\ SubSeq(cq[s], 1, n) \in Seq(Completions) /\ SubSeq(cq[s], n + 1, Len(cq[s])) = <<>>
      /\ <<>> \in Seq(Completions)
  BY <1>4, <1>5, SubSeqEmpty
<1>7. /\ pc'[s] = "handle" /\ wc'[s] = SubSeq(cq[s], 1, n) /\ cq'[s] = <<>>
      /\ \A x \in Sides : x # s => pc'[x] = pc[x] /\ wc'[x] = wc[x] /\ cq'[x] = cq[x]
  BY <1>0, <1>1, <1>6 DEF Types
<1>8. Types'
  <2>1. pc' \in [Sides -> Before \cup InLoop \cup Closes \cup Ended]
    BY <1>0, <1>1 DEF Types, InLoop
  <2>2. wc' \in [Sides -> Seq(Completions)] /\ cq' \in [Sides -> Seq(Completions)]
    BY <1>0, <1>1, <1>6 DEF Types
  <2> QED
    BY <1>0, <1>1, <1>2, <2>1, <2>2 DEF Types
<1>9. SeenSame(s)
  <2>1. ASSUME NEW S PROVE Count(cq'[s], S) + Count(wc'[s], S) = Count(cq[s], S) + Count(wc[s], S)
    <3>1. Count(SubSeq(cq[s], 1, n), S) + Count(SubSeq(cq[s], n + 1, Len(cq[s])), S) = Count(cq[s], S)
      BY <1>4, <1>5, CountSplit
    <3>2. Count(<<>>, S) = 0
      BY CountEmpty
    <3>3. Count(SubSeq(cq[s], n + 1, Len(cq[s])), S) = 0 /\ Count(wc[s], S) = 0 /\ Count(cq'[s], S) = 0
      BY <1>3, <1>6, <1>7, <3>2, Zenon
    <3>4. Count(wc'[s], S) = Count(SubSeq(cq[s], 1, n), S)
      BY <1>7, Zenon
    <3>5. Count(SubSeq(cq[s], 1, n), S) \in Nat /\ Count(cq[s], S) \in Nat
      BY <1>4, <1>6, CountType
    <3> QED
      BY <3>1, <3>3, <3>4, <3>5
  <2>2. AllReceived(s)' = AllReceived(s) /\ AllOwn(s)' = AllOwn(s)
    BY <2>1, Unseens, UnseensNext
  <2>3. ASSUME NEW r \in Qps
        PROVE  Received(s, r)' = Received(s, r) /\ OwnOn(s, r)' = OwnOn(s, r)
    <3> DEFINE R == {"recv"} \X {r}
    <3> DEFINE O == {"send", "error"} \X {r}
    <3>1. /\ Received(s, r) = Count(cq[s], R) + Count(wc[s], R)
          /\ OwnOn(s, r) = Count(cq[s], O) + Count(wc[s], O)
      BY Unseens
    <3>2. /\ Received(s, r)' = Count(cq'[s], R) + Count(wc'[s], R)
          /\ OwnOn(s, r)' = Count(cq'[s], O) + Count(wc'[s], O)
      BY UnseensNext
    <3> HIDE DEF R, O
    <3> QED
      BY <2>1, <3>1, <3>2
  <2> QED
    BY <2>2, <2>3 DEF SeenSame
<1>10. ASSUME NEW x \in Sides
       PROVE  /\ Running(x)' => Running(x)
              /\ \A r \in Qps : r \in Hold(x)' => r \in Hold(x)
              /\ SeenLess(x) /\ Receives(x)' /\ Done(x)'
  <2>1. SeenSame(x) /\ SeenLess(x)
    BY <1>0, <1>7, <1>9, Unlooked, SameSeenLess
  <2>2. CASE x # s
    <3>1. pc'[x] = pc[x]
      BY <1>7, <2>2
    <3> QED
      BY <1>0, <1>1, <1>2, <2>1, <3>1, SameSets DEF Running, Receives, Done, SeenSame
  <2>3. CASE x = s
    <3>1. Running(x) /\ (\A r \in Qps : r \in Hold(x)' => r \in Hold(x)) /\ Done(x)'
      BY <1>1, <1>7, <2>3, SetsNext DEF Running, Ended, Hold, InLoop, Done
    <3>2. Receives(x)'
      BY <1>0, <1>1, <1>2, <1>7, <2>1, <2>3, <3>1 DEF Receives, SeenSame, Before
    <3> QED
      BY <2>1, <3>1, <3>2
  <2> QED
    BY <2>2, <2>3
<1>11. Counts'
  BY <1>0, <1>1, <1>10, Still
<1>12. ServerFirst'
  BY <1>0, <1>1, <1>7, ServerFirstStays DEF Ended, Sides
<1>13. Stage(s)' /\ Wakeup(s)'
  BY <1>0, <1>1, <1>2, <1>3, <1>7 DEF Stage, Wakeup, Ended, Before, Closes
<1>14. ASSUME NEW x \in Sides, x # s PROVE Stage(x)' /\ Wakeup(x)'
  BY <1>0, <1>1, <1>7, <1>14, OtherSide
<1> QED
  BY <1>8, <1>11, <1>12, <1>13, <1>14 DEF PInv

\* invalidate_umr takes a completion that may be another's, of a side that ends.
LEMMA InvalidateUmrKeeps ==
    ASSUME PInv, args' = args, faults' = faults, NEW s \in Sides, InvalidateUmr(s)
    PROVE  PInv'
<1>0. /\ Types /\ Counts /\ ServerFirst /\ Stage(s) /\ Wakeup(s) /\ Receives(s) /\ Done(s)
      /\ \A x \in Sides : Stage(x) /\ Wakeup(x) /\ Receives(x) /\ Done(x)
  BY DEF PInv, Counts
<1> DEFINE rest == IF cq[s] = <<>> THEN cq[s] ELSE Tail(cq[s])
<1>1. PICK how \in {"ok", "failed", "stuck"} : pc[s] = Closing[how] /\ Exit(s, how)
  BY DEF InvalidateUmr
<1>2. /\ cq' = [cq EXCEPT ![s] = rest]
      /\ UNCHANGED <<tcp, recvs, sq, net, unacked, armed, events, wc, routs, pending, scnt, rcnt>>
  BY DEF InvalidateUmr, loopVars
<1>3. pc[s] \in Closes /\ (how = "ok" <=> pc[s] = "close_ok")
  BY <1>1 DEF Closing, Closes
<1>4. pc' = [pc EXCEPT ![s] = how] /\ qp' = [qp EXCEPT ![s] = "destroyed"] /\ how \in Ended
  BY <1>1, <1>3 DEF Exit, Closes, Ended
<1>5. /\ NumQp' = NumQp /\ Iters' = Iters /\ RxDepth' = RxDepth /\ UseEvent' = UseEvent
      /\ Program' = Program /\ Qps' = Qps /\ (Reliable <=> Reliable')
      /\ Completions' = Completions
  BY SameArguments
<1>6. rest \in Seq(Completions) /\ \A S : Count(rest, S) \in Nat /\ Count(rest, S) <= Count(cq[s], S)
  <2>1. cq[s] \in Seq(Completions)
    BY <1>0 DEF Types
  <2>2. CASE cq[s] = <<>>
    <3>1. rest = cq[s]
      BY <2>2
    <3>2. \A S : Count(cq[s], S) \in Nat /\ Count(cq[s], S) <= Count(cq[s], S)
      BY <2>1, CountType
    <3> HIDE DEF rest
    <3> QED
      BY <2>1, <3>1, <3>2
  <2>3. CASE cq[s] # <<>>
    <3>1. Tail(cq[s]) \in Seq(Completions) /\ \A S : Count(cq[s], S) = Count(Tail(cq[s]), S) + One(Head(cq[s]) \in S)
      BY <2>1, <2>3, CountTail
    <3>2. \A S : Count(Tail(cq[s]), S) \in Nat /\ One(Head(cq[s]) \in S) \in Nat
      BY <3>1, CountType DEF One
    <3> QED
      BY <2>3, <3>1, <3>2
  <2> QED
    BY <2>2, <2>3
<1> HIDE DEF rest
<1>7. /\ pc'[s] = how /\ qp'[s] = "destroyed" /\ cq'[s] = rest
      /\ \A x \in Sides : x # s => pc'[x] = pc[x] /\ qp'[x] = qp[x] /\ cq'[x] = cq[x]
  BY <1>0, <1>2, <1>4 DEF Types
<1>8. Types'
  <2>1. /\ pc' \in [Sides -> Before \cup InLoop \cup Closes \cup Ended]
        /\ qp' \in [Sides -> {"init", "rts", "destroyed"}]
        /\ cq' \in [Sides -> Seq(Completions)]
    BY <1>0, <1>2, <1>4, <1>6 DEF Types
  <2> QED
    BY <1>0, <1>2, <1>5, <2>1 DEF Types
<1>9. ~Running(s)'
  BY <1>4, <1>7 DEF Running
<1>10. SeenLess(s)
  <2>1. \A S : /\ Count(cq'[s], S) + Count(wc'[s], S) \in Nat
               /\ Count(cq'[s], S) + Count(wc'[s], S) <= Count(cq[s], S) + Count(wc[s], S)
    <3>1. cq[s] \in Seq(Completions) /\ wc[s] \in Seq(Completions)
      BY <1>0 DEF Types
    <3>2. \A S : Count(cq[s], S) \in Nat /\ Count(wc[s], S) \in Nat
      BY <3>1, CountType
    <3> QED
      BY <1>2, <1>6, <1>7, <3>2
  <2>2. AllReceived(s)' \in Nat /\ AllReceived(s)' <= AllReceived(s)
    BY <2>1, Unseens, UnseensNext
  <2>3. ASSUME NEW r \in Qps
        PROVE  Received(s, r)' \in Nat /\ Received(s, r)' <= Received(s, r)
    <3> DEFINE R == {"recv"} \X {r}
    <3>1. Received(s, r) = Count(cq[s], R) + Count(wc[s], R)
      BY Unseens
    <3>2. Received(s, r)' = Count(cq'[s], R) + Count(wc'[s], R)
      BY UnseensNext
    <3> HIDE DEF R
    <3> QED
      BY <2>1, <3>1, <3>2
  <2> QED
    BY <1>9, <2>2, <2>3 DEF SeenLess
<1>11. ASSUME NEW x \in Sides
       PROVE  /\ Running(x)' => Running(x)
              /\ \A r \in Qps : r \in Hold(x)' => r \in Hold(x)
              /\ SeenLess(x) /\ Receives(x)' /\ Done(x)'
  <2>1. CASE x # s
    <3>1. pc'[x] = pc[x] /\ SeenSame(x) /\ SeenLess(x)
      BY <1>0, <1>2, <1>7, <2>1, Unlooked, SameSeenLess
    <3> QED
      BY <1>0, <1>2, <1>5, <3>1, SameSets DEF Running, Receives, Done, SeenSame
  <2>2. CASE x = s
    <3>1. \A r \in Qps : r \in Hold(x)' => r \in Hold(x)
      BY <1>4, <1>7, <2>2, SetsNext DEF Ended, InLoop, Closes
    <3>2. Done(x)'
      BY <1>0, <1>2, <1>3, <1>5, <1>7, <2>2 DEF Done
    <3> QED
      BY <1>9, <1>10, <2>2, <3>1, <3>2 DEF Receives
  <2> QED
    BY <2>1, <2>2
<1>12. Counts'
  BY <1>0, <1>2, <1>11, Still
<1>13. ServerFirst'
  <2>1. qp["server"] = "init" => s # "server"
    BY <1>0, <1>3 DEF Stage, Closes
  <2>2. qp["server"] = "init" => s # "client"
    BY <1>0, <1>3 DEF ServerFirst, Closes, Ended
  <2>3. qp["server"] # "init" => qp'["server"] # "init"
    BY <1>0, <1>4 DEF Types, Sides
  <2> QED
    BY <2>1, <2>2, <2>3 DEF ServerFirst, Sides
<1>14. Stage(s)' /\ Wakeup(s)'
  BY <1>4, <1>7, <1>9 DEF Stage, Wakeup, Ended, Before, Closes
<1>15. ASSUME NEW x \in Sides, x # s PROVE Stage(x)' /\ Wakeup(x)'
  BY <1>0, <1>2, <1>7, <1>15, OtherSide
<1> QED
  BY <1>8, <1>12, <1>13, <1>14, <1>15 DEF PInv

-----------------------------------------------------------------------------
(***************************************************************************)
(* Setting up.                                                             *)
(***************************************************************************)
\* The start of a program, which goes on to wait for an address or ends.
LEMMA StartKeeps ==
    ASSUME PInv, args' = args, faults' = faults, ServerStart \/ ClientStart
    PROVE  PInv'
<1>0. /\ Types /\ Counts /\ ServerFirst
      /\ \A x \in Sides : Stage(x) /\ Wakeup(x) /\ Receives(x) /\ Done(x)
  BY DEF PInv, Counts
<1>1. PICK s \in Sides, to \in {"wait_addr", "absent"} :
        /\ pc[s] = "start" /\ pc' = [pc EXCEPT ![s] = to]
        /\ qp' = IF to = "absent" THEN [qp EXCEPT ![s] = "destroyed"] ELSE qp
        /\ recvs' = [recvs EXCEPT ![s] = FirstReceives]
        /\ routs' = [routs EXCEPT ![s] = FirstReceives]
        /\ armed' = [armed EXCEPT ![s] = UseEvent]
        /\ tcp' = tcp \/ \E a \in {"addr", "split"} : tcp' = [tcp EXCEPT !["server"] = <<a>>]
        /\ UNCHANGED <<sq, net, unacked, cq, events, wc, pending, scnt, rcnt>>
  <2>1. CASE ServerStart
    <3>1. /\ pc["server"] = "start" /\ pc' = [pc EXCEPT !["server"] = "wait_addr"] /\ qp' = qp
          /\ recvs' = [recvs EXCEPT !["server"] = FirstReceives]
          /\ routs' = [routs EXCEPT !["server"] = FirstReceives]
          /\ armed' = [armed EXCEPT !["server"] = UseEvent]
          /\ UNCHANGED <<tcp, sq, net, unacked, cq, events, wc, pending, scnt, rcnt>>
      BY <2>1 DEF ServerStart
    <3> QED
      BY <3>1 DEF Sides
  <2>2. CASE ClientStart
    <3>1. /\ pc["client"] = "start"
          /\ recvs' = [recvs EXCEPT !["client"] = FirstReceives]
          /\ routs' = [routs EXCEPT !["client"] = FirstReceives]
          /\ armed' = [armed EXCEPT !["client"] = UseEvent]
          /\ UNCHANGED <<sq, net, unacked, cq, events, wc, pending, scnt, rcnt>>
      BY <2>2 DEF ClientStart
    <3>2. CASE pc["server"] = "wait_addr"
      <4>1. /\ pc' = [pc EXCEPT !["client"] = "wait_addr"] /\ qp' = qp
            /\ \E a \in {"addr", "split"} : tcp' = [tcp EXCEPT !["server"] = <<a>>]
        BY <2>2, <3>2 DEF ClientStart, Address
      <4> QED
        BY <3>1, <4>1 DEF Sides
    <3>3. CASE pc["server"] # "wait_addr"
      <4>1. /\ pc' = [pc EXCEPT !["client"] = "absent"] /\ qp' = [qp EXCEPT !["client"] = "destroyed"]
            /\ tcp' = tcp
        BY <2>2, <3>1, <3>3 DEF ClientStart, Exit
      <4> QED
        BY <3>1, <4>1 DEF Sides
    <3> QED
      BY <3>2, <3>3
  <2> QED
    BY <2>1, <2>2
<1>2. /\ NumQp' = NumQp /\ Iters' = Iters /\ RxDepth' = RxDepth /\ UseEvent' = UseEvent
      /\ Program' = Program /\ Qps' = Qps /\ (Reliable <=> Reliable')
      /\ Completions' = Completions
  BY SameArguments
<1>3. /\ NumQp \in Nat /\ NumQp > 0 /\ RxDepth \in Nat /\ NumQp <= RxDepth /\ UseEvent \in BOOLEAN
      /\ FirstReceives = IF Program = "UMR" THEN 0 ELSE RxDepth
  BY <1>0, Arguments DEF Types, FirstReceives
<1>4. /\ pc'[s] = to /\ recvs'[s] = FirstReceives /\ routs'[s] = FirstReceives /\ armed'[s] = UseEvent
      /\ \A x \in Sides : x # s => /\ pc'[x] = pc[x] /\ qp'[x] = qp[x] /\ recvs'[x] = recvs[x]
                                   /\ routs'[x] = routs[x] /\ armed'[x] = armed[x]
      /\ qp'[s] = IF to = "absent" THEN "destroyed" ELSE qp[s]
  BY <1>0, <1>1 DEF Types
<1>5. Types'
  <2>1. pc' \in [Sides -> Before \cup InLoop \cup Closes \cup Ended]
    BY <1>0, <1>1 DEF Types, Before, Ended
  <2>2. qp' \in [Sides -> {"init", "rts", "destroyed"}]
    BY <1>0, <1>1 DEF Types
  <2>3. recvs' \in [Sides -> 0 .. RxDepth] /\ routs' \in [Sides -> 0 .. RxDepth]
    BY <1>0, <1>1, <1>3 DEF Types
  <2>4. armed' \in [Sides -> BOOLEAN]
    BY <1>0, <1>1, <1>3 DEF Types
  <2>5. tcp' \in [Sides -> Seq({"addr", "split", "done"})]
    <3>1. tcp \in [Sides -> Seq({"addr", "split", "done"})]
      BY <1>0 DEF Types
    <3> QED
      BY <1>1, <3>1, TcpMessages
  <2> QED
    BY <1>0, <1>1, <1>2, <2>1, <2>2, <2>3, <2>4, <2>5 DEF Types
<1>6. ASSUME NEW x \in Sides
      PROVE  /\ Running(x)' => Running(x)
             /\ \A r \in Qps : r \in Hold(x)' => r \in Hold(x)
             /\ SeenLess(x) /\ Receives(x)' /\ Done(x)'
  <2>1. SeenSame(x) /\ SeenLess(x)
    BY <1>0, <1>1, Unlooked, SameSeenLess
  <2>2. CASE x # s
    <3>1. pc'[x] = pc[x] /\ recvs'[x] = recvs[x] /\ routs'[x] = routs[x]
      BY <1>4, <2>2
    <3> QED
      BY <1>0, <1>1, <1>2, <2>1, <3>1, SameSets DEF Running, Receives, Done, SeenSame
  <2>3. CASE x = s
    <3>1. Running(x) /\ (\A r \in Qps : r \in Hold(x)' => r \in Hold(x)) /\ Done(x)'
      BY <1>1, <1>4, <2>3, SetsNext DEF Running, Ended, InLoop, Closes, Done
    <3>2. AllReceived(x)' = 0
      <4>1. /\ routs[x] = recvs[x] + AllReceived(x) /\ routs[x] = 0
        BY <1>0, <1>1, <2>3, <3>1 DEF Receives
      <4>2. recvs[x] \in Nat /\ AllReceived(x) \in Nat
        BY <1>0, Numbers
      <4> QED
        BY <2>1, <4>1, <4>2 DEF SeenSame
    <3>3. Receives(x)'
      BY <1>1, <1>2, <1>3, <1>4, <2>3, <3>2 DEF Receives, Before, Running, Ended
    <3> QED
      BY <2>1, <3>1, <3>3
  <2> QED
    BY <2>2, <2>3
<1>7. Counts'
  BY <1>0, <1>1, <1>6, Still
<1>8. ServerFirst'
  <2>1. tcp'["client"] = tcp["client"]
    BY <1>0, <1>1 DEF Types, Sides
  <2>2. pc'["client"] \in {"start", "wait_addr"} \cup Ended \/ pc'["client"] = pc["client"]
    BY <1>4 DEF Sides, Ended
  <2>3. qp'["server"] = "init" => qp["server"] = "init"
    BY <1>4 DEF Sides
  <2> QED
    BY <1>0, <1>1, <1>2, <2>1, <2>2, <2>3 DEF ServerFirst
<1>9. Stage(s)'
  <2>1. Stage(s)
    BY <1>0
  <2> QED
    BY <1>1, <1>2, <1>4, <2>1 DEF Stage, Ended, Before, Closes
<1>10. Wakeup(s)'
  <2>1. cq[s] = <<>>
    BY <1>0, <1>1 DEF Stage
  <2> QED
    BY <1>1, <1>2, <1>4, <2>1 DEF Wakeup, Running, Ended
<1>11. ASSUME NEW x \in Sides, x # s PROVE Stage(x)' /\ Wakeup(x)'
  BY <1>0, <1>1, <1>4, <1>11, OtherSide
<1> QED
  BY <1>5, <1>7, <1>8, <1>9, <1>10, <1>11 DEF PInv

\* Until the client enters its loop, there are no messages.
LEMMA ClientFresh ==
    ASSUME Types, Counts, Stage("client"), pc["client"] \in Before
    PROVE  /\ rcnt["server"] = 0 /\ rcnt["client"] = 0 /\ Posted("server") = 0 /\ Posted("client") = 0
           /\ scnt["client"] = 0
           /\ \A x \in Sides : /\ AllReceived(x) = 0 /\ Cardinality(Coming(x)) = 0
                               /\ \A r \in Qps : /\ sq[x][r] = 0 /\ net[x][r] = 0
                                                 /\ Received(x, r) = 0 /\ r \notin Hold(x)
           /\ \A r \in Qps : unacked["client"][r] = 0 /\ OwnOn("client", r) = 0
           /\ AllOwn("client") = 0
<1>0. /\ "client" \in Sides /\ "server" \in Sides /\ Peer("client") = "server" /\ Peer("server") = "client"
      /\ Sides = {"client", "server"} /\ args \in Args
  BY DEF Sides, Peer, Types
<1>1. Running("client")
  BY DEF Before, Running, Ended
<1>2. SendPending("client") = {} /\ scnt["client"] = 0 /\ rcnt["client"] = 0
  BY DEF SendPending, Stage
<1>3. Cardinality(SendPending("client")) = 0
  BY <1>2, FS_EmptySet
<1>4. Posted("client") = 0
  BY <1>2, <1>3 DEF Posted
<1>5. \A x \in Sides : /\ Cardinality(Hold(x)) \in Nat /\ Cardinality(Coming(x)) \in Nat
                       /\ AllReceived(x) \in Nat /\ rcnt[x] \in Nat /\ Posted(x) \in Nat
  BY Numbers
<1>6. rcnt["server"] = 0 /\ AllReceived("server") = 0 /\ Cardinality(Coming("server")) = 0
  BY <1>0, <1>4, <1>5 DEF Counts, Delivered
<1>7. Posted("server") = 0 /\ Cardinality(Hold("server")) = 0
  BY <1>0, <1>5, <1>6 DEF Counts, Answers
<1>8. AllReceived("client") = 0 /\ Cardinality(Coming("client")) = 0
  <2>1. rcnt["client"] + AllReceived("client") + Cardinality(Coming("client")) <= Posted("server")
    BY <1>0 DEF Counts, Delivered
  <2> QED
    BY <1>0, <1>5, <1>7, <2>1
<1>9. Coming("client") = {} /\ Coming("server") = {} /\ Hold("server") = {}
  <2>1. Coming("client") \in SUBSET Qps /\ Coming("server") \in SUBSET Qps /\ Hold("server") \in SUBSET Qps
    BY DEF Coming, Hold
  <2> QED
    BY <1>0, <1>6, <1>7, <1>8, <2>1, QpSet
<1>10. Hold("client") = {}
  BY DEF Hold, Before, InLoop, Closes
<1>11. ASSUME NEW x \in Sides, NEW r \in Qps
       PROVE  sq[x][r] = 0 /\ net[x][r] = 0 /\ Received(x, r) = 0 /\ r \notin Hold(x)
  <2>1. /\ sq[x][r] \in Nat /\ net[x][r] \in Nat /\ Received(x, r) \in Nat
        /\ Received(x, r) <= AllReceived(x) /\ AllReceived(x) = 0
    BY <1>0, <1>6, <1>8, QpNumbers
  <2>2. r \notin Coming(Peer(x)) /\ Peer(Peer(x)) = x
    BY <1>0, <1>9
  <2>3. ~(sq[x][r] + net[x][r] > 0)
    BY <2>2 DEF Coming
  <2> QED
    BY <1>0, <1>9, <1>10, <2>1, <2>3
<1>12. /\ \A r \in Qps : unacked["client"][r] = 0 /\ OwnOn("client", r) = 0
       /\ AllOwn("client") = 0
  <2>1. SendOut("client")
    BY <1>0 DEF Counts
  <2>2. ASSUME NEW r \in Qps PROVE unacked["client"][r] = 0 /\ OwnOn("client", r) = 0
    <3>1. One("send" \in pending["client"][r]) = 0
      BY DEF Stage, One
    <3>2. /\ sq["client"][r] \in Nat /\ unacked["client"][r] \in Nat /\ OwnOn("client", r) \in Nat
      BY <1>0, QpNumbers
    <3> QED
      BY <1>1, <2>1, <3>1, <3>2 DEF SendOut
  <2>3. AllOwn("client") = 0
    BY <1>0, <1>1, <1>3, <2>1, Numbers DEF SendOut
  <2> QED
    BY <2>2, <2>3
<1> QED
  BY <1>0, <1>2, <1>4, <1>6, <1>7, <1>8, <1>11, <1>12

\* The client posts the first message of each queue pair.
LEMMA FirstMessages ==
    ASSUME Types, Counts, Stage("client"), args' = args, pc["client"] \in Before,
           sq' = [sq EXCEPT !["client"] = [r \in Qps |-> 1]],
           pending' = [pending EXCEPT !["client"] = [r \in Qps |-> {"recv", "send"}]],
           pc' = [pc EXCEPT !["client"] = Loop],
           UNCHANGED <<net, unacked, cq, wc, scnt, rcnt>>,
           \A x \in Sides : Receives(x)'
    PROVE  Counts'
<1> USE DEF One
<1> DEFINE c == "client"
<1> DEFINE v == "server"
<1>0. /\ c \in Sides /\ v \in Sides /\ Peer(c) = v /\ Peer(v) = c /\ c # v
      /\ Sides = {c, v} /\ args \in Args
  BY DEF Sides, Peer, Types
<1>1. /\ NumQp' = NumQp /\ Iters' = Iters /\ Qps' = Qps /\ (Reliable' <=> Reliable)
  BY SameArguments
<1>2. /\ NumQp \in Nat /\ NumQp > 0 /\ Iters \in Nat /\ Iters > 0 /\ Cardinality(Qps) = NumQp
  BY <1>0, Arguments
<1>3. /\ pc'[c] = Loop /\ Loop \in InLoop /\ pc'[v] = pc[v]
      /\ \A r \in Qps : sq'[c][r] = 1 /\ pending'[c][r] = {"recv", "send"}
      /\ sq'[v] = sq[v] /\ pending'[v] = pending[v]
  BY <1>0 DEF Types, Loop, InLoop
<1>4. Running(c) /\ Running(c)' /\ (Running(v)' <=> Running(v))
  BY <1>3 DEF Running, Before, InLoop, Ended
<1>5. SeenSame(c) /\ SeenSame(v)
  BY Unlooked
<1>6. /\ SendPending(c)' = Qps /\ Hold(c)' = {} /\ Coming(v)' = Qps /\ OnQp(c)' = Qps
  <2>1. \A r \in Qps : net[c][r] \in Nat /\ unacked[c][r] \in Nat
    BY <1>0, QpNumbers
  <2>2. SendPending(c)' = Qps
    <3>1. SendPending(c)' = {r \in Qps : "send" \in pending'[c][r]}
      BY SetsNext
    <3>2. \A r \in Qps : "send" \in pending'[c][r]
      BY <1>3
    <3> QED
      BY <3>1, <3>2
  <2>3. Hold(c)' = {}
    <3>1. Hold(c)' = {r \in Qps : pc'[c] \in InLoop \cup Closes /\ "recv" \notin pending'[c][r]}
      BY SetsNext
    <3>2. \A r \in Qps : "recv" \in pending'[c][r]
      BY <1>3
    <3> QED
      BY <3>1, <3>2
  <2>4. Coming(v)' = Qps
    <3>1. Coming(v)' = {r \in Qps : sq'[c][r] + net'[c][r] > 0}
      BY <1>0, SetsNext
    <3>2. \A r \in Qps : sq'[c][r] + net'[c][r] > 0
      BY <1>3, <2>1
    <3> QED
      BY <3>1, <3>2
  <2>5. OnQp(c)' = Qps
    <3>1. OnQp(c)' = {r \in Qps : sq'[c][r] + unacked'[c][r] > 0}
      BY SetsNext
    <3>2. \A r \in Qps : sq'[c][r] + unacked'[c][r] > 0
      BY <1>3, <2>1
    <3> QED
      BY <3>1, <3>2
  <2> QED
    BY <2>2, <2>3, <2>4, <2>5
<1>7. SendPending(v)' = SendPending(v) /\ Hold(v)' = Hold(v) /\ Coming(c)' = Coming(c)
      /\ OnQp(v)' = OnQp(v)
  BY <1>0, <1>3, SameSets
<1>8. Posted(c)' = NumQp /\ Posted(v)' = 0
  <2>1. Posted(v)' = Posted(v)
    BY <1>7 DEF Posted
  <2>2. scnt'[c] = 0
    BY ClientFresh
  <2> QED
    BY <1>2, <1>6, <2>1, <2>2, ClientFresh DEF Posted
<1>9. Cardinality(Hold(c)') = 0 /\ Cardinality(Hold(v)') = 0
  <2>1. Hold(v) = {}
    BY <1>0, ClientFresh DEF Hold
  <2> QED
    BY <1>6, <1>7, <2>1, FS_EmptySet
<1>10. SendOut(c)'
  <2>1. \A r \in Qps : One("send" \in pending'[c][r]) = sq'[c][r] + unacked'[c][r] + OwnOn(c, r)'
    BY <1>0, <1>3, <1>5, ClientFresh DEF SeenSame
  <2>2. Cardinality(OnQp(c)') + AllOwn(c)' = Cardinality(SendPending(c)')
    BY <1>2, <1>5, <1>6, ClientFresh DEF SeenSame
  <2>3. \A r \in Qps : net'[c][r] = 0 /\ "send" \in pending'[c][r]
    BY <1>0, <1>3, ClientFresh
  <2> QED
    BY <1>1, <2>1, <2>2, <2>3 DEF SendOut
<1>11. SendOut(v)'
  <2>1. SendOut(v)
    BY <1>0 DEF Counts
  <2> QED
    BY <1>1, <1>3, <1>4, <1>5, <1>7, <2>1 DEF SendOut, SeenSame
<1>12. Delivered(c)' /\ Delivered(v)'
  <2>1. rcnt'[c] = 0 /\ rcnt'[v] = 0 /\ AllReceived(c)' = 0 /\ AllReceived(v)' = 0
        /\ Cardinality(Coming(c)') = 0
    BY <1>0, <1>5, <1>7, ClientFresh DEF SeenSame
  <2>2. Cardinality(Coming(v)') = NumQp
    BY <1>2, <1>6
  <2> QED
    BY <1>0, <1>2, <1>8, <2>1, <2>2 DEF Delivered
<1>13. /\ Answers(c)' /\ Bound(c)' /\ Answers(v)' /\ Bound(v)'
  <2>1. rcnt'[c] = 0 /\ rcnt'[v] = 0
    BY ClientFresh
  <2> QED
    BY <1>0, <1>1, <1>2, <1>8, <1>9, <2>1 DEF Answers, Bound
<1>14. Done(c)' /\ Done(v)'
  <2>1. Done(v)
    BY <1>0 DEF Counts
  <2> QED
    BY <1>1, <1>3, <2>1 DEF Done, InLoop
<1>15. ASSUME NEW r \in Qps PROVE Token(r)'
  <2>1. /\ Received(c, r)' = 0 /\ Received(v, r)' = 0 /\ net'[c][r] = 0 /\ net'[v][r] = 0
        /\ sq'[c][r] = 1 /\ sq'[v][r] = 0 /\ r \notin Hold(c)' /\ r \notin Hold(v)'
    BY <1>0, <1>3, <1>5, <1>6, <1>7, ClientFresh DEF SeenSame
  <2> QED
    BY <2>1 DEF Token
<1> QED
  BY <1>0, <1>1, <1>10, <1>11, <1>12, <1>13, <1>14, <1>15 DEF Counts

\* A side enters its loop, from the set-up or from its own work.
LEMMA EnterLoopKeeps ==
    ASSUME PInv, args' = args, faults' = faults, NEW s \in Sides, EnterLoop(s),
           pc[s] \in {"connect", "wait_done", "own"},
           UNCHANGED <<net, unacked, cq, wc, scnt, rcnt>>,
           tcp' \in [Sides -> Seq({"addr", "split", "done"})],
           qp' \in [Sides -> {"init", "rts", "destroyed"}], qp'[s] = "rts",
           recvs' \in [Sides -> 0 .. RxDepth], routs' \in [Sides -> 0 .. RxDepth],
           events' \in [Sides -> Nat], armed' \in [Sides -> BOOLEAN],
           \A x \in Sides : x # s => /\ qp'[x] = qp[x] /\ recvs'[x] = recvs[x] /\ routs'[x] = routs[x]
                                     /\ events'[x] = events[x] /\ armed'[x] = armed[x],
           routs'[s] = recvs'[s] + AllReceived(s), routs'[s] >= NumQp,
           UseEvent => /\ armed'[s] \/ events'[s] > 0
                       /\ events[s] > 0 => events'[s] > 0
    PROVE  PInv'
<1>0. /\ Types /\ Counts /\ ServerFirst /\ Stage(s)
      /\ \A x \in Sides : Stage(x) /\ Wakeup(x) /\ Receives(x) /\ Done(x)
  BY DEF PInv, Counts
<1>1. /\ NumQp' = NumQp /\ Iters' = Iters /\ RxDepth' = RxDepth /\ UseEvent' = UseEvent
      /\ Program' = Program /\ Qps' = Qps /\ (Reliable <=> Reliable')
      /\ Completions' = Completions
  BY SameArguments
<1>2. /\ pc' = [pc EXCEPT ![s] = Loop] /\ Loop \in InLoop /\ (Loop = "event" => UseEvent)
      /\ Loop \in {"event", "poll"}
  BY DEF EnterLoop, Loop, InLoop
<1>3. /\ pc'[s] = Loop /\ \A x \in Sides : x # s => pc'[x] = pc[x]
  BY <1>0, <1>2 DEF Types
<1>4. /\ sq' \in [Sides -> [Qps -> Nat]] /\ pending' \in [Sides -> [Qps -> SUBSET {"recv", "send"}]]
      /\ \A x \in Sides : x # s => sq'[x] = sq[x] /\ pending'[x] = pending[x]
  <2>1. CASE s = "client"
    <3>1. /\ sq' = [sq EXCEPT ![s] = [q \in Qps |-> 1]]
          /\ pending' = [pending EXCEPT ![s] = [q \in Qps |-> {"recv", "send"}]]
      BY <2>1 DEF EnterLoop
    <3>2. [q \in Qps |-> 1] \in [Qps -> Nat]
          /\ [q \in Qps |-> {"recv", "send"}] \in [Qps -> SUBSET {"recv", "send"}]
      OBVIOUS
    <3> QED
      BY <1>0, <3>1, <3>2 DEF Types
  <2>2. CASE s # "client"
    <3>1. /\ sq' = sq
          /\ pending' = [pending EXCEPT ![s] = [q \in Qps |-> {"recv"}]]
      BY <2>2 DEF EnterLoop
    <3>2. [q \in Qps |-> {"recv"}] \in [Qps -> SUBSET {"recv", "send"}]
      OBVIOUS
    <3> QED
      BY <1>0, <3>1, <3>2 DEF Types
  <2> QED
    BY <2>1, <2>2
<1>5. Types'
  <2>1. pc' \in [Sides -> Before \cup InLoop \cup Closes \cup Ended]
    BY <1>0, <1>2 DEF Types
  <2> QED
    BY <1>0, <1>1, <1>4, <2>1 DEF Types
<1>6. ASSUME NEW x \in Sides PROVE SeenSame(x) /\ SeenLess(x)
  BY <1>0, Unlooked, SameSeenLess
<1>7. ASSUME NEW x \in Sides PROVE Receives(x)'
  <2>1. CASE x = s
    <3>1. AllReceived(s)' = AllReceived(s)
      BY <1>6 DEF SeenSame
    <3>2. Loop # "start" /\ Loop \notin Before
      BY <1>2 DEF Before
    <3> QED
      BY <1>1, <1>3, <2>1, <3>1, <3>2 DEF Receives
  <2>2. CASE x # s
    <3>1. /\ AllReceived(x)' = AllReceived(x) /\ pc'[x] = pc[x]
          /\ recvs'[x] = recvs[x] /\ routs'[x] = routs[x] /\ Receives(x)
      BY <1>0, <1>3, <1>6, <2>2 DEF SeenSame
    <3> QED
      BY <1>1, <3>1 DEF Receives, Running
  <2> QED
    BY <2>1, <2>2
<1>8. Counts'
  <2>1. CASE s = "client"
    <3>1. /\ sq' = [sq EXCEPT !["client"] = [r \in Qps |-> 1]]
          /\ pending' = [pending EXCEPT !["client"] = [r \in Qps |-> {"recv", "send"}]]
      BY <2>1 DEF EnterLoop
    <3> QED
      BY <1>0, <1>2, <1>7, <2>1, <3>1, FirstMessages DEF Before
  <2>2. CASE s # "client"
    <3>1. sq' = sq /\ pending' = [pending EXCEPT ![s] = [q \in Qps |-> {"recv"}]]
      BY <2>2 DEF EnterLoop
    <3>2. \A q \in Qps : pending'[s][q] = {"recv"} /\ pending[s][q] = {}
      BY <1>0, <3>1 DEF Types, Stage, Before
    <3>3. ASSUME NEW x \in Sides
          PROVE  /\ Running(x)' => Running(x)
                 /\ \A r \in Qps : "send" \in pending'[x][r] <=> "send" \in pending[x][r]
                 /\ \A r \in Qps : r \in Hold(x)' => r \in Hold(x)
                 /\ Done(x)'
      <4>1. CASE x = s
        <5>1. Running(x)
          BY <4>1 DEF Running, Ended
        <5>2. \A r \in Qps : r \notin Hold(x)'
          BY <3>2, <4>1, SetsNext
        <5>3. Done(x)'
          BY <1>2, <1>3, <4>1 DEF Done, InLoop
        <5> QED
          BY <3>2, <4>1, <5>1, <5>2, <5>3
      <4>2. CASE x # s
        <5>1. pc'[x] = pc[x] /\ pending'[x] = pending[x]
          BY <1>3, <1>4, <4>2
        <5> QED
          BY <1>0, <1>1, <5>1, SameSets DEF Running, Done
      <4> QED
        BY <4>1, <4>2
    <3> QED
      BY <1>0, <1>6, <1>7, <3>1, <3>3, Still
  <2> QED
    BY <2>1, <2>2
<1>9. ServerFirst'
  <2>1. s = "server" => qp'["server"] # "init"
    OBVIOUS
  <2>2. s = "client" => qp["server"] # "init" /\ qp'["server"] = qp["server"]
    BY <1>0 DEF ServerFirst, Stage, Ended, Sides
  <2> QED
    BY <2>1, <2>2 DEF ServerFirst, Sides
<1>10. Stage(s)'
  <2>1. cq'[s] = cq[s] /\ wc'[s] = <<>>
    BY <1>0 DEF Stage, Before
  <2> QED
    BY <1>1, <1>2, <1>3, <2>1 DEF Stage, InLoop, Ended, Before, Closes
<1>11. Wakeup(s)'
  <2>1. Wakeup(s) /\ Running(s) /\ pc[s] # "start" /\ pc[s] # "poll" /\ cq'[s] = cq[s]
    BY <1>0 DEF Running, Ended
  <2> QED
    BY <1>1, <2>1 DEF Wakeup
<1>12. ASSUME NEW x \in Sides, x # s PROVE Stage(x)' /\ Wakeup(x)'
  BY <1>0, <1>3, <1>4, <1>12, OtherSide
<1> QED
  BY <1>5, <1>8, <1>9, <1>10, <1>11, <1>12 DEF PInv

\* Nothing has been received before the loop: of a client nothing has been sent,
\* and a server that posts its receives late has none that could complete.
LEMMA OwnWorkDoneKeeps ==
    ASSUME PInv, args' = args, faults' = faults, NEW s \in Sides, OwnWorkDone(s)
    PROVE  PInv'
<1>0. /\ Types /\ Counts /\ Stage(s) /\ Wakeup(s) /\ Receives(s)
      /\ args \in Args
  BY DEF PInv, Counts, Types
<1>1. /\ pc[s] = "own" /\ EnterLoop(s)
      /\ events' = [events EXCEPT ![s] = IF armed[s] THEN events[s] + 1 ELSE events[s]]
      /\ armed' = [armed EXCEPT ![s] = FALSE]
      /\ recvs' = [recvs EXCEPT ![s] = RxDepth]
      /\ routs' = [routs EXCEPT ![s] = RxDepth]
      /\ UNCHANGED <<tcp, qp, net, unacked, cq, wc, scnt, rcnt>>
  BY DEF OwnWorkDone
<1>2. NumQp \in Nat /\ RxDepth \in Nat /\ NumQp <= RxDepth
  BY <1>0, Arguments
<1>3. AllReceived(s) = 0
  <2>1. CASE Program = "UMR"
    <3>1. routs[s] = recvs[s] + AllReceived(s) /\ routs[s] = 0
      BY <1>0, <1>1, <2>1 DEF Receives, Running, Before, Ended
    <3>2. recvs[s] \in Nat /\ AllReceived(s) \in Nat
      BY <1>0, Numbers
    <3> QED
      BY <3>1, <3>2
  <2>2. CASE s = "client"
    BY <1>0, <1>1, <2>2, ClientFresh DEF Before
  <2> QED
    BY <1>0, <1>1, <2>1, <2>2 DEF Stage
<1>4. /\ recvs' \in [Sides -> 0 .. RxDepth] /\ routs' \in [Sides -> 0 .. RxDepth]
      /\ recvs'[s] = RxDepth /\ routs'[s] = RxDepth
      /\ \A x \in Sides : x # s => recvs'[x] = recvs[x] /\ routs'[x] = routs[x]
  BY <1>0, <1>1, <1>2 DEF Types
<1>5. /\ events' \in [Sides -> Nat] /\ armed' \in [Sides -> BOOLEAN]
      /\ \A x \in Sides : x # s => events'[x] = events[x] /\ armed'[x] = armed[x]
      /\ events[s] > 0 => events'[s] > 0
      /\ armed[s] => events'[s] > 0
  <2>1. events[s] \in Nat /\ events \in [Sides -> Nat] /\ armed \in [Sides -> BOOLEAN]
    BY <1>0 DEF Types
  <2>2. (IF armed[s] THEN events[s] + 1 ELSE events[s]) \in Nat
    BY <2>1
  <2>3. events' \in [Sides -> Nat] /\ armed' \in [Sides -> BOOLEAN]
    BY <1>1, <2>1, <2>2
  <2>4. events'[s] = (IF armed[s] THEN events[s] + 1 ELSE events[s])
    BY <1>1, <2>1
  <2>5. \A x \in Sides : x # s => events'[x] = events[x] /\ armed'[x] = armed[x]
    BY <1>1, <2>1
  <2> QED
    BY <2>1, <2>3, <2>4, <2>5
<1>6. UseEvent => (armed'[s] \/ events'[s] > 0) /\ (events[s] > 0 => events'[s] > 0)
  BY <1>0, <1>1, <1>5 DEF Wakeup, Running, Ended
<1>7. /\ tcp' \in [Sides -> Seq({"addr", "split", "done"})]
      /\ qp' \in [Sides -> {"init", "rts", "destroyed"}] /\ qp'[s] = "rts"
      /\ \A x \in Sides : x # s => qp'[x] = qp[x]
  BY <1>0, <1>1 DEF Types, Stage, Ended
<1>8. routs'[s] = recvs'[s] + AllReceived(s) /\ routs'[s] >= NumQp
  BY <1>2, <1>3, <1>4
<1> QED
  BY <1>1, <1>4, <1>5, <1>6, <1>7, <1>8, EnterLoopKeeps

LEMMA NoOwnWorkKeeps ==
    ASSUME PInv, args' = args, faults' = faults, NEW s \in Sides, ~HasOwnWork(s),
           \/ ClientConnect /\ s = "client"
           \/ ServerReady /\ s = "server"
    PROVE  PInv'
<1>0. /\ Types /\ Stage(s) /\ Wakeup(s) /\ Receives(s)
  BY DEF PInv, Counts
<1>1. /\ pc[s] = (IF s = "client" THEN "connect" ELSE "wait_done")
      /\ EnterLoop(s)
      /\ UNCHANGED <<recvs, net, unacked, cq, armed, events, wc, routs, scnt, rcnt>>
      /\ IF s = "client" THEN tcp' = tcp /\ qp' = [qp EXCEPT ![s] = "rts"]
                         ELSE tcp' = [tcp EXCEPT ![s] = <<>>] /\ qp' = qp
  BY DEF ClientConnect, ServerReady, Sides
<1>2. tcp' \in [Sides -> Seq({"addr", "split", "done"})]
  <2>1. tcp \in [Sides -> Seq({"addr", "split", "done"})]
    BY <1>0 DEF Types
  <2> QED
    BY <1>0, <1>1, <2>1, TcpMessages
<1>3. /\ qp' \in [Sides -> {"init", "rts", "destroyed"}]
      /\ \A x \in Sides : x # s => qp'[x] = qp[x]
  BY <1>0, <1>1 DEF Types
<1>4. qp[s] \in {"init", "rts", "destroyed"} /\ qp'[s] = "rts"
  BY <1>0, <1>1 DEF Stage, Ended, Types
<1>5. /\ recvs' \in [Sides -> 0 .. RxDepth] /\ routs' \in [Sides -> 0 .. RxDepth]
      /\ events' \in [Sides -> Nat] /\ armed' \in [Sides -> BOOLEAN]
  BY <1>0, <1>1 DEF Types
<1>6. Running(s) /\ pc[s] # "start" /\ pc[s] \in {"connect", "wait_done", "own"} /\ Program # "UMR"
  BY <1>1 DEF Running, Ended, HasOwnWork
<1>7. routs'[s] = recvs'[s] + AllReceived(s) /\ routs'[s] >= NumQp
  BY <1>0, <1>1, <1>6 DEF Receives
<1>8. UseEvent => (armed'[s] \/ events'[s] > 0) /\ (events[s] > 0 => events'[s] > 0)
  BY <1>0, <1>1, <1>6 DEF Wakeup
<1> QED
  BY <1>1, <1>2, <1>3, <1>4, <1>5, <1>6, <1>7, <1>8, EnterLoopKeeps

LEMMA SetUpKeeps ==
    ASSUME PInv, args' = args, faults' = faults, SetUp
    PROVE  PInv'
<1>1. CASE ServerStart \/ ClientStart
  BY <1>1, StartKeeps
<1>2. CASE ServerConnect
  BY <1>2, ServerConnectKeeps
<1>3. ASSUME NEW s \in Sides, (ClientConnect /\ s = "client") \/ (ServerReady /\ s = "server")
      PROVE  PInv'
  BY <1>3, OwnWorkKeeps, NoOwnWorkKeeps
<1>4. CASE ClientReadAddress \/ ReadReset
  BY <1>4, ClientReadsKeeps
<1>5. ASSUME NEW s \in Sides, OwnWorkDone(s) PROVE PInv'
  BY <1>5, OwnWorkDoneKeeps
<1>6. ASSUME NEW s \in Sides, ExchangeFails(s) PROVE PInv'
  BY <1>6, EndingsKeep
<1>7. CASE ServerReady
  <2>1. "server" \in Sides
    BY DEF Sides
  <2> QED
    BY <1>3, <1>7, <2>1, Zenon
<1>8. CASE ClientConnect
  <2>1. "client" \in Sides
    BY DEF Sides
  <2> QED
    BY <1>3, <1>8, <2>1, Zenon
<1> QED
  BY <1>1, <1>2, <1>4, <1>5, <1>6, <1>7, <1>8 DEF SetUp

-----------------------------------------------------------------------------
(***************************************************************************)
(* The NIC and the network.                                                *)
(***************************************************************************)
\* g is f but for queue pair q of side s.
Only(f, g, s, q) == \A x \in Sides, r \in Qps : ~(x = s /\ r = q) => g[x][r] = f[x][r]

LEMMA OnlySame ==
    ASSUME NEW f, NEW s, NEW q PROVE Only(f, f, s, q)
BY DEF Only

LEMMA ComingStep ==
    ASSUME Types, args' = args, NEW s \in Sides, NEW q \in Qps,
           Only(sq, sq', s, q), Only(net, net', s, q)
    PROVE  /\ Cardinality(Coming(Peer(s))') + One(sq[s][q] + net[s][q] > 0)
                = Cardinality(Coming(Peer(s))) + One(sq'[s][q] + net'[s][q] > 0)
           /\ Cardinality(Coming(Peer(s))') \in Nat /\ Cardinality(Coming(Peer(s))) \in Nat
           /\ Coming(s)' = Coming(s)
<1> DEFINE p == Peer(s)
<1>1. p \in Sides /\ p # s /\ Peer(p) = s
  BY BothSides
<1>2. /\ \A r \in Qps : sq'[p][r] = sq[p][r] /\ net'[p][r] = net[p][r]
      /\ \A r \in Qps : r # q => sq'[s][r] = sq[s][r] /\ net'[s][r] = net[s][r]
  BY <1>1 DEF Only
<1>3. Coming(s)' = Coming(s)
  <2>1. Coming(s)' = {r \in Qps : sq'[p][r] + net'[p][r] > 0}
    BY SetsNext
  <2> QED
    BY <1>2, <2>1 DEF Coming
<1>4. /\ Coming(p)' = {r \in Qps : sq'[s][r] + net'[s][r] > 0}
      /\ Coming(p) = {r \in Qps : sq[s][r] + net[s][r] > 0}
  BY <1>1, SetsNext DEF Coming
<1>5. Cardinality(Coming(p)') + One(q \in Coming(p)) = Cardinality(Coming(p)) + One(q \in Coming(p)')
  <2>1. /\ Coming(p) \in SUBSET Qps /\ Coming(p)' \in SUBSET Qps
        /\ \A r \in Qps : r # q => (r \in Coming(p) <=> r \in Coming(p)')
    BY <1>2, <1>4
  <2> QED
    BY <2>1, QpStep DEF Types
<1>6. /\ One(q \in Coming(p)) = One(sq[s][q] + net[s][q] > 0)
      /\ One(q \in Coming(p)') = One(sq'[s][q] + net'[s][q] > 0)
  BY <1>4 DEF One
<1>7. Cardinality(Coming(p)') \in Nat /\ Cardinality(Coming(p)) \in Nat
  BY <1>4, QpSet DEF Types
<1> QED
  BY <1>3, <1>5, <1>6, <1>7

LEMMA OnQpStep ==
    ASSUME Types, args' = args, NEW s \in Sides, NEW q \in Qps,
           Only(sq, sq', s, q), Only(unacked, unacked', s, q)
    PROVE  /\ Cardinality(OnQp(s)') + One(sq[s][q] + unacked[s][q] > 0)
                = Cardinality(OnQp(s)) + One(sq'[s][q] + unacked'[s][q] > 0)
           /\ Cardinality(OnQp(s)') \in Nat /\ Cardinality(OnQp(s)) \in Nat
           /\ OnQp(Peer(s))' = OnQp(Peer(s))
<1> DEFINE p == Peer(s)
<1>1. p \in Sides /\ p # s
  BY BothSides
<1>2. /\ \A r \in Qps : sq'[p][r] = sq[p][r] /\ unacked'[p][r] = unacked[p][r]
      /\ \A r \in Qps : r # q => sq'[s][r] = sq[s][r] /\ unacked'[s][r] = unacked[s][r]
  BY <1>1 DEF Only
<1>3. OnQp(p)' = OnQp(p)
  <2>1. OnQp(p)' = {r \in Qps : sq'[p][r] + unacked'[p][r] > 0}
    BY SetsNext
  <2> QED
    BY <1>2, <2>1 DEF OnQp
<1>4. /\ OnQp(s)' = {r \in Qps : sq'[s][r] + unacked'[s][r] > 0}
      /\ OnQp(s) = {r \in Qps : sq[s][r] + unacked[s][r] > 0}
  BY SetsNext DEF OnQp
<1>5. Cardinality(OnQp(s)') + One(q \in OnQp(s)) = Cardinality(OnQp(s)) + One(q \in OnQp(s)')
  <2>1. /\ OnQp(s) \in SUBSET Qps /\ OnQp(s)' \in SUBSET Qps
        /\ \A r \in Qps : r # q => (r \in OnQp(s) <=> r \in OnQp(s)')
    BY <1>2, <1>4
  <2> QED
    BY <2>1, QpStep DEF Types
<1>6. /\ One(q \in OnQp(s)) = One(sq[s][q] + unacked[s][q] > 0)
      /\ One(q \in OnQp(s)') = One(sq'[s][q] + unacked'[s][q] > 0)
  BY <1>4 DEF One
<1>7. Cardinality(OnQp(s)') \in Nat /\ Cardinality(OnQp(s)) \in Nat
  BY <1>4, QpSet DEF Types
<1> QED
  BY <1>3, <1>5, <1>6, <1>7

\* A completion raises an event if the queue is armed.
Raised(x) ==
    \/ cq'[x] = cq[x] /\ armed'[x] = armed[x] /\ events'[x] = events[x]
    \/ qp[x] = "rts" /\ (armed[x] \/ events[x] > 0 => events'[x] > 0)

LEMMA Raises ==
    ASSUME Types, NEW s \in Sides, NEW what, NEW q, qp[s] = "rts", Complete(s, what, q)
    PROVE  /\ events' \in [Sides -> Nat] /\ armed' \in [Sides -> BOOLEAN]
           /\ \A x \in Sides : Raised(x)
<1>1. /\ events' = [events EXCEPT ![s] = IF armed[s] THEN events[s] + 1 ELSE events[s]]
      /\ armed' = [armed EXCEPT ![s] = FALSE]
      /\ cq' = [cq EXCEPT ![s] = Append(cq[s], <<what, q>>)]
  BY DEF Complete
<1>2. events[s] \in Nat /\ events \in [Sides -> Nat] /\ armed \in [Sides -> BOOLEAN]
      /\ cq \in [Sides -> Seq(Completions)]
  BY DEF Types
<1>3. (IF armed[s] THEN events[s] + 1 ELSE events[s]) \in Nat
  BY <1>2
<1>4. events' \in [Sides -> Nat] /\ armed' \in [Sides -> BOOLEAN]
  BY <1>1, <1>2, <1>3
<1>5. events'[s] = (IF armed[s] THEN events[s] + 1 ELSE events[s])
  BY <1>1, <1>2
<1>6. \A x \in Sides : x # s => events'[x] = events[x] /\ armed'[x] = armed[x] /\ cq'[x] = cq[x]
  BY <1>1, <1>2
<1>7. armed[s] \/ events[s] > 0 => events'[s] > 0
  BY <1>2, <1>5
<1> QED
  BY <1>4, <1>6, <1>7 DEF Raised

\* What is left to show of a step of a NIC.
LEMMA NicKeeps ==
    ASSUME PInv, args' = args, faults' = faults, UNCHANGED <<pc, tcp, qp, loopVars>>,
           recvs' \in [Sides -> 0 .. RxDepth], cq' \in [Sides -> Seq(Completions)],
           sq' \in [Sides -> [Qps -> Nat]], net' \in [Sides -> [Qps -> Nat]],
           unacked' \in [Sides -> [Qps -> Nat]],
           events' \in [Sides -> Nat], armed' \in [Sides -> BOOLEAN],
           \A x \in Sides : Raised(x) /\ SendOut(x)' /\ Receives(x)' /\ Delivered(x)',
           \A r \in Qps : Token(r)'
    PROVE  PInv'
<1>0. /\ Types /\ Counts /\ ServerFirst
      /\ \A x \in Sides : Stage(x) /\ Wakeup(x) /\ Answers(x) /\ Bound(x) /\ Done(x)
      /\ UNCHANGED <<wc, routs, pending, scnt, rcnt>>
  BY DEF PInv, Counts, loopVars
<1>1. /\ NumQp' = NumQp /\ Iters' = Iters /\ RxDepth' = RxDepth /\ UseEvent' = UseEvent
      /\ Program' = Program /\ Qps' = Qps /\ (Reliable <=> Reliable')
      /\ Completions' = Completions
  BY SameArguments
<1>2. Types'
  BY <1>0, <1>1 DEF Types
<1>3. ASSUME NEW x \in Sides PROVE Answers(x)' /\ Bound(x)' /\ Done(x)'
  <2>1. SendPending(x)' = SendPending(x) /\ Hold(x)' = Hold(x)
    BY <1>0, SameSets
  <2>2. Posted(x)' = Posted(x)
    BY <1>0, <2>1 DEF Posted
  <2> QED
    BY <1>0, <1>1, <2>1, <2>2 DEF Answers, Bound, Done
<1>4. Counts'
  BY <1>1, <1>3 DEF Counts
<1>5. ServerFirst'
  BY <1>0, ServerFirstStays
<1>6. ASSUME NEW x \in Sides PROVE Stage(x)' /\ Wakeup(x)'
  <2>1. CASE cq'[x] = cq[x] /\ armed'[x] = armed[x] /\ events'[x] = events[x]
    BY <1>0, <2>1, OtherSide
  <2>2. CASE qp[x] = "rts" /\ (armed[x] \/ events[x] > 0 => events'[x] > 0)
    <3>1. Stage(x)'
      BY <1>0, <1>1, <2>2 DEF Stage
    <3>2. Wakeup(x)'
      BY <1>0, <1>1, <2>2 DEF Wakeup, Running
    <3> QED
      BY <3>1, <3>2
  <2> QED
    BY <2>1, <2>2 DEF Raised
<1> QED
  BY <1>2, <1>4, <1>5, <1>6 DEF PInv

LEMMA NicFrame ==
    ASSUME Types, args' = args, UNCHANGED <<pc, loopVars>>, NEW x \in Sides
    PROVE  /\ SendPending(x)' = SendPending(x) /\ Hold(x)' = Hold(x) /\ Posted(x)' = Posted(x)
           /\ (Running(x)' <=> Running(x))
           /\ wc' = wc /\ routs' = routs /\ pending' = pending /\ scnt' = scnt /\ rcnt' = rcnt
<1>1. wc' = wc /\ routs' = routs /\ pending' = pending /\ scnt' = scnt /\ rcnt' = rcnt
  BY DEF loopVars
<1>2. SendPending(x)' = SendPending(x) /\ Hold(x)' = Hold(x)
  BY <1>1, SameSets
<1> QED
  BY <1>1, <1>2 DEF Posted, Running

\* A side that runs with connected queue pairs has one send outstanding on a
\* queue pair, or none.
LEMMA OneSend ==
    ASSUME Types, Counts, NEW s \in Sides, Stage(s), NEW q \in Qps, qp[s] = "rts"
    PROVE  /\ Running(s) /\ One("send" \in pending[s][q]) = sq[s][q] + unacked[s][q] + OwnOn(s, q)
           /\ sq[s][q] + unacked[s][q] + OwnOn(s, q) <= 1
           /\ sq[s][q] + unacked[s][q] + OwnOn(s, q) > 0 => "send" \in pending[s][q]
           /\ sq[s][q] \in Nat /\ unacked[s][q] \in Nat /\ OwnOn(s, q) \in Nat
<1>1. Running(s)
  BY DEF Stage, Running
<1>2. One("send" \in pending[s][q]) = sq[s][q] + unacked[s][q] + OwnOn(s, q)
  BY <1>1 DEF Counts, SendOut
<1>3. sq[s][q] \in Nat /\ unacked[s][q] \in Nat /\ OwnOn(s, q) \in Nat
  BY QpNumbers
<1> QED
  BY <1>1, <1>2, <1>3 DEF One

LEMMA OnlyOne ==
    ASSUME NEW a \in Nat, NEW b \in Nat, NEW c \in Nat, NEW d \in Nat, NEW e \in Nat,
           a + b + c + d + e <= 1
    PROVE  /\ a > 0 => b = 0 /\ c = 0 /\ d = 0
           /\ b > 0 => b = 1 /\ a = 0 /\ c = 0 /\ d = 0
           /\ c > 0 => c = 1 /\ a = 0 /\ b = 0 /\ d = 0
           /\ d > 0 => d = 1 /\ a = 0 /\ b = 0 /\ c = 0
OBVIOUS

\* The one message of a queue pair.
LEMMA OneToken ==
    ASSUME Types, Counts, NEW s \in Sides, NEW q \in Qps
    PROVE  /\ One(q \in Hold(s)) + sq[s][q] + net[s][q] + Received(s, q)
              + (One(q \in Hold(Peer(s))) + sq[Peer(s)][q] + net[Peer(s)][q] + Received(Peer(s), q)) <= 1
           /\ One(q \in Hold(s)) \in Nat /\ sq[s][q] \in Nat
           /\ net[s][q] \in Nat /\ Received(s, q) \in Nat
           /\ One(q \in Hold(Peer(s))) \in Nat /\ sq[Peer(s)][q] \in Nat
           /\ net[Peer(s)][q] \in Nat /\ Received(Peer(s), q) \in Nat
           /\ q \in Hold(s) => sq[s][q] = 0 /\ net[s][q] = 0 /\ Received(s, q) = 0
           /\ sq[s][q] > 0 => /\ sq[s][q] = 1 /\ net[s][q] = 0 /\ Received(s, q) = 0
                              /\ q \notin Hold(s)
           /\ net[s][q] > 0 => net[s][q] = 1 /\ sq[s][q] = 0 /\ Received(s, q) = 0
           /\ Received(s, q) > 0 => /\ Received(s, q) = 1 /\ sq[s][q] = 0 /\ net[s][q] = 0
                                    /\ q \notin Hold(s)
<1>1. Peer(s) \in Sides
  BY BothSides
<1> DEFINE at(x) == One(q \in Hold(x)) + sq[x][q] + net[x][q] + Received(x, q)
<1>2. /\ One(q \in Hold(s)) \in Nat /\ sq[s][q] \in Nat
      /\ net[s][q] \in Nat /\ Received(s, q) \in Nat
      /\ One(q \in Hold(Peer(s))) \in Nat /\ sq[Peer(s)][q] \in Nat
      /\ net[Peer(s)][q] \in Nat /\ Received(Peer(s), q) \in Nat
  BY <1>1, QpNumbers DEF One
<1>3. at(s) \in Nat /\ at(Peer(s)) \in Nat
  BY <1>2
<1>4. (s = "client" /\ Peer(s) = "server") \/ (s = "server" /\ Peer(s) = "client")
  BY DEF Sides, Peer
<1>5. at("client") + at("server") <= 1
  BY DEF Counts, Token
<1>6. at(s) + at(Peer(s)) <= 1
  <2> HIDE DEF at
  <2> QED
    BY <1>3, <1>4, <1>5
<1>7. /\ One(q \in Hold(s)) > 0 => sq[s][q] = 0 /\ net[s][q] = 0 /\ Received(s, q) = 0
      /\ sq[s][q] > 0 => /\ sq[s][q] = 1 /\ One(q \in Hold(s)) = 0
                         /\ net[s][q] = 0 /\ Received(s, q) = 0
      /\ net[s][q] > 0 => /\ net[s][q] = 1 /\ One(q \in Hold(s)) = 0
                          /\ sq[s][q] = 0 /\ Received(s, q) = 0
      /\ Received(s, q) > 0 => /\ Received(s, q) = 1 /\ One(q \in Hold(s)) = 0
                               /\ sq[s][q] = 0 /\ net[s][q] = 0
  <2>1. One(q \in Hold(s)) + sq[s][q] + net[s][q] + Received(s, q) + at(Peer(s)) <= 1
    BY <1>6
  <2> HIDE DEF at
  <2> QED
    BY <1>2, <1>3, <2>1, OnlyOne
<1>8. q \in Hold(s) <=> One(q \in Hold(s)) > 0
  BY DEF One
<1> QED
  BY <1>2, <1>6, <1>7, <1>8

\* To show Token again.
LEMMA TokenNext ==
    ASSUME NEW s \in Sides, NEW q, args' = args,
           One(q \in Hold(s)') + sq'[s][q] + net'[s][q] + Received(s, q)'
           + (One(q \in Hold(Peer(s))') + sq'[Peer(s)][q] + net'[Peer(s)][q] + Received(Peer(s), q)') <= 1,
           One(q \in Hold(s)') + sq'[s][q] + net'[s][q] + Received(s, q)' \in Nat,
           One(q \in Hold(Peer(s))') + sq'[Peer(s)][q] + net'[Peer(s)][q] + Received(Peer(s), q)' \in Nat
    PROVE  Token(q)'
<1>1. CASE s = "client" /\ Peer(s) = "server"
  BY <1>1 DEF Token
<1>2. CASE s = "server" /\ Peer(s) = "client"
  BY <1>2 DEF Token
<1> QED
  BY <1>1, <1>2 DEF Sides, Peer

\* A receive takes the message of a queue pair, from the sender or from the net.
LEMMA Receipt ==
    ASSUME PInv, args' = args, NEW s \in Sides, NEW q \in Qps, UNCHANGED <<pc, loopVars>>,
           qp[Peer(s)] = "rts", recvs[Peer(s)] > 0,
           recvs' = [recvs EXCEPT ![Peer(s)] = recvs[Peer(s)] - 1], Complete(Peer(s), "recv", q),
           Only(sq, sq', s, q), Only(net, net', s, q),
           sq[s][q] + net[s][q] = 1, sq'[s][q] = 0, net'[s][q] = 0
    PROVE  /\ SeenSame(s) /\ cq' \in [Sides -> Seq(Completions)]
           /\ AllOwn(Peer(s))' = AllOwn(Peer(s))
           /\ \A r \in Qps : OwnOn(Peer(s), r)' = OwnOn(Peer(s), r)
           /\ recvs' \in [Sides -> 0 .. RxDepth]
           /\ events' \in [Sides -> Nat] /\ armed' \in [Sides -> BOOLEAN]
           /\ \A x \in Sides : Raised(x) /\ Receives(x)' /\ Delivered(x)'
           /\ \A r \in Qps : Token(r)'
<1> DEFINE p == Peer(s)
<1>0. /\ Types /\ Counts
      /\ p \in Sides /\ p # s /\ Peer(p) = s /\ \A x \in Sides : x = s \/ x = p
  BY BothSides DEF PInv
<1>1. /\ qp[p] = "rts" /\ recvs[p] > 0
      /\ recvs' = [recvs EXCEPT ![p] = recvs[p] - 1]
      /\ Complete(p, "recv", q)
      /\ UNCHANGED <<pc, loopVars>>
  OBVIOUS
<1>2. /\ Qps' = Qps /\ (Reliable <=> Reliable') /\ Program' = Program /\ NumQp' = NumQp
  BY SameArguments
<1>3. sq[s][q] + net[s][q] = 1 /\ sq'[s][q] = 0 /\ net'[s][q] = 0
  OBVIOUS
<1>5. /\ SeenSame(s) /\ AllReceived(p)' = AllReceived(p) + 1 /\ AllOwn(p)' = AllOwn(p)
      /\ \A r \in Qps : /\ Received(p, r)' = Received(p, r) + One(r = q)
                        /\ OwnOn(p, r)' = OwnOn(p, r)
      /\ cq' \in [Sides -> Seq(Completions)]
  <2>1. wc' = wc /\ "recv" \in {"recv", "send", "error"}
    BY <1>1 DEF loopVars
  <2>2. /\ AllOwn(p) \in Nat /\ \A r \in Qps : OwnOn(p, r) \in Nat
    BY <1>0, Numbers, QpNumbers
  <2>3. /\ SeenSame(s) /\ AllReceived(p)' = AllReceived(p) + One("recv" = "recv")
        /\ AllOwn(p)' = AllOwn(p) + One("recv" # "recv")
        /\ \A r \in Qps :
              /\ Received(p, r)' = Received(p, r) + One("recv" = "recv" /\ r = q)
              /\ OwnOn(p, r)' = OwnOn(p, r) + One("recv" # "recv" /\ r = q)
        /\ cq' \in [Sides -> Seq(Completions)]
    BY <1>0, <1>1, <2>1, Completed
  <2> QED
    BY <2>2, <2>3 DEF One
<1>6. /\ Cardinality(Coming(p)') + 1 = Cardinality(Coming(p)) + 0 /\ Coming(s)' = Coming(s)
      /\ Cardinality(Coming(p)') \in Nat
  <2>1. /\ Cardinality(Coming(p)') + One(sq[s][q] + net[s][q] > 0)
                = Cardinality(Coming(p)) + One(sq'[s][q] + net'[s][q] > 0)
        /\ Cardinality(Coming(p)') \in Nat /\ Coming(s)' = Coming(s)
    BY <1>0, ComingStep
  <2>2. One(sq[s][q] + net[s][q] > 0) = 1 /\ One(sq'[s][q] + net'[s][q] > 0) = 0
    BY <1>3 DEF One
  <2> QED
    BY <2>1, <2>2
<1>8. ASSUME NEW x \in Sides
      PROVE  /\ SendPending(x)' = SendPending(x) /\ Hold(x)' = Hold(x) /\ Posted(x)' = Posted(x)
             /\ (Running(x)' <=> Running(x))
             /\ routs' = routs /\ pending' = pending /\ rcnt' = rcnt
  BY <1>0, <1>1, NicFrame
<1>11. Receives(s)' /\ Receives(p)' /\ recvs' \in [Sides -> 0 .. RxDepth]
  <2>1. Receives(s) /\ Receives(p) /\ recvs \in [Sides -> 0 .. RxDepth]
    BY <1>0 DEF Counts, Types
  <2>2. recvs'[p] = recvs[p] - 1 /\ recvs'[s] = recvs[s]
    BY <1>0, <1>1, <2>1
  <2>3. recvs[p] \in Nat /\ recvs[p] <= RxDepth /\ RxDepth \in Nat /\ AllReceived(p) \in Nat
    BY <1>0, Numbers, Arguments DEF Types
  <2>7. recvs[p] - 1 \in 0 .. RxDepth
    BY <1>1, <2>3
  <2>4. recvs' \in [Sides -> 0 .. RxDepth]
    BY <1>0, <1>1, <2>1, <2>7
  <2>5. Receives(s)'
    BY <1>0, <1>1, <1>2, <1>5, <1>8, <2>1, <2>2 DEF Receives, SeenSame
  <2>6. Receives(p)'
    BY <1>0, <1>1, <1>2, <1>5, <1>8, <2>1, <2>2, <2>3 DEF Receives
  <2> QED
    BY <2>4, <2>5, <2>6
<1>12. Delivered(s)'
  BY <1>0, <1>2, <1>5, <1>6, <1>8 DEF Counts, Delivered, SeenSame
<1>13. Delivered(p)'
  <2>1. rcnt[p] \in Nat /\ AllReceived(p) \in Nat /\ Cardinality(Coming(p)) \in Nat
    BY <1>0, Numbers
  <2>2. /\ rcnt[p] + AllReceived(p) + Cardinality(Coming(p)) <= Posted(s)
        /\ Reliable /\ Running(p) => rcnt[p] + AllReceived(p) + Cardinality(Coming(p)) = Posted(s)
    BY <1>0 DEF Counts, Delivered
  <2>3. rcnt'[p] + AllReceived(p)' + Cardinality(Coming(p)') = rcnt[p] + AllReceived(p) + Cardinality(Coming(p))
    <3>1. rcnt'[p] = rcnt[p]
      BY <1>0, <1>8
    <3>2. AllReceived(p)' = AllReceived(p) + 1
      BY <1>5
    <3>3. Cardinality(Coming(p)') = Cardinality(Coming(p)) - 1
      BY <1>6, <2>1
    <3> QED
      BY <2>1, <3>1, <3>2, <3>3
  <2> QED
    BY <1>0, <1>2, <1>8, <2>2, <2>3 DEF Delivered
<1>14. ASSUME NEW r \in Qps PROVE Token(r)'
  <2>1. /\ One(r \in Hold(s)) + sq[s][r] + net[s][r] + Received(s, r)
              + (One(r \in Hold(p)) + sq[p][r] + net[p][r] + Received(p, r)) <= 1
        /\ One(r \in Hold(s)) \in Nat /\ sq[s][r] \in Nat
        /\ net[s][r] \in Nat /\ Received(s, r) \in Nat
        /\ One(r \in Hold(p)) \in Nat /\ sq[p][r] \in Nat
        /\ net[p][r] \in Nat /\ Received(p, r) \in Nat
    BY <1>0, OneToken
  <2>2. /\ One(r \in Hold(s)') = One(r \in Hold(s)) /\ One(r \in Hold(p)') = One(r \in Hold(p))
        /\ Received(s, r)' = Received(s, r) /\ sq'[p][r] = sq[p][r] /\ net'[p][r] = net[p][r]
    BY <1>0, <1>5, <1>8 DEF SeenSame, Only
  <2>3. /\ sq'[s][r] + net'[s][r] + Received(p, r)' = sq[s][r] + net[s][r] + Received(p, r)
        /\ sq'[s][r] \in Nat /\ net'[s][r] \in Nat /\ Received(p, r)' \in Nat
    <3>1. CASE r = q
      <4>1. Received(p, r)' = Received(p, r) + 1
        BY <1>5, <3>1 DEF One
      <4> QED
        BY <1>3, <2>1, <3>1, <4>1
    <3>2. CASE r # q
      <4>1. Received(p, r)' = Received(p, r) + 0
        BY <1>5, <3>2 DEF One
      <4>2. sq'[s][r] = sq[s][r] /\ net'[s][r] = net[s][r]
        BY <3>2 DEF Only
      <4> QED
        BY <2>1, <4>1, <4>2
    <3> QED
      BY <3>1, <3>2
  <2> QED
    BY <2>1, <2>2, <2>3, TokenNext
<1>15. /\ events' \in [Sides -> Nat] /\ armed' \in [Sides -> BOOLEAN] /\ \A x \in Sides : Raised(x)
  BY <1>0, <1>1, Raises
<1>16. \A x \in Sides : Raised(x) /\ Receives(x)' /\ Delivered(x)'
  BY <1>0, <1>11, <1>12, <1>13, <1>15
<1> QED
  BY <1>5, <1>11, <1>14, <1>15, <1>16

LEMMA SendReliableKeeps ==
    ASSUME PInv, args' = args, faults' = faults, NEW s \in Sides, NEW q \in Qps, SendReliable(s, q)
    PROVE  PInv'
<1> DEFINE p == Peer(s)
<1>0. /\ Types /\ Counts /\ Stage(s) /\ Stage(p)
      /\ p \in Sides /\ p # s /\ Peer(p) = s /\ \A x \in Sides : x = s \/ x = p
  BY BothSides DEF PInv
<1>1. /\ Reliable /\ qp[s] = "rts" /\ sq[s][q] > 0 /\ qp[p] = "rts" /\ recvs[p] > 0
      /\ sq' = [sq EXCEPT ![s][q] = sq[s][q] - 1]
      /\ unacked' = [unacked EXCEPT ![s][q] = unacked[s][q] + 1]
      /\ recvs' = [recvs EXCEPT ![p] = recvs[p] - 1]
      /\ Complete(p, "recv", q)
      /\ net' = net /\ UNCHANGED <<pc, tcp, qp, loopVars>>
  BY DEF SendReliable, Prepared
<1>2. /\ Qps' = Qps /\ (Reliable <=> Reliable') /\ Program' = Program /\ NumQp' = NumQp
  BY SameArguments
<1>3. sq[s][q] = 1 /\ net[s][q] = 0 /\ unacked[s][q] = 0 /\ "send" \in pending[s][q]
  <2>1. /\ sq[s][q] + unacked[s][q] + OwnOn(s, q) <= 1
        /\ sq[s][q] + unacked[s][q] + OwnOn(s, q) > 0 => "send" \in pending[s][q]
        /\ sq[s][q] \in Nat /\ unacked[s][q] \in Nat /\ OwnOn(s, q) \in Nat
    BY <1>0, <1>1, OneSend
  <2>2. net[s][q] = 0
    BY <1>0, <1>1 DEF Counts, SendOut
  <2> QED
    BY <1>1, <2>1, <2>2
<1>4. /\ sq' \in [Sides -> [Qps -> Nat]] /\ sq'[s][q] = 0 /\ Only(sq, sq', s, q)
      /\ unacked' \in [Sides -> [Qps -> Nat]] /\ unacked'[s][q] = 1 /\ Only(unacked, unacked', s, q)
      /\ Only(net, net', s, q)
  <2>1. sq \in [Sides -> [Qps -> Nat]] /\ unacked \in [Sides -> [Qps -> Nat]] /\ 0 \in Nat /\ 1 \in Nat
    BY <1>0 DEF Types
  <2>2. sq' = [sq EXCEPT ![s][q] = 0] /\ unacked' = [unacked EXCEPT ![s][q] = 1]
    BY <1>1, <1>3
  <2>3. sq' \in [Sides -> [Qps -> Nat]] /\ sq'[s][q] = 0 /\ Only(sq, sq', s, q)
    BY <2>1, <2>2 DEF Only
  <2>4. unacked' \in [Sides -> [Qps -> Nat]] /\ unacked'[s][q] = 1 /\ Only(unacked, unacked', s, q)
    BY <2>1, <2>2 DEF Only
  <2>5. Only(net, net', s, q)
    BY <1>1, OnlySame
  <2> QED
    BY <2>3, <2>4, <2>5
<1>5. /\ SeenSame(s) /\ cq' \in [Sides -> Seq(Completions)]
      /\ AllOwn(p)' = AllOwn(p) /\ \A r \in Qps : OwnOn(p, r)' = OwnOn(p, r)
      /\ recvs' \in [Sides -> 0 .. RxDepth]
      /\ events' \in [Sides -> Nat] /\ armed' \in [Sides -> BOOLEAN]
      /\ \A x \in Sides : Raised(x) /\ Receives(x)' /\ Delivered(x)'
      /\ \A r \in Qps : Token(r)'
  <2>1. sq[s][q] + net[s][q] = 1 /\ sq'[s][q] = 0 /\ net'[s][q] = 0
    BY <1>1, <1>3, <1>4
  <2> QED
    BY <1>0, <1>1, <1>4, <2>1, Receipt
<1>7. /\ Cardinality(OnQp(s)') = Cardinality(OnQp(s)) /\ OnQp(p)' = OnQp(p)
  <2>1. /\ Cardinality(OnQp(s)') + One(sq[s][q] + unacked[s][q] > 0)
                = Cardinality(OnQp(s)) + One(sq'[s][q] + unacked'[s][q] > 0)
        /\ Cardinality(OnQp(s)') \in Nat /\ Cardinality(OnQp(s)) \in Nat
        /\ OnQp(p)' = OnQp(p)
    BY <1>0, <1>4, OnQpStep
  <2>2. One(sq[s][q] + unacked[s][q] > 0) = 1 /\ One(sq'[s][q] + unacked'[s][q] > 0) = 1
    BY <1>3, <1>4 DEF One
  <2> QED
    BY <2>1, <2>2
<1>8. ASSUME NEW x \in Sides
      PROVE  /\ SendPending(x)' = SendPending(x) /\ Hold(x)' = Hold(x) /\ Posted(x)' = Posted(x)
             /\ (Running(x)' <=> Running(x))
             /\ pending' = pending
  BY <1>0, <1>1, NicFrame
<1>9. SendOut(s)'
  <2>1. ASSUME NEW r \in Qps
        PROVE  /\ sq'[s][r] > 0 => "send" \in pending'[s][r]
               /\ net'[s][r] = 0
               /\ One("send" \in pending'[s][r]) = sq'[s][r] + unacked'[s][r] + OwnOn(s, r)'
    <3>1. net[s][r] = 0 /\ (sq[s][r] > 0 => "send" \in pending[s][r])
      BY <1>0, <1>1 DEF Counts, SendOut
    <3>2. One("send" \in pending[s][r]) = sq[s][r] + unacked[s][r] + OwnOn(s, r)
      BY <1>0, <1>1, OneSend
    <3>3. CASE r = q
      BY <1>1, <1>3, <1>4, <1>5, <1>8, <3>1, <3>2, <3>3 DEF SeenSame
    <3>4. CASE r # q
      BY <1>0, <1>1, <1>4, <1>5, <1>8, <3>1, <3>2, <3>4 DEF SeenSame, Only
    <3> QED
      BY <3>3, <3>4
  <2>2. Cardinality(OnQp(s)') + AllOwn(s)' = Cardinality(SendPending(s)')
    BY <1>0, <1>1, <1>5, <1>7, <1>8, OneSend DEF SeenSame, Counts, SendOut
  <2> QED
    BY <1>2, <2>1, <2>2 DEF SendOut
<1>10. SendOut(p)'
  <2>1. \A r \in Qps : sq'[p][r] = sq[p][r] /\ unacked'[p][r] = unacked[p][r]
    BY <1>0, <1>4 DEF Only
  <2>2. SendOut(p)
    BY <1>0 DEF Counts
  <2> QED
    BY <1>0, <1>1, <1>2, <1>5, <1>7, <1>8, <2>1, <2>2 DEF SendOut
<1>11. net' \in [Sides -> [Qps -> Nat]]
  BY <1>0, <1>1 DEF Types
<1>12. \A x \in Sides : Raised(x) /\ SendOut(x)' /\ Receives(x)' /\ Delivered(x)'
  BY <1>0, <1>5, <1>9, <1>10
<1> QED
  BY <1>1, <1>4, <1>5, <1>11, <1>12, NicKeeps

\* The message of an unreliable transport goes from the send queue to the net.
LEMMA SendUnreliableKeeps ==
    ASSUME PInv, args' = args, faults' = faults, NEW s \in Sides, NEW q \in Qps, SendUnreliable(s, q)
    PROVE  PInv'
<1> DEFINE p == Peer(s)
<1>0. /\ Types /\ Counts /\ Stage(s)
      /\ p \in Sides /\ p # s /\ Peer(p) = s /\ \A x \in Sides : x = s \/ x = p
  BY BothSides DEF PInv
<1>1. /\ ~Reliable /\ qp[s] = "rts" /\ sq[s][q] > 0
      /\ sq' = [sq EXCEPT ![s][q] = sq[s][q] - 1]
      /\ unacked' = [unacked EXCEPT ![s][q] = unacked[s][q] + 1]
      /\ net' = [net EXCEPT ![s][q] = net[s][q] + 1]
      /\ UNCHANGED <<pc, tcp, qp, recvs, cq, armed, events, loopVars>>
  BY DEF SendUnreliable
<1>2. /\ Qps' = Qps /\ (Reliable <=> Reliable') /\ Program' = Program /\ NumQp' = NumQp
  BY SameArguments
<1>3. sq[s][q] = 1 /\ net[s][q] = 0 /\ unacked[s][q] = 0 /\ "send" \in pending[s][q]
  <2>1. /\ sq[s][q] + unacked[s][q] + OwnOn(s, q) <= 1
        /\ sq[s][q] + unacked[s][q] + OwnOn(s, q) > 0 => "send" \in pending[s][q]
        /\ sq[s][q] \in Nat /\ unacked[s][q] \in Nat /\ OwnOn(s, q) \in Nat
    BY <1>0, <1>1, OneSend
  <2>2. net[s][q] = 0
    BY <1>0, <1>1, OneToken
  <2> QED
    BY <1>1, <2>1, <2>2
<1>4. /\ sq' \in [Sides -> [Qps -> Nat]] /\ sq'[s][q] = 0 /\ Only(sq, sq', s, q)
      /\ unacked' \in [Sides -> [Qps -> Nat]] /\ unacked'[s][q] = 1 /\ Only(unacked, unacked', s, q)
      /\ net' \in [Sides -> [Qps -> Nat]] /\ net'[s][q] = 1 /\ Only(net, net', s, q)
  <2>1. /\ sq \in [Sides -> [Qps -> Nat]] /\ unacked \in [Sides -> [Qps -> Nat]]
        /\ net \in [Sides -> [Qps -> Nat]] /\ 0 \in Nat /\ 1 \in Nat
    BY <1>0 DEF Types
  <2>2. /\ sq' = [sq EXCEPT ![s][q] = 0] /\ unacked' = [unacked EXCEPT ![s][q] = 1]
        /\ net' = [net EXCEPT ![s][q] = 1]
    BY <1>1, <1>3
  <2>3. sq' \in [Sides -> [Qps -> Nat]] /\ sq'[s][q] = 0 /\ Only(sq, sq', s, q)
    BY <2>1, <2>2 DEF Only
  <2>4. unacked' \in [Sides -> [Qps -> Nat]] /\ unacked'[s][q] = 1 /\ Only(unacked, unacked', s, q)
    BY <2>1, <2>2 DEF Only
  <2>5. net' \in [Sides -> [Qps -> Nat]] /\ net'[s][q] = 1 /\ Only(net, net', s, q)
    BY <2>1, <2>2 DEF Only
  <2> QED
    BY <2>3, <2>4, <2>5
<1>5. ASSUME NEW x \in Sides
      PROVE  /\ SeenSame(x) /\ SendPending(x)' = SendPending(x) /\ Hold(x)' = Hold(x)
             /\ Posted(x)' = Posted(x) /\ (Running(x)' <=> Running(x))
             /\ routs' = routs /\ pending' = pending /\ rcnt' = rcnt
  <2>1. wc' = wc
    BY <1>1 DEF loopVars
  <2> QED
    BY <1>0, <1>1, <2>1, NicFrame, Unlooked
<1>6. Cardinality(Coming(p)') = Cardinality(Coming(p)) /\ Coming(s)' = Coming(s)
  <2>1. /\ Cardinality(Coming(p)') + One(sq[s][q] + net[s][q] > 0)
                = Cardinality(Coming(p)) + One(sq'[s][q] + net'[s][q] > 0)
        /\ Cardinality(Coming(p)') \in Nat /\ Cardinality(Coming(p)) \in Nat /\ Coming(s)' = Coming(s)
    BY <1>0, <1>4, ComingStep
  <2>2. One(sq[s][q] + net[s][q] > 0) = 1 /\ One(sq'[s][q] + net'[s][q] > 0) = 1
    BY <1>3, <1>4 DEF One
  <2> QED
    BY <2>1, <2>2
<1>7. Cardinality(OnQp(s)') = Cardinality(OnQp(s)) /\ OnQp(p)' = OnQp(p)
  <2>1. /\ Cardinality(OnQp(s)') + One(sq[s][q] + unacked[s][q] > 0)
                = Cardinality(OnQp(s)) + One(sq'[s][q] + unacked'[s][q] > 0)
        /\ Cardinality(OnQp(s)') \in Nat /\ Cardinality(OnQp(s)) \in Nat
        /\ OnQp(p)' = OnQp(p)
    BY <1>0, <1>4, OnQpStep
  <2>2. One(sq[s][q] + unacked[s][q] > 0) = 1 /\ One(sq'[s][q] + unacked'[s][q] > 0) = 1
    BY <1>3, <1>4 DEF One
  <2> QED
    BY <2>1, <2>2
<1>8. SendOut(s)'
  <2>1. ASSUME NEW r \in Qps
        PROVE  /\ sq'[s][r] > 0 => "send" \in pending'[s][r]
               /\ One("send" \in pending'[s][r]) = sq'[s][r] + unacked'[s][r] + OwnOn(s, r)'
    <3>1. sq[s][r] > 0 => "send" \in pending[s][r]
      BY <1>0 DEF Counts, SendOut
    <3>2. One("send" \in pending[s][r]) = sq[s][r] + unacked[s][r] + OwnOn(s, r)
      BY <1>0, <1>1, OneSend
    <3>3. CASE r = q
      BY <1>3, <1>4, <1>5, <3>2, <3>3 DEF SeenSame
    <3>4. CASE r # q
      BY <1>4, <1>5, <3>1, <3>2, <3>4 DEF SeenSame, Only
    <3> QED
      BY <3>3, <3>4
  <2>2. Cardinality(OnQp(s)') + AllOwn(s)' = Cardinality(SendPending(s)')
    BY <1>0, <1>1, <1>5, <1>7, OneSend DEF SeenSame, Counts, SendOut
  <2> QED
    BY <1>1, <1>2, <2>1, <2>2 DEF SendOut
<1>9. SendOut(p)'
  <2>1. \A r \in Qps : sq'[p][r] = sq[p][r] /\ unacked'[p][r] = unacked[p][r]
    BY <1>0, <1>4 DEF Only
  <2>2. SendOut(p)
    BY <1>0 DEF Counts
  <2> QED
    BY <1>0, <1>1, <1>2, <1>5, <1>7, <2>1, <2>2 DEF SendOut, SeenSame
<1>10. ASSUME NEW x \in Sides PROVE Receives(x)' /\ Delivered(x)'
  <2>1. Cardinality(Coming(x)') = Cardinality(Coming(x)) /\ Peer(x) \in Sides
    BY <1>0, <1>6
  <2>2. Receives(x) /\ Delivered(x)
    BY <1>0 DEF Counts
  <2> QED
    BY <1>1, <1>2, <1>5, <2>1, <2>2 DEF Receives, Delivered, SeenSame
<1>11. ASSUME NEW r \in Qps PROVE Token(r)'
  <2>1. /\ One(r \in Hold(s)) + sq[s][r] + net[s][r] + Received(s, r)
              + (One(r \in Hold(p)) + sq[p][r] + net[p][r] + Received(p, r)) <= 1
        /\ One(r \in Hold(s)) \in Nat /\ sq[s][r] \in Nat
        /\ net[s][r] \in Nat /\ Received(s, r) \in Nat
        /\ One(r \in Hold(p)) \in Nat /\ sq[p][r] \in Nat
        /\ net[p][r] \in Nat /\ Received(p, r) \in Nat
    BY <1>0, OneToken
  <2>2. /\ One(r \in Hold(s)') = One(r \in Hold(s)) /\ One(r \in Hold(p)') = One(r \in Hold(p))
        /\ Received(s, r)' = Received(s, r) /\ Received(p, r)' = Received(p, r)
        /\ sq'[p][r] = sq[p][r] /\ net'[p][r] = net[p][r]
    BY <1>0, <1>4, <1>5 DEF SeenSame, Only
  <2>3. /\ sq'[s][r] + net'[s][r] = sq[s][r] + net[s][r] /\ sq'[s][r] \in Nat /\ net'[s][r] \in Nat
    <3>1. CASE r = q
      BY <1>3, <1>4, <3>1
    <3>2. CASE r # q
      BY <1>4, <2>1, <3>2 DEF Only
    <3> QED
      BY <3>1, <3>2
  <2> QED
    BY <2>1, <2>2, <2>3, TokenNext
<1>12. /\ recvs' \in [Sides -> 0 .. RxDepth] /\ cq' \in [Sides -> Seq(Completions)]
       /\ events' \in [Sides -> Nat] /\ armed' \in [Sides -> BOOLEAN]
  BY <1>0, <1>1 DEF Types
<1>13. \A x \in Sides : Raised(x) /\ SendOut(x)' /\ Receives(x)' /\ Delivered(x)'
  BY <1>0, <1>1, <1>8, <1>9, <1>10 DEF Raised
<1> QED
  BY <1>1, <1>4, <1>11, <1>12, <1>13, NicKeeps

\* A message that is lost, or that arrives.
LEMMA NetKeeps ==
    ASSUME PInv, args' = args, faults' = faults, NEW s \in Sides, NEW q \in Qps,
           Arrive(s, q) \/ Lose(s, q)
    PROVE  PInv'
<1> DEFINE p == Peer(s)
<1>0. /\ Types /\ Counts
      /\ p \in Sides /\ p # s /\ Peer(p) = s /\ \A x \in Sides : x = s \/ x = p
  BY BothSides DEF PInv
<1>1. /\ net[s][q] > 0 /\ net' = [net EXCEPT ![s][q] = net[s][q] - 1]
      /\ UNCHANGED <<pc, tcp, qp, sq, unacked, loopVars>>
      /\ \/ /\ qp[p] = "rts" /\ recvs[p] > 0
            /\ recvs' = [recvs EXCEPT ![p] = recvs[p] - 1] /\ Complete(p, "recv", q)
         \/ UNCHANGED <<recvs, cq, armed, events>>
  BY DEF Arrive, Lose, Prepared
<1>2. /\ Qps' = Qps /\ (Reliable <=> Reliable') /\ Program' = Program /\ NumQp' = NumQp
  BY SameArguments
<1>3. net[s][q] = 1 /\ sq[s][q] = 0 /\ ~Reliable
  <2>1. ~Reliable
    BY <1>0, <1>1 DEF Counts, SendOut
  <2>2. net[s][q] = 1 /\ sq[s][q] = 0
    BY <1>0, <1>1, OneToken
  <2> QED
    BY <2>1, <2>2
<1>4. /\ net' \in [Sides -> [Qps -> Nat]] /\ net'[s][q] = 0
      /\ Only(net, net', s, q) /\ Only(sq, sq', s, q)
  <2>1. net \in [Sides -> [Qps -> Nat]] /\ 0 \in Nat
    BY <1>0 DEF Types
  <2>2. net' = [net EXCEPT ![s][q] = 0]
    BY <1>1, <1>3
  <2> QED
    BY <1>1, <2>1, <2>2 DEF Only
<1>5. ASSUME NEW x \in Sides
      PROVE  /\ SendPending(x)' = SendPending(x) /\ Hold(x)' = Hold(x)
             /\ Posted(x)' = Posted(x) /\ (Running(x)' <=> Running(x))
             /\ routs' = routs /\ pending' = pending /\ rcnt' = rcnt /\ wc' = wc
             /\ OnQp(x)' = OnQp(x)
  BY <1>0, <1>1, NicFrame, SameSets
<1>6. ASSUME NEW x \in Sides, AllOwn(x)' = AllOwn(x), \A r \in Qps : OwnOn(x, r)' = OwnOn(x, r)
      PROVE  SendOut(x)'
  <2>1. SendOut(x)
    BY <1>0 DEF Counts
  <2> QED
    BY <1>1, <1>2, <1>3, <1>5, <1>6, <2>1 DEF SendOut
<1>7. /\ sq' \in [Sides -> [Qps -> Nat]] /\ unacked' \in [Sides -> [Qps -> Nat]]
  BY <1>0, <1>1 DEF Types
<1>8. CASE /\ qp[p] = "rts" /\ recvs[p] > 0
           /\ recvs' = [recvs EXCEPT ![p] = recvs[p] - 1] /\ Complete(p, "recv", q)
  <2>1. /\ SeenSame(s) /\ cq' \in [Sides -> Seq(Completions)]
        /\ AllOwn(p)' = AllOwn(p) /\ \A r \in Qps : OwnOn(p, r)' = OwnOn(p, r)
        /\ recvs' \in [Sides -> 0 .. RxDepth]
        /\ events' \in [Sides -> Nat] /\ armed' \in [Sides -> BOOLEAN]
        /\ \A x \in Sides : Raised(x) /\ Receives(x)' /\ Delivered(x)'
        /\ \A r \in Qps : Token(r)'
    <3>1. sq[s][q] + net[s][q] = 1 /\ sq'[s][q] = 0 /\ net'[s][q] = 0
      BY <1>1, <1>3, <1>4
    <3> QED
      BY <1>0, <1>1, <1>4, <1>8, <3>1, Receipt
  <2>2. SendOut(s)' /\ SendOut(p)'
    BY <1>0, <1>6, <2>1 DEF SeenSame
  <2>3. \A x \in Sides : Raised(x) /\ SendOut(x)' /\ Receives(x)' /\ Delivered(x)'
    BY <1>0, <2>1, <2>2
  <2> QED
    BY <1>1, <1>4, <1>7, <2>1, <2>3, NicKeeps
<1>9. CASE UNCHANGED <<recvs, cq, armed, events>>
  <2>1. ASSUME NEW x \in Sides PROVE SeenSame(x) /\ Raised(x)
    BY <1>5, <1>9, Unlooked DEF Raised
  <2>2. /\ Coming(s)' = Coming(s) /\ Cardinality(Coming(p)') \in Nat
        /\ Cardinality(Coming(p)') <= Cardinality(Coming(p)) /\ Cardinality(Coming(p)) \in Nat
    <3>1. /\ Cardinality(Coming(p)') + One(sq[s][q] + net[s][q] > 0)
                  = Cardinality(Coming(p)) + One(sq'[s][q] + net'[s][q] > 0)
          /\ Cardinality(Coming(p)') \in Nat /\ Cardinality(Coming(p)) \in Nat
          /\ Coming(s)' = Coming(s)
      BY <1>0, <1>4, ComingStep
    <3>2. One(sq[s][q] + net[s][q] > 0) = 1 /\ One(sq'[s][q] + net'[s][q] > 0) = 0
      BY <1>1, <1>3, <1>4 DEF One
    <3> QED
      BY <3>1, <3>2
  <2>3. ASSUME NEW x \in Sides PROVE Receives(x)' /\ Delivered(x)'
    <3>1. /\ Cardinality(Coming(x)') \in Nat /\ Cardinality(Coming(x)) \in Nat
          /\ Cardinality(Coming(x)') <= Cardinality(Coming(x)) /\ Peer(x) \in Sides
          /\ rcnt[x] \in Nat /\ AllReceived(x) \in Nat /\ Posted(Peer(x)) \in Nat
      <4>1. /\ Cardinality(Coming(x)) \in Nat /\ Peer(x) \in Sides
            /\ rcnt[x] \in Nat /\ AllReceived(x) \in Nat
        BY <1>0, Numbers
      <4>2. Posted(Peer(x)) \in Nat
        BY <1>0, <4>1, Numbers
      <4>3. CASE x = s
        BY <2>2, <4>1, <4>2, <4>3
      <4>4. CASE x = p
        BY <2>2, <4>1, <4>2, <4>4
      <4> QED
        BY <1>0, <4>3, <4>4
    <3>2. Receives(x) /\ rcnt[x] + AllReceived(x) + Cardinality(Coming(x)) <= Posted(Peer(x))
      BY <1>0 DEF Counts, Delivered
    <3>3. Receives(x)'
      BY <1>1, <1>2, <1>5, <1>9, <2>1, <3>2 DEF Receives, SeenSame
    <3>4. rcnt'[x] + AllReceived(x)' + Cardinality(Coming(x)') <= Posted(Peer(x))'
      BY <1>5, <2>1, <3>1, <3>2 DEF SeenSame
    <3>5. ~Reliable'
      BY <1>2, <1>3
    <3> QED
      BY <3>3, <3>4, <3>5 DEF Delivered
  <2>4. ASSUME NEW r \in Qps PROVE Token(r)'
    <3>1. /\ One(r \in Hold(s)) + sq[s][r] + net[s][r] + Received(s, r)
                + (One(r \in Hold(p)) + sq[p][r] + net[p][r] + Received(p, r)) <= 1
          /\ One(r \in Hold(s)) \in Nat /\ sq[s][r] \in Nat
          /\ net[s][r] \in Nat /\ Received(s, r) \in Nat
          /\ One(r \in Hold(p)) \in Nat /\ sq[p][r] \in Nat
          /\ net[p][r] \in Nat /\ Received(p, r) \in Nat
      BY <1>0, OneToken
    <3>2. /\ One(r \in Hold(s)') = One(r \in Hold(s)) /\ One(r \in Hold(p)') = One(r \in Hold(p))
          /\ Received(s, r)' = Received(s, r) /\ Received(p, r)' = Received(p, r)
          /\ sq' = sq /\ net'[p][r] = net[p][r]
      BY <1>0, <1>1, <1>4, <1>5, <2>1 DEF SeenSame, Only
    <3>3. /\ net'[s][r] <= net[s][r] /\ net'[s][r] \in Nat
      BY <1>3, <1>4, <3>1 DEF Only
    <3> QED
      BY <3>1, <3>2, <3>3, TokenNext
  <2>5. /\ recvs' \in [Sides -> 0 .. RxDepth] /\ cq' \in [Sides -> Seq(Completions)]
        /\ events' \in [Sides -> Nat] /\ armed' \in [Sides -> BOOLEAN]
    BY <1>0, <1>9 DEF Types
  <2>6. \A x \in Sides : Raised(x) /\ SendOut(x)' /\ Receives(x)' /\ Delivered(x)'
    BY <1>6, <2>1, <2>3 DEF SeenSame
  <2> QED
    BY <1>1, <1>4, <1>7, <2>4, <2>5, <2>6, NicKeeps
<1> QED
  BY <1>1, <1>8, <1>9

\* A send is reported, as done or as failed.
LEMMA OwnCompletionKeeps ==
    ASSUME PInv, args' = args, faults' = faults, NEW s \in Sides, NEW q \in Qps,
           SendCompletes(s, q) \/ SendFails(s, q)
    PROVE  PInv'
<1> DEFINE p == Peer(s)
<1>0. /\ Types /\ Counts /\ Stage(s) /\ Stage(p)
      /\ p \in Sides /\ p # s /\ Peer(p) = s /\ \A x \in Sides : x = s \/ x = p
  BY BothSides DEF PInv
<1>1. /\ qp[s] = "rts" /\ sq[s][q] + unacked[s][q] > 0
      /\ \E what \in {"send", "error"} : Complete(s, what, q)
      /\ UNCHANGED <<pc, tcp, qp, recvs, net, loopVars>>
      /\ \/ /\ sq' = sq /\ unacked[s][q] > 0
            /\ unacked' = [unacked EXCEPT ![s][q] = unacked[s][q] - 1]
         \/ /\ sq' = [sq EXCEPT ![s][q] = 0] /\ unacked' = [unacked EXCEPT ![s][q] = 0]
            /\ qp[p] = "destroyed"
  <2>1. sq[s][q] \in Nat /\ unacked[s][q] \in Nat
    BY <1>0, QpNumbers
  <2>2. CASE SendCompletes(s, q)
    <3>1. sq[s][q] + unacked[s][q] > 0
      BY <2>1, <2>2 DEF SendCompletes
    <3> QED
      BY <2>2, <3>1 DEF SendCompletes
  <2>3. CASE SendFails(s, q)
    <3>1. sq[s][q] + unacked[s][q] > 0
      BY <2>1, <2>3 DEF SendFails
    <3> QED
      BY <2>3, <3>1 DEF SendFails
  <2> QED
    BY <2>2, <2>3
<1>2. /\ Qps' = Qps /\ (Reliable <=> Reliable') /\ Program' = Program /\ NumQp' = NumQp
  BY SameArguments
<1>3. sq[s][q] + unacked[s][q] = 1 /\ OwnOn(s, q) = 0 /\ "send" \in pending[s][q]
      /\ sq[s][q] \in Nat /\ unacked[s][q] \in Nat
  <2>1. /\ sq[s][q] + unacked[s][q] + OwnOn(s, q) <= 1
        /\ sq[s][q] + unacked[s][q] + OwnOn(s, q) > 0 => "send" \in pending[s][q]
        /\ sq[s][q] \in Nat /\ unacked[s][q] \in Nat /\ OwnOn(s, q) \in Nat
    BY <1>0, <1>1, OneSend
  <2> QED
    BY <1>1, <2>1
<1>4. /\ sq' \in [Sides -> [Qps -> Nat]] /\ sq'[s][q] = 0 /\ Only(sq, sq', s, q)
      /\ unacked' \in [Sides -> [Qps -> Nat]] /\ unacked'[s][q] = 0 /\ Only(unacked, unacked', s, q)
      /\ Only(net, net', s, q)
  <2>1. sq \in [Sides -> [Qps -> Nat]] /\ unacked \in [Sides -> [Qps -> Nat]] /\ 0 \in Nat
    BY <1>0 DEF Types
  <2>2. unacked' = [unacked EXCEPT ![s][q] = 0]
    BY <1>1, <1>3
  <2>3. (sq' = sq /\ sq[s][q] = 0) \/ sq' = [sq EXCEPT ![s][q] = 0]
    BY <1>1, <1>3
  <2>4. sq' \in [Sides -> [Qps -> Nat]] /\ sq'[s][q] = 0 /\ Only(sq, sq', s, q)
    BY <2>1, <2>3 DEF Only
  <2>5. unacked' \in [Sides -> [Qps -> Nat]] /\ unacked'[s][q] = 0 /\ Only(unacked, unacked', s, q)
    BY <2>1, <2>2 DEF Only
  <2>6. Only(net, net', s, q)
    BY <1>1, OnlySame
  <2> QED
    BY <2>4, <2>5, <2>6
<1>5. /\ SeenSame(p) /\ AllReceived(s)' = AllReceived(s) /\ AllOwn(s)' = AllOwn(s) + 1
      /\ \A r \in Qps : /\ Received(s, r)' = Received(s, r)
                        /\ OwnOn(s, r)' = OwnOn(s, r) + One(r = q)
      /\ cq' \in [Sides -> Seq(Completions)]
      /\ events' \in [Sides -> Nat] /\ armed' \in [Sides -> BOOLEAN]
      /\ \A x \in Sides : Raised(x)
  <2>1. PICK what \in {"send", "error"} : Complete(s, what, q)
    BY <1>1
  <2>2. wc' = wc /\ what \in {"recv", "send", "error"} /\ what # "recv"
    BY <1>1 DEF loopVars
  <2>3. AllReceived(s) \in Nat /\ \A r \in Qps : Received(s, r) \in Nat
    BY <1>0, Numbers, QpNumbers
  <2>4. /\ SeenSame(p) /\ AllReceived(s)' = AllReceived(s) + One(what = "recv")
        /\ AllOwn(s)' = AllOwn(s) + One(what # "recv")
        /\ \A r \in Qps :
              /\ Received(s, r)' = Received(s, r) + One(what = "recv" /\ r = q)
              /\ OwnOn(s, r)' = OwnOn(s, r) + One(what # "recv" /\ r = q)
        /\ cq' \in [Sides -> Seq(Completions)]
    BY <1>0, <2>1, <2>2, Completed
  <2>5. /\ events' \in [Sides -> Nat] /\ armed' \in [Sides -> BOOLEAN] /\ \A x \in Sides : Raised(x)
    BY <1>0, <1>1, <2>1, Raises
  <2> QED
    BY <2>2, <2>3, <2>4, <2>5 DEF One
<1>6. /\ Coming(s)' = Coming(s) /\ Cardinality(Coming(p)') \in Nat /\ Cardinality(Coming(p)) \in Nat
      /\ Cardinality(Coming(p)') <= Cardinality(Coming(p))
      /\ Running(p) => Cardinality(Coming(p)') = Cardinality(Coming(p))
  <2>1. /\ Cardinality(Coming(p)') + One(sq[s][q] + net[s][q] > 0)
                = Cardinality(Coming(p)) + One(sq'[s][q] + net'[s][q] > 0)
        /\ Cardinality(Coming(p)') \in Nat /\ Cardinality(Coming(p)) \in Nat
        /\ Coming(s)' = Coming(s)
    BY <1>0, <1>4, ComingStep
  <2>2. net'[s][q] = net[s][q] /\ net[s][q] \in Nat
    BY <1>0, <1>1, QpNumbers
  <2>3. One(sq'[s][q] + net'[s][q] > 0) <= One(sq[s][q] + net[s][q] > 0)
    BY <1>3, <1>4, <2>2 DEF One
  <2>4. Running(p) => sq'[s][q] = sq[s][q]
    BY <1>0, <1>1 DEF Stage, Running
  <2>5. Running(p) => One(sq'[s][q] + net'[s][q] > 0) = One(sq[s][q] + net[s][q] > 0)
    BY <2>2, <2>4
  <2>6. One(sq'[s][q] + net'[s][q] > 0) \in Nat /\ One(sq[s][q] + net[s][q] > 0) \in Nat
    BY DEF One
  <2> QED
    BY <2>1, <2>3, <2>5, <2>6
<1>7. Cardinality(OnQp(s)') + 1 = Cardinality(OnQp(s)) /\ OnQp(p)' = OnQp(p)
      /\ Cardinality(OnQp(s)') \in Nat
  <2>1. /\ Cardinality(OnQp(s)') + One(sq[s][q] + unacked[s][q] > 0)
                = Cardinality(OnQp(s)) + One(sq'[s][q] + unacked'[s][q] > 0)
        /\ Cardinality(OnQp(s)') \in Nat /\ Cardinality(OnQp(s)) \in Nat
        /\ OnQp(p)' = OnQp(p)
    BY <1>0, <1>4, OnQpStep
  <2>2. One(sq[s][q] + unacked[s][q] > 0) = 1 /\ One(sq'[s][q] + unacked'[s][q] > 0) = 0
    BY <1>3, <1>4 DEF One
  <2> QED
    BY <2>1, <2>2
<1>8. ASSUME NEW x \in Sides
      PROVE  /\ SendPending(x)' = SendPending(x) /\ Hold(x)' = Hold(x)
             /\ Posted(x)' = Posted(x) /\ (Running(x)' <=> Running(x))
             /\ routs' = routs /\ pending' = pending /\ rcnt' = rcnt
  BY <1>0, <1>1, NicFrame
<1>9. SendOut(s)'
  <2>1. ASSUME NEW r \in Qps
        PROVE  /\ sq'[s][r] > 0 => "send" \in pending'[s][r]
               /\ Reliable => net'[s][r] = 0
               /\ One("send" \in pending'[s][r]) = sq'[s][r] + unacked'[s][r] + OwnOn(s, r)'
    <3>1. (sq[s][r] > 0 => "send" \in pending[s][r]) /\ (Reliable => net[s][r] = 0)
      BY <1>0 DEF Counts, SendOut
    <3>2. One("send" \in pending[s][r]) = sq[s][r] + unacked[s][r] + OwnOn(s, r)
      BY <1>0, <1>1, OneSend
    <3>3. CASE r = q
      <4>1. OwnOn(s, r)' = 1
        BY <1>3, <1>5, <3>3 DEF One
      <4>2. One("send" \in pending'[s][r]) = 1
        BY <1>3, <1>8, <3>3 DEF One
      <4> QED
        BY <1>1, <1>4, <3>1, <3>3, <4>1, <4>2
    <3>4. CASE r # q
      <4>1. OwnOn(s, r)' = OwnOn(s, r) + 0 /\ OwnOn(s, r) \in Nat
        BY <1>0, <1>5, <3>4, QpNumbers DEF One
      <4>2. sq'[s][r] = sq[s][r] /\ unacked'[s][r] = unacked[s][r]
        BY <1>4, <3>4 DEF Only
      <4> QED
        BY <1>1, <1>8, <3>1, <3>2, <4>1, <4>2
    <3> QED
      BY <3>3, <3>4
  <2>2. Cardinality(OnQp(s)') + AllOwn(s)' = Cardinality(SendPending(s)')
    <3>1. Cardinality(OnQp(s)) + AllOwn(s) = Cardinality(SendPending(s)) /\ AllOwn(s) \in Nat
      BY <1>0, <1>1, OneSend, Numbers DEF Counts, SendOut
    <3>2. Cardinality(SendPending(s)') = Cardinality(SendPending(s))
      BY <1>8
    <3> QED
      BY <1>5, <1>7, <3>1, <3>2
  <2> QED
    BY <1>2, <2>1, <2>2 DEF SendOut
<1>10. SendOut(p)'
  <2>1. \A r \in Qps : sq'[p][r] = sq[p][r] /\ unacked'[p][r] = unacked[p][r]
    BY <1>0, <1>4 DEF Only
  <2>2. SendOut(p)
    BY <1>0 DEF Counts
  <2> QED
    BY <1>0, <1>1, <1>2, <1>5, <1>7, <1>8, <2>1, <2>2 DEF SendOut, SeenSame
<1>11. ASSUME NEW x \in Sides PROVE Receives(x)' /\ Delivered(x)'
  <2>1. AllReceived(x)' = AllReceived(x) /\ Peer(x) \in Sides
    <3>1. Peer(x) \in Sides
      BY BothSides
    <3>2. CASE x = s
      BY <1>5, <3>1, <3>2
    <3>3. CASE x = p
      BY <1>5, <3>1, <3>3 DEF SeenSame
    <3> QED
      BY <1>0, <3>2, <3>3
  <2>2. /\ Cardinality(Coming(x)') \in Nat /\ Cardinality(Coming(x)) \in Nat
        /\ Cardinality(Coming(x)') <= Cardinality(Coming(x))
        /\ Running(x) => Cardinality(Coming(x)') = Cardinality(Coming(x))
    <3>1. CASE x = s
      <4>1. Cardinality(Coming(x)) \in Nat
        BY <1>0, Numbers
      <4> QED
        BY <1>6, <3>1, <4>1
    <3>2. CASE x = p
      BY <1>6, <3>2
    <3> QED
      BY <1>0, <3>1, <3>2
  <2>3. rcnt[x] \in Nat /\ AllReceived(x) \in Nat /\ Posted(Peer(x)) \in Nat
    BY <1>0, <2>1, Numbers
  <2>4. Receives(x) /\ Delivered(x)
    BY <1>0 DEF Counts
  <2>5. Receives(x)'
    BY <1>1, <1>2, <1>8, <2>1, <2>4 DEF Receives
  <2>6. /\ rcnt'[x] + AllReceived(x)' + Cardinality(Coming(x)') <= Posted(Peer(x))'
        /\ Reliable /\ Running(x) =>
              rcnt'[x] + AllReceived(x)' + Cardinality(Coming(x)') = Posted(Peer(x))'
    BY <1>8, <2>1, <2>2, <2>3, <2>4 DEF Delivered
  <2> QED
    BY <1>2, <1>8, <2>5, <2>6 DEF Delivered
<1>12. ASSUME NEW r \in Qps PROVE Token(r)'
  <2>1. /\ One(r \in Hold(s)) + sq[s][r] + net[s][r] + Received(s, r)
              + (One(r \in Hold(p)) + sq[p][r] + net[p][r] + Received(p, r)) <= 1
        /\ One(r \in Hold(s)) \in Nat /\ sq[s][r] \in Nat
        /\ net[s][r] \in Nat /\ Received(s, r) \in Nat
        /\ One(r \in Hold(p)) \in Nat /\ sq[p][r] \in Nat
        /\ net[p][r] \in Nat /\ Received(p, r) \in Nat
    BY <1>0, OneToken
  <2>2. /\ One(r \in Hold(s)') = One(r \in Hold(s)) /\ One(r \in Hold(p)') = One(r \in Hold(p))
        /\ Received(s, r)' = Received(s, r) /\ Received(p, r)' = Received(p, r)
        /\ sq'[p][r] = sq[p][r] /\ net' = net
    BY <1>0, <1>1, <1>4, <1>5, <1>8 DEF SeenSame, Only
  <2>3. /\ sq'[s][r] <= sq[s][r] /\ sq'[s][r] \in Nat
    BY <1>3, <1>4, <2>1 DEF Only
  <2> QED
    BY <2>1, <2>2, <2>3, TokenNext
<1>13. /\ recvs' \in [Sides -> 0 .. RxDepth] /\ net' \in [Sides -> [Qps -> Nat]]
  BY <1>0, <1>1 DEF Types
<1>14. \A x \in Sides : Raised(x) /\ SendOut(x)' /\ Receives(x)' /\ Delivered(x)'
  BY <1>0, <1>5, <1>9, <1>10, <1>11
<1> QED
  BY <1>1, <1>4, <1>5, <1>12, <1>13, <1>14, NicKeeps

LEMMA NicStepKeeps ==
    ASSUME PInv, args' = args, faults' = faults, NEW s \in Sides, Nic(s)
    PROVE  PInv'
<1>1. PICK q \in Qps : \/ SendReliable(s, q) \/ SendUnreliable(s, q) \/ Arrive(s, q)
                       \/ Lose(s, q) \/ SendCompletes(s, q) \/ SendFails(s, q)
  BY DEF Nic
<1> QED
  BY <1>1, SendReliableKeeps, SendUnreliableKeeps, NetKeeps, OwnCompletionKeeps

-----------------------------------------------------------------------------
(***************************************************************************)
(* main handles a completion.                                              *)
(***************************************************************************)
LEMMA InLoopServer ==
    ASSUME Types, ServerFirst, NEW s \in Sides, Stage(s), pc[s] = "handle"
    PROVE  qp["server"] # "init"
BY DEF ServerFirst, Stage, Ended, Sides

\* What is left to show of it.
LEMMA HandleKeeps ==
    ASSUME PInv, args' = args, faults' = faults, NEW s \in Sides, pc[s] = "handle",
           UNCHANGED <<pc, tcp, qp, net, unacked, cq, armed, events>>,
           wc' \in [Sides -> Seq(Completions)],
           scnt' \in [Sides -> Nat], rcnt' \in [Sides -> Nat],
           recvs' \in [Sides -> 0 .. RxDepth], routs' \in [Sides -> 0 .. RxDepth],
           sq' \in [Sides -> [Qps -> Nat]],
           pending' \in [Sides -> [Qps -> SUBSET {"recv", "send"}]],
           \A x \in Sides : x # s => /\ wc'[x] = wc[x] /\ scnt'[x] = scnt[x] /\ rcnt'[x] = rcnt[x]
                                     /\ recvs'[x] = recvs[x] /\ routs'[x] = routs[x]
                                     /\ sq'[x] = sq[x] /\ pending'[x] = pending[x],
           SendOut(s)', Receives(s)', Answers(s)', Bound(s)',
           \A x \in Sides : Delivered(x)',
           \A r \in Qps : Token(r)'
    PROVE  PInv'
<1>0. /\ Types /\ Counts /\ ServerFirst
      /\ \A x \in Sides : /\ Stage(x) /\ Wakeup(x) /\ SendOut(x) /\ Receives(x) /\ Answers(x)
                          /\ Bound(x) /\ Done(x)
  BY DEF PInv, Counts
<1>1. /\ NumQp' = NumQp /\ Iters' = Iters /\ RxDepth' = RxDepth /\ UseEvent' = UseEvent
      /\ Program' = Program /\ Qps' = Qps /\ (Reliable <=> Reliable')
      /\ Completions' = Completions
  BY SameArguments
<1>2. Types'
  BY <1>0, <1>1 DEF Types
<1>3. ServerFirst'
  <2>1. qp'["server"] # "init"
    BY <1>0, InLoopServer
  <2> QED
    BY <2>1 DEF ServerFirst
<1>4. Stage(s)' /\ Wakeup(s)' /\ Done(s)'
  BY <1>0, <1>1 DEF Stage, Wakeup, Done, Running, Ended, Before, Closes
<1>5. ASSUME NEW x \in Sides, x # s
      PROVE  /\ Stage(x)' /\ Wakeup(x)' /\ Done(x)'
             /\ SendOut(x)' /\ Receives(x)' /\ Answers(x)' /\ Bound(x)'
  <2>1. /\ wc'[x] = wc[x] /\ scnt'[x] = scnt[x] /\ rcnt'[x] = rcnt[x]
        /\ recvs'[x] = recvs[x] /\ routs'[x] = routs[x]
        /\ sq'[x] = sq[x] /\ pending'[x] = pending[x] /\ cq'[x] = cq[x]
    BY <1>5
  <2>2. Stage(x)' /\ Wakeup(x)'
    BY <1>0, <2>1, OtherSide
  <2>3. SeenSame(x)
    BY <2>1, Unlooked
  <2>4. SendPending(x)' = SendPending(x) /\ OnQp(x)' = OnQp(x) /\ Hold(x)' = Hold(x)
    BY <2>1, SameSets
  <2>5. Posted(x)' = Posted(x)
    BY <2>1, <2>4 DEF Posted
  <2>6. SendOut(x)'
    BY <1>0, <1>1, <2>1, <2>3, <2>4 DEF SendOut, SeenSame, Running
  <2>7. Receives(x)'
    BY <1>0, <1>1, <2>1, <2>3 DEF Receives, SeenSame, Running
  <2>8. Answers(x)' /\ Bound(x)' /\ Done(x)'
    BY <1>0, <1>1, <2>1, <2>4, <2>5 DEF Answers, Bound, Done
  <2> QED
    BY <2>2, <2>6, <2>7, <2>8
<1>6. ASSUME NEW x \in Sides
      PROVE  /\ Stage(x)' /\ Wakeup(x)' /\ Done(x)'
             /\ SendOut(x)' /\ Receives(x)' /\ Answers(x)' /\ Bound(x)'
  BY <1>4, <1>5
<1> QED
  BY <1>1, <1>2, <1>3, <1>6 DEF PInv, Counts

\* The next message of a queue pair is posted, or not.
Again(s, id, q) == scnt'[s] < Iters /\ pending[s][q] \subseteq {id}

LEMMA AnswerStep ==
    ASSUME Types, args' = args, pc' = pc, UNCHANGED <<net, unacked>>,
           NEW s \in Sides, NEW id \in {"recv", "send"}, NEW q \in Qps,
           pc[s] = "handle", Answer(s, id, q)
    PROVE  /\ sq' \in [Sides -> [Qps -> Nat]]
           /\ pending' \in [Sides -> [Qps -> SUBSET {"recv", "send"}]]
           /\ Only(sq, sq', s, q) /\ Only(pending, pending', s, q)
           /\ sq'[Peer(s)] = sq[Peer(s)] /\ pending'[Peer(s)] = pending[Peer(s)]
           /\ Again(s, id, q) => /\ sq'[s][q] = sq[s][q] + 1
                                 /\ "send" \in pending'[s][q] /\ "recv" \in pending'[s][q]
           /\ ~Again(s, id, q) => sq'[s][q] = sq[s][q] /\ pending'[s][q] = pending[s][q] \ {id}
<1> DEFINE again == scnt'[s] < Iters /\ pending[s][q] \subseteq {id}
<1> DEFINE new == IF again THEN {"recv", "send"} ELSE pending[s][q] \ {id}
<1>1. /\ sq \in [Sides -> [Qps -> Nat]]
      /\ pending \in [Sides -> [Qps -> SUBSET {"recv", "send"}]]
      /\ Peer(s) \in Sides /\ Peer(s) # s
  BY BothSides DEF Types
<1>2. /\ sq' = IF again THEN [sq EXCEPT ![s][q] = sq[s][q] + 1] ELSE sq
      /\ pending' = [pending EXCEPT ![s][q] = new]
  BY DEF Answer
<1>3. new \in SUBSET {"recv", "send"} /\ sq[s][q] + 1 \in Nat
  BY <1>1
<1>4. /\ pending' \in [Sides -> [Qps -> SUBSET {"recv", "send"}]]
      /\ pending'[s][q] = new /\ Only(pending, pending', s, q)
      /\ pending'[Peer(s)] = pending[Peer(s)]
  <2> HIDE DEF new
  <2> QED
    BY <1>1, <1>2, <1>3 DEF Only
<1>5. /\ sq' \in [Sides -> [Qps -> Nat]]
      /\ sq'[s][q] = (IF again THEN sq[s][q] + 1 ELSE sq[s][q]) /\ Only(sq, sq', s, q)
      /\ sq'[Peer(s)] = sq[Peer(s)]
  <2> HIDE DEF again
  <2>1. CASE again
    BY <1>1, <1>2, <1>3, <2>1 DEF Only
  <2>2. CASE ~again
    BY <1>1, <1>2, <2>2, OnlySame
  <2> QED
    BY <2>1, <2>2
<1>6. again <=> Again(s, id, q)
  BY DEF Again
<1> QED
  BY <1>4, <1>5, <1>6

\* What is pending on the queue pair, in the counts.
LEMMA PendingStep ==
    ASSUME Types, args' = args, pc' = pc, NEW s \in Sides, NEW q \in Qps, pc[s] = "handle",
           Only(pending, pending', s, q)
    PROVE  /\ Cardinality(SendPending(s)') + One("send" \in pending[s][q])
                = Cardinality(SendPending(s)) + One("send" \in pending'[s][q])
           /\ Cardinality(Hold(s)') + One("recv" \notin pending[s][q])
                = Cardinality(Hold(s)) + One("recv" \notin pending'[s][q])
           /\ Cardinality(SendPending(s)') \in Nat /\ Cardinality(SendPending(s)') <= NumQp
           /\ Cardinality(Hold(s)') \in Nat
           /\ (q \in Hold(s) <=> "recv" \notin pending[s][q])
           /\ (q \in Hold(s)' <=> "recv" \notin pending'[s][q])
           /\ \A r \in Qps : r # q => (r \in Hold(s)' <=> r \in Hold(s))
<1>1. /\ SendPending(s)' = {r \in Qps : "send" \in pending'[s][r]}
      /\ Hold(s)' = {r \in Qps : "recv" \notin pending'[s][r]}
      /\ SendPending(s) = {r \in Qps : "send" \in pending[s][r]}
      /\ Hold(s) = {r \in Qps : "recv" \notin pending[s][r]}
  BY SetsNext DEF SendPending, Hold, InLoop
<1>2. \A r \in Qps : r # q => pending'[s][r] = pending[s][r]
  BY DEF Only
<1>3. /\ SendPending(s) \in SUBSET Qps /\ SendPending(s)' \in SUBSET Qps
      /\ Hold(s) \in SUBSET Qps /\ Hold(s)' \in SUBSET Qps
      /\ \A r \in Qps : r # q => /\ (r \in SendPending(s) <=> r \in SendPending(s)')
                                 /\ (r \in Hold(s) <=> r \in Hold(s)')
  BY <1>1, <1>2
<1>4. /\ Cardinality(SendPending(s)') + One(q \in SendPending(s))
            = Cardinality(SendPending(s)) + One(q \in SendPending(s)')
      /\ Cardinality(Hold(s)') + One(q \in Hold(s)) = Cardinality(Hold(s)) + One(q \in Hold(s)')
  BY <1>3, QpStep DEF Types
<1>5. /\ (q \in SendPending(s) <=> "send" \in pending[s][q])
      /\ (q \in SendPending(s)' <=> "send" \in pending'[s][q])
      /\ (q \in Hold(s) <=> "recv" \notin pending[s][q])
      /\ (q \in Hold(s)' <=> "recv" \notin pending'[s][q])
  BY <1>1
<1>6. /\ One(q \in SendPending(s)) = One("send" \in pending[s][q])
      /\ One(q \in SendPending(s)') = One("send" \in pending'[s][q])
      /\ One(q \in Hold(s)) = One("recv" \notin pending[s][q])
      /\ One(q \in Hold(s)') = One("recv" \notin pending'[s][q])
  BY <1>5 DEF One
<1>7. /\ Cardinality(SendPending(s)') \in Nat /\ Cardinality(SendPending(s)') <= NumQp
      /\ Cardinality(Hold(s)') \in Nat
  BY <1>3, QpSet DEF Types
<1> QED
  BY <1>3, <1>4, <1>5, <1>6, <1>7

\* The next message is posted once the one before it has left and the answer is
\* there; or there is one message less to wait for.
LEMMA HandleSendKeeps ==
    ASSUME PInv, args' = args, faults' = faults, NEW s \in Sides, HandleSend(s)
    PROVE  PInv'
<1> DEFINE p == Peer(s)
<1>0. /\ Types /\ Counts /\ Stage(s) /\ args \in Args
      /\ p \in Sides /\ p # s /\ Peer(p) = s /\ \A x \in Sides : x = s \/ x = p
  BY BothSides DEF PInv, Types
<1>q. PICK q \in Qps : q = Head(wc[s])[2]
  <2>1. wc[s] \in Seq(Completions) /\ wc[s] # <<>>
    BY <1>0 DEF Types, HandleSend
  <2>2. Head(wc[s]) \in Completions
    BY <2>1
  <2> QED
    BY <2>2 DEF Completions
<1>1. /\ pc[s] = "handle" /\ wc[s] # <<>> /\ Head(wc[s])[1] = "send"
      /\ wc' = [wc EXCEPT ![s] = Tail(wc[s])]
      /\ scnt' = [scnt EXCEPT ![s] = scnt[s] + 1]
      /\ Answer(s, "send", q)
      /\ UNCHANGED <<pc, tcp, qp, recvs, net, unacked, cq, armed, events, routs, rcnt>>
  BY <1>q DEF HandleSend
<1>2. /\ SeenSame(p) /\ q \in Qps
      /\ AllReceived(s) = AllReceived(s)' /\ AllOwn(s) = AllOwn(s)' + 1
      /\ AllReceived(s)' \in Nat /\ AllOwn(s)' \in Nat
      /\ \A r \in Qps : /\ Received(s, r) = Received(s, r)'
                        /\ OwnOn(s, r) = OwnOn(s, r)' + One(r = q)
                        /\ Received(s, r)' \in Nat /\ OwnOn(s, r)' \in Nat
      /\ wc' \in [Sides -> Seq(Completions)]
  <2> DEFINE what == Head(wc[s])[1]
  <2>1. what = "send" /\ cq' = cq
    BY <1>1
  <2>2. /\ \A x \in Sides : x # s => SeenSame(x)
        /\ q \in Qps
        /\ AllReceived(s) = AllReceived(s)' + One(what = "recv")
        /\ AllOwn(s) = AllOwn(s)' + One(what # "recv")
        /\ \A r \in Qps :
              /\ Received(s, r) = Received(s, r)' + One(what = "recv" /\ r = q)
              /\ OwnOn(s, r) = OwnOn(s, r)' + One(what # "recv" /\ r = q)
        /\ AllReceived(s)' \in Nat /\ AllOwn(s)' \in Nat
        /\ \A r \in Qps : Received(s, r)' \in Nat /\ OwnOn(s, r)' \in Nat
        /\ wc' \in [Sides -> Seq(Completions)]
    BY <1>0, <1>q, <1>1, <2>1, Handled
  <2> HIDE DEF what
  <2> QED
    BY <1>0, <2>1, <2>2 DEF One
<1>3. qp[s] = "rts" /\ Running(s)
  BY <1>0, <1>1 DEF Stage, Types, Ended, Running
<1>4. /\ "send" \in pending[s][q] /\ sq[s][q] = 0 /\ unacked[s][q] = 0 /\ OwnOn(s, q)' = 0
  <2>1. /\ sq[s][q] + unacked[s][q] + OwnOn(s, q) <= 1
        /\ sq[s][q] + unacked[s][q] + OwnOn(s, q) > 0 => "send" \in pending[s][q]
        /\ sq[s][q] \in Nat /\ unacked[s][q] \in Nat /\ OwnOn(s, q) \in Nat
    BY <1>0, <1>2, <1>3, OneSend
  <2>2. OwnOn(s, q) = OwnOn(s, q)' + 1 /\ OwnOn(s, q)' \in Nat
    BY <1>2 DEF One
  <2>3. ASSUME NEW a \in Nat, NEW b \in Nat, NEW c \in Nat, NEW d \in Nat,
               a + b + c <= 1, c = d + 1
        PROVE  a + b + c > 0 /\ a = 0 /\ b = 0 /\ d = 0
    BY <2>3
  <2> QED
    BY <2>1, <2>2, <2>3
<1> DEFINE again == Again(s, "send", q)
<1>5. /\ sq' \in [Sides -> [Qps -> Nat]]
      /\ pending' \in [Sides -> [Qps -> SUBSET {"recv", "send"}]]
      /\ Only(sq, sq', s, q) /\ Only(pending, pending', s, q)
      /\ Only(net, net', s, q) /\ Only(unacked, unacked', s, q)
      /\ sq'[p] = sq[p] /\ pending'[p] = pending[p]
      /\ again => sq'[s][q] = 1 /\ "send" \in pending'[s][q] /\ "recv" \in pending'[s][q]
      /\ ~again => /\ sq'[s][q] = 0 /\ "send" \notin pending'[s][q]
                   /\ ("recv" \in pending'[s][q] <=> "recv" \in pending[s][q])
  <2>1. /\ sq' \in [Sides -> [Qps -> Nat]]
        /\ pending' \in [Sides -> [Qps -> SUBSET {"recv", "send"}]]
        /\ Only(sq, sq', s, q) /\ Only(pending, pending', s, q)
        /\ sq'[p] = sq[p] /\ pending'[p] = pending[p]
        /\ again => /\ sq'[s][q] = sq[s][q] + 1
                    /\ "send" \in pending'[s][q] /\ "recv" \in pending'[s][q]
        /\ ~again => sq'[s][q] = sq[s][q] /\ pending'[s][q] = pending[s][q] \ {"send"}
    BY <1>0, <1>1, <1>2, AnswerStep
  <2>2. Only(net, net', s, q) /\ Only(unacked, unacked', s, q)
    BY <1>1, OnlySame
  <2> QED
    BY <1>4, <2>1, <2>2
<1>6. again => q \in Hold(s) /\ net[s][q] = 0 /\ scnt'[s] < Iters
  <2>1. "recv" \notin pending[s][q] => q \in Hold(s)
    BY <1>1, <1>2 DEF Hold, InLoop
  <2>2. q \in Hold(s) => net[s][q] = 0
    BY <1>0, <1>2, OneToken
  <2> QED
    BY <2>1, <2>2 DEF Again
<1>7. /\ \A x \in Sides : scnt'[x] = scnt[x] + One(x = s)
      /\ scnt' \in [Sides -> Nat] /\ rcnt' = rcnt /\ scnt[s] \in Nat
  <2>1. scnt \in [Sides -> Nat]
    BY <1>0 DEF Types
  <2> QED
    BY <1>1, <2>1 DEF One
<1>8. /\ Cardinality(SendPending(s)') + 1 = Cardinality(SendPending(s)) + One(again)
      /\ Cardinality(Hold(s)') + One(again) = Cardinality(Hold(s))
      /\ Cardinality(SendPending(s)') \in Nat /\ Cardinality(SendPending(s)') <= NumQp
      /\ Cardinality(SendPending(s)) \in Nat
      /\ Cardinality(Hold(s)') \in Nat /\ Cardinality(Hold(s)) \in Nat
      /\ One(q \in Hold(s)') + One(again) = One(q \in Hold(s))
      /\ \A r \in Qps : r # q => One(r \in Hold(s)') = One(r \in Hold(s))
  <2>1. /\ Cardinality(SendPending(s)') + One("send" \in pending[s][q])
              = Cardinality(SendPending(s)) + One("send" \in pending'[s][q])
        /\ Cardinality(Hold(s)') + One("recv" \notin pending[s][q])
              = Cardinality(Hold(s)) + One("recv" \notin pending'[s][q])
        /\ Cardinality(SendPending(s)') \in Nat /\ Cardinality(SendPending(s)') <= NumQp
        /\ Cardinality(Hold(s)') \in Nat
        /\ (q \in Hold(s) <=> "recv" \notin pending[s][q])
        /\ (q \in Hold(s)' <=> "recv" \notin pending'[s][q])
        /\ \A r \in Qps : r # q => (r \in Hold(s)' <=> r \in Hold(s))
    BY <1>0, <1>1, <1>2, <1>5, PendingStep
  <2>2. Cardinality(SendPending(s)) \in Nat /\ Cardinality(Hold(s)) \in Nat
    BY <1>0, Numbers
  <2>3. One("send" \in pending[s][q]) = 1 /\ One("send" \in pending'[s][q]) = One(again)
    BY <1>4, <1>5 DEF One
  <2>4. /\ One("recv" \notin pending[s][q]) = One("recv" \notin pending'[s][q]) + One(again)
        /\ One(q \in Hold(s)') + One(again) = One(q \in Hold(s))
        /\ One("recv" \notin pending'[s][q]) \in Nat /\ One(again) \in Nat
    BY <1>5, <1>6, <2>1 DEF One
  <2>5. \A r \in Qps : r # q => One(r \in Hold(s)') = One(r \in Hold(s))
    BY <2>1 DEF One
  <2> QED
    BY <2>1, <2>2, <2>3, <2>4, <2>5
<1>9. /\ SendPending(p)' = SendPending(p) /\ Hold(p)' = Hold(p) /\ Posted(p)' = Posted(p)
  <2>1. SendPending(p)' = SendPending(p) /\ Hold(p)' = Hold(p)
    BY <1>0, <1>1, <1>5, SameSets
  <2>2. scnt'[p] = scnt[p]
    BY <1>0, <1>1
  <2> QED
    BY <2>1, <2>2 DEF Posted
<1>10. Posted(s)' = Posted(s) + One(again) /\ Posted(s) \in Nat /\ Posted(p) \in Nat
  <2>1. Posted(s)' = scnt'[s] + Cardinality(SendPending(s)') /\ scnt'[s] = scnt[s] + 1
    BY <1>7 DEF Posted, One
  <2>2. Posted(s) = scnt[s] + Cardinality(SendPending(s)) /\ One(again) \in Nat
    BY DEF Posted, One
  <2>3. Posted(s) \in Nat /\ Posted(p) \in Nat
    BY <1>0, Numbers
  <2>4. /\ Cardinality(SendPending(s)') + 1 = Cardinality(SendPending(s)) + One(again)
        /\ Cardinality(SendPending(s)') \in Nat /\ Cardinality(SendPending(s)) \in Nat
        /\ scnt[s] \in Nat
    BY <1>7, <1>8
  <2>5. Posted(s)' = Posted(s) + One(again)
    <3> HIDE DEF again
    <3> QED
      BY <2>1, <2>2, <2>4
  <2> QED
    BY <2>3, <2>5
<1>11. /\ Cardinality(Coming(p)') = Cardinality(Coming(p)) + One(again)
       /\ Coming(s)' = Coming(s) /\ Cardinality(Coming(p)) \in Nat
       /\ Cardinality(OnQp(s)') = Cardinality(OnQp(s)) + One(again)
       /\ Cardinality(OnQp(s)) \in Nat
  <2>1. /\ Cardinality(Coming(p)') + One(sq[s][q] + net[s][q] > 0)
                = Cardinality(Coming(p)) + One(sq'[s][q] + net'[s][q] > 0)
        /\ Cardinality(Coming(p)') \in Nat /\ Cardinality(Coming(p)) \in Nat
        /\ Coming(s)' = Coming(s)
    BY <1>0, <1>2, <1>5, ComingStep
  <2>2. /\ Cardinality(OnQp(s)') + One(sq[s][q] + unacked[s][q] > 0)
                = Cardinality(OnQp(s)) + One(sq'[s][q] + unacked'[s][q] > 0)
        /\ Cardinality(OnQp(s)') \in Nat /\ Cardinality(OnQp(s)) \in Nat
    BY <1>0, <1>2, <1>5, OnQpStep
  <2>3. net'[s][q] = net[s][q] /\ unacked'[s][q] = 0 /\ net[s][q] \in Nat
    BY <1>0, <1>1, <1>2, <1>4, QpNumbers
  <2>4. One(sq'[s][q] + net'[s][q] > 0) = One(sq[s][q] + net[s][q] > 0) + One(again)
        /\ One(sq[s][q] + net[s][q] > 0) \in Nat
    BY <1>4, <1>5, <1>6, <2>3 DEF One
  <2>5. One(sq'[s][q] + unacked'[s][q] > 0) = One(again) /\ One(sq[s][q] + unacked[s][q] > 0) = 0
        /\ One(again) \in Nat
    BY <1>4, <1>5, <2>3 DEF One
  <2> QED
    BY <2>1, <2>2, <2>4, <2>5
<1>12. (Reliable' <=> Reliable) /\ Qps' = Qps /\ NumQp' = NumQp /\ Iters' = Iters /\ Program' = Program
  BY SameArguments
<1>13. SendOut(s)'
  <2>1. ASSUME NEW r \in Qps
        PROVE  /\ sq'[s][r] > 0 => "send" \in pending'[s][r]
               /\ Reliable => net'[s][r] = 0
               /\ One("send" \in pending'[s][r]) = sq'[s][r] + unacked'[s][r] + OwnOn(s, r)'
    <3>1. (sq[s][r] > 0 => "send" \in pending[s][r]) /\ (Reliable => net[s][r] = 0)
      BY <1>0 DEF Counts, SendOut
    <3>2. One("send" \in pending[s][r]) = sq[s][r] + unacked[s][r] + OwnOn(s, r)
      BY <1>0, <1>3, OneSend
    <3>3. CASE r = q
      <4>1. unacked'[s][r] = 0 /\ OwnOn(s, r)' = 0 /\ net'[s][r] = net[s][r]
        BY <1>1, <1>4, <3>3
      <4> QED
        BY <1>5, <3>1, <3>3, <4>1 DEF One
    <3>4. CASE r # q
      <4>1. OwnOn(s, r)' = OwnOn(s, r)
        BY <1>2, <3>4 DEF One
      <4>2. sq'[s][r] = sq[s][r] /\ unacked'[s][r] = unacked[s][r] /\ pending'[s][r] = pending[s][r]
        BY <1>5, <3>4 DEF Only
      <4> QED
        BY <1>1, <3>1, <3>2, <4>1, <4>2
    <3> QED
      BY <3>3, <3>4
  <2>2. Cardinality(OnQp(s)') + AllOwn(s)' = Cardinality(SendPending(s)')
    <3>1. Cardinality(OnQp(s)) + AllOwn(s) = Cardinality(SendPending(s))
      BY <1>0, <1>3 DEF Counts, SendOut
    <3>2. One(again) \in Nat
      BY DEF One
    <3>3. /\ Cardinality(SendPending(s)') + 1 = Cardinality(SendPending(s)) + One(again)
          /\ Cardinality(OnQp(s)') = Cardinality(OnQp(s)) + One(again)
          /\ AllOwn(s) = AllOwn(s)' + 1
          /\ Cardinality(SendPending(s)') \in Nat /\ Cardinality(SendPending(s)) \in Nat
          /\ Cardinality(OnQp(s)) \in Nat /\ AllOwn(s)' \in Nat
      BY <1>2, <1>8, <1>11
    <3> HIDE DEF again
    <3> QED
      BY <3>1, <3>2, <3>3
  <2> QED
    BY <1>12, <2>1, <2>2 DEF SendOut
<1>14. Receives(s)'
  <2>1. Receives(s)
    BY <1>0 DEF Counts
  <2> QED
    BY <1>1, <1>2, <1>12, <2>1 DEF Receives, Running
<1>15. Answers(s)' /\ Bound(s)'
  <2>1. Answers(s) /\ Bound(s)
    BY <1>0 DEF Counts
  <2>2. NumQp \in Nat /\ Iters \in Nat /\ rcnt[s] \in Nat /\ rcnt'[s] = rcnt[s]
    BY <1>0, <1>7, Arguments, Numbers
  <2>3. Posted(s)' + Cardinality(Hold(s)') = Posted(s) + Cardinality(Hold(s))
    BY <1>8, <1>10 DEF One
  <2>4. again => Posted(s)' <= Iters + NumQp - 1
    <3>1. Posted(s)' = scnt'[s] + Cardinality(SendPending(s)') /\ scnt'[s] \in Nat
      BY <1>0, <1>7 DEF Posted
    <3> QED
      BY <1>6, <1>8, <2>2, <3>1
  <2>5. ~again => Posted(s)' = Posted(s)
    BY <1>10 DEF One
  <2> QED
    BY <1>12, <2>1, <2>2, <2>3, <2>4, <2>5 DEF Answers, Bound
<1>16. Delivered(s)' /\ Delivered(p)'
  <2>1. Delivered(s) /\ Delivered(p)
    BY <1>0 DEF Counts
  <2>2. Delivered(s)'
    BY <1>1, <1>2, <1>9, <1>11, <1>12, <2>1 DEF Delivered, Running
  <2>3. /\ rcnt[p] \in Nat /\ AllReceived(p) \in Nat /\ AllReceived(p)' = AllReceived(p)
        /\ One(again) \in Nat
    BY <1>0, <1>2, Numbers DEF SeenSame, One
  <2>4. /\ rcnt[p] + AllReceived(p) + Cardinality(Coming(p)) <= Posted(s)
        /\ Reliable /\ Running(p) =>
              rcnt[p] + AllReceived(p) + Cardinality(Coming(p)) = Posted(s)
    BY <1>0, <2>1 DEF Delivered
  <2>5. /\ rcnt'[p] + AllReceived(p)' + Cardinality(Coming(p)') <= Posted(s)'
        /\ Reliable /\ Running(p) =>
              rcnt'[p] + AllReceived(p)' + Cardinality(Coming(p)') = Posted(s)'
    <3> HIDE DEF again, p
    <3> QED
      BY <1>7, <1>10, <1>11, <2>3, <2>4
  <2>6. Delivered(p)'
    BY <1>0, <1>1, <1>12, <2>5 DEF Delivered, Running
  <2> QED
    BY <2>2, <2>6
<1>17. ASSUME NEW r \in Qps PROVE Token(r)'
  <2>1. /\ One(r \in Hold(s)) + sq[s][r] + net[s][r] + Received(s, r)
              + (One(r \in Hold(p)) + sq[p][r] + net[p][r] + Received(p, r)) <= 1
        /\ One(r \in Hold(s)) \in Nat /\ sq[s][r] \in Nat
        /\ net[s][r] \in Nat /\ Received(s, r) \in Nat
        /\ One(r \in Hold(p)) \in Nat /\ sq[p][r] \in Nat
        /\ net[p][r] \in Nat /\ Received(p, r) \in Nat
    BY <1>0, OneToken
  <2>2. /\ One(r \in Hold(p)') = One(r \in Hold(p))
        /\ Received(s, r)' = Received(s, r) /\ Received(p, r)' = Received(p, r)
        /\ sq'[p][r] = sq[p][r] /\ net' = net
    BY <1>1, <1>2, <1>5, <1>9 DEF SeenSame
  <2>3. /\ One(r \in Hold(s)') + sq'[s][r] = One(r \in Hold(s)) + sq[s][r]
        /\ One(r \in Hold(s)') \in Nat /\ sq'[s][r] \in Nat
    <3>1. CASE r = q
      BY <1>4, <1>5, <1>8, <3>1 DEF One
    <3>2. CASE r # q
      BY <1>5, <1>8, <2>1, <3>2 DEF Only
    <3> QED
      BY <3>1, <3>2
  <2> QED
    BY <2>1, <2>2, <2>3, TokenNext
<1>18. \A x \in Sides : x # s => /\ wc'[x] = wc[x] /\ scnt'[x] = scnt[x] /\ rcnt'[x] = rcnt[x]
                                 /\ recvs'[x] = recvs[x] /\ routs'[x] = routs[x]
                                 /\ sq'[x] = sq[x] /\ pending'[x] = pending[x]
  BY <1>0, <1>1, <1>5
<1>19. /\ rcnt' \in [Sides -> Nat] /\ recvs' \in [Sides -> 0 .. RxDepth]
       /\ routs' \in [Sides -> 0 .. RxDepth] /\ \A x \in Sides : Delivered(x)'
  BY <1>0, <1>1, <1>16 DEF Types
<1> QED
  BY <1>1, <1>2, <1>5, <1>7, <1>13, <1>14, <1>15, <1>17, <1>18, <1>19, HandleKeeps

\* A message is answered at once unless the one before it has not left; the receive
\* queue is filled up while it still has a receive for each queue pair.
LEMMA HandleRecvKeeps ==
    ASSUME PInv, args' = args, faults' = faults, NEW s \in Sides, HandleRecv(s)
    PROVE  PInv'
<1> DEFINE p == Peer(s)
<1>0. /\ Types /\ Counts /\ Stage(s) /\ args \in Args
      /\ p \in Sides /\ p # s /\ Peer(p) = s /\ \A x \in Sides : x = s \/ x = p
  BY BothSides DEF PInv, Types
<1>q. PICK q \in Qps : q = Head(wc[s])[2]
  <2>1. wc[s] \in Seq(Completions) /\ wc[s] # <<>>
    BY <1>0 DEF Types, HandleRecv
  <2>2. Head(wc[s]) \in Completions
    BY <2>1
  <2> QED
    BY <2>2 DEF Completions
<1>1. /\ pc[s] = "handle" /\ wc[s] # <<>> /\ Head(wc[s])[1] = "recv"
      /\ wc' = [wc EXCEPT ![s] = Tail(wc[s])]
      /\ rcnt' = [rcnt EXCEPT ![s] = rcnt[s] + 1] /\ scnt' = scnt
      /\ routs' = [routs EXCEPT ![s] = Replenish(routs[s] - 1)]
      /\ recvs' = [recvs EXCEPT ![s] = recvs[s] + routs'[s] - (routs[s] - 1)]
      /\ Answer(s, "recv", q)
      /\ UNCHANGED <<pc, tcp, qp, net, unacked, cq, armed, events>>
  BY <1>q DEF HandleRecv
<1>2. /\ SeenSame(p) /\ q \in Qps
      /\ AllReceived(s) = AllReceived(s)' + 1 /\ AllOwn(s) = AllOwn(s)'
      /\ AllReceived(s)' \in Nat /\ AllOwn(s)' \in Nat
      /\ \A r \in Qps : /\ Received(s, r) = Received(s, r)' + One(r = q)
                        /\ OwnOn(s, r) = OwnOn(s, r)'
                        /\ Received(s, r)' \in Nat /\ OwnOn(s, r)' \in Nat
      /\ wc' \in [Sides -> Seq(Completions)]
  <2> DEFINE what == Head(wc[s])[1]
  <2>1. what = "recv" /\ cq' = cq
    BY <1>1
  <2>2. /\ \A x \in Sides : x # s => SeenSame(x)
        /\ q \in Qps
        /\ AllReceived(s) = AllReceived(s)' + One(what = "recv")
        /\ AllOwn(s) = AllOwn(s)' + One(what # "recv")
        /\ \A r \in Qps :
              /\ Received(s, r) = Received(s, r)' + One(what = "recv" /\ r = q)
              /\ OwnOn(s, r) = OwnOn(s, r)' + One(what # "recv" /\ r = q)
        /\ AllReceived(s)' \in Nat /\ AllOwn(s)' \in Nat
        /\ \A r \in Qps : Received(s, r)' \in Nat /\ OwnOn(s, r)' \in Nat
        /\ wc' \in [Sides -> Seq(Completions)]
    BY <1>0, <1>q, <1>1, <2>1, Handled
  <2> HIDE DEF what
  <2> QED
    BY <1>0, <2>1, <2>2 DEF One
<1>3. qp[s] = "rts" /\ Running(s)
  BY <1>0, <1>1 DEF Stage, Types, Ended, Running
<1>4. /\ Received(s, q) = 1 /\ Received(s, q)' = 0 /\ sq[s][q] = 0 /\ net[s][q] = 0
      /\ q \notin Hold(s) /\ "recv" \in pending[s][q]
  <2>1. Received(s, q) > 0 => /\ Received(s, q) = 1 /\ sq[s][q] = 0 /\ net[s][q] = 0
                              /\ q \notin Hold(s)
    BY <1>0, OneToken
  <2>2. Received(s, q) = Received(s, q)' + 1 /\ Received(s, q)' \in Nat
    BY <1>2 DEF One
  <2>3. Received(s, q) = 1 /\ Received(s, q)' = 0 /\ sq[s][q] = 0 /\ net[s][q] = 0 /\ q \notin Hold(s)
    BY <2>1, <2>2
  <2> QED
    BY <1>1, <2>3 DEF Hold, InLoop
<1> DEFINE again == Again(s, "recv", q)
<1>5. /\ sq' \in [Sides -> [Qps -> Nat]]
      /\ pending' \in [Sides -> [Qps -> SUBSET {"recv", "send"}]]
      /\ Only(sq, sq', s, q) /\ Only(pending, pending', s, q)
      /\ Only(net, net', s, q) /\ Only(unacked, unacked', s, q)
      /\ sq'[p] = sq[p] /\ pending'[p] = pending[p]
      /\ again => sq'[s][q] = 1 /\ "send" \in pending'[s][q] /\ "recv" \in pending'[s][q]
      /\ ~again => /\ sq'[s][q] = 0 /\ "recv" \notin pending'[s][q]
                   /\ ("send" \in pending'[s][q] <=> "send" \in pending[s][q])
  <2>1. /\ sq' \in [Sides -> [Qps -> Nat]]
        /\ pending' \in [Sides -> [Qps -> SUBSET {"recv", "send"}]]
        /\ Only(sq, sq', s, q) /\ Only(pending, pending', s, q)
        /\ sq'[p] = sq[p] /\ pending'[p] = pending[p]
        /\ again => /\ sq'[s][q] = sq[s][q] + 1
                    /\ "send" \in pending'[s][q] /\ "recv" \in pending'[s][q]
        /\ ~again => sq'[s][q] = sq[s][q] /\ pending'[s][q] = pending[s][q] \ {"recv"}
    BY <1>0, <1>1, <1>2, AnswerStep
  <2>2. Only(net, net', s, q) /\ Only(unacked, unacked', s, q)
    BY <1>1, OnlySame
  <2> QED
    BY <1>4, <2>1, <2>2
<1>6. again => "send" \notin pending[s][q] /\ unacked[s][q] = 0 /\ OwnOn(s, q) = 0 /\ scnt[s] < Iters
  <2>1. again => "send" \notin pending[s][q] /\ scnt[s] < Iters
    BY <1>1 DEF Again
  <2>2. /\ One("send" \in pending[s][q]) = sq[s][q] + unacked[s][q] + OwnOn(s, q)
        /\ sq[s][q] \in Nat /\ unacked[s][q] \in Nat /\ OwnOn(s, q) \in Nat
    BY <1>0, <1>2, <1>3, OneSend
  <2>3. "send" \notin pending[s][q] => unacked[s][q] = 0 /\ OwnOn(s, q) = 0
    BY SMTT(30), <2>2 DEF One
  <2> QED
    BY <2>1, <2>3
<1>7. /\ \A x \in Sides : rcnt'[x] = rcnt[x] + One(x = s)
      /\ rcnt' \in [Sides -> Nat] /\ scnt' = scnt /\ scnt[s] \in Nat /\ rcnt[s] \in Nat
      /\ rcnt'[s] = rcnt[s] + 1
  <2>1. rcnt \in [Sides -> Nat] /\ scnt \in [Sides -> Nat]
    BY <1>0 DEF Types
  <2> QED
    BY <1>1, <2>1 DEF One
<1>8. /\ Cardinality(SendPending(s)') = Cardinality(SendPending(s)) + One(again)
      /\ Cardinality(Hold(s)') + One(again) = Cardinality(Hold(s)) + 1
      /\ Cardinality(SendPending(s)') \in Nat /\ Cardinality(SendPending(s)') <= NumQp
      /\ Cardinality(SendPending(s)) \in Nat
      /\ Cardinality(Hold(s)') \in Nat /\ Cardinality(Hold(s)) \in Nat
      /\ One(q \in Hold(s)') + One(again) = 1
      /\ \A r \in Qps : r # q => One(r \in Hold(s)') = One(r \in Hold(s))
  <2>1. /\ Cardinality(SendPending(s)') + One("send" \in pending[s][q])
              = Cardinality(SendPending(s)) + One("send" \in pending'[s][q])
        /\ Cardinality(Hold(s)') + One("recv" \notin pending[s][q])
              = Cardinality(Hold(s)) + One("recv" \notin pending'[s][q])
        /\ Cardinality(SendPending(s)') \in Nat /\ Cardinality(SendPending(s)') <= NumQp
        /\ Cardinality(Hold(s)') \in Nat
        /\ (q \in Hold(s) <=> "recv" \notin pending[s][q])
        /\ (q \in Hold(s)' <=> "recv" \notin pending'[s][q])
        /\ \A r \in Qps : r # q => (r \in Hold(s)' <=> r \in Hold(s))
    BY <1>0, <1>1, <1>2, <1>5, PendingStep
  <2>2. Cardinality(SendPending(s)) \in Nat /\ Cardinality(Hold(s)) \in Nat
    BY <1>0, Numbers
  <2>3. One("send" \in pending'[s][q]) = One("send" \in pending[s][q]) + One(again)
        /\ One("send" \in pending[s][q]) \in Nat
    BY <1>5, <1>6 DEF One
  <2>4. /\ One("recv" \notin pending[s][q]) = 0 /\ One("recv" \notin pending'[s][q]) + One(again) = 1
        /\ One(q \in Hold(s)') + One(again) = 1
        /\ One("recv" \notin pending'[s][q]) \in Nat /\ One(again) \in Nat
    BY <1>4, <1>5, <2>1 DEF One
  <2>5. \A r \in Qps : r # q => One(r \in Hold(s)') = One(r \in Hold(s))
    BY <2>1 DEF One
  <2>6. Cardinality(SendPending(s)') = Cardinality(SendPending(s)) + One(again)
    BY <2>1, <2>2, <2>3, <2>4
  <2>7. Cardinality(Hold(s)') + One(again) = Cardinality(Hold(s)) + 1
    BY <2>1, <2>2, <2>4
  <2> QED
    BY <2>1, <2>2, <2>4, <2>5, <2>6, <2>7
<1>9. /\ SendPending(p)' = SendPending(p) /\ Hold(p)' = Hold(p) /\ Posted(p)' = Posted(p)
  <2>1. SendPending(p)' = SendPending(p) /\ Hold(p)' = Hold(p)
    BY <1>0, <1>1, <1>5, SameSets
  <2> QED
    BY <1>1, <2>1 DEF Posted
<1>10. Posted(s)' = Posted(s) + One(again) /\ Posted(s) \in Nat /\ Posted(p) \in Nat
  <2>1. Posted(s)' = scnt[s] + Cardinality(SendPending(s)')
    BY <1>7 DEF Posted
  <2>2. Posted(s) = scnt[s] + Cardinality(SendPending(s)) /\ One(again) \in Nat
    BY DEF Posted, One
  <2>3. Posted(s) \in Nat /\ Posted(p) \in Nat
    BY <1>0, Numbers
  <2>4. /\ Cardinality(SendPending(s)') = Cardinality(SendPending(s)) + One(again)
        /\ Cardinality(SendPending(s)') \in Nat /\ Cardinality(SendPending(s)) \in Nat
        /\ scnt[s] \in Nat
    BY <1>7, <1>8
  <2>5. Posted(s)' = Posted(s) + One(again)
    <3> HIDE DEF again
    <3> QED
      BY <2>1, <2>2, <2>4
  <2> QED
    BY <2>3, <2>5
<1>11. /\ Cardinality(Coming(p)') = Cardinality(Coming(p)) + One(again)
       /\ Coming(s)' = Coming(s) /\ Cardinality(Coming(p)) \in Nat /\ Cardinality(Coming(s)) \in Nat
       /\ Cardinality(OnQp(s)') = Cardinality(OnQp(s)) + One(again)
       /\ Cardinality(OnQp(s)) \in Nat
  <2>1. /\ Cardinality(Coming(p)') + One(sq[s][q] + net[s][q] > 0)
                = Cardinality(Coming(p)) + One(sq'[s][q] + net'[s][q] > 0)
        /\ Cardinality(Coming(p)') \in Nat /\ Cardinality(Coming(p)) \in Nat
        /\ Coming(s)' = Coming(s)
    BY <1>0, <1>2, <1>5, ComingStep
  <2>2. /\ Cardinality(OnQp(s)') + One(sq[s][q] + unacked[s][q] > 0)
                = Cardinality(OnQp(s)) + One(sq'[s][q] + unacked'[s][q] > 0)
        /\ Cardinality(OnQp(s)') \in Nat /\ Cardinality(OnQp(s)) \in Nat
    BY <1>0, <1>2, <1>5, OnQpStep
  <2>3. net'[s][q] = 0 /\ unacked'[s][q] = unacked[s][q] /\ unacked[s][q] \in Nat
    BY <1>0, <1>1, <1>2, <1>4, QpNumbers
  <2>4. /\ One(sq'[s][q] + net'[s][q] > 0) = One(again) /\ One(sq[s][q] + net[s][q] > 0) = 0
        /\ One(again) \in Nat
    BY <1>4, <1>5, <2>3 DEF One
  <2>5. /\ One(sq'[s][q] + unacked'[s][q] > 0) = One(sq[s][q] + unacked[s][q] > 0) + One(again)
        /\ One(sq[s][q] + unacked[s][q] > 0) \in Nat
    BY <1>4, <1>5, <1>6, <2>3 DEF One
  <2>6. Cardinality(Coming(s)) \in Nat
    BY <1>0, Numbers
  <2> QED
    BY <2>1, <2>2, <2>4, <2>5, <2>6
<1>12. (Reliable' <=> Reliable) /\ Qps' = Qps /\ NumQp' = NumQp /\ Iters' = Iters /\ Program' = Program
  BY SameArguments
<1>13. SendOut(s)'
  <2>1. ASSUME NEW r \in Qps
        PROVE  /\ sq'[s][r] > 0 => "send" \in pending'[s][r]
               /\ Reliable => net'[s][r] = 0
               /\ One("send" \in pending'[s][r]) = sq'[s][r] + unacked'[s][r] + OwnOn(s, r)'
    <3>1. (sq[s][r] > 0 => "send" \in pending[s][r]) /\ (Reliable => net[s][r] = 0)
      BY <1>0 DEF Counts, SendOut
    <3>2. One("send" \in pending[s][r]) = sq[s][r] + unacked[s][r] + OwnOn(s, r)
      BY <1>0, <1>3, OneSend
    <3>3. OwnOn(s, r)' = OwnOn(s, r) /\ unacked'[s][r] = unacked[s][r] /\ net'[s][r] = net[s][r]
      BY <1>1, <1>2
    <3>4. CASE r = q
      <4>1. CASE again
        BY <1>5, <1>6, <3>1, <3>3, <3>4, <4>1 DEF One
      <4>2. CASE ~again
        <5>1. sq'[s][r] = sq[s][r] /\ One("send" \in pending'[s][r]) = One("send" \in pending[s][r])
          BY <1>4, <1>5, <3>4, <4>2 DEF One
        <5> QED
          BY <1>4, <1>5, <3>1, <3>2, <3>3, <3>4, <4>2, <5>1
      <4> QED
        BY <4>1, <4>2
    <3>5. CASE r # q
      <4>1. sq'[s][r] = sq[s][r] /\ pending'[s][r] = pending[s][r]
        BY <1>5, <3>5 DEF Only
      <4> QED
        BY <3>1, <3>2, <3>3, <4>1
    <3> QED
      BY <3>4, <3>5
  <2>2. Cardinality(OnQp(s)') + AllOwn(s)' = Cardinality(SendPending(s)')
    <3>1. Cardinality(OnQp(s)) + AllOwn(s) = Cardinality(SendPending(s))
      BY <1>0, <1>3 DEF Counts, SendOut
    <3>2. One(again) \in Nat
      BY DEF One
    <3>3. /\ Cardinality(SendPending(s)') = Cardinality(SendPending(s)) + One(again)
          /\ Cardinality(OnQp(s)') = Cardinality(OnQp(s)) + One(again)
          /\ AllOwn(s) = AllOwn(s)'
          /\ Cardinality(SendPending(s)') \in Nat /\ Cardinality(SendPending(s)) \in Nat
          /\ Cardinality(OnQp(s)) \in Nat /\ AllOwn(s)' \in Nat
      BY <1>2, <1>8, <1>11
    <3> HIDE DEF again
    <3> QED
      BY <3>1, <3>2, <3>3
  <2> QED
    BY <1>12, <2>1, <2>2 DEF SendOut
<1>14. /\ Receives(s)' /\ recvs' \in [Sides -> 0 .. RxDepth] /\ routs' \in [Sides -> 0 .. RxDepth]
  <2>1. /\ routs[s] = recvs[s] + AllReceived(s) /\ routs[s] >= NumQp
    BY <1>0, <1>1, <1>3 DEF Counts, Receives, Before
  <2>2. /\ routs \in [Sides -> 0 .. RxDepth] /\ recvs \in [Sides -> 0 .. RxDepth]
        /\ routs[s] \in Nat /\ recvs[s] \in Nat /\ routs[s] <= RxDepth
        /\ NumQp \in Nat /\ RxDepth \in Nat /\ NumQp <= RxDepth /\ NumQp > 0
    BY <1>0, Arguments, Numbers DEF Types
  <2>3. routs'[s] = Replenish(routs[s] - 1) /\ recvs'[s] = recvs[s] + routs'[s] - (routs[s] - 1)
    BY <1>1, <2>2
  <2>4. /\ routs'[s] \in Nat /\ routs'[s] <= RxDepth /\ routs'[s] >= NumQp
        /\ routs'[s] >= routs[s] - 1
    BY <2>1, <2>2, <2>3 DEF Replenish
  <2>5. /\ routs'[s] = recvs'[s] + AllReceived(s)' /\ recvs'[s] \in 0 .. RxDepth
        /\ routs'[s] \in 0 .. RxDepth
    <3>1. AllReceived(s) = AllReceived(s)' + 1 /\ AllReceived(s)' \in Nat
      BY <1>2
    <3>2. ASSUME NEW a \in Nat, NEW n \in Nat, NEW m \in Nat, NEW d \in Nat, NEW b,
                 n = a + (d + 1), m >= n - 1, m <= RxDepth, b = a + m - (n - 1)
          PROVE  m = b + d /\ b \in 0 .. RxDepth /\ m \in 0 .. RxDepth
      BY <2>2, <3>2
    <3> QED
      BY <2>1, <2>2, <2>3, <2>4, <3>1, <3>2
  <2>6. recvs' = [recvs EXCEPT ![s] = recvs'[s]] /\ routs' = [routs EXCEPT ![s] = routs'[s]]
    BY <1>1, <2>3
  <2>7. recvs' \in [Sides -> 0 .. RxDepth] /\ routs' \in [Sides -> 0 .. RxDepth]
    BY <2>2, <2>5, <2>6
  <2>8. Receives(s)'
    BY <1>1, <1>12, <2>4, <2>5 DEF Receives, Before
  <2> QED
    BY <2>7, <2>8
<1>15. Answers(s)' /\ Bound(s)'
  <2>1. Answers(s) /\ Bound(s)
    BY <1>0 DEF Counts
  <2>2. NumQp \in Nat /\ Iters \in Nat
    BY <1>0, Arguments
  <2>3. Posted(s)' + Cardinality(Hold(s)') = Posted(s) + Cardinality(Hold(s)) + 1
    BY <1>8, <1>10 DEF One
  <2>4. again => Posted(s)' <= Iters + NumQp - 1
    <3>1. Posted(s)' = scnt[s] + Cardinality(SendPending(s)')
      BY <1>7 DEF Posted
    <3> QED
      BY <1>6, <1>7, <1>8, <2>2, <3>1
  <2>5. ~again => Posted(s)' = Posted(s)
    BY <1>10 DEF One
  <2>6. Bound(s)'
    BY <1>12, <2>1, <2>4, <2>5 DEF Bound
  <2>7. Posted(s) + Cardinality(Hold(s)) <= rcnt[s] + (IF s = "client" THEN NumQp ELSE 0)
    BY <2>1 DEF Answers
  <2>8. Posted(s)' + Cardinality(Hold(s)') <= rcnt'[s] + (IF s = "client" THEN NumQp ELSE 0)
    BY <1>7, <1>8, <1>10, <2>2, <2>3, <2>7
  <2>9. Answers(s)'
    BY <1>12, <2>8 DEF Answers
  <2> QED
    BY <2>6, <2>9
<1>16. Delivered(s)' /\ Delivered(p)'
  <2>1. /\ rcnt[s] + AllReceived(s) + Cardinality(Coming(s)) <= Posted(p)
        /\ Reliable => rcnt[s] + AllReceived(s) + Cardinality(Coming(s)) = Posted(p)
    BY <1>0, <1>3 DEF Counts, Delivered
  <2>2. rcnt'[s] + AllReceived(s)' + Cardinality(Coming(s)')
            = rcnt[s] + AllReceived(s) + Cardinality(Coming(s))
    <3>1. /\ AllReceived(s) = AllReceived(s)' + 1 /\ AllReceived(s)' \in Nat
          /\ rcnt'[s] = rcnt[s] + 1 /\ rcnt[s] \in Nat
          /\ Cardinality(Coming(s)') = Cardinality(Coming(s)) /\ Cardinality(Coming(s)) \in Nat
      BY <1>2, <1>7, <1>11
    <3>2. ASSUME NEW a \in Nat, NEW b \in Nat, NEW c \in Nat
          PROVE  (a + 1) + b + c = a + (b + 1) + c
      OBVIOUS
    <3> QED
      BY <3>1, <3>2
  <2>3. Delivered(s)'
    BY <1>9, <1>12, <2>1, <2>2 DEF Delivered
  <2>4. /\ rcnt[p] \in Nat /\ AllReceived(p) \in Nat /\ AllReceived(p)' = AllReceived(p)
        /\ One(again) \in Nat /\ rcnt'[p] = rcnt[p]
    BY <1>0, <1>1, <1>2, Numbers DEF SeenSame, One
  <2>5. /\ rcnt[p] + AllReceived(p) + Cardinality(Coming(p)) <= Posted(s)
        /\ Reliable /\ Running(p) =>
              rcnt[p] + AllReceived(p) + Cardinality(Coming(p)) = Posted(s)
    BY <1>0 DEF Counts, Delivered
  <2>6. /\ rcnt'[p] + AllReceived(p)' + Cardinality(Coming(p)') <= Posted(s)'
        /\ Reliable /\ Running(p) =>
              rcnt'[p] + AllReceived(p)' + Cardinality(Coming(p)') = Posted(s)'
    <3> HIDE DEF again, p
    <3> QED
      BY <1>10, <1>11, <2>4, <2>5
  <2>7. Delivered(p)'
    BY <1>0, <1>1, <1>12, <2>6 DEF Delivered, Running
  <2> QED
    BY <2>3, <2>7
<1>17. ASSUME NEW r \in Qps PROVE Token(r)'
  <2>1. /\ One(r \in Hold(s)) + sq[s][r] + net[s][r] + Received(s, r)
              + (One(r \in Hold(p)) + sq[p][r] + net[p][r] + Received(p, r)) <= 1
        /\ One(r \in Hold(s)) \in Nat /\ sq[s][r] \in Nat
        /\ net[s][r] \in Nat /\ Received(s, r) \in Nat
        /\ One(r \in Hold(p)) \in Nat /\ sq[p][r] \in Nat
        /\ net[p][r] \in Nat /\ Received(p, r) \in Nat
    BY <1>0, OneToken
  <2>2. /\ One(r \in Hold(p)') = One(r \in Hold(p))
        /\ Received(p, r)' = Received(p, r)
        /\ sq'[p][r] = sq[p][r] /\ net' = net
    BY <1>1, <1>2, <1>5, <1>9 DEF SeenSame
  <2>3. /\ One(r \in Hold(s)') + sq'[s][r] + Received(s, r)'
                = One(r \in Hold(s)) + sq[s][r] + Received(s, r)
        /\ One(r \in Hold(s)') \in Nat /\ sq'[s][r] \in Nat /\ Received(s, r)' \in Nat
    <3>1. CASE r = q
      BY <1>4, <1>5, <1>8, <3>1 DEF One
    <3>2. CASE r # q
      <4>1. Received(s, r) = Received(s, r)'
        BY <1>2, <3>2 DEF One
      <4> QED
        BY <1>5, <1>8, <2>1, <3>2, <4>1 DEF Only
    <3> QED
      BY <3>1, <3>2
  <2> QED
    BY <2>1, <2>2, <2>3, TokenNext
<1>18. \A x \in Sides : x # s => /\ wc'[x] = wc[x] /\ scnt'[x] = scnt[x] /\ rcnt'[x] = rcnt[x]
                                 /\ recvs'[x] = recvs[x] /\ routs'[x] = routs[x]
                                 /\ sq'[x] = sq[x] /\ pending'[x] = pending[x]
  BY <1>0, <1>1, <1>5
<1>19. scnt' \in [Sides -> Nat] /\ \A x \in Sides : Delivered(x)'
  BY <1>0, <1>1, <1>16 DEF Types
<1> QED
  BY <1>1, <1>2, <1>5, <1>7, <1>13, <1>14, <1>15, <1>17, <1>18, <1>19, HandleKeeps

LEMMA MainLoopKeeps ==
    ASSUME PInv, args' = args, faults' = faults, NEW s \in Sides, MainLoop(s)
    PROVE  PInv'
<1>1. CASE Finish(s) \/ CompletionFails(s)
  BY <1>1, EndingsKeep
<1>2. CASE InvalidateUmr(s)
  BY <1>2, InvalidateUmrKeeps
<1>3. CASE GetEvent(s) \/ PollCq(s)
  BY <1>3, GetEventKeeps, PollCqKeeps
<1>4. CASE HandleSend(s) \/ HandleRecv(s)
  BY <1>4, HandleSendKeeps, HandleRecvKeeps
<1>5. CASE NextRound(s)
  BY <1>5, NextRoundKeeps
<1> QED
  BY <1>1, <1>2, <1>3, <1>4, <1>5 DEF MainLoop

-----------------------------------------------------------------------------
(***************************************************************************)
(* The invariant.                                                          *)
(***************************************************************************)
LEMMA InitPInv ==
    ASSUME Init PROVE PInv
<1>0. args \in Args /\ faults \in FaultSets
  BY DEF Init
<1>1. /\ NumQp \in Nat /\ NumQp > 0 /\ Iters \in Nat /\ Iters > 0 /\ RxDepth \in Nat
  BY <1>0, Arguments
<1>2. \A s \in Sides :
         /\ pc[s] = "start" /\ tcp[s] = <<>> /\ qp[s] = "init" /\ recvs[s] = 0 /\ routs[s] = 0
         /\ cq[s] = <<>> /\ wc[s] = <<>> /\ scnt[s] = 0 /\ rcnt[s] = 0
         /\ \A q \in Qps : /\ sq[s][q] = 0 /\ net[s][q] = 0 /\ unacked[s][q] = 0
                           /\ pending[s][q] = {}
  BY DEF Init
<1>3. Types
  <2>1. <<>> \in Seq({"addr", "split", "done"}) /\ <<>> \in Seq(Completions) /\ 0 \in 0 .. RxDepth
    BY <1>1
  <2>2. [q \in Qps |-> 0] \in [Qps -> Nat] /\ [q \in Qps |-> {}] \in [Qps -> SUBSET {"recv", "send"}]
    OBVIOUS
  <2>3. /\ pc \in [Sides -> Before \cup InLoop \cup Closes \cup Ended]
        /\ qp \in [Sides -> {"init", "rts", "destroyed"}]
        /\ armed \in [Sides -> BOOLEAN] /\ events \in [Sides -> Nat]
        /\ scnt \in [Sides -> Nat] /\ rcnt \in [Sides -> Nat]
    BY DEF Init, Before
  <2>4. /\ tcp \in [Sides -> Seq({"addr", "split", "done"})]
        /\ recvs \in [Sides -> 0 .. RxDepth] /\ routs \in [Sides -> 0 .. RxDepth]
        /\ cq \in [Sides -> Seq(Completions)] /\ wc \in [Sides -> Seq(Completions)]
    BY <2>1 DEF Init
  <2>5. /\ sq \in [Sides -> [Qps -> Nat]] /\ net \in [Sides -> [Qps -> Nat]]
        /\ unacked \in [Sides -> [Qps -> Nat]]
        /\ pending \in [Sides -> [Qps -> SUBSET {"recv", "send"}]]
    BY <2>2 DEF Init
  <2> QED
    BY <1>0, <2>3, <2>4, <2>5 DEF Types
<1>4. ServerFirst
  BY <1>2 DEF ServerFirst, Sides
<1>5. ASSUME NEW s \in Sides
      PROVE  /\ Cardinality(SendPending(s)) = 0 /\ Cardinality(OnQp(s)) = 0
             /\ Cardinality(Coming(s)) = 0 /\ Cardinality(Hold(s)) = 0 /\ Hold(s) = {}
             /\ AllReceived(s) = 0 /\ AllOwn(s) = 0 /\ Posted(s) = 0
             /\ \A q \in Qps : Received(s, q) = 0 /\ OwnOn(s, q) = 0
  <2>1. Peer(s) \in Sides
    BY BothSides
  <2>2. SendPending(s) = {} /\ OnQp(s) = {} /\ Coming(s) = {} /\ Hold(s) = {}
    <3>1. SendPending(s) = {}
      BY <1>2 DEF SendPending
    <3>2. OnQp(s) = {}
      BY <1>2 DEF OnQp
    <3>3. Coming(s) = {}
      BY <1>2, <2>1 DEF Coming
    <3>4. Hold(s) = {}
      BY <1>2 DEF Hold, InLoop, Closes
    <3> QED
      BY <3>1, <3>2, <3>3, <3>4
  <2>3. Cardinality({}) = 0
    BY FS_EmptySet
  <2>4. \A S : Unseen(s, S) = 0
    BY <1>2, CountEmpty DEF Unseen
  <2>5. Posted(s) = 0
    BY <1>2, <2>2, <2>3 DEF Posted
  <2> QED
    BY <2>2, <2>3, <2>4, <2>5 DEF AllReceived, AllOwn, Received, OwnOn
<1>6. ASSUME NEW s \in Sides
      PROVE  SendOut(s) /\ Receives(s) /\ Delivered(s) /\ Answers(s) /\ Bound(s) /\ Done(s)
  <2>1. Peer(s) \in Sides
    BY BothSides
  <2>2. SendOut(s)
    BY <1>2, <1>5 DEF SendOut, One
  <2>3. Receives(s)
    BY <1>2, <1>5 DEF Receives
  <2>4. Delivered(s)
    BY <1>2, <1>5, <2>1 DEF Delivered
  <2>5. Answers(s) /\ Bound(s) /\ Done(s)
    BY <1>1, <1>2, <1>5 DEF Answers, Bound, Done
  <2> QED
    BY <2>2, <2>3, <2>4, <2>5
<1>7. ASSUME NEW q \in Qps PROVE Token(q)
  <2>1. "client" \in Sides /\ "server" \in Sides
    BY DEF Sides
  <2>2. \A x \in {"client", "server"} :
           /\ One(q \in Hold(x)) = 0 /\ sq[x][q] = 0 /\ net[x][q] = 0 /\ Received(x, q) = 0
    BY <1>2, <1>5, <2>1 DEF One
  <2> QED
    BY <2>2 DEF Token
<1>8. ASSUME NEW s \in Sides PROVE Stage(s) /\ Wakeup(s)
  BY <1>2 DEF Stage, Wakeup, Ended, Closes
<1> QED
  BY <1>3, <1>4, <1>6, <1>7, <1>8 DEF PInv, Counts

\* Nothing changes.
LEMMA RestKeeps ==
    ASSUME PInv, UNCHANGED vars
    PROVE  PInv'
<1>0. /\ Types /\ Counts /\ ServerFirst
      /\ \A x \in Sides : Stage(x) /\ Wakeup(x) /\ Receives(x) /\ Done(x)
      /\ args' = args /\ faults' = faults
      /\ UNCHANGED <<pc, tcp, qp, recvs, sq, net, unacked, cq, armed, events>>
      /\ UNCHANGED <<wc, routs, pending, scnt, rcnt>>
  BY DEF PInv, Counts, vars, runVars, nicVars, loopVars
<1>1. /\ NumQp' = NumQp /\ Iters' = Iters /\ RxDepth' = RxDepth /\ UseEvent' = UseEvent
      /\ Program' = Program /\ Qps' = Qps /\ (Reliable <=> Reliable')
      /\ Completions' = Completions
  BY <1>0, SameArguments
<1>2. Types'
  BY <1>0, <1>1 DEF Types
<1>3. ASSUME NEW x \in Sides
      PROVE  /\ Running(x)' => Running(x)
             /\ \A r \in Qps : r \in Hold(x)' => r \in Hold(x)
             /\ SeenLess(x) /\ Receives(x)' /\ Done(x)'
  <2>1. SeenSame(x) /\ SeenLess(x)
    BY <1>0, Unlooked, SameSeenLess
  <2> QED
    BY <1>0, <1>1, <2>1, SameSets DEF Running, Receives, Done, SeenSame
<1>4. Counts'
  BY <1>0, <1>3, Still
<1>5. ServerFirst'
  BY <1>0, ServerFirstStays
<1>6. ASSUME NEW x \in Sides PROVE Stage(x)' /\ Wakeup(x)'
  BY <1>0, OtherSide
<1> QED
  BY <1>2, <1>4, <1>5, <1>6 DEF PInv

LEMMA NextPInv ==
    ASSUME PInv, [Next]_vars PROVE PInv'
<1>1. CASE SetUp /\ args' = args /\ faults' = faults
  BY <1>1, SetUpKeeps
<1>2. ASSUME NEW s \in Sides, MainLoop(s) \/ Nic(s) \/ Kill(s), args' = args, faults' = faults
      PROVE  PInv'
  BY <1>2, MainLoopKeeps, NicStepKeeps, EndingsKeep
<1>3. CASE UNCHANGED vars
  BY <1>3, RestKeeps
<1>4. CASE Rest /\ args' = args /\ faults' = faults
  <2>1. UNCHANGED vars
    BY <1>4 DEF Rest, vars
  <2> QED
    BY <2>1, RestKeeps
<1> QED
  BY <1>1, <1>2, <1>3, <1>4 DEF Next

\* The accounts of both sides, of every queue pair and of every event are kept by
\* every step of the programs, their NICs and the network.
THEOREM PInvInvariant == Spec => []PInv
<1>1. Init => PInv
  BY InitPInv
<1>2. PInv /\ [Next]_vars => PInv'
  BY NextPInv
<1> QED
  BY <1>1, <1>2, PTL DEF Spec

-----------------------------------------------------------------------------
(***************************************************************************)
(* What follows from it.                                                   *)
(***************************************************************************)
LEMMA TypesOK ==
    ASSUME PInv PROVE TypeOK
<1>0. Types /\ Counts /\ args \in Args
  BY DEF PInv, Types
<1>1. NumQp \in Nat /\ Iters \in Nat
  BY <1>0, Arguments
<1>2. ASSUME NEW s \in Sides
      PROVE  scnt[s] \in 0 .. Iters + NumQp - 1 /\ rcnt[s] \in 0 .. Iters + NumQp - 1
  <2>1. Peer(s) \in Sides
    BY BothSides
  <2>2. /\ Posted(s) <= Iters + NumQp - 1 /\ Posted(Peer(s)) <= Iters + NumQp - 1
        /\ rcnt[s] + AllReceived(s) + Cardinality(Coming(s)) <= Posted(Peer(s))
        /\ Posted(s) = scnt[s] + Cardinality(SendPending(s))
    BY <1>0, <2>1 DEF Counts, Bound, Delivered, Posted
  <2>3. /\ Posted(Peer(s)) \in Nat /\ scnt[s] \in Nat /\ rcnt[s] \in Nat /\ AllReceived(s) \in Nat
        /\ Cardinality(Coming(s)) \in Nat /\ Cardinality(SendPending(s)) \in Nat
    BY <1>0, <2>1, Numbers
  <2> QED
    BY <1>1, <2>2, <2>3
<1>3. scnt \in [Sides -> 0 .. Iters + NumQp - 1] /\ rcnt \in [Sides -> 0 .. Iters + NumQp - 1]
  <2>1. scnt \in [Sides -> Nat] /\ rcnt \in [Sides -> Nat]
    BY <1>0 DEF Types
  <2> QED
    BY <1>2, <2>1
<1>4. Before \cup InLoop \cup Closes \cup Ended
        = {"start", "wait_addr", "connect", "wait_done", "own", "event", "poll", "handle",
           "close_ok", "close_failed", "close_stuck"} \cup Ended
  BY DEF Before, InLoop, Closes
<1> QED
  BY <1>0, <1>3, <1>4 DEF TypeOK, Types

\* When a side of umr_rc has counted all its messages, in both directions, nothing
\* that could still complete is left.
LEMMA NothingWaits ==
    ASSUME PInv, NEW s \in Sides, pc[s] = "close_ok"
    PROVE  cq[s] = <<>>
<1>0. Types /\ Counts /\ Stage(s) /\ args \in Args /\ Peer(s) \in Sides
  BY BothSides DEF PInv, Types
<1>1. NumQp = 1 /\ Iters \in Nat
  <2>1. Program = "UMR"
    BY <1>0 DEF Stage, Closes
  <2> QED
    BY <1>0, <2>1, Arguments
<1>2. rcnt[s] >= Iters /\ scnt[s] >= Iters
  BY <1>0 DEF Counts, Done
<1>3. /\ scnt[s] \in Nat /\ rcnt[s] \in Nat /\ AllReceived(s) \in Nat /\ AllOwn(s) \in Nat
      /\ Cardinality(SendPending(s)) \in Nat /\ Cardinality(OnQp(s)) \in Nat
      /\ Cardinality(Coming(s)) \in Nat /\ Posted(Peer(s)) \in Nat
      /\ Len(cq[s]) \in Nat /\ Len(cq[s]) <= AllReceived(s) + AllOwn(s)
  BY <1>0, Numbers
<1>4. AllOwn(s) = 0
  <2>1. scnt[s] + Cardinality(SendPending(s)) <= Iters + NumQp - 1
    BY <1>0 DEF Counts, Bound, Posted
  <2>2. Running(s)
    BY DEF Running, Ended
  <2>3. Cardinality(OnQp(s)) + AllOwn(s) = Cardinality(SendPending(s))
    BY <1>0, <2>2 DEF Counts, SendOut
  <2> QED
    BY <1>1, <1>2, <1>3, <2>1, <2>3
<1>5. AllReceived(s) = 0
  <2>1. /\ rcnt[s] + AllReceived(s) + Cardinality(Coming(s)) <= Posted(Peer(s))
        /\ Posted(Peer(s)) <= Iters + NumQp - 1
    BY <1>0 DEF Counts, Delivered, Bound
  <2> QED
    BY <1>1, <1>2, <1>3, <2>1
<1>6. Len(cq[s]) = 0
  BY <1>3, <1>4, <1>5
<1>7. cq[s] \in Seq(Completions)
  BY <1>0 DEF Types
<1> QED
  BY <1>6, <1>7, EmptySeq

\* What main remembers - its counts, the receives it takes for outstanding, what
\* is pending on each queue pair - agrees with what is posted, under way and
\* completed, on its own side and, for the one message of a queue pair, on both; and
\* invalidate_umr of a side that has counted everything takes its own completion.
THEOREM AccountsAgree == Spec => []Accounting
<1>1. PInv => Accounting
  <2> SUFFICES ASSUME PInv PROVE Accounting
    OBVIOUS
  <2>0. Types /\ Counts
    BY DEF PInv
  <2>1. TypeOK
    BY TypesOK
  <2>2. RoutsIsOutstanding
    BY <2>0, QueueHolds DEF RoutsIsOutstanding, Counts, Receives
  <2>3. PendingIsOutstanding
    BY <2>0 DEF PendingIsOutstanding, Counts, SendOut, OwnOn, One
  <2>4. OneMessage
    <3>1. ASSUME NEW q \in Qps
          PROVE  sq["server"][q] + net["server"][q] + Received("client", q)
                 + (sq["client"][q] + net["client"][q] + Received("server", q)) <= 1
      <4>1. "client" \in Sides /\ "server" \in Sides /\ Peer("client") = "server"
        BY DEF Sides, Peer
      <4>2. /\ One(q \in Hold("client")) + sq["client"][q] + net["client"][q] + Received("client", q)
               + (One(q \in Hold("server")) + sq["server"][q] + net["server"][q]
                  + Received("server", q)) <= 1
            /\ One(q \in Hold("client")) \in Nat /\ sq["client"][q] \in Nat
            /\ net["client"][q] \in Nat /\ Received("client", q) \in Nat
            /\ One(q \in Hold("server")) \in Nat /\ sq["server"][q] \in Nat
            /\ net["server"][q] \in Nat /\ Received("server", q) \in Nat
        BY <2>0, <4>1, OneToken
      <4> QED
        BY <4>2
    <3> QED
      BY <3>1 DEF OneMessage, Peer
  <2>5. \A s \in Sides : pc[s] = "close_ok" => cq[s] = <<>>
    BY NothingWaits
  <2> QED
    BY <2>1, <2>2, <2>3, <2>4, <2>5 DEF Accounting
<1> QED
  BY <1>1, PInvInvariant, PTL

\* A message that is under way to a side that runs finds connected queue pairs and a
\* receive, for no more messages are under way, received or unanswered than there are
\* queue pairs, and main posts receives again before fewer are outstanding; except
\* for a server of umr_rc that has not posted its first.
THEOREM MessagesFindReceives == Spec => []MessageFindsReceive
<1>1. PInv => MessageFindsReceive
  <2> SUFFICES ASSUME PInv, NEW s \in Sides, Coming(s) # {}, Running(s)
               PROVE  qp[s] = "rts" /\ (Late(s) \/ recvs[s] >= Cardinality(Coming(s)))
    BY DEF MessageFindsReceive
  <2>0. /\ Types /\ Counts /\ ServerFirst /\ Stage(s) /\ Stage("client") /\ args \in Args
        /\ "client" \in Sides /\ "server" \in Sides /\ Peer(s) \in Sides
    BY BothSides DEF PInv, Types, Sides
  <2>1. /\ Cardinality(Coming(s)) \in Nat /\ Cardinality(Coming(s)) > 0
        /\ AllReceived(s) \in Nat /\ rcnt[s] \in Nat /\ Posted(Peer(s)) \in Nat
    <3>1. Coming(s) \in SUBSET Qps
      BY DEF Coming
    <3>2. Cardinality(Coming(s)) \in Nat /\ (Cardinality(Coming(s)) = 0 <=> Coming(s) = {})
      BY <2>0, <3>1, QpSet
    <3>3. AllReceived(s) \in Nat /\ rcnt[s] \in Nat /\ Posted(Peer(s)) \in Nat
      BY <2>0, Numbers
    <3>4. Cardinality(Coming(s)) # 0
      BY <3>2
    <3> QED
      BY <3>2, <3>3, <3>4
  <2>2. Posted(Peer(s)) > 0
    <3>1. rcnt[s] + AllReceived(s) + Cardinality(Coming(s)) <= Posted(Peer(s))
      BY <2>0 DEF Counts, Delivered
    <3> QED
      BY <2>1, <3>1
  <2>3. qp[s] # "init"
    <3>1. CASE s = "client"
      <4>1. Peer(s) = "server"
        BY <3>1 DEF Peer
      <4>2. pc["client"] \notin Before
        BY <2>0, <2>2, <4>1, ClientFresh
      <4> QED
        BY <2>0, <3>1, <4>2 DEF Stage, Before
    <3>2. CASE s = "server"
      <4>1. Peer(s) = "client"
        BY <3>2 DEF Peer
      <4>2. ASSUME qp["server"] = "init" PROVE FALSE
        <5>1. scnt["client"] = 0 /\ SendPending("client") = {}
          BY <2>0, <4>2 DEF ServerFirst, SendPending
        <5>2. Posted("client") = 0
          BY <5>1, FS_EmptySet DEF Posted
        <5> QED
          BY <2>2, <4>1, <5>2
      <4> QED
        BY <3>2, <4>2
    <3> QED
      BY <3>1, <3>2 DEF Sides
  <2>4. qp[s] = "rts"
    BY <2>0, <2>3 DEF Types, Stage, Running
  <2>5. ASSUME ~Late(s) PROVE recvs[s] >= Cardinality(Coming(s))
    <3>1. pc[s] # "start" /\ ~(Program = "UMR" /\ pc[s] \in Before)
      BY <2>0, <2>4, <2>5 DEF Late, Stage, Before
    <3>2. routs[s] = recvs[s] + AllReceived(s) /\ routs[s] >= NumQp
      BY <2>0, <3>1 DEF Counts, Receives
    <3>3. Cardinality(Coming(s)) + AllReceived(s) <= NumQp
      <4>1. \A x \in {"client", "server"} :
               /\ Cardinality(Hold(x)) \in Nat /\ Cardinality(Coming(x)) \in Nat
               /\ AllReceived(x) \in Nat
        BY <2>0, Numbers DEF Sides
      <4>2. NumQp \in Nat
        BY <2>0, Arguments
      <4>3. s \in {"client", "server"}
        BY DEF Sides
      <4> QED
        BY <2>0, <4>1, <4>2, <4>3, Circulating
    <3>4. NumQp \in Nat /\ recvs[s] \in Nat
      BY <2>0, Arguments, Numbers
    <3> QED
      BY <2>1, <3>2, <3>3, <3>4
  <2> QED
    BY <2>4, <2>5
<1> QED
  BY <1>1, PInvInvariant, PTL

\* main, called with --events, never waits for an event while a completion is in its
\* queue and no event has been raised: one poll per event takes all there is.
THEOREM WakeupsComplete == Spec => []NoLostWakeup
<1>1. PInv => NoLostWakeup
  BY DEF PInv, NoLostWakeup, Stage, Wakeup, Running, Ended
<1> QED
  BY <1>1, PInvInvariant, PTL

\* A side that has counted all its sends and receives and ended has a peer that has
\* received them all, but for the server's last message on an unreliable transport.
THEOREM OkIsMutual == Spec => []OkMeansAllReceived
<1>1. PInv => OkMeansAllReceived
  <2> SUFFICES ASSUME PInv, NEW s \in Sides, pc[s] = "ok", Running(Peer(s))
               PROVE  rcnt[Peer(s)] + AllReceived(Peer(s))
                          >= IF Reliable \/ s = "client" THEN Iters ELSE Iters - 1
    BY DEF OkMeansAllReceived
  <2> DEFINE p == Peer(s)
  <2>0. /\ Types /\ Counts /\ args \in Args /\ p \in Sides /\ Peer(p) = s
        /\ rcnt[s] >= Iters /\ scnt[s] >= Iters
    BY BothSides DEF PInv, Types, Counts, Done
  <2>1. /\ \A x \in Sides : /\ rcnt[x] \in Nat /\ AllReceived(x) \in Nat /\ scnt[x] \in Nat
                            /\ Cardinality(Coming(x)) \in Nat /\ Posted(x) \in Nat
                            /\ Cardinality(Hold(x)) \in Nat /\ Cardinality(SendPending(x)) \in Nat
        /\ Iters \in Nat /\ NumQp \in Nat
    BY <2>0, Numbers, Arguments
  <2>2. /\ rcnt[s] + AllReceived(s) + Cardinality(Coming(s)) <= Posted(p)
        /\ Posted(p) + Cardinality(Hold(p)) <= rcnt[p] + IF p = "client" THEN NumQp ELSE 0
    BY <2>0 DEF Counts, Delivered, Answers
  <2>3. CASE Reliable
    <3>1. rcnt[p] + AllReceived(p) + Cardinality(Coming(p)) = scnt[s] + Cardinality(SendPending(s))
      BY <2>0, <2>3 DEF Counts, Delivered, Posted
    <3>2. Coming(p) \subseteq SendPending(s) /\ SendPending(s) \in SUBSET Qps
      <4>1. ASSUME NEW q \in Qps, sq[s][q] + net[s][q] > 0 PROVE "send" \in pending[s][q]
        <5>1. net[s][q] = 0 /\ sq[s][q] \in Nat
          BY <2>0, <2>3, QpNumbers DEF Counts, SendOut
        <5> QED
          BY <2>0, <4>1, <5>1 DEF Counts, SendOut
      <4> QED
        BY <2>0, <4>1 DEF Coming, SendPending
    <3>3. Cardinality(Coming(p)) <= Cardinality(SendPending(s))
      BY <2>0, <3>2, QpSet, FS_Subset
    <3> QED
      BY <2>0, <2>1, <2>3, <3>1, <3>3
  <2>4. CASE ~Reliable
    <3>1. NumQp = 1
      BY <2>0, <2>4, Arguments DEF Reliable
    <3>2. Posted(p) >= Iters
      BY <2>0, <2>1, <2>2
    <3>3. p = "client" <=> s # "client"
      BY DEF Peer, Sides
    <3> QED
      BY <2>0, <2>1, <2>2, <2>4, <3>1, <3>2, <3>3
  <2> QED
    BY <2>3, <2>4
<1> QED
  BY <1>1, PInvInvariant, PTL

=============================================================================
