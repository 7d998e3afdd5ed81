--------------------------- MODULE CcPingPongProofs ---------------------------
(***************************************************************************)
(* Three results on cc_pingpong and task_pingpong, however many rounds and *)
(* receives there are.  One buffer is enough, whoever is killed; results   *)
(* verify, whatever the widths and the operands, but for those whose order *)
(* packing loses; and where nobody is killed and results verify, only the  *)
(* client of task may fail, after its last round.                          *)
(***************************************************************************)
EXTENDS CcPingPong, FiniteSetTheorems, TLAPS

Statuses == {"recv", "send", "error"}

\* What the argument needs of the types: nothing of the data.
StateTypes ==
    /\ pc \in [Sides -> {"start", "exch", "done_msg", "event", "wait", "mcq", "poll",
                         "handle", "recv", "task", "scq"} \cup Ended]
    /\ sq \in [Sides -> {"none", "held", "posted", "delivered"}]
    /\ cq \in [Sides -> [{"r", "s"} -> Seq(Statuses)]]
    /\ batch \in [Sides -> Seq(Statuses)]
    /\ pending \in [Sides -> SUBSET {"recv", "send"}]
    /\ mq \in [Sides -> Seq({"wait", "enable", "enable_signaled"})]

In(x, q)   == \E i \in 1 .. Len(q) : q[i] = x
Once(x, q) == \A i, j \in 1 .. Len(q) : q[i] = x /\ q[j] = x => i = j

(***************************************************************************)
(* There is one message.  It is before its first SEND (First), on its way  *)
(* out (Out), come and not looked at (Came), or owed to the peer (Owes).   *)
(***************************************************************************)
First   == pc["client"] \in {"start", "exch"}
Out(s)  == sq[s] \in {"held", "posted"}
Came(s) == In("recv", cq[s]["r"]) \/ In("recv", batch[s])
Owes(s) == "recv" \notin pending[s] \/ pc[s] = "task"
Has(s)  == Out(s) \/ Came(s) \/ Owes(s)

OneTurn(s) ==
    /\ Has(s) => ~First /\ ~Has(Peer(s))
    /\ Out(s) => ~Came(s) /\ ~Owes(s)
    /\ Came(s) => ~Owes(s)

\* Where main may be, and when it has polled completions.
Loop(s) ==
    /\ Cc => pc[s] \notin {"recv", "task", "scq"}
    /\ ~Cc => pc[s] \notin {"event", "wait", "poll", "handle"} /\ "recv" \in pending[s]
    /\ pc[s] \notin {"handle"} \cup Ended => batch[s] = <<>>
    /\ pc[s] = "handle" => batch[s] # <<>>

\* The message is polled once; in task only receives are in its queue.
OneMessage(s) ==
    /\ Once("recv", cq[s]["r"]) /\ Once("recv", batch[s])
    /\ In("recv", batch[s]) => ~In("recv", cq[s]["r"])
    /\ ~Cc => \A i \in 1 .. Len(cq[s]["r"]) : cq[s]["r"][i] = "recv"

\* In cc the management queue pair only waits; in task it has work while the
\* SEND is held back, and at most one SEND's.
Held(s) ==
    /\ Cc => \A i \in 1 .. Len(mq[s]) : mq[s][i] = "wait"
    /\ ~Cc => /\ mq[s] \in {<<>>, <<"enable_signaled">>, <<"wait", "enable">>, <<"enable">>}
              /\ mq[s] # <<>> => sq[s] = "held"

CcInv == StateTypes /\ \A s \in Sides : OneTurn(s) /\ Loop(s) /\ OneMessage(s) /\ Held(s)

-----------------------------------------------------------------------------
(***************************************************************************)
(* Sequences.                                                              *)
(***************************************************************************)
LEMMA NothingIn ==
    ASSUME NEW x PROVE ~In(x, <<>>) /\ Once(x, <<>>)
BY DEF In, Once

LEMMA AppendIn ==
    ASSUME NEW q \in Seq(Statuses), NEW x, NEW y \in Statuses
    PROVE  /\ Append(q, y) \in Seq(Statuses)
           /\ In(x, Append(q, y)) <=> In(x, q) \/ x = y
           /\ Once(x, q) /\ (x = y => ~In(x, q)) => Once(x, Append(q, y))
BY DEF In, Once

LEMMA TailIn ==
    ASSUME NEW q \in Seq(Statuses), q # <<>>, NEW x
    PROVE  /\ Tail(q) \in Seq(Statuses) /\ In(Head(q), q)
           /\ In(x, Tail(q)) => In(x, q)
           /\ Once(x, q) => Once(x, Tail(q)) /\ (x = Head(q) => ~In(x, Tail(q)))
BY DEF In, Once

\* A queue taken apart.
LEMMA SplitIn ==
    ASSUME NEW q \in Seq(Statuses), NEW n \in 0 .. Len(q), NEW x, Once(x, q)
    PROVE  LET p == SubSeq(q, 1, n)
               r == SubSeq(q, n + 1, Len(q))
           IN  /\ p \in Seq(Statuses) /\ r \in Seq(Statuses)
               /\ p = <<>> <=> n = 0
               /\ In(x, p) \/ In(x, r) => In(x, q)
               /\ Once(x, p) /\ Once(x, r) /\ (In(x, p) => ~In(x, r))
<1> DEFINE p == SubSeq(q, 1, n)
           r == SubSeq(q, n + 1, Len(q))
<1>1. p \in Seq(Statuses) /\ Len(p) = n /\ \A i \in 1 .. n : p[i] = q[i]
  OBVIOUS
<1>2. r \in Seq(Statuses) /\ Len(r) = Len(q) - n /\ \A i \in 1 .. Len(q) - n : r[i] = q[n + i]
  OBVIOUS
<1>3. p = <<>> <=> n = 0
  BY <1>1
<1>4. In(x, p) => In(x, q)
  BY <1>1 DEF In
<1>5. In(x, r) => In(x, q)
  BY <1>2 DEF In
<1>6. Once(x, p)
  BY <1>1 DEF Once
<1>7. Once(x, r)
  BY <1>2 DEF Once
<1>8. In(x, p) => ~In(x, r)
  BY <1>1, <1>2 DEF In, Once
<1> QED
  BY <1>1, <1>2, <1>3, <1>4, <1>5, <1>6, <1>7, <1>8

LEMMA TailIsEmpty ==
    ASSUME NEW q \in Seq(Statuses), q # <<>>
    PROVE  Len(q) > 1 <=> Tail(q) # <<>>
<1>1. Len(q) \in Nat \ {0} /\ Tail(q) \in Seq(Statuses) /\ Len(Tail(q)) = Len(q) - 1
  OBVIOUS
<1>2. Tail(q) = <<>> <=> Len(Tail(q)) = 0
  <2>1. \A t \in Seq(Statuses) : t = <<>> <=> Len(t) = 0
    OBVIOUS
  <2> QED
    BY <1>1, <2>1
<1>3. Len(q) > 1 <=> Len(q) - 1 # 0
  <2>1. \A n \in Nat \ {0} : n > 1 <=> n - 1 # 0
    OBVIOUS
  <2> QED
    BY <1>1, <2>1
<1> QED
  BY <1>1, <1>2, <1>3

LEMMA InitCcInv == Init => CcInv
<1> SUFFICES ASSUME Init PROVE CcInv
  OBVIOUS
<1>1. /\ pc = [s \in Sides |-> IF s = "client" THEN "start" ELSE "exch"]
      /\ sq = [s \in Sides |-> "none"]
      /\ cq = [s \in Sides |-> [q \in {"r", "s"} |-> <<>>]]
      /\ batch = [s \in Sides |-> <<>>] /\ mq = [s \in Sides |-> <<>>]
      /\ pending = [s \in Sides |-> {"recv"}]
  BY DEF Init
<1>2. StateTypes
  <2>1. pc \in [Sides -> {"start", "exch"}]
    BY <1>1
  <2>2. cq \in [Sides -> [{"r", "s"} -> Seq(Statuses)]] /\ batch \in [Sides -> Seq(Statuses)]
    BY <1>1
  <2>3. mq \in [Sides -> Seq({"wait", "enable", "enable_signaled"})]
    BY <1>1
  <2> QED
    BY <1>1, <2>1, <2>2, <2>3 DEF StateTypes
<1>3. ASSUME NEW s \in Sides PROVE OneTurn(s) /\ Loop(s) /\ OneMessage(s) /\ Held(s)
  <2>1. /\ Peer(s) \in Sides /\ "client" \in Sides
    BY DEF Sides, Peer
  <2>2. \A t \in Sides : cq[t]["r"] = <<>> /\ batch[t] = <<>>
    BY <1>1
  <2>3. \A t \in Sides : ~Has(t)
    BY <1>1, <2>2, NothingIn DEF Out, Came, Owes, Has
  <2>4. OneTurn(s)
    BY <2>1, <2>3 DEF OneTurn, Has
  <2>5. Loop(s)
    BY <1>1, <2>2 DEF Loop, Ended
  <2>6. OneMessage(s)
    BY <2>2, NothingIn DEF OneMessage
  <2>7. Held(s)
    BY <1>1 DEF Held
  <2> QED
    BY <2>4, <2>5, <2>6, <2>7
<1> QED
  BY <1>2, <1>3 DEF CcInv

-----------------------------------------------------------------------------
LEMMA BothSides ==
    /\ "client" \in Sides /\ "server" \in Sides
    /\ \A s \in Sides : Peer(s) \in Sides /\ Peer(s) # s /\ Peer(Peer(s)) = s
    /\ \A s, t \in Sides : t = s \/ t = Peer(s)
    /\ \A s \in Sides : s = "client" \/ Peer(s) = "client"
BY DEF Sides, Peer

\* A side that is left alone keeps its part of the invariant.
LEMMA LeftAlone ==
    ASSUME CcInv, NEW t \in Sides, args' = args,
           pc'[t] = pc[t], sq'[t] = sq[t], cq'[t]["r"] = cq[t]["r"], batch'[t] = batch[t],
           pending'[t] = pending[t], mq'[t] = mq[t]
    PROVE  /\ Loop(t)' /\ OneMessage(t)' /\ Held(t)'
           /\ Out(t)' <=> Out(t)
           /\ Came(t)' <=> Came(t)
           /\ Owes(t)' <=> Owes(t)
           /\ Has(t)' <=> Has(t)
<1>1. Cc' <=> Cc
  BY DEF Cc
<1>2. Loop(t) /\ OneMessage(t) /\ Held(t)
  BY DEF CcInv
<1>3. Loop(t)'
  BY <1>1, <1>2 DEF Loop
<1>4. OneMessage(t)'
  BY <1>1, <1>2 DEF OneMessage
<1>5. Held(t)'
  BY <1>1, <1>2 DEF Held
<1>6. /\ Out(t)' <=> Out(t)
      /\ Came(t)' <=> Came(t)
      /\ Owes(t)' <=> Owes(t)
  BY DEF Out, Came, Owes
<1> QED
  BY <1>3, <1>4, <1>5, <1>6 DEF Has

\* A step of one side's, by which it does not come to have the message, unless
\* it is the first SEND.
LEMMA StepOfOne ==
    ASSUME CcInv, NEW s \in Sides, args' = args, StateTypes',
           \A t \in Sides \ {s} :
               /\ pc'[t] = pc[t] /\ sq'[t] = sq[t] /\ cq'[t]["r"] = cq[t]["r"]
               /\ batch'[t] = batch[t] /\ pending'[t] = pending[t] /\ mq'[t] = mq[t],
           pc'["client"] \in {"start", "exch"} => First,
           Has(s)' => Has(s) \/ (First /\ ~First'),
           Out(s)' => ~Came(s)' /\ ~Owes(s)', Came(s)' => ~Owes(s)',
           Loop(s)', OneMessage(s)', Held(s)'
    PROVE  CcInv'
<1>1. PICK p \in Sides \ {s} : p = Peer(s) /\ s = Peer(p)
  BY BothSides
<1>2. /\ Loop(p)' /\ OneMessage(p)' /\ Held(p)'
      /\ Out(p)' <=> Out(p)
      /\ Came(p)' <=> Came(p)
      /\ Owes(p)' <=> Owes(p)
      /\ Has(p)' <=> Has(p)
  BY LeftAlone
<1>3. First' => First
  BY DEF First
<1>4. OneTurn(s) /\ OneTurn(p)
  BY DEF CcInv
<1>5. /\ Has(s) => ~First /\ ~Has(p)
      /\ Has(p) => ~First /\ ~Has(s)
      /\ Out(p) => ~Came(p) /\ ~Owes(p)
      /\ Came(p) => ~Owes(p)
  BY <1>1, <1>4 DEF OneTurn
<1>6. Has(s)' => ~First' /\ ~Has(p)'
  BY <1>2, <1>3, <1>5
<1>7. Has(p)' => ~First' /\ ~Has(s)'
  BY <1>2, <1>3, <1>5
<1>8. OneTurn(s)'
  BY <1>1, <1>6 DEF OneTurn
<1>9. OneTurn(p)'
  BY <1>1, <1>2, <1>5, <1>7 DEF OneTurn
<1> QED
  BY <1>1, <1>2, <1>8, <1>9, BothSides DEF CcInv

\* Main goes on elsewhere, and nothing of the message or its queues changes.
LEMMA Moves ==
    ASSUME CcInv, NEW s \in Sides, NEW w, args' = args, Goto(s, w),
           sq' = sq, batch' = batch, pending' = pending, mq' = mq,
           cq' \in [Sides -> [{"r", "s"} -> Seq(Statuses)]],
           \A t \in Sides : cq'[t]["r"] = cq[t]["r"],
           w \in {"exch", "done_msg", "event", "wait", "mcq", "poll", "recv", "scq"} \cup Ended,
           w = "exch" => First,
           Cc => w \notin {"recv", "scq"},
           ~Cc => w \notin {"event", "wait", "poll"},
           pc[s] \in {"handle"} \cup Ended => w \in Ended
    PROVE  CcInv'
<1>1. pc' = [pc EXCEPT ![s] = w] /\ pc'[s] = w
  BY DEF Goto, CcInv, StateTypes
<1>2. StateTypes'
  BY <1>1 DEF CcInv, StateTypes
<1>3. \A t \in Sides \ {s} : pc'[t] = pc[t]
  BY <1>1 DEF CcInv, StateTypes
<1>4. pc'["client"] \in {"start", "exch"} => First
  <2>1. "client" \in Sides
    BY DEF Sides
  <2> QED
    BY <1>1, <1>3, <2>1 DEF First, Ended
<1>5. OneTurn(s) /\ Loop(s) /\ OneMessage(s) /\ Held(s)
  BY DEF CcInv
<1>6. /\ Out(s)' <=> Out(s)
      /\ Came(s)' <=> Came(s)
      /\ Owes(s)' => Owes(s)
  BY <1>1 DEF Out, Came, Owes, Ended
<1>7. Has(s)' => Has(s)
  BY <1>6 DEF Has
<1>8. /\ Out(s)' => ~Came(s)' /\ ~Owes(s)'
      /\ Came(s)' => ~Owes(s)'
  BY <1>5, <1>6 DEF OneTurn
<1>9. Cc' <=> Cc
  BY DEF Cc
<1>10. Loop(s)'
  BY <1>1, <1>5, <1>9 DEF Loop, Ended
<1>11. OneMessage(s)'
  BY <1>5, <1>9 DEF OneMessage
<1>12. Held(s)'
  BY <1>5, <1>9 DEF Held
<1> QED
  BY <1>2, <1>3, <1>4, <1>7, <1>8, <1>10, <1>11, <1>12, StepOfOne

LEMMA TopIs == /\ Cc => Top \in {"event", "wait", "poll"}
               /\ ~Cc => Top = "recv"
BY DEF Top, AfterEvent

\* A side that fails, or is killed.
LEMMA EndKeeps ==
    ASSUME CcInv, NEW s \in Sides, args' = args, UNCHANGED nicVars,
           UNCHANGED <<batch, pending>>,
           \E w \in Ended : Goto(s, w)
    PROVE  CcInv'
<1>1. PICK w \in Ended : Goto(s, w)
  OBVIOUS
<1>2. cq' \in [Sides -> [{"r", "s"} -> Seq(Statuses)]]
  BY DEF CcInv, StateTypes, nicVars
<1>3. /\ sq' = sq /\ mq' = mq /\ cq' = cq /\ batch' = batch /\ pending' = pending
  BY DEF nicVars
<1>4. w \notin {"exch", "recv", "scq", "event", "wait", "poll"}
  BY <1>1 DEF Ended
<1> QED
  BY <1>1, <1>2, <1>3, <1>4, Moves

-----------------------------------------------------------------------------
(***************************************************************************)
(* The exchange of addresses.                                              *)
(***************************************************************************)
LEMMA ExchangeKeeps ==
    ASSUME CcInv, args' = args, Exchange
    PROVE  CcInv'
<1>0. StateTypes /\ "client" \in Sides /\ "server" \in Sides
  BY BothSides DEF CcInv
<1>1. CASE ClientAddress
  <2>1. /\ pc["client"] = "start" /\ Goto("client", "exch")
        /\ sq' = sq /\ batch' = batch /\ pending' = pending /\ mq' = mq /\ cq' = cq
    BY <1>1 DEF ClientAddress, nicVars
  <2>2. cq' \in [Sides -> [{"r", "s"} -> Seq(Statuses)]]
    BY <1>0, <2>1 DEF StateTypes
  <2>3. pc["client"] \notin {"handle"} \cup Ended /\ First
    BY <2>1 DEF Ended, First
  <2> QED
    BY <1>0, <2>1, <2>2, <2>3, Moves
<1>2. CASE ServerConnect
  <2>1. /\ pc["server"] = "exch" /\ Goto("server", "done_msg")
        /\ sq' = sq /\ batch' = batch /\ pending' = pending /\ mq' = mq /\ cq' = cq
    BY <1>2 DEF ServerConnect, nicVars
  <2>2. cq' \in [Sides -> [{"r", "s"} -> Seq(Statuses)]]
    BY <1>0, <2>1 DEF StateTypes
  <2>3. pc["server"] \notin {"handle"} \cup Ended
    BY <2>1 DEF Ended
  <2> QED
    BY <1>0, <2>1, <2>2, <2>3, Moves
<1>3. CASE ReadDone
  <2>1. /\ pc["server"] = "done_msg" /\ Goto("server", Top)
        /\ sq' = sq /\ batch' = batch /\ pending' = pending /\ mq' = mq /\ cq' = cq
    BY <1>3 DEF ReadDone, nicVars
  <2>2. cq' \in [Sides -> [{"r", "s"} -> Seq(Statuses)]]
    BY <1>0, <2>1 DEF StateTypes
  <2>3. pc["server"] \notin {"handle"} \cup Ended
    BY <2>1 DEF Ended
  <2> QED
    BY <1>0, <2>1, <2>2, <2>3, TopIs, Moves
<1>4. CASE \E s \in Sides : PeerGone(s)
  <2>1. PICK s \in Sides : PeerGone(s)
    BY <1>4
  <2>2. UNCHANGED nicVars /\ UNCHANGED <<batch, pending>>
    BY <2>1 DEF PeerGone
  <2>3. \E w \in Ended : Goto(s, w)
    BY <2>1 DEF PeerGone, Fails, Ended
  <2> QED
    BY <2>2, <2>3, EndKeeps
<1>5. CASE ReadAddress
  <2> DEFINE w == IF Cc THEN Top ELSE "mcq"
  <2>1. /\ pc["client"] = "exch" /\ pc' = [pc EXCEPT !["client"] = w]
        /\ sq' = [sq EXCEPT !["client"] = IF Cc THEN "posted" ELSE "held"]
        /\ pending' = [pending EXCEPT !["client"] = {"recv", "send"}]
        /\ mq' = [mq EXCEPT !["client"] = IF Cc THEN mq["client"] ELSE <<"enable_signaled">>]
        /\ cq' = cq /\ batch' = batch
    BY <1>5 DEF ReadAddress, Goto
  <2>2. w \in {"event", "wait", "poll", "mcq"} /\ (Cc => w # "mcq") /\ (~Cc => w = "mcq")
    BY TopIs
  <2> HIDE DEF w
  <2>3. /\ pc'["client"] = w /\ sq'["client"] = IF Cc THEN "posted" ELSE "held"
        /\ pending'["client"] = {"recv", "send"}
        /\ mq'["client"] = IF Cc THEN mq["client"] ELSE <<"enable_signaled">>
    BY <1>0, <2>1 DEF StateTypes
  <2>4. StateTypes'
    <3> DEFINE S == Seq({"wait", "enable", "enable_signaled"})
               v == IF Cc THEN mq["client"] ELSE <<"enable_signaled">>
    <3>a. <<"enable_signaled">> \in S /\ mq \in [Sides -> S]
      BY <1>0 DEF StateTypes
    <3>b. v \in S
      BY <1>0, <3>a
    <3> HIDE DEF S, v
    <3>c. mq' = [mq EXCEPT !["client"] = v]
      BY <2>1 DEF v
    <3>d. mq' \in [Sides -> S]
      BY <3>a, <3>b, <3>c
    <3>1. mq' \in [Sides -> Seq({"wait", "enable", "enable_signaled"})]
      BY <3>d DEF S
    <3>2. pc' \in [Sides -> {"start", "exch", "done_msg", "event", "wait", "mcq", "poll",
                         "handle", "recv", "task", "scq"} \cup Ended]
      BY <1>0, <2>1, <2>2 DEF StateTypes
    <3>3. pending' \in [Sides -> SUBSET {"recv", "send"}]
      BY <1>0, <2>1 DEF StateTypes
    <3> QED
      BY <1>0, <2>1, <3>1, <3>2, <3>3 DEF StateTypes
  <2>5. First /\ ~First'
    BY <2>1, <2>2, <2>3 DEF First
  <2>6. ~Has("client") /\ Loop("client") /\ OneMessage("client") /\ Held("client")
    BY <1>0, <2>5 DEF CcInv, OneTurn
  <2>7. ~Came("client")' /\ ~Owes("client")'
    BY <2>1, <2>2, <2>3, <2>6 DEF Has, Came, Owes
  <2>8. Cc' <=> Cc
    BY DEF Cc
  <2>9. Loop("client")'
    BY <2>1, <2>2, <2>3, <2>6, <2>8 DEF Loop, Ended
  <2>10. OneMessage("client")'
    BY <2>1, <2>6, <2>8 DEF OneMessage
  <2>11. Held("client")'
    BY <2>3, <2>6, <2>8 DEF Held
  <2>12. \A t \in Sides \ {"client"} :
             /\ pc'[t] = pc[t] /\ sq'[t] = sq[t] /\ cq'[t]["r"] = cq[t]["r"]
             /\ batch'[t] = batch[t] /\ pending'[t] = pending[t] /\ mq'[t] = mq[t]
    BY <1>0, <2>1 DEF StateTypes
  <2> QED
    BY <1>0, <2>4, <2>5, <2>7, <2>9, <2>10, <2>11, <2>12, StepOfOne
<1> QED
  BY <1>1, <1>2, <1>3, <1>4, <1>5 DEF Exchange

-----------------------------------------------------------------------------
(***************************************************************************)
(* The loop of cc.                                                         *)
(***************************************************************************)
LEMMA PollKeeps ==
    ASSUME CcInv, NEW s \in Sides, args' = args, Poll(s)
    PROVE  CcInv'
<1> DEFINE q == cq[s]["r"]
           n == IF Len(q) < 2 THEN Len(q) ELSE 2
           w == IF n = 0 THEN Top ELSE "handle"
           b == SubSeq(q, 1, n)
           r == SubSeq(q, n + 1, Len(q))
<1>0. StateTypes /\ OneTurn(s) /\ Loop(s) /\ OneMessage(s) /\ Held(s)
  BY DEF CcInv
<1>1. /\ pc[s] = "poll" /\ pc' = [pc EXCEPT ![s] = w] /\ batch' = [batch EXCEPT ![s] = b]
      /\ cq' = [cq EXCEPT ![s]["r"] = r]
      /\ sq' = sq /\ pending' = pending /\ mq' = mq
  BY DEF Poll, Goto
<1>2. q \in Seq(Statuses) /\ n \in 0 .. Len(q) /\ Once("recv", q)
  BY <1>0 DEF StateTypes, OneMessage
<1>3. /\ b \in Seq(Statuses) /\ r \in Seq(Statuses)
      /\ b = <<>> <=> n = 0
      /\ In("recv", b) \/ In("recv", r) => In("recv", q)
      /\ Once("recv", b) /\ Once("recv", r) /\ (In("recv", b) => ~In("recv", r))
  <2> HIDE DEF q, n
  <2> QED
    BY <1>2, SplitIn
<1>4. Cc /\ Cc'
  BY <1>0, <1>1 DEF Loop, Cc
<1>5. w \in {"event", "wait", "poll", "handle"} /\ (w = "handle" <=> b # <<>>)
  BY <1>3, <1>4, TopIs
<1> HIDE DEF q, n, w, b, r
<1>6. pc'[s] = w /\ batch'[s] = b /\ cq'[s]["r"] = r
  BY <1>0, <1>1 DEF StateTypes
<1>7. StateTypes'
  <2>1. pc' \in [Sides -> {"start", "exch", "done_msg", "event", "wait", "mcq", "poll",
                         "handle", "recv", "task", "scq"} \cup Ended]
    BY <1>0, <1>1, <1>5 DEF StateTypes
  <2>2. cq' \in [Sides -> [{"r", "s"} -> Seq(Statuses)]] /\ batch' \in [Sides -> Seq(Statuses)]
    BY <1>0, <1>1, <1>3 DEF StateTypes
  <2> QED
    BY <1>0, <1>1, <2>1, <2>2 DEF StateTypes
<1>8. Loop(s)'
  BY <1>4, <1>5, <1>6 DEF Loop, Ended
<1>9. OneMessage(s)'
  BY <1>3, <1>4, <1>6 DEF OneMessage
<1>10. Held(s)'
  BY <1>0, <1>1, <1>4 DEF Held
<1>11. /\ Out(s)' <=> Out(s)
       /\ Came(s)' => Came(s)
       /\ Owes(s)' => Owes(s)
  <2>1. Came(s)' => Came(s)
    BY <1>3, <1>6 DEF Came, q
  <2> QED
    BY <1>1, <1>5, <1>6, <2>1 DEF Out, Owes
<1>12. /\ Has(s)' => Has(s)
       /\ Out(s)' => ~Came(s)' /\ ~Owes(s)'
       /\ Came(s)' => ~Owes(s)'
  BY <1>0, <1>11 DEF Has, OneTurn
<1>13. \A t \in Sides \ {s} :
            /\ pc'[t] = pc[t] /\ sq'[t] = sq[t] /\ cq'[t]["r"] = cq[t]["r"]
            /\ batch'[t] = batch[t] /\ pending'[t] = pending[t] /\ mq'[t] = mq[t]
  BY <1>0, <1>1 DEF StateTypes
<1>14. pc'["client"] \in {"start", "exch"} => First
  BY <1>5, <1>6, <1>13, BothSides DEF First
<1> QED
  BY <1>7, <1>8, <1>9, <1>10, <1>12, <1>13, <1>14, StepOfOne

LEMMA GoesOnKeeps ==
    ASSUME CcInv, NEW s \in Sides, NEW what \in {"recv", "send"}, args' = args,
           pc[s] = "handle", Head(batch[s]) = what, GoesOn(s, what), UNCHANGED <<cq, mq>>
    PROVE  CcInv'
<1> DEFINE b == Tail(batch[s])
           w == IF Len(batch[s]) > 1 THEN "handle"
                ELSE IF \E v \in {"recv", "send"} : cnt'[s][v] < Iters THEN Top ELSE "done"
           z == IF RoundOver(s, what) THEN "posted" ELSE sq[s]
           k == IF RoundOver(s, what) THEN {"recv", "send"} ELSE pending[s] \ {what}
<1>0. StateTypes /\ OneTurn(s) /\ Loop(s) /\ OneMessage(s) /\ Held(s)
  BY DEF CcInv
<1>1. /\ pc' = [pc EXCEPT ![s] = w] /\ batch' = [batch EXCEPT ![s] = b]
      /\ sq' = [sq EXCEPT ![s] = z] /\ pending' = [pending EXCEPT ![s] = k]
      /\ cq' = cq /\ mq' = mq
  BY <1>0 DEF GoesOn, Goto, StateTypes
<1>2. Cc /\ Cc'
  BY <1>0 DEF Loop, Cc
<1>3. batch[s] \in Seq(Statuses) /\ batch[s] # <<>>
  BY <1>0 DEF StateTypes, Loop
<1>4. /\ b \in Seq(Statuses)
      /\ In("recv", b) => In("recv", batch[s])
      /\ Once("recv", b)
      /\ what = "recv" => In("recv", batch[s]) /\ ~In("recv", b)
  BY <1>0, <1>3, TailIn DEF OneMessage
<1>5. Len(batch[s]) > 1 <=> b # <<>>
  BY <1>3, TailIsEmpty
<1>6. w \in {"event", "wait", "poll", "handle", "done"} /\ (w = "handle" <=> b # <<>>)
  BY <1>2, <1>5, TopIs
<1>7. z \in {"none", "held", "posted", "delivered"} /\ k \in SUBSET {"recv", "send"}
  BY <1>0 DEF StateTypes
<1>8. what = "recv" => Came(s)
  BY <1>4 DEF Came
<1>9. pending[s] \subseteq {what} /\ what = "send" => Owes(s)
  BY DEF Owes
<1>10. RoundOver(s, what) => z = "posted" /\ k = {"recv", "send"} /\ pending[s] \subseteq {what}
  BY DEF RoundOver
<1>11. ~RoundOver(s, what) => z = sq[s] /\ k = pending[s] \ {what}
  OBVIOUS
<1> HIDE DEF b, w, z, k
<1>12. /\ pc'[s] = w /\ batch'[s] = b /\ sq'[s] = z /\ pending'[s] = k
  BY <1>0, <1>1 DEF StateTypes
<1>13. /\ Came(s)' => Came(s)
       /\ what = "recv" => ~Came(s)'
  BY <1>0, <1>1, <1>4, <1>12 DEF Came, OneMessage
<1>14. /\ Has(s)' => Has(s)
       /\ Out(s)' => ~Came(s)' /\ ~Owes(s)'
       /\ Came(s)' => ~Owes(s)'
  <2>1. CASE RoundOver(s, what)
    <3>1. Has(s) /\ ~Came(s)'
      BY <1>0, <1>8, <1>9, <1>10, <1>13, <2>1 DEF Has, OneTurn
    <3>2. ~Owes(s)'
      BY <1>6, <1>10, <1>12, <2>1 DEF Owes
    <3> QED
      BY <3>1, <3>2
  <2>2. CASE ~RoundOver(s, what) /\ what = "recv"
    <3>1. ~Out(s)' /\ ~Came(s)' /\ Has(s)
      BY <1>0, <1>8, <1>11, <1>12, <1>13, <2>2 DEF Has, OneTurn, Out
    <3> QED
      BY <3>1
  <2>3. CASE ~RoundOver(s, what) /\ what = "send"
    <3>1. Owes(s)' => Owes(s)
      BY <1>6, <1>11, <1>12, <2>3 DEF Owes
    <3>2. Out(s)' => Out(s)
      BY <1>11, <1>12, <2>3 DEF Out
    <3> QED
      BY <1>0, <1>13, <3>1, <3>2 DEF Has, OneTurn
  <2> QED
    BY <2>1, <2>2, <2>3
<1>15. StateTypes'
  <2>1. pc' \in [Sides -> {"start", "exch", "done_msg", "event", "wait", "mcq", "poll",
                         "handle", "recv", "task", "scq"} \cup Ended]
    BY <1>0, <1>1, <1>6 DEF StateTypes, Ended
  <2>2. batch' \in [Sides -> Seq(Statuses)] /\ pending' \in [Sides -> SUBSET {"recv", "send"}]
    BY <1>0, <1>1, <1>4, <1>7 DEF StateTypes
  <2>3. sq' \in [Sides -> {"none", "held", "posted", "delivered"}]
    BY <1>0, <1>1, <1>7 DEF StateTypes
  <2> QED
    BY <1>0, <1>1, <2>1, <2>2, <2>3 DEF StateTypes
<1>16. Loop(s)'
  BY <1>2, <1>6, <1>12 DEF Loop, Ended
<1>17. OneMessage(s)'
  BY <1>0, <1>1, <1>2, <1>4, <1>12 DEF OneMessage
<1>18. Held(s)'
  BY <1>0, <1>1, <1>2 DEF Held
<1>19. \A t \in Sides \ {s} :
            /\ pc'[t] = pc[t] /\ sq'[t] = sq[t] /\ cq'[t]["r"] = cq[t]["r"]
            /\ batch'[t] = batch[t] /\ pending'[t] = pending[t] /\ mq'[t] = mq[t]
  BY <1>0, <1>1 DEF StateTypes
<1>20. pc'["client"] \in {"start", "exch"} => First
  BY <1>6, <1>12, <1>19, BothSides DEF First
<1> QED
  BY <1>14, <1>15, <1>16, <1>17, <1>18, <1>19, <1>20, StepOfOne

LEMMA CcLoopKeeps ==
    ASSUME CcInv, NEW s \in Sides, args' = args, CcLoop(s)
    PROVE  CcInv'
<1>0. StateTypes /\ Loop(s)
  BY DEF CcInv
<1>a. cq \in [Sides -> [{"r", "s"} -> Seq(Statuses)]]
  BY <1>0 DEF StateTypes
<1>1. CASE GetEvent(s)
  <2>1. /\ pc[s] = "event" /\ Goto(s, AfterEvent)
        /\ sq' = sq /\ batch' = batch /\ pending' = pending /\ mq' = mq /\ cq' = cq
    BY <1>1 DEF GetEvent
  <2>2. pc[s] \notin {"handle"} \cup Ended /\ Cc /\ AfterEvent \in {"wait", "poll"}
    BY <1>0, <2>1 DEF Ended, Loop, AfterEvent
  <2> QED
    BY <1>a, <2>1, <2>2, Moves
<1>2. CASE PostWait(s)
  <2>1. /\ pc[s] = "wait" /\ pc' = [pc EXCEPT ![s] = "mcq"]
        /\ mq' = [mq EXCEPT ![s] = Append(mq[s], "wait")]
        /\ sq' = sq /\ batch' = batch /\ pending' = pending /\ cq' = cq
    BY <1>2 DEF PostWait, Goto
  <2>2. Cc /\ Cc' /\ Held(s) /\ OneTurn(s) /\ OneMessage(s)
    BY <1>0, <2>1 DEF CcInv, Loop, Cc
  <2>3. pc'[s] = "mcq" /\ mq'[s] = Append(mq[s], "wait")
    BY <1>0, <2>1 DEF StateTypes
  <2>4. mq[s] \in Seq({"wait", "enable", "enable_signaled"})
    BY <1>0 DEF StateTypes
  <2>5. StateTypes'
    <3>1. Append(mq[s], "wait") \in Seq({"wait", "enable", "enable_signaled"})
      BY <2>4
    <3>2. mq' \in [Sides -> Seq({"wait", "enable", "enable_signaled"})]
      BY <1>0, <2>1, <3>1 DEF StateTypes
    <3>3. pc' \in [Sides -> {"start", "exch", "done_msg", "event", "wait", "mcq", "poll",
                         "handle", "recv", "task", "scq"} \cup Ended]
      BY <1>0, <2>1 DEF StateTypes
    <3> QED
      BY <1>0, <2>1, <3>2, <3>3 DEF StateTypes
  <2>6. Held(s)'
    <3>1. \A i \in 1 .. Len(mq[s]) : mq[s][i] = "wait"
      BY <2>2 DEF Held
    <3>2. \A i \in 1 .. Len(Append(mq[s], "wait")) : Append(mq[s], "wait")[i] = "wait"
      BY <2>4, <3>1
    <3> QED
      BY <2>2, <2>3, <3>2 DEF Held
  <2>7. Loop(s)' /\ OneMessage(s)'
    BY <1>0, <2>1, <2>2, <2>3 DEF Loop, OneMessage, Ended
  <2>8. /\ Out(s)' <=> Out(s)
        /\ Came(s)' <=> Came(s)
        /\ Owes(s)' <=> Owes(s)
    BY <2>1, <2>3 DEF Out, Came, Owes
  <2>9. /\ Has(s)' => Has(s)
        /\ Out(s)' => ~Came(s)' /\ ~Owes(s)'
        /\ Came(s)' => ~Owes(s)'
    BY <2>2, <2>8 DEF Has, OneTurn
  <2>10. \A t \in Sides \ {s} :
             /\ pc'[t] = pc[t] /\ sq'[t] = sq[t] /\ cq'[t]["r"] = cq[t]["r"]
             /\ batch'[t] = batch[t] /\ pending'[t] = pending[t] /\ mq'[t] = mq[t]
    BY <1>0, <2>1 DEF StateTypes
  <2>11. pc'["client"] \in {"start", "exch"} => First
    BY <2>3, <2>10, BothSides DEF First
  <2> QED
    BY <2>5, <2>6, <2>7, <2>9, <2>10, <2>11, StepOfOne
<1>3. CASE PollMcq(s)
  <2>1. /\ pc[s] = "mcq" /\ Goto(s, IF Cc THEN "poll" ELSE "scq")
        /\ sq' = sq /\ batch' = batch /\ pending' = pending /\ mq' = mq /\ cq' = cq
    BY <1>3 DEF PollMcq
  <2>2. pc[s] \notin {"handle"} \cup Ended
    BY <2>1 DEF Ended
  <2>3. CASE Cc
    <3>1. Goto(s, "poll")
      BY <2>1, <2>3
    <3> QED
      BY <1>a, <2>1, <2>2, <2>3, <3>1, Moves
  <2>4. CASE ~Cc
    <3>1. Goto(s, "scq")
      BY <2>1, <2>4
    <3> QED
      BY <1>a, <2>1, <2>2, <2>4, <3>1, Moves
  <2> QED
    BY <2>3, <2>4
<1>4. CASE Poll(s)
  BY <1>4, PollKeeps
<1>5. CASE HandleSend(s)
  <2>1. /\ pc[s] = "handle" /\ Head(batch[s]) = "send" /\ GoesOn(s, "send")
        /\ UNCHANGED <<cq, mq>>
    BY <1>5 DEF HandleSend
  <2> QED
    BY <2>1, GoesOnKeeps
<1>6. CASE HandleRecv(s)
  <2>1. /\ pc[s] = "handle" /\ Head(batch[s]) = "recv" /\ GoesOn(s, "recv")
        /\ UNCHANGED <<cq, mq>>
    BY <1>6 DEF HandleRecv
  <2> QED
    BY <2>1, GoesOnKeeps
<1>7. CASE VerifyFails(s) \/ HandleError(s)
  <2>1. UNCHANGED nicVars /\ UNCHANGED <<batch, pending>>
    BY <1>7 DEF VerifyFails, HandleError
  <2>2. \E w \in Ended : Goto(s, w)
    BY <1>7 DEF VerifyFails, HandleError, Fails, Ended
  <2> QED
    BY <2>1, <2>2, EndKeeps
<1> QED
  BY <1>1, <1>2, <1>3, <1>4, <1>5, <1>6, <1>7 DEF CcLoop

-----------------------------------------------------------------------------
(***************************************************************************)
(* The loop of task.                                                       *)
(***************************************************************************)
LEMMA TaskLoopKeeps ==
    ASSUME CcInv, NEW s \in Sides, args' = args, TaskLoop(s)
    PROVE  CcInv'
<1>0. StateTypes /\ OneTurn(s) /\ Loop(s) /\ OneMessage(s) /\ Held(s)
  BY DEF CcInv
<1>1. CASE PollRecv(s)
  <2> DEFINE q == cq[s]["r"]
             r == Tail(q)
  <2>1. /\ pc[s] = "recv" /\ q # <<>> /\ pc' = [pc EXCEPT ![s] = "task"]
        /\ cq' = [cq EXCEPT ![s]["r"] = r]
        /\ sq' = sq /\ batch' = batch /\ pending' = pending /\ mq' = mq
    BY <1>1 DEF PollRecv, Goto
  <2>2. ~Cc /\ ~Cc' /\ batch[s] = <<>> /\ "recv" \in pending[s]
    BY <1>0, <2>1 DEF Loop, Cc, Ended
  <2>3. q \in Seq(Statuses) /\ Once("recv", q) /\ \A i \in 1 .. Len(q) : q[i] = "recv"
    BY <1>0, <2>2 DEF StateTypes, OneMessage
  <2>4. Head(q) = "recv"
    BY <2>1, <2>3
  <2>5. /\ r \in Seq(Statuses) /\ In("recv", q) /\ ~In("recv", r) /\ Once("recv", r)
    <3> HIDE DEF q
    <3> QED
      BY <2>1, <2>3, <2>4, TailIn
  <2>6. \A i \in 1 .. Len(r) : r[i] = "recv"
    <3> HIDE DEF q
    <3> QED
      BY <2>1, <2>3
  <2> HIDE DEF q, r
  <2>7. pc'[s] = "task" /\ cq'[s]["r"] = r /\ batch'[s] = <<>> /\ "recv" \in pending'[s]
    BY <1>0, <2>1, <2>2 DEF StateTypes
  <2>8. Came(s)
    BY <2>5 DEF Came, q
  <2>9. /\ Has(s) /\ ~Out(s)' /\ ~Came(s)'
    <3>1. Has(s) /\ ~Out(s)
      BY <1>0, <2>8 DEF Has, OneTurn
    <3>2. ~Out(s)'
      BY <2>1, <3>1 DEF Out
    <3>3. ~Came(s)'
      BY <2>5, <2>7, NothingIn DEF Came
    <3> QED
      BY <3>1, <3>2, <3>3
  <2>10. StateTypes'
    <3>1. cq' \in [Sides -> [{"r", "s"} -> Seq(Statuses)]]
      BY <1>0, <2>1, <2>5 DEF StateTypes
    <3>2. pc' \in [Sides -> {"start", "exch", "done_msg", "event", "wait", "mcq", "poll",
                         "handle", "recv", "task", "scq"} \cup Ended]
      BY <1>0, <2>1 DEF StateTypes
    <3> QED
      BY <1>0, <2>1, <3>1, <3>2 DEF StateTypes
  <2>11. Loop(s)'
    BY <2>2, <2>7 DEF Loop, Ended
  <2>12. OneMessage(s)'
    BY <2>2, <2>5, <2>6, <2>7, NothingIn DEF OneMessage
  <2>13. Held(s)'
    BY <1>0, <2>1, <2>2 DEF Held
  <2>14. \A t \in Sides \ {s} :
             /\ pc'[t] = pc[t] /\ sq'[t] = sq[t] /\ cq'[t]["r"] = cq[t]["r"]
             /\ batch'[t] = batch[t] /\ pending'[t] = pending[t] /\ mq'[t] = mq[t]
    BY <1>0, <2>1 DEF StateTypes
  <2>15. pc'["client"] \in {"start", "exch"} => First
    BY <2>7, <2>14, BothSides DEF First
  <2> QED
    BY <2>9, <2>10, <2>11, <2>12, <2>13, <2>14, <2>15, StepOfOne
<1>2. CASE PostTask(s)
  <2>1. /\ pc[s] = "task" /\ pc' = [pc EXCEPT ![s] = "mcq"]
        /\ sq' = [sq EXCEPT ![s] = "held"]
        /\ mq' = [mq EXCEPT ![s] = mq[s] \o <<"wait", "enable">>]
        /\ cq' = cq /\ batch' = batch /\ pending' = pending
    BY <1>2 DEF PostTask, Goto
  <2>2. ~Cc /\ ~Cc' /\ batch[s] = <<>> /\ "recv" \in pending[s]
    BY <1>0, <2>1 DEF Loop, Cc, Ended
  <2>3. Has(s) /\ ~Out(s) /\ ~Came(s)
    BY <1>0, <2>1 DEF Has, Owes, OneTurn
  <2>4. mq[s] = <<>>
    BY <1>0, <2>2, <2>3 DEF Held, Out
  <2>5. mq[s] \o <<"wait", "enable">> = <<"wait", "enable">>
    BY <2>4
  <2>6. mq' = [mq EXCEPT ![s] = <<"wait", "enable">>]
    BY <2>1, <2>5
  <2>7. pc'[s] = "mcq" /\ sq'[s] = "held" /\ mq'[s] = <<"wait", "enable">>
    BY <1>0, <2>1, <2>6 DEF StateTypes
  <2>8. StateTypes'
    <3>1. <<"wait", "enable">> \in Seq({"wait", "enable", "enable_signaled"})
      OBVIOUS
    <3>2. mq' \in [Sides -> Seq({"wait", "enable", "enable_signaled"})]
      BY <1>0, <2>6, <3>1 DEF StateTypes
    <3>3. pc' \in [Sides -> {"start", "exch", "done_msg", "event", "wait", "mcq", "poll",
                         "handle", "recv", "task", "scq"} \cup Ended]
      BY <1>0, <2>1 DEF StateTypes
    <3> QED
      BY <1>0, <2>1, <3>2, <3>3 DEF StateTypes
  <2>9. Loop(s)' /\ OneMessage(s)' /\ Held(s)'
    <3>1. Loop(s)'
      BY <2>1, <2>2, <2>7 DEF Loop, Ended
    <3>2. OneMessage(s)'
      BY <1>0, <2>1, <2>2 DEF OneMessage
    <3>3. Held(s)'
      BY <2>2, <2>7 DEF Held
    <3> QED
      BY <3>1, <3>2, <3>3
  <2>10. ~Came(s)' /\ ~Owes(s)'
    BY <2>1, <2>2, <2>3, <2>7 DEF Came, Owes
  <2>11. \A t \in Sides \ {s} :
             /\ pc'[t] = pc[t] /\ sq'[t] = sq[t] /\ cq'[t]["r"] = cq[t]["r"]
             /\ batch'[t] = batch[t] /\ pending'[t] = pending[t] /\ mq'[t] = mq[t]
    BY <1>0, <2>1 DEF StateTypes
  <2>12. pc'["client"] \in {"start", "exch"} => First
    BY <2>7, <2>11, BothSides DEF First
  <2> QED
    BY <2>3, <2>8, <2>9, <2>10, <2>11, <2>12, StepOfOne
<1>3. CASE Sent(s)
  <2> DEFINE w == IF cnt[s]["recv"] < Iters THEN "recv" ELSE "done"
  <2>1. /\ pc[s] = "scq" /\ cq[s]["s"] # <<>> /\ Goto(s, w)
        /\ cq' = [cq EXCEPT ![s]["s"] = Tail(cq[s]["s"])]
        /\ sq' = sq /\ batch' = batch /\ pending' = pending /\ mq' = mq
    BY <1>3 DEF Sent
  <2>2. ~Cc /\ pc[s] \notin {"handle"} \cup Ended /\ w \in {"recv"} \cup Ended
        /\ w \notin {"exch", "event", "wait", "poll", "scq"}
    BY <1>0, <2>1 DEF Loop, Ended
  <2> HIDE DEF w
  <2>3. cq[s]["s"] \in Seq(Statuses) /\ cq \in [Sides -> [{"r", "s"} -> Seq(Statuses)]]
    BY <1>0 DEF StateTypes
  <2>4. Tail(cq[s]["s"]) \in Seq(Statuses)
    BY <2>1, <2>3
  <2>5. /\ cq' \in [Sides -> [{"r", "s"} -> Seq(Statuses)]]
        /\ \A t \in Sides : cq'[t]["r"] = cq[t]["r"]
    BY <2>1, <2>3, <2>4
  <2> QED
    BY <2>1, <2>2, <2>5, Moves
<1>4. CASE NotSent(s)
  <2>1. UNCHANGED nicVars /\ UNCHANGED <<batch, pending>>
    BY <1>4 DEF NotSent
  <2>2. \E w \in Ended : Goto(s, w)
    BY <1>4 DEF NotSent, Fails, Ended
  <2> QED
    BY <2>1, <2>2, EndKeeps
<1> QED
  BY <1>1, <1>2, <1>3, <1>4 DEF TaskLoop

-----------------------------------------------------------------------------
(***************************************************************************)
(* The NICs.                                                               *)
(***************************************************************************)
\* A SEND arrives: its sender had the message, and now the receiver has it.
LEMMA DeliverKeeps ==
    ASSUME CcInv, NEW s \in Sides, args' = args, Deliver(s)
    PROVE  CcInv'
<1>1. PICK p \in Sides : p = Peer(s) /\ s = Peer(p) /\ p # s /\ \A t \in Sides : t = s \/ t = p
  BY BothSides
<1> DEFINE q == cq[p]["r"]
           r == Append(q, "recv")
<1>0. /\ StateTypes /\ OneTurn(s) /\ OneTurn(p)
      /\ Loop(s) /\ Loop(p) /\ OneMessage(s) /\ OneMessage(p) /\ Held(s) /\ Held(p)
  BY <1>1 DEF CcInv
<1>2. /\ sq[s] = "posted" /\ sq' = [sq EXCEPT ![s] = "delivered"]
      /\ cq' = [cq EXCEPT ![p]["r"] = r]
      /\ pc' = pc /\ batch' = batch /\ pending' = pending /\ mq' = mq
  BY <1>1 DEF Deliver, Completes, mainVars
<1>3. Cc' <=> Cc
  BY DEF Cc
<1>4. q \in Seq(Statuses) /\ "recv" \in Statuses
  BY <1>0 DEF StateTypes, Statuses
<1>5. Out(s)
  BY <1>2 DEF Out
<1>6. /\ ~First /\ ~Came(s) /\ ~Owes(s)
      /\ ~Out(p) /\ ~Came(p) /\ ~Owes(p)
  BY <1>0, <1>1, <1>5 DEF OneTurn, Has
<1>7. ~In("recv", q) /\ ~In("recv", batch[p])
  BY <1>6 DEF Came
<1>8. r \in Seq(Statuses) /\ In("recv", r) /\ Once("recv", r)
  <2>1. Once("recv", q)
    BY <1>0 DEF OneMessage
  <2> HIDE DEF q
  <2> QED
    BY <1>4, <1>7, <2>1, AppendIn
<1>9. ~Cc => \A i \in 1 .. Len(r) : r[i] = "recv"
  <2>1. ~Cc => \A i \in 1 .. Len(q) : q[i] = "recv"
    BY <1>0 DEF OneMessage
  <2> HIDE DEF q
  <2> QED
    BY <1>4, <2>1
<1> HIDE DEF q, r
<1>10. cq'[p]["r"] = r /\ cq'[s] = cq[s] /\ sq'[s] = "delivered" /\ sq'[p] = sq[p]
  BY <1>0, <1>1, <1>2 DEF StateTypes
<1>11. StateTypes'
  <2>1. cq' \in [Sides -> [{"r", "s"} -> Seq(Statuses)]]
    BY <1>0, <1>2, <1>8 DEF StateTypes
  <2> QED
    BY <1>0, <1>2, <2>1 DEF StateTypes
<1>12. ~First' /\ ~Has(s)' /\ ~Out(p)' /\ ~Owes(p)'
  <2>1. ~First' /\ ~Owes(s)' /\ ~Owes(p)'
    BY <1>2, <1>6 DEF First, Owes
  <2>2. ~Out(s)' /\ ~Out(p)'
    BY <1>6, <1>10 DEF Out
  <2>3. ~Came(s)'
    BY <1>2, <1>6, <1>10 DEF Came
  <2> QED
    BY <2>1, <2>2, <2>3 DEF Has
<1>13. OneTurn(s)' /\ OneTurn(p)'
  <2>1. OneTurn(s)'
    BY <1>12 DEF OneTurn, Has
  <2>2. OneTurn(p)'
    BY <1>1, <1>12 DEF OneTurn
  <2> QED
    BY <2>1, <2>2
<1>14. Loop(s)' /\ Loop(p)'
  BY <1>0, <1>2, <1>3 DEF Loop
<1>15. OneMessage(s)' /\ OneMessage(p)'
  <2>1. OneMessage(s)'
    BY <1>0, <1>2, <1>3, <1>10 DEF OneMessage
  <2>2. Once("recv", batch[p])
    BY <1>0 DEF OneMessage
  <2>3. OneMessage(p)'
    BY <1>2, <1>3, <1>7, <1>8, <1>9, <1>10, <2>2 DEF OneMessage
  <2> QED
    BY <2>1, <2>3
<1>16. Held(s)' /\ Held(p)'
  BY <1>0, <1>2, <1>3, <1>10 DEF Held
<1> QED
  BY <1>1, <1>11, <1>13, <1>14, <1>15, <1>16 DEF CcInv

\* A SEND is over, well or not: its completion is not a message.
LEMMA SendIsOver ==
    ASSUME CcInv, NEW s \in Sides, NEW what \in {"send", "error"}, args' = args,
           sq[s] \in {"posted", "delivered"}, sq' = [sq EXCEPT ![s] = "none"],
           Completes(s, SendCq, what), UNCHANGED mq, UNCHANGED mainVars
    PROVE  CcInv'
<1>0. StateTypes /\ OneTurn(s) /\ Loop(s) /\ OneMessage(s) /\ Held(s)
  BY DEF CcInv
<1>1. /\ cq' = [cq EXCEPT ![s][SendCq] = Append(cq[s][SendCq], what)]
      /\ pc' = pc /\ batch' = batch /\ pending' = pending
  BY DEF Completes, mainVars
<1>2. Cc' <=> Cc
  BY DEF Cc
<1>3. SendCq \in {"r", "s"} /\ (~Cc => SendCq = "s")
  BY DEF SendCq
<1>4. /\ cq[s]["r"] \in Seq(Statuses) /\ cq[s][SendCq] \in Seq(Statuses)
      /\ what \in Statuses /\ what # "recv"
  BY <1>0, <1>3 DEF StateTypes, Statuses
<1>5. Append(cq[s][SendCq], what) \in Seq(Statuses)
  BY <1>4, AppendIn
<1>6. /\ sq'[s] = "none"
      /\ cq'[s]["r"] = IF SendCq = "r" THEN Append(cq[s]["r"], what) ELSE cq[s]["r"]
  BY <1>0, <1>1, <1>3 DEF StateTypes
<1>7. /\ In("recv", cq'[s]["r"]) <=> In("recv", cq[s]["r"])
      /\ Once("recv", cq'[s]["r"])
  <2>1. Once("recv", cq[s]["r"])
    BY <1>0 DEF OneMessage
  <2>2. CASE SendCq = "r"
    <3>1. cq'[s]["r"] = Append(cq[s]["r"], what)
      BY <1>6, <2>2
    <3>2. /\ In("recv", Append(cq[s]["r"], what)) <=> In("recv", cq[s]["r"])
          /\ Once("recv", Append(cq[s]["r"], what))
      BY <1>4, <2>1, AppendIn
    <3> QED
      BY <3>1, <3>2, Zenon
  <2>3. CASE SendCq # "r"
    BY <1>6, <2>1, <2>3
  <2> QED
    BY <2>2, <2>3
<1>8. StateTypes'
  <2>1. cq' \in [Sides -> [{"r", "s"} -> Seq(Statuses)]]
    BY <1>0, <1>1, <1>3, <1>5 DEF StateTypes
  <2>2. sq' \in [Sides -> {"none", "held", "posted", "delivered"}]
    BY <1>0 DEF StateTypes
  <2> QED
    BY <1>0, <1>1, <2>1, <2>2 DEF StateTypes
<1>9. Loop(s)'
  BY <1>0, <1>1, <1>2 DEF Loop
<1>10. OneMessage(s)'
  <2>1. ~Cc => cq'[s]["r"] = cq[s]["r"]
    BY <1>3, <1>6
  <2> QED
    BY <1>0, <1>1, <1>2, <1>7, <2>1 DEF OneMessage
<1>11. Held(s)'
  BY <1>0, <1>2 DEF Held
<1>12. /\ ~Out(s)'
       /\ Came(s)' <=> Came(s)
       /\ Owes(s)' <=> Owes(s)
  BY <1>1, <1>6, <1>7 DEF Out, Came, Owes
<1>13. /\ Has(s)' => Has(s)
       /\ Out(s)' => ~Came(s)' /\ ~Owes(s)'
       /\ Came(s)' => ~Owes(s)'
  BY <1>0, <1>12 DEF Has, OneTurn
<1>14. \A t \in Sides \ {s} :
           /\ pc'[t] = pc[t] /\ sq'[t] = sq[t] /\ cq'[t]["r"] = cq[t]["r"]
           /\ batch'[t] = batch[t] /\ pending'[t] = pending[t] /\ mq'[t] = mq[t]
  BY <1>0, <1>1 DEF StateTypes
<1>15. pc'["client"] \in {"start", "exch"} => First
  BY <1>1 DEF First
<1> QED
  BY <1>8, <1>9, <1>10, <1>11, <1>13, <1>14, <1>15, StepOfOne

LEMMA ManageKeeps ==
    ASSUME CcInv, NEW s \in Sides, args' = args, Manage(s)
    PROVE  CcInv'
<1> DEFINE h == Head(mq[s])
           r == Tail(mq[s])
           z == IF h = "wait" THEN sq[s] ELSE "posted"
<1>0. StateTypes /\ OneTurn(s) /\ Loop(s) /\ OneMessage(s) /\ Held(s)
  BY DEF CcInv
<1>1. /\ mq[s] # <<>> /\ mq' = [mq EXCEPT ![s] = r] /\ sq' = [sq EXCEPT ![s] = z]
      /\ pc' = pc /\ batch' = batch /\ pending' = pending /\ cq' = cq
  BY DEF Manage, mainVars
<1>2. Cc' <=> Cc
  BY DEF Cc
<1>3. mq[s] \in Seq({"wait", "enable", "enable_signaled"})
  BY <1>0 DEF StateTypes
<1>4. Cc => h = "wait" /\ \A i \in 1 .. Len(r) : r[i] = "wait"
  <2>1. Cc => \A i \in 1 .. Len(mq[s]) : mq[s][i] = "wait"
    BY <1>0 DEF Held
  <2> QED
    BY <1>1, <1>3, <2>1
<1>5. ~Cc => /\ sq[s] = "held"
             /\ \/ h = "wait" /\ r = <<"enable">>
                \/ h # "wait" /\ r = <<>>
  <2>1. ~Cc => /\ mq[s] \in {<<"enable_signaled">>, <<"wait", "enable">>, <<"enable">>}
               /\ sq[s] = "held"
    BY <1>0, <1>1 DEF Held
  <2>2. Head(<<"enable_signaled">>) = "enable_signaled" /\ Tail(<<"enable_signaled">>) = <<>>
    OBVIOUS
  <2>3. Head(<<"enable">>) = "enable" /\ Tail(<<"enable">>) = <<>>
    OBVIOUS
  <2>4. Head(<<"wait", "enable">>) = "wait" /\ Tail(<<"wait", "enable">>) = <<"enable">>
    OBVIOUS
  <2> QED
    BY <2>1, <2>2, <2>3, <2>4
<1>6. r \in Seq({"wait", "enable", "enable_signaled"})
  BY <1>1, <1>3
<1>7. z = sq[s] \/ (sq[s] = "held" /\ z = "posted")
  BY <1>4, <1>5
<1> HIDE DEF h, r
<1>8. mq'[s] = r /\ sq'[s] = z
  BY <1>0, <1>1 DEF StateTypes
<1>9. Held(s)'
  <2>1. ~Cc => r \in {<<>>, <<"enable">>} /\ (r # <<>> => z = "held")
    BY <1>5
  <2> HIDE DEF z
  <2> QED
    BY <1>2, <1>4, <1>8, <2>1 DEF Held
<1> HIDE DEF z
<1>10. StateTypes'
  <2>1. sq[s] \in {"none", "held", "posted", "delivered"}
    BY <1>0 DEF StateTypes
  <2>2. z \in {"none", "held", "posted", "delivered"}
    BY <1>7, <2>1
  <2>3. sq' \in [Sides -> {"none", "held", "posted", "delivered"}]
    BY <1>0, <1>1, <2>2 DEF StateTypes
  <2>4. mq' \in [Sides -> Seq({"wait", "enable", "enable_signaled"})]
    BY <1>0, <1>1, <1>6 DEF StateTypes
  <2> QED
    BY <1>0, <1>1, <2>3, <2>4 DEF StateTypes
<1>11. Loop(s)' /\ OneMessage(s)'
  BY <1>0, <1>1, <1>2 DEF Loop, OneMessage
<1>12. /\ Out(s)' <=> Out(s)
       /\ Came(s)' <=> Came(s)
       /\ Owes(s)' <=> Owes(s)
  BY <1>1, <1>7, <1>8 DEF Out, Came, Owes
<1>13. /\ Has(s)' => Has(s)
       /\ Out(s)' => ~Came(s)' /\ ~Owes(s)'
       /\ Came(s)' => ~Owes(s)'
  BY <1>0, <1>12 DEF Has, OneTurn
<1>14. \A t \in Sides \ {s} :
           /\ pc'[t] = pc[t] /\ sq'[t] = sq[t] /\ cq'[t]["r"] = cq[t]["r"]
           /\ batch'[t] = batch[t] /\ pending'[t] = pending[t] /\ mq'[t] = mq[t]
  BY <1>0, <1>1 DEF StateTypes
<1>15. pc'["client"] \in {"start", "exch"} => First
  BY <1>1 DEF First
<1> QED
  BY <1>9, <1>10, <1>11, <1>13, <1>14, <1>15, StepOfOne

LEMMA NicKeeps ==
    ASSUME CcInv, NEW s \in Sides, args' = args, Nic(s)
    PROVE  CcInv'
<1>1. CASE Deliver(s)
  BY <1>1, DeliverKeeps
<1>2. CASE Acknowledge(s)
  BY <1>2, SendIsOver DEF Acknowledge
<1>3. CASE GivesUp(s)
  BY <1>3, SendIsOver DEF GivesUp
<1>4. CASE Manage(s)
  BY <1>4, ManageKeeps
<1> QED
  BY <1>1, <1>2, <1>3, <1>4 DEF Nic

-----------------------------------------------------------------------------
LEMMA NextCcInv == CcInv /\ [Next]_vars => CcInv'
<1> SUFFICES ASSUME CcInv, [Next]_vars PROVE CcInv'
  OBVIOUS
<1>1. CASE Exchange /\ args' = args
  BY <1>1, ExchangeKeeps
<1>2. ASSUME NEW s \in Sides, Main(s), args' = args PROVE CcInv'
  BY <1>2, CcLoopKeeps, TaskLoopKeeps DEF Main
<1>3. ASSUME NEW s \in Sides, Nic(s), args' = args PROVE CcInv'
  BY <1>3, NicKeeps
<1>4. ASSUME NEW s \in Sides, Kill(s), args' = args PROVE CcInv'
  <2>1. UNCHANGED nicVars /\ UNCHANGED <<batch, pending>> /\ Goto(s, "killed")
    BY <1>4 DEF Kill
  <2>2. \E w \in Ended : Goto(s, w)
    BY <2>1 DEF Ended
  <2> QED
    BY <1>4, <2>1, <2>2, EndKeeps
<1>5. CASE UNCHANGED vars
  BY <1>5 DEF vars, runVars, nicVars, mainVars, CcInv, StateTypes, OneTurn, Loop, OneMessage,
     Held, Has, First, Out, Came, Owes, Cc
<1> QED
  BY <1>1, <1>2, <1>3, <1>4, <1>5 DEF Next

LEMMA CcInvariance == Spec => []CcInv
<1>1. Init => CcInv
  BY InitCcInv
<1>2. CcInv /\ [Next]_vars => CcInv'
  BY NextCcInv
<1> QED
  BY <1>1, <1>2, PTL DEF Spec

\* One buffer is enough: in cc and in task, however many rounds there are and
\* receives are posted, whoever is killed and whatever the data, nothing waits to
\* leave or to be read in a buffer that the peer may still deliver into.
THEOREM OneBufferIsEnough == Spec => []BufferUnshared
<1>1. CcInv => BufferUnshared
  <2> SUFFICES ASSUME CcInv, NEW s \in Sides, sq[Peer(s)] \in {"held", "posted"}
               PROVE  /\ sq[s] \notin {"held", "posted"}
                      /\ \A i \in DOMAIN cq[s]["r"] : cq[s]["r"][i] # "recv"
                      /\ \A i \in DOMAIN batch[s] : batch[s][i] # "recv"
    BY DEF BufferUnshared
  <2>1. Has(Peer(s)) /\ Peer(s) \in Sides /\ Peer(Peer(s)) = s
    BY BothSides DEF Has, Out
  <2>2. ~Out(s) /\ ~Came(s)
    BY <2>1 DEF CcInv, OneTurn, Has
  <2>3. cq[s]["r"] \in Seq(Statuses) /\ batch[s] \in Seq(Statuses)
    BY DEF CcInv, StateTypes
  <2> QED
    BY <2>2, <2>3 DEF Out, Came, In
<1> QED
  BY <1>1, CcInvariance, PTL

-----------------------------------------------------------------------------
(***************************************************************************)
(* Powers of two, by counting subsets.                                     *)
(***************************************************************************)
\* A power of two is the number of subsets.
LEMMA Power ==
    ASSUME NEW n \in Nat
    PROVE  /\ IsFiniteSet(SUBSET (1..n)) /\ Cardinality(SUBSET (1..n)) = 2^n
           /\ 2^n \in Nat \ {0}
<1>1. IsFiniteSet(1..n) /\ Cardinality(1..n) = n
  BY FS_Interval
<1>2. IsFiniteSet(SUBSET (1..n)) /\ Cardinality(SUBSET (1..n)) = 2^n
  BY <1>1, FS_SUBSET, Zenon
<1>3. 2^n \in Nat
  BY <1>2, FS_CardinalityType
<1>4. 2^n # 0
  <2>1. {} \in SUBSET (1..n)
    OBVIOUS
  <2>2. SUBSET (1..n) # {}
    BY <2>1
  <2> QED
    BY <1>2, <2>2, FS_EmptySet, Zenon
<1> QED
  BY <1>2, <1>3, <1>4

\* Its laws follow.
LEMMA PowerOfOne == 2^1 = 2
<1>1. SUBSET (1..1) = {{}, {1}}
  OBVIOUS
<1>2. IsFiniteSet({{}}) /\ Cardinality({{}}) = 1
  BY FS_Singleton, Zenon
<1>3. {{}} \cup {{1}} = {{}, {1}} /\ {1} \notin {{}}
  OBVIOUS
<1>4. Cardinality({{}} \cup {{1}}) = 1 + 1
  BY <1>2, <1>3, FS_AddElement, Zenon
<1> QED
  BY <1>1, <1>3, <1>4, Power

LEMMA PowerOfSum ==
    ASSUME NEW m \in Nat, NEW n \in Nat
    PROVE  2^(m + n) = 2^m * 2^n
<1> DEFINE A == 1 .. m
           B == m + 1 .. m + n
           C == 1 .. m + n
           f == [S \in SUBSET C |-> <<S \cap A, S \cap B>>]
<1>1. /\ IsFiniteSet(A) /\ Cardinality(A) = m
      /\ IsFiniteSet(B) /\ Cardinality(B) = n
      /\ IsFiniteSet(C) /\ Cardinality(C) = m + n
  <2>1. IsFiniteSet(A) /\ Cardinality(A) = m
    BY FS_Interval
  <2>2. IsFiniteSet(C) /\ Cardinality(C) = m + n
    <3>1. m + n \in Int /\ (IF 1 > m + n THEN 0 ELSE m + n - 1 + 1) = m + n
      OBVIOUS
    <3> QED
      BY <3>1, FS_Interval
  <2>3. IsFiniteSet(B) /\ Cardinality(B) = n
    <3>1. /\ m + 1 \in Int /\ m + n \in Int
          /\ (IF m + 1 > m + n THEN 0 ELSE m + n - (m + 1) + 1) = n
      OBVIOUS
    <3> QED
      BY <3>1, FS_Interval
  <2> QED
    BY <2>1, <2>2, <2>3
<1>2. C = A \cup B /\ A \cap B = {}
  OBVIOUS
<1>3. /\ IsFiniteSet(SUBSET A) /\ Cardinality(SUBSET A) = 2^m
      /\ IsFiniteSet(SUBSET B) /\ Cardinality(SUBSET B) = 2^n
      /\ IsFiniteSet(SUBSET C) /\ Cardinality(SUBSET C) = 2^(m + n)
  BY <1>1, FS_SUBSET, Zenon
<1> HIDE DEF A, B, C
<1>4. f \in Bijection(SUBSET C, (SUBSET A) \X (SUBSET B))
  <2>1. f \in [SUBSET C -> (SUBSET A) \X (SUBSET B)]
    OBVIOUS
  <2>2. ASSUME NEW S \in SUBSET C, NEW T \in SUBSET C, f[S] = f[T] PROVE S = T
    <3>1. S \cap A = T \cap A /\ S \cap B = T \cap B
      BY <2>2
    <3> QED
      BY <1>2, <3>1
  <2>3. ASSUME NEW p \in (SUBSET A) \X (SUBSET B) PROVE \E S \in SUBSET C : f[S] = p
    <3>1. PICK X \in SUBSET A, Y \in SUBSET B : p = <<X, Y>>
      BY <2>3
    <3>2. X \cup Y \in SUBSET C /\ (X \cup Y) \cap A = X /\ (X \cup Y) \cap B = Y
      BY <1>2
    <3> QED
      BY <3>1, <3>2
  <2> HIDE DEF f
  <2> QED
    BY <2>1, <2>2, <2>3 DEF Bijection, Injection, Surjection, IsInjective
<1>5. ExistsBijection(SUBSET C, (SUBSET A) \X (SUBSET B))
  BY <1>4, Zenon DEF ExistsBijection
<1>6. Cardinality((SUBSET A) \X (SUBSET B)) = 2^(m + n)
  BY <1>3, <1>5, FS_Bijection, Zenon
<1>7. Cardinality((SUBSET A) \X (SUBSET B)) = 2^m * 2^n
  <2>1. Cardinality((SUBSET A) \X (SUBSET B)) = Cardinality(SUBSET A) * Cardinality(SUBSET B)
    BY <1>3, FS_Product, Zenon
  <2> QED
    BY <1>3, <2>1, Zenon
<1> QED
  BY <1>6, <1>7

-----------------------------------------------------------------------------
(***************************************************************************)
(* Remainders.                                                             *)
(***************************************************************************)
\* What is left of a division is less than the divisor, and there is one such.
LEMMA Remainder ==
    ASSUME NEW a \in Int, NEW m \in Nat \ {0}
    PROVE  /\ (a % m) \in 0 .. m - 1 
           /\ \E q \in Int : a = m * q + (a % m)
<1>1. a = m * (a \div m) + (a % m) /\ a \div m \in Int /\ (a % m) \in 0 .. m - 1
  OBVIOUS
<1> QED
  BY <1>1

\* A multiple is at least as far from zero.
LEMMA Times ==
    ASSUME NEW m \in Nat \ {0}, NEW d \in Int
    PROVE  /\ d >= 1 => m * d >= m
           /\ d <= -1 => m * d <= -m
OBVIOUS

\* Whatever is less than the divisor, and differs by a multiple, is what is left.
LEMMA RemainderIs ==
    ASSUME NEW a \in Int, NEW m \in Nat \ {0}, NEW q \in Int, NEW r \in 0 .. m - 1, a = m * q + r
    PROVE  (a % m) = r
<1>1. PICK p \in Int : a = m * p + (a % m)
  BY Remainder
<1>2. (a % m) \in 0 .. m - 1
  BY Remainder
<1>3. m * (p - q) = r - (a % m)
  BY <1>1, <1>2
<1>4. p - q \in Int /\ m * (p - q) > -m /\ m * (p - q) < m
  BY <1>2, <1>3
<1>5. p = q
  BY <1>4, Times
<1> QED
  BY <1>1, <1>2, <1>5

\* Words that differ by a multiple.
LEMMA SameRemainder ==
    ASSUME NEW a \in Int, NEW b \in Int, NEW m \in Nat \ {0},
           \E q \in Int : a = b + m * q
    PROVE  a % m = b % m
<1>1. PICK p \in Int : b = m * p + (b % m)
  BY Remainder
<1>2. PICK r \in 0 .. m - 1 : r = b % m
  BY Remainder
<1>3. PICK q \in Int : a = b + m * q
  OBVIOUS
<1>4. p + q \in Int /\ a = m * (p + q) + r
  BY <1>1, <1>2, <1>3
<1>5. a % m = r
  BY <1>4, RemainderIs
<1> QED
  BY <1>2, <1>5

\* A word may be cut to the word's width first, and only then to the type's.
LEMMA RemainderOfRemainder ==
    ASSUME NEW a \in Int, NEW m \in Nat \ {0}, NEW k \in Nat \ {0}
    PROVE  m * k \in Nat \ {0} /\ (a % (m * k)) % m = (a % m)
<1>1. m * k \in Nat \ {0}
  OBVIOUS
<1>2. PICK q \in Int : a = (m * k) * q + (a % (m * k))
  BY <1>1, Remainder
<1>3. PICK r \in Int : r = a % (m * k)
  BY <1>1, Remainder
<1>4. k * q \in Int /\ a = r + m * (k * q)
  <2>1. a = (m * k) * q + r
    BY <1>2, <1>3
  <2>2. (m * k) * q = m * (k * q)
    OBVIOUS
  <2> QED
    BY <2>1, <2>2
<1>5. a % m = r % m
  BY <1>4, SameRemainder
<1> QED
  BY <1>1, <1>3, <1>5

\* A term may be cut before it is added.
LEMMA RemainderOfSum ==
    ASSUME NEW a \in Int, NEW b \in Int, NEW m \in Nat \ {0}
    PROVE  (a + b) % m = ((a % m) + b) % m
<1>1. PICK q \in Int : a = m * q + (a % m)
  BY Remainder
<1>2. PICK r \in Int : r = a % m
  BY Remainder
<1>3. PICK x \in Int, y \in Int : x = a + b /\ y = r + b
  OBVIOUS
<1>4. x = y + m * q
  <2>1. a = m * q + r
    BY <1>1, <1>2
  <2> QED
    BY <1>3, <2>1
<1>5. x % m = y % m
  BY <1>4, SameRemainder
<1> QED
  BY <1>2, <1>3, <1>5

-----------------------------------------------------------------------------
(***************************************************************************)
(* The data of CalcData: one step of the NIC and one of the host.          *)
(***************************************************************************)
\* The number of values of a type and that of a word.
LEMMA Sizes ==
    ASSUME NEW type \in Types
    PROVE  /\ Bits(type) \in {Narrow, Wide} /\ Bits(type) \in Nat
           /\ 2 ^ Bits(type) \in Nat /\ 2 ^ Bits(type) >= 2
           /\ 2 ^ (Wide - 1) \in Nat \ {0}
           /\ 2 ^ Wide = 2 * 2 ^ (Wide - 1)
           /\ \E k \in Nat \ {0} : 2 ^ Wide = 2 ^ Bits(type) * k
           /\ Bits(type) # Wide => 2 ^ Bits(type) <= 2 ^ (Wide - 1)
<1>1. /\ Narrow \in Nat /\ Wide \in Nat /\ Narrow >= 1 /\ Narrow <= Wide - 1 /\ Wide >= 2
      /\ Bits(type) \in {Narrow, Wide}
  BY CalcAssumption DEF Bits
<1>2. ASSUME NEW m \in Nat, NEW n \in Nat, m <= n
      PROVE  \E k \in Nat \ {0} : 2 ^ n = 2 ^ m * k
  <2>1. PICK d \in Nat : d = n - m
    BY <1>2
  <2>2. m + d = n
    BY <2>1
  <2>3. 2 ^ (m + d) = 2 ^ m * 2 ^ d
    BY PowerOfSum
  <2> QED
    BY <2>2, <2>3, Power
<1>3. PICK h \in Nat : h = Wide - 1
  BY <1>1
<1>4. 2 ^ Wide = 2 * 2 ^ h
  <2>1. 1 + h = Wide
    BY <1>1, <1>3
  <2>2. 2 ^ (1 + h) = 2 ^ 1 * 2 ^ h
    BY PowerOfSum
  <2> QED
    BY <2>1, <2>2, PowerOfOne
<1>5. \A n \in Nat : 2 ^ n \in Nat \ {0}
  BY Power
<1>6. 2 ^ Bits(type) >= 2
  <2>1. PICK k \in Nat \ {0} : 2 ^ Bits(type) = 2 ^ 1 * k
    <3>1. Bits(type) \in Nat /\ 1 <= Bits(type)
      BY <1>1
    <3> QED
      BY <1>2, <3>1
  <2> QED
    BY <2>1, PowerOfOne
<1>7. Narrow <= h /\ Narrow <= Wide
  BY <1>1, <1>3
<1>8. PICK k \in Nat \ {0} : 2 ^ h = 2 ^ Narrow * k
  BY <1>1, <1>2, <1>7
<1>9. 2 ^ Narrow <= 2 ^ h
  <2>1. 2 ^ Narrow \in Nat \ {0}
    BY <1>1, <1>5
  <2> QED
    BY <1>8, <2>1, Times
<1>10. \E j \in Nat \ {0} : 2 ^ Wide = 2 ^ Bits(type) * j
  <2>1. PICK b \in Nat : b = Bits(type)
    BY <1>1
  <2>2. b <= Wide /\ Wide \in Nat
    BY <1>1, <1>7, <2>1
  <2>3. \E j \in Nat \ {0} : 2 ^ Wide = 2 ^ b * j
    BY <1>2, <2>2
  <2> QED
    BY <2>1, <2>3
<1> QED
  BY <1>1, <1>3, <1>4, <1>5, <1>6, <1>9, <1>10

\* The word w stands for the value x: it is x packed, and of a sum no more than
\* that, but for what has gone beyond the type.
Means(op, type, w, x) ==
    /\ x \in Values(type)
    /\ IF op = "ADD" THEN w \in 0 .. 2 ^ Wide - 1 /\ w % 2 ^ Bits(type) = x
                     ELSE w = PackDataForCalc(op, type, x)

\* What fits is not changed by cutting it.
LEMMA Cut ==
    ASSUME NEW m \in Nat \ {0}, NEW x \in 0 .. m - 1
    PROVE  x % m = x
<1>1. x \in Int /\ 0 \in Int /\ x = m * 0 + x
  OBVIOUS
<1> QED
  BY <1>1, RemainderIs

\* Zero is its own negative; the others are reflected ...
LEMMA Negated ==
    ASSUME NEW m \in Nat \ {0}, NEW x \in 0 .. m - 1
    PROVE  (m - x) % m = IF x = 0 THEN 0 ELSE m - x
<1>1. CASE x = 0
  <2>1. m - x \in Int /\ 1 \in Int /\ 0 \in 0 .. m - 1 /\ m - x = m * 1 + 0
    BY <1>1
  <2>2. (m - x) % m = 0
    BY <2>1, RemainderIs
  <2> QED
    BY <1>1, <2>2
<1>2. CASE x # 0
  <2>1. PICK y \in 0 .. m - 1 : y = m - x
    BY <1>2
  <2>2. y % m = y
    BY Cut
  <2> QED
    BY <1>2, <2>1, <2>2
<1> QED
  BY <1>1, <1>2

\* ... and come back, in the width of the type, from a word that is wider.
LEMMA NegatedBack ==
    ASSUME NEW m \in Nat \ {0}, NEW k \in Nat \ {0}, NEW x \in 0 .. m - 1
    PROVE  (m * k - (IF x = 0 THEN 0 ELSE m - x)) % m = x
<1>1. CASE x = 0
  <2>1. PICK a \in Int : a = m * k - (IF x = 0 THEN 0 ELSE m - x)
    OBVIOUS
  <2>2. a = m * k + x
    BY <1>1, <2>1
  <2>3. a % m = x
    BY <2>2, RemainderIs
  <2> QED
    BY <2>1, <2>3
<1>2. CASE x # 0
  <2>1. PICK a \in Int, q \in Int : a = m * k - (IF x = 0 THEN 0 ELSE m - x) /\ q = k - 1
    OBVIOUS
  <2>2. m * q = m * k - m
    BY <2>1
  <2>3. a = m * q + x
    BY <1>2, <2>1, <2>2
  <2>4. a % m = x
    BY <2>3, RemainderIs
  <2> QED
    BY <2>1, <2>4
<1> QED
  BY <1>1, <1>2

\* The NIC adds in a word what the host adds in the type.
LEMMA RemainderOfWordSum ==
    ASSUME NEW m \in Nat \ {0}, NEW k \in Nat \ {0}, NEW w \in Int, NEW y \in Int
    PROVE  ((w + y) % (m * k)) % m = ((w % m) + y) % m
<1>1. PICK a \in Int : a = w + y
  OBVIOUS
<1>2. (a % (m * k)) % m = a % m
  BY RemainderOfRemainder
<1>3. (w + y) % m = ((w % m) + y) % m
  BY RemainderOfSum
<1> QED
  BY <1>1, <1>2, <1>3

\* What a value is packed to, by the kind of the operation.
LEMMA Packed ==
    ASSUME NEW op \in CalcOps, NEW type \in Types, NEW x \in Values(type)
    PROVE  /\ op \in Logical => PackDataForCalc(op, type, x) = Truth(x # 0)
           /\ op \notin Logical \cup {"MIN"} => PackDataForCalc(op, type, x) = x
           /\ op = "MIN" => PackDataForCalc(op, type, x) =
                                IF x = 0 THEN 0 ELSE 2 ^ Bits(type) - x
<1>1. x \in 0 .. 2 ^ Bits(type) - 1 /\ 2 ^ Bits(type) \in Nat \ {0}
  BY Sizes DEF Values
<1>2. (2 ^ Bits(type) - x) % 2 ^ Bits(type) = IF x = 0 THEN 0 ELSE 2 ^ Bits(type) - x
  BY <1>1, Negated
<1> QED
  BY <1>2 DEF PackDataForCalc, PrepareNetBuff, Logical

\* The host reads in a word the value it stands for, but for the first word of
\* a logical operation, which is the truth of the value.
LEMMA Unpacked ==
    ASSUME NEW op \in CalcOps, NEW type \in Types, NEW w, NEW x, Means(op, type, w, x),
           op \in Logical => x \in {0, 1}
    PROVE  UnpackDataFromCalc(op, type, w) = x
<1> DEFINE M == 2 ^ Bits(type)
<1>1. x \in 0 .. M - 1 /\ M \in Nat \ {0} /\ M >= 2
  BY Sizes DEF Means, Values
<1>2. x % M = x
  BY <1>1, Cut
<1>3. CASE op = "ADD"
  BY <1>3 DEF Means, UnpackDataFromCalc, PrepareHostBuff
<1>4. CASE op = "MIN"
  <2>1. w = IF x = 0 THEN 0 ELSE M - x
    BY <1>4, Packed DEF Means
  <2>2. PICK k \in Nat \ {0} : 2 ^ Wide = M * k
    BY Sizes
  <2>3. (2 ^ Wide - w) % M = x
    BY <1>1, <2>1, <2>2, NegatedBack
  <2> QED
    BY <1>4, <2>3 DEF UnpackDataFromCalc, PrepareHostBuff
<1>5. CASE op \notin {"ADD", "MIN"}
  <2>1. w = x
    <3>1. CASE op \in Logical
      BY <1>5, <3>1, Packed DEF Means, Truth
    <3>2. CASE op \notin Logical
      BY <1>5, <3>2, Packed DEF Means
    <3> QED
      BY <3>1, <3>2
  <2> QED
    BY <1>2, <1>5, <2>1 DEF UnpackDataFromCalc, PrepareHostBuff
<1> QED
  BY <1>3, <1>4, <1>5

\* A step of the NIC and one of the host: the logical operations.
LEMMA LogicalStep ==
    ASSUME NEW op \in Logical, NEW type \in Types, NEW w, NEW x, Means(op, type, w, x),
           NEW y \in Values(type)
    PROVE  /\ Means(op, type, Hardware(op, type, w, PackDataForCalc(op, type, y)),
                    Exec(op, type, x, y))
           /\ Exec(op, type, x, y) \in {0, 1}
<1> DEFINE p == x # 0
           q == y # 0
<1>1. w = Truth(p) /\ PackDataForCalc(op, type, y) = Truth(q)
  BY Packed DEF Means, Logical, CalcOps
<1>2. PICK r \in BOOLEAN : /\ Exec(op, type, x, y) = Truth(r)
                           /\ Hardware(op, type, Truth(p), Truth(q)) = Truth(r)
  <2>1. p \in BOOLEAN /\ q \in BOOLEAN
    OBVIOUS
  <2> HIDE DEF p, q
  <2>2. CASE op = "LXOR"
    <3>1. Hardware(op, type, Truth(p), Truth(q)) = Truth(p # q)
      BY <2>1, <2>2, BitsAssumption DEF Hardware
    <3>2. Exec(op, type, x, y) = Truth(p # q)
      BY <2>2 DEF Exec, p, q
    <3> QED
      BY <3>1, <3>2
  <2>3. CASE op = "LOR"
    <3>1. Hardware(op, type, Truth(p), Truth(q)) = Truth(p \/ q)
      BY <2>1, <2>3, BitsAssumption DEF Hardware
    <3>2. Exec(op, type, x, y) = Truth(p \/ q)
      BY <2>3 DEF Exec, p, q
    <3> QED
      BY <3>1, <3>2
  <2>4. CASE op = "LAND"
    <3>1. Hardware(op, type, Truth(p), Truth(q)) = Truth(p /\ q)
      BY <2>1, <2>4, BitsAssumption DEF Hardware
    <3>2. Exec(op, type, x, y) = Truth(p /\ q)
      BY <2>4 DEF Exec, p, q
    <3> QED
      BY <3>1, <3>2
  <2> QED
    BY <2>2, <2>3, <2>4 DEF Logical
<1>3. Truth(r) \in {0, 1} /\ Truth(Truth(r) # 0) = Truth(r)
  BY DEF Truth
<1>4. Truth(r) \in Values(type)
  <2>1. 2 ^ Bits(type) \in Nat /\ 2 ^ Bits(type) >= 2
    BY Sizes
  <2>2. 0 \in 0 .. 2 ^ Bits(type) - 1 /\ 1 \in 0 .. 2 ^ Bits(type) - 1
    BY <2>1
  <2> QED
    BY <1>3, <2>2 DEF Values
<1>5. PackDataForCalc(op, type, Truth(r)) = Truth(r)
  BY <1>3, <1>4, Packed DEF Logical, CalcOps
<1>6. op # "ADD"
  BY DEF Logical
<1> QED
  BY <1>1, <1>2, <1>3, <1>4, <1>5, <1>6 DEF Means

\* The operations on bits.
LEMMA BitStep ==
    ASSUME NEW op \in {"BXOR", "BOR", "BAND"}, NEW type \in Types, NEW w, NEW x,
           Means(op, type, w, x), NEW y \in Values(type)
    PROVE  Means(op, type, Hardware(op, type, w, PackDataForCalc(op, type, y)),
                 Exec(op, type, x, y))
<1>1. /\ op \in CalcOps /\ op \notin Logical \cup {"MIN"} /\ op # "ADD" 
      /\ x \in Values(type)
  BY DEF CalcOps, Logical, Means
<1>2. w = x /\ PackDataForCalc(op, type, y) = y
  BY <1>1, Packed DEF Means
<1>3. Hardware(op, type, x, y) = Exec(op, type, x, y)
  BY DEF Hardware, Exec
<1>4. Exec(op, type, x, y) \in {BitAnd(x, y), BitOr(x, y), BitXor(x, y)}
  BY DEF Exec
<1>5. Exec(op, type, x, y) \in Values(type)
  BY <1>1, <1>4, BitsAssumption
<1> QED
  BY <1>1, <1>2, <1>3, <1>5, Packed DEF Means

\* Sums.
LEMMA SumStep ==
    ASSUME NEW type \in Types, NEW w, NEW x, Means("ADD", type, w, x), NEW y \in Values(type)
    PROVE  Means("ADD", type, Hardware("ADD", type, w, PackDataForCalc("ADD", type, y)),
                 Exec("ADD", type, x, y))
<1>1. /\ 2 ^ Bits(type) \in Nat \ {0} /\ 2 ^ Wide \in Nat \ {0}
      /\ w \in Int /\ x \in Int /\ y \in Int
  BY Sizes DEF Means, Values
<1>2. PackDataForCalc("ADD", type, y) = y
  BY Packed DEF CalcOps, Logical
<1>3. PICK k \in Nat \ {0} : 2 ^ Wide = 2 ^ Bits(type) * k
  BY Sizes
<1>4. ((w + y) % (2 ^ Bits(type) * k)) % 2 ^ Bits(type)
          = ((w % 2 ^ Bits(type)) + y) % 2 ^ Bits(type)
  BY <1>1, RemainderOfWordSum
<1>5. Hardware("ADD", type, w, y) = (w + y) % 2 ^ Wide
  BY DEF Hardware
<1>6. Exec("ADD", type, x, y) = (x + y) % 2 ^ Bits(type)
  BY DEF Exec
<1>7. w % 2 ^ Bits(type) = x
  BY DEF Means
<1>8. (w + y) % 2 ^ Wide \in 0 .. 2 ^ Wide - 1
  <2>1. w + y \in Int
    BY <1>1
  <2> QED
    BY <1>1, <2>1, Remainder
<1>9. (x + y) % 2 ^ Bits(type) \in Values(type)
  <2>1. x + y \in Int
    BY <1>1
  <2> QED
    BY <1>1, <2>1, Remainder DEF Values
<1> QED
  BY <1>2, <1>3, <1>4, <1>5, <1>6, <1>7, <1>8, <1>9 DEF Means

\* Where the packing keeps the order, the NIC compares like the host.
LEMMA SameOrder ==
    ASSUME NEW type \in Types, NEW x \in Values(type), NEW y \in Values(type), x # y,
           ~OrderLost("MAX", type, x, y)
    PROVE  Number(x, Wide, IsSigned(type)) > Number(y, Wide, IsSigned(type))
           <=> Number(x, Bits(type), IsSigned(type)) > Number(y, Bits(type), IsSigned(type))
<1>1. /\ 2 ^ Bits(type) \in Nat /\ 2 ^ (Wide - 1) \in Nat
      /\ x \in 0 .. 2 ^ Bits(type) - 1 /\ y \in 0 .. 2 ^ Bits(type) - 1
  BY Sizes DEF Values
<1>2. CASE type = "INT32"
  <2>1. Bits(type) = Narrow /\ Narrow # Wide /\ Narrow - 1 \in Nat /\ IsSigned(type)
    BY <1>2, CalcAssumption DEF Bits, IsSigned
  <2>2. 2 ^ Bits(type) <= 2 ^ (Wide - 1)
    BY <2>1, Sizes
  <2>3. Number(x, Wide, IsSigned(type)) = x /\ Number(y, Wide, IsSigned(type)) = y
    BY <1>1, <2>2 DEF Number
  <2>4. PICK half \in Nat : half = 2 ^ (Bits(type) - 1)
    BY <2>1, Power
  <2>5. /\ Number(x, Bits(type), IsSigned(type)) = IF x >= half THEN x - 2 ^ Bits(type) ELSE x
        /\ Number(y, Bits(type), IsSigned(type)) = IF y >= half THEN y - 2 ^ Bits(type) ELSE y
    BY <2>1, <2>4 DEF Number
  <2>6. (Number(x, Bits(type), IsSigned(type)) < 0) = (Number(y, Bits(type), IsSigned(type)) < 0)
    BY <1>2 DEF OrderLost
  <2> QED
    BY <1>1, <2>3, <2>5, <2>6
<1>3. CASE type = "INT64"
  BY <1>3 DEF Bits
<1>4. CASE type \in {"UINT32", "UINT64"}
  BY <1>4 DEF Number, IsSigned
<1> QED
  BY <1>2, <1>3, <1>4 DEF Types

\* ... and of negatives the other way round.
LEMMA ReverseOrder ==
    ASSUME NEW type \in Types, NEW x \in Values(type), NEW y \in Values(type), x # y,
           ~OrderLost("MIN", type, x, y),
           NEW v, v = IF x = 0 THEN 0 ELSE 2 ^ Bits(type) - x,
           NEW w, w = IF y = 0 THEN 0 ELSE 2 ^ Bits(type) - y
    PROVE  Number(v, Wide, IsSigned(type)) > Number(w, Wide, IsSigned(type))
           <=> Number(x, Bits(type), IsSigned(type)) < Number(y, Bits(type), IsSigned(type))
<1>1. /\ 2 ^ Bits(type) \in Nat /\ 2 ^ (Wide - 1) \in Nat \ {0}
      /\ x \in 0 .. 2 ^ Bits(type) - 1 /\ y \in 0 .. 2 ^ Bits(type) - 1
      /\ 2 ^ Wide = 2 * 2 ^ (Wide - 1)
  BY Sizes DEF Values
<1>2. CASE type = "INT32"
  <2>1. Bits(type) = Narrow /\ Narrow # Wide /\ Narrow - 1 \in Nat /\ IsSigned(type)
    BY <1>2, CalcAssumption DEF Bits, IsSigned
  <2>2. 2 ^ Bits(type) <= 2 ^ (Wide - 1) /\ x # 0 /\ y # 0
    BY <1>2, <2>1, Sizes DEF OrderLost
  <2>3. Number(v, Wide, IsSigned(type)) = v /\ Number(w, Wide, IsSigned(type)) = w
    BY <1>1, <2>2 DEF Number
  <2>4. PICK half \in Nat : half = 2 ^ (Bits(type) - 1)
    BY <2>1, Power
  <2>5. /\ Number(x, Bits(type), IsSigned(type)) = IF x >= half THEN x - 2 ^ Bits(type) ELSE x
        /\ Number(y, Bits(type), IsSigned(type)) = IF y >= half THEN y - 2 ^ Bits(type) ELSE y
    BY <2>1, <2>4 DEF Number
  <2>6. (Number(x, Bits(type), IsSigned(type)) < 0) = (Number(y, Bits(type), IsSigned(type)) < 0)
    BY <1>2 DEF OrderLost
  <2> QED
    BY <1>1, <2>2, <2>3, <2>5, <2>6
<1>3. CASE type = "INT64"
  <2>1. Bits(type) = Wide /\ IsSigned(type)
    BY <1>3 DEF Bits, IsSigned
  <2>2. PICK least \in Nat \ {0} : least = 2 ^ (Wide - 1)
    BY <1>1
  <2>3. x # least /\ y # least /\ 2 ^ Wide = 2 * least
    BY <1>1, <1>3, <2>2 DEF OrderLost
  <2>4. /\ Number(x, Wide, IsSigned(type)) = IF x >= least THEN x - 2 * least ELSE x
        /\ Number(y, Wide, IsSigned(type)) = IF y >= least THEN y - 2 * least ELSE y
        /\ Number(v, Wide, IsSigned(type)) = IF v >= least THEN v - 2 * least ELSE v
        /\ Number(w, Wide, IsSigned(type)) = IF w >= least THEN w - 2 * least ELSE w
    BY <2>1, <2>2, <2>3 DEF Number
  <2>5. /\ v = IF x = 0 THEN 0 ELSE 2 * least - x
        /\ w = IF y = 0 THEN 0 ELSE 2 * least - y
        /\ x \in 0 .. 2 * least - 1 /\ y \in 0 .. 2 * least - 1
    BY <1>1, <2>1, <2>3
  <2>6. /\ Number(v, Wide, IsSigned(type)) = -Number(x, Wide, IsSigned(type))
        /\ Number(w, Wide, IsSigned(type)) = -Number(y, Wide, IsSigned(type))
        /\ Number(x, Wide, IsSigned(type)) \in Int
        /\ Number(y, Wide, IsSigned(type)) \in Int
    BY <2>3, <2>4, <2>5
  <2>7. PICK i \in Int, j \in Int : /\ i = Number(x, Wide, IsSigned(type))
                                    /\ j = Number(y, Wide, IsSigned(type))
    BY <2>6
  <2>8. -i > -j <=> i < j
    OBVIOUS
  <2> QED
    BY <2>1, <2>6, <2>7, <2>8
<1>4. CASE type \in {"UINT32", "UINT64"}
  <2>1. x # 0 /\ y # 0
    BY <1>4 DEF OrderLost
  <2> QED
    BY <1>1, <1>4, <2>1 DEF Number, IsSigned
<1> QED
  BY <1>2, <1>3, <1>4 DEF Types

\* Maxima and minima, of operands in an order packing keeps.
LEMMA OrderStep ==
    ASSUME NEW op \in {"MAX", "MIN"}, NEW type \in Types, NEW w, NEW x,
           Means(op, type, w, x), NEW y \in Values(type), ~OrderLost(op, type, x, y)
    PROVE  /\ Means(op, type, Hardware(op, type, w, PackDataForCalc(op, type, y)),
                    Exec(op, type, x, y))
           /\ Exec(op, type, x, y) \in {x, y}
<1> DEFINE v == PackDataForCalc(op, type, y)
           n(z) == Number(z, Bits(type), IsSigned(type))
           m(z) == Number(z, Wide, IsSigned(type))
<1>1. /\ op \in CalcOps /\ op \notin Logical /\ op # "ADD" /\ x \in Values(type)
      /\ w = PackDataForCalc(op, type, x)
  BY DEF CalcOps, Logical, Means
<1>2. Exec(op, type, x, y) \in {x, y}
  BY DEF Exec
<1>3. Hardware(op, type, w, v) = IF m(w) > m(v) THEN w ELSE v
  BY DEF Hardware
<1>4. Hardware(op, type, w, v) = PackDataForCalc(op, type, Exec(op, type, x, y))
  <2>1. CASE x = y
    BY <1>1, <1>2, <1>3, <2>1
  <2>2. CASE x # y /\ op = "MAX"
    <3>1. w = x /\ v = y
      BY <1>1, <2>2, Packed
    <3>2. m(w) > m(v) <=> n(x) > n(y)
      BY <1>1, <2>2, <3>1, SameOrder
    <3>3. Exec(op, type, x, y) = IF n(x) > n(y) THEN x ELSE y
      BY <2>2 DEF Exec
    <3> QED
      BY <1>1, <1>3, <3>2, <3>3
  <2>3. CASE x # y /\ op = "MIN"
    <3>1. /\ w = IF x = 0 THEN 0 ELSE 2 ^ Bits(type) - x
          /\ v = IF y = 0 THEN 0 ELSE 2 ^ Bits(type) - y
      BY <1>1, <2>3, Packed
    <3>2. m(w) > m(v) <=> n(x) < n(y)
      BY <1>1, <2>3, <3>1, ReverseOrder
    <3>3. Exec(op, type, x, y) = IF n(x) < n(y) THEN x ELSE y
      BY <2>3 DEF Exec
    <3> QED
      BY <1>1, <1>3, <3>2, <3>3
  <2> QED
    BY <2>1, <2>2, <2>3
<1> QED
  BY <1>1, <1>2, <1>4 DEF Means

\* A message is computed by the NIC as the host computes its result.
LEMMA CalcStep ==
    ASSUME NEW op \in CalcOps, NEW type \in Types, NEW w, NEW x, Means(op, type, w, x),
           NEW y \in Values(type), ~OrderLost(op, type, x, y)
    PROVE  /\ Means(op, type, Hardware(op, type, w, PackDataForCalc(op, type, y)),
                    Exec(op, type, x, y))
           /\ op \in Logical => Exec(op, type, x, y) \in {0, 1}
           /\ op \in {"MAX", "MIN"} => Exec(op, type, x, y) \in {x, y}
<1>1. CASE op \in Logical
  <2>1. op \notin {"MAX", "MIN"}
    BY <1>1 DEF Logical
  <2> QED
    BY <1>1, <2>1, LogicalStep
<1>2. CASE op \in {"BXOR", "BOR", "BAND"}
  <2>1. op \notin {"MAX", "MIN"} \cup Logical
    BY <1>2 DEF Logical
  <2> QED
    BY <1>2, <2>1, BitStep
<1>3. CASE op = "ADD"
  <2>1. op \notin {"MAX", "MIN"} \cup Logical
    BY <1>3 DEF Logical
  <2> QED
    BY <1>3, <2>1, SumStep
<1>4. CASE op \in {"MAX", "MIN"}
  <2>1. op \notin Logical
    BY <1>4 DEF Logical
  <2> QED
    BY <1>4, <2>1, OrderStep
<1> QED
  BY <1>1, <1>2, <1>3, <1>4 DEF CalcOps, Logical

-----------------------------------------------------------------------------
(***************************************************************************)
(* What is in the buffer, and what the two sides have computed.            *)
(***************************************************************************)
\* What the host computes next of the result x.
Result(x) == Exec(args.op, args.type, x, Operand(2))

\* The side that sends next: its buffer has the word it is computed from.
Ready(s) == Out(s) \/ Owes(s) \/ (s = "client" /\ First)

\* In cc, the word in the buffer of the side that has the message stands for
\* what the peer had computed last.  Whoever sends next has computed the next
\* result already; whoever has not looked at the message has not.
Words(s) ==
    /\ Ready(s) \/ Came(s) =>
          /\ Means(args.op, args.type, net_buf[s], last[Peer(s)])
          /\ args.op \in {"MAX", "MIN"} => last[Peer(s)] \in {Operand(1), Operand(2)}
    /\ Ready(s) => last[s] = Result(last[Peer(s)])
    /\ Came(s) => last[Peer(s)] = Result(last[s])

OrderKept == ~OrderLost(args.op, args.type, Operand(1), Operand(2))

WInv ==
    /\ args \in Args /\ DOMAIN why = Sides /\ DOMAIN net_buf = Sides /\ DOMAIN last = Sides
    /\ VerifyFailsAtEdges
    /\ Cc /\ OrderKept => \A s \in Sides : Words(s)

\* What the programs may be called with.
LEMMA ArgsAre ==
    ASSUME args \in Args
    PROVE  /\ args.op \in CalcOps /\ args.type \in Types
           /\ Operand(1) \in Values(args.type) /\ Operand(2) \in Values(args.type)
BY CcAssumption DEF Operand

\* A value stands for itself when it is packed.
LEMMA MeansItself ==
    ASSUME NEW op \in CalcOps, NEW type \in Types, NEW x \in Values(type)
    PROVE  Means(op, type, PackDataForCalc(op, type, x), x)
<1>1. CASE op # "ADD"
  BY <1>1 DEF Means
<1>2. CASE op = "ADD"
  <2>1. PackDataForCalc(op, type, x) = x
    BY <1>2, Packed DEF Logical
  <2>2. /\ 2 ^ Bits(type) \in Nat \ {0} /\ 2 ^ Wide \in Nat
        /\ x \in 0 .. 2 ^ Bits(type) - 1
    BY Sizes DEF Values
  <2>3. 2 ^ Bits(type) <= 2 ^ Wide
    <3>1. PICK k \in Nat \ {0} : 2 ^ Wide = 2 ^ Bits(type) * k
      BY Sizes
    <3> QED
      BY <2>2, <3>1, Times
  <2>4. x \in 0 .. 2 ^ Wide - 1
    BY <2>2, <2>3
  <2>5. x % 2 ^ Bits(type) = x
    BY <2>2, Cut
  <2> QED
    BY <1>2, <2>1, <2>4, <2>5 DEF Means
<1> QED
  BY <1>1, <1>2

LEMMA InitWInv == Init => WInv
<1> SUFFICES ASSUME Init PROVE WInv
  OBVIOUS
<1>1. args \in Args /\ DOMAIN why = Sides /\ DOMAIN net_buf = Sides /\ DOMAIN last = Sides
  BY DEF Init
<1>2. \A s \in Sides : /\ cq[s]["r"] = <<>> /\ batch[s] = <<>> /\ sq[s] = "none"
                       /\ pending[s] = {"recv"} /\ pc[s] # "task" /\ why[s] = ""
                       /\ net_buf[s] = PackDataForCalc(args.op, args.type, Operand(1))
  BY DEF Init
<1>3. last["server"] = Operand(1) /\ last["client"] = Result(last["server"])
  BY BothSides DEF Init, Result
<1>4. VerifyFailsAtEdges
  BY <1>2 DEF VerifyFailsAtEdges
<1>5. ASSUME NEW s \in Sides PROVE Words(s)
  <2>1. ~Out(s) /\ ~Owes(s) /\ ~Came(s)
    BY <1>2, NothingIn DEF Out, Owes, Came
  <2>2. CASE s = "server"
    BY <2>1, <2>2 DEF Words, Ready
  <2>3. CASE s = "client"
    <3>1. Means(args.op, args.type, net_buf[s], Operand(1))
      <4>1. net_buf[s] = PackDataForCalc(args.op, args.type, Operand(1))
        BY <1>2
      <4>2. /\ args.op \in CalcOps /\ args.type \in Types
            /\ Operand(1) \in Values(args.type)
        BY <1>1, ArgsAre
      <4> QED
        BY <4>1, <4>2, MeansItself
    <3>2. last[Peer(s)] = Operand(1) /\ last[s] = Result(last[Peer(s)])
      BY <1>3, <2>3 DEF Peer
    <3> QED
      BY <2>1, <3>1, <3>2 DEF Words
  <2> QED
    BY <2>2, <2>3 DEF Sides
<1> QED
  BY <1>1, <1>4, <1>5 DEF WInv

\* A step that leaves the data alone, and nobody closer to sending.
LEMMA WordsStay ==
    ASSUME args' = args, net_buf' = net_buf, last' = last, NEW s \in Sides, Words(s),
           Ready(s)' => Ready(s), Came(s)' => Came(s)
    PROVE  Words(s)'
BY DEF Words, Result, Operand

\* The side that takes no step.
LEMMA OtherWaits ==
    ASSUME CcInv, NEW t \in Sides, args' = args,
           pc'[t] = pc[t], sq'[t] = sq[t], cq'[t]["r"] = cq[t]["r"], batch'[t] = batch[t],
           pending'[t] = pending[t], First' => First
    PROVE  (Ready(t)' => Ready(t)) /\ (Came(t)' => Came(t))
BY DEF Ready, Came, Out, Owes

\* A step of one side's that leaves the data alone.
LEMMA WordsStep ==
    ASSUME CcInv, NEW s \in Sides, args' = args, net_buf' = net_buf, last' = last,
           \A t \in Sides : Words(t),
           \A t \in Sides \ {s} :
               /\ pc'[t] = pc[t] /\ sq'[t] = sq[t] /\ cq'[t]["r"] = cq[t]["r"]
               /\ batch'[t] = batch[t] /\ pending'[t] = pending[t],
           First' => First, Ready(s)' => Ready(s), Came(s)' => Came(s)
    PROVE  \A t \in Sides : Words(t)'
<1> TAKE t \in Sides
<1>1. CASE t = s
  BY <1>1, WordsStay
<1>2. CASE t # s
  BY <1>2, OtherWaits, WordsStay
<1> QED
  BY <1>1, <1>2

\* Main goes on and does not touch a message.
LEMMA WordsMove ==
    ASSUME CcInv, NEW s \in Sides, NEW w, pc' = [pc EXCEPT ![s] = w], args' = args,
           net_buf' = net_buf, last' = last, \A t \in Sides : Words(t),
           cq' = cq, batch' = batch, pending' = pending, sq' = sq,
           w # "task", w \in {"start", "exch"} => First
    PROVE  \A t \in Sides : Words(t)'
<1>1. DOMAIN pc = Sides
  BY DEF CcInv, StateTypes
<1>2. pc'[s] = w /\ \A t \in Sides \ {s} : pc'[t] = pc[t]
  BY <1>1
<1>3. First' => First
  BY <1>2, BothSides DEF First
<1>4. (Ready(s)' => Ready(s)) /\ (Came(s)' => Came(s))
  BY <1>2, <1>3 DEF Ready, Came, Out, Owes
<1> QED
  BY <1>2, <1>3, <1>4, WordsStep

\* The data of the exchange of addresses.
LEMMA ExchangeWords ==
    ASSUME CcInv, args' = args, Exchange, \A t \in Sides : Words(t), Cc
    PROVE  \A t \in Sides : Words(t)'
<1>0. "client" \in Sides /\ "server" \in Sides /\ DOMAIN pc = Sides
  BY BothSides DEF CcInv, StateTypes
<1>1. CASE ClientAddress
  <2>1. /\ pc["client"] = "start" /\ pc' = [pc EXCEPT !["client"] = "exch"]
        /\ UNCHANGED <<net_buf, last, cq, batch, pending, sq>>
    BY <1>1 DEF ClientAddress, Goto, nicVars
  <2> QED
    BY <1>0, <2>1, WordsMove DEF First
<1>2. CASE ServerConnect
  <2>1. /\ pc' = [pc EXCEPT !["server"] = "done_msg"]
        /\ UNCHANGED <<net_buf, last, cq, batch, pending, sq>>
    BY <1>2 DEF ServerConnect, Goto, nicVars
  <2> QED
    BY <1>0, <2>1, WordsMove
<1>3. CASE ReadAddress
  <2>1. /\ pc["client"] = "exch" /\ pc' = [pc EXCEPT !["client"] = Top]
        /\ sq' = [sq EXCEPT !["client"] = "posted"]
        /\ pending' = [pending EXCEPT !["client"] = {"recv", "send"}]
        /\ UNCHANGED <<net_buf, last, cq, batch>>
    BY <1>3 DEF ReadAddress, Goto
  <2>2. First /\ ~First'
    BY <1>0, <2>1, TopIs DEF First
  <2>3. Ready("client") /\ (Came("client")' => Came("client"))
    BY <2>1, <2>2 DEF Ready, Came
  <2>4. \A t \in Sides \ {"client"} :
            /\ pc'[t] = pc[t] /\ sq'[t] = sq[t] /\ cq'[t]["r"] = cq[t]["r"]
            /\ batch'[t] = batch[t] /\ pending'[t] = pending[t]
    BY <2>1 DEF CcInv, StateTypes
  <2> QED
    BY <1>0, <2>1, <2>2, <2>3, <2>4, WordsStep
<1>4. CASE ReadDone
  <2>1. /\ pc' = [pc EXCEPT !["server"] = Top]
        /\ UNCHANGED <<net_buf, last, cq, batch, pending, sq>>
    BY <1>4 DEF ReadDone, Goto, nicVars
  <2> QED
    BY <1>0, <2>1, WordsMove, TopIs
<1>5. ASSUME NEW s \in Sides, PeerGone(s) PROVE \A t \in Sides : Words(t)'
  <2>1. /\ \E w \in {"stuck", "failed"} : pc' = [pc EXCEPT ![s] = w]
        /\ UNCHANGED <<net_buf, last, cq, batch, pending, sq>>
    BY <1>5 DEF PeerGone, Fails, Goto, nicVars
  <2> QED
    BY <2>1, WordsMove
<1> QED
  BY <1>1, <1>2, <1>3, <1>4, <1>5 DEF Exchange

LEMMA PollWords ==
    ASSUME CcInv, args' = args, NEW s \in Sides, Poll(s), \A t \in Sides : Words(t), Cc
    PROVE  \A t \in Sides : Words(t)'
<1> DEFINE q == cq[s]["r"]
           n == IF Len(q) < 2 THEN Len(q) ELSE 2
           w == IF n = 0 THEN Top ELSE "handle"
           b == SubSeq(q, 1, n)
           r == SubSeq(q, n + 1, Len(q))
<1>0. StateTypes /\ OneMessage(s)
  BY DEF CcInv
<1>1. /\ pc' = [pc EXCEPT ![s] = w] /\ batch' = [batch EXCEPT ![s] = b]
      /\ cq' = [cq EXCEPT ![s]["r"] = r]
      /\ UNCHANGED <<net_buf, last, pending, sq>>
  BY DEF Poll, Goto
<1>2. q \in Seq(Statuses) /\ n \in 0 .. Len(q) /\ Once("recv", q)
  BY <1>0 DEF StateTypes, OneMessage
<1>3. In("recv", b) \/ In("recv", r) => In("recv", q)
  <2> HIDE DEF q, n
  <2> QED
    BY <1>2, SplitIn
<1>4. w \in {"event", "wait", "poll", "handle"}
  BY TopIs
<1>5. In("recv", q) => Came(s)
  BY DEF Came
<1> HIDE DEF q, n, w, b, r
<1>6. pc'[s] = w /\ batch'[s] = b /\ cq'[s]["r"] = r
  BY <1>0, <1>1 DEF StateTypes
<1>7. \A t \in Sides \ {s} :
            /\ pc'[t] = pc[t] /\ sq'[t] = sq[t] /\ cq'[t]["r"] = cq[t]["r"]
            /\ batch'[t] = batch[t] /\ pending'[t] = pending[t]
  BY <1>0, <1>1 DEF StateTypes
<1>8. First' => First
  BY <1>4, <1>6, <1>7, BothSides DEF First
<1>9. Came(s)' => Came(s)
  BY <1>3, <1>5, <1>6 DEF Came
<1>10. Ready(s)' => Ready(s)
  BY <1>1, <1>4, <1>6, <1>8 DEF Ready, Out, Owes
<1> QED
  BY <1>1, <1>7, <1>8, <1>9, <1>10, WordsStep

\* What changes with a completion but for the data.
LEMMA GoesOnIs ==
    ASSUME CcInv, NEW s \in Sides, NEW what \in {"recv", "send"}, Cc,
           pc[s] = "handle", Head(batch[s]) = what, GoesOn(s, what), cq' = cq
    PROVE  /\ \A t \in Sides \ {s} :
                  /\ pc'[t] = pc[t] /\ sq'[t] = sq[t] /\ cq'[t]["r"] = cq[t]["r"]
                  /\ batch'[t] = batch[t] /\ pending'[t] = pending[t]
           /\ First' => First
           /\ Came(s)' => Came(s) 
           /\ what = "recv" => Came(s) /\ ~Came(s)'
           /\ what = "send" => (Ready(s)' => Ready(s))
<1> DEFINE b == Tail(batch[s])
           w == IF Len(batch[s]) > 1 THEN "handle"
                ELSE IF \E v \in {"recv", "send"} : cnt'[s][v] < Iters THEN Top ELSE "done"
           z == IF RoundOver(s, what) THEN "posted" ELSE sq[s]
           k == IF RoundOver(s, what) THEN {"recv", "send"} ELSE pending[s] \ {what}
<1>0. StateTypes /\ Loop(s) /\ OneMessage(s)
  BY DEF CcInv
<1>1. /\ pc' = [pc EXCEPT ![s] = w] /\ batch' = [batch EXCEPT ![s] = b]
      /\ sq' = [sq EXCEPT ![s] = z] /\ pending' = [pending EXCEPT ![s] = k]
  BY <1>0 DEF GoesOn, Goto, StateTypes
<1>2. batch[s] \in Seq(Statuses) /\ batch[s] # <<>>
  BY <1>0 DEF StateTypes, Loop
<1>3. /\ In("recv", b) => In("recv", batch[s])
      /\ what = "recv" => In("recv", batch[s]) /\ ~In("recv", b)
  BY <1>0, <1>2, TailIn DEF OneMessage
<1>4. w \in {"event", "wait", "poll", "handle", "done"}
  BY TopIs
<1>5. RoundOver(s, what) => z = "posted" /\ k = {"recv", "send"} /\ pending[s] \subseteq {what}
  BY DEF RoundOver
<1>6. ~RoundOver(s, what) => z = sq[s] /\ k = pending[s] \ {what}
  OBVIOUS
<1> HIDE DEF b, w, z, k
<1>7. pc'[s] = w /\ batch'[s] = b /\ sq'[s] = z /\ pending'[s] = k
  BY <1>0, <1>1 DEF StateTypes
<1>8. \A t \in Sides \ {s} :
            /\ pc'[t] = pc[t] /\ sq'[t] = sq[t] /\ cq'[t]["r"] = cq[t]["r"]
            /\ batch'[t] = batch[t] /\ pending'[t] = pending[t]
  BY <1>0, <1>1 DEF StateTypes
<1>9. First' => First
  BY <1>4, <1>7, <1>8, BothSides DEF First
<1>10. (Came(s)' => Came(s)) /\ (what = "recv" => Came(s) /\ ~Came(s)')
  BY <1>0, <1>3, <1>7 DEF Came, OneMessage
<1>11. ASSUME what = "send", Ready(s)' PROVE Ready(s)
  <2>1. CASE RoundOver(s, what)
    <3>1. "recv" \notin pending[s]
      BY <1>5, <1>11, <2>1
    <3> QED
      BY <3>1 DEF Ready, Owes
  <2>2. CASE ~RoundOver(s, what)
    <3>1. Out(s)' => Out(s)
      BY <1>6, <1>7, <2>2 DEF Out
    <3>2. Owes(s)' => Owes(s)
      BY <1>4, <1>6, <1>7, <1>11, <2>2 DEF Owes
    <3> QED
      BY <1>9, <1>11, <3>1, <3>2 DEF Ready
  <2> QED
    BY <2>1, <2>2
<1> QED
  BY <1>8, <1>9, <1>10, <1>11

\* What the host computes of a result is the word the NIC computes.
LEMMA ResultMeans ==
    ASSUME args \in Args, OrderKept, NEW w, NEW x, Means(args.op, args.type, w, x),
           args.op \in {"MAX", "MIN"} => x \in {Operand(1), Operand(2)}
    PROVE  /\ Means(args.op, args.type, Hardware(args.op, args.type, w, OwnWord), Result(x))
           /\ args.op \in {"MAX", "MIN"} => Result(x) \in {Operand(1), Operand(2)}
<1>1. /\ args.op \in CalcOps /\ args.type \in Types
      /\ Operand(2) \in Values(args.type)
  BY ArgsAre
<1>2. ~OrderLost(args.op, args.type, x, Operand(2))
  <2>1. CASE args.op \in {"MAX", "MIN"}
    <3>1. x = Operand(1) \/ x = Operand(2)
      BY <2>1
    <3>2. x = Operand(2) => ~OrderLost(args.op, args.type, x, Operand(2))
      BY DEF OrderLost
    <3> QED
      BY <3>1, <3>2 DEF OrderKept
  <2>2. CASE args.op \notin {"MAX", "MIN"}
    BY <2>2 DEF OrderLost
  <2> QED
    BY <2>1, <2>2
<1> QED
  BY <1>1, <1>2, CalcStep DEF Result, OwnWord

\* What has come is what main expects.
LEMMA ComesAsExpected ==
    ASSUME args \in Args, NEW s \in Sides, Words(s), Came(s)
    PROVE  Received(s) = Expected(s) /\ Received(s) = last[Peer(s)]
<1>1. /\ Means(args.op, args.type, net_buf[s], last[Peer(s)])
      /\ last[Peer(s)] = Exec(args.op, args.type, last[s], Operand(2))
  BY DEF Words, Result
<1>2. args.op \in Logical => last[Peer(s)] \in {0, 1}
  BY <1>1 DEF Exec, Logical, Truth
<1>3. UnpackDataFromCalc(args.op, args.type, net_buf[s]) = last[Peer(s)]
  BY <1>1, <1>2, ArgsAre, Unpacked
<1> QED
  BY <1>1, <1>3 DEF Received, Expected

\* The result is kept, and the side is the next to send.
LEMMA RecvWords ==
    ASSUME CcInv, CcInv', args \in Args, DOMAIN last = Sides, args' = args,
           NEW s \in Sides, HandleRecv(s), \A t \in Sides : Words(t), Cc
    PROVE  \A t \in Sides : Words(t)'
<1> DEFINE p == Peer(s)
<1>1. /\ pc[s] = "handle" /\ Head(batch[s]) = "recv" /\ GoesOn(s, "recv")
      /\ last' = [last EXCEPT ![s] = Exec(args.op, args.type, Received(s), Operand(2))]
      /\ net_buf' = net_buf /\ cq' = cq
  BY DEF HandleRecv
<1>2. /\ \A t \in Sides \ {s} :
             /\ pc'[t] = pc[t] /\ sq'[t] = sq[t] /\ cq'[t]["r"] = cq[t]["r"]
             /\ batch'[t] = batch[t] /\ pending'[t] = pending[t]
      /\ First' => First
      /\ Came(s) /\ ~Came(s)'
  BY <1>1, GoesOnIs
<1>3. p \in Sides /\ p # s /\ Peer(p) = s
  BY BothSides
<1>4. Received(s) = last[p]
  BY <1>2, ComesAsExpected
<1>5. last'[p] = last[p] /\ last'[s] = Result(last[p])
  BY <1>1, <1>3, <1>4 DEF Result
<1>6. Words(s)'
  <2>1. /\ Means(args.op, args.type, net_buf[s], last[p])
        /\ args.op \in {"MAX", "MIN"} => last[p] \in {Operand(1), Operand(2)}
    BY <1>2 DEF Words
  <2> QED
    BY <1>1, <1>2, <1>5, <2>1 DEF Words, Result, Operand
<1>7. ~Ready(p)' /\ ~Came(p)'
  <2>1. Has(s) /\ ~First /\ ~Has(p)
    BY <1>2 DEF CcInv, OneTurn, Has
  <2>2. (Ready(p)' => Ready(p)) /\ (Came(p)' => Came(p))
    BY <1>2, <1>3, OtherWaits
  <2> QED
    BY <2>1, <2>2 DEF Has, Ready
<1>8. Words(p)'
  BY <1>7 DEF Words
<1> QED
  BY <1>6, <1>8, BothSides

\* The message is computed, and the peer has it.
LEMMA DeliverWords ==
    ASSUME CcInv, CcInv', args \in Args, OrderKept, DOMAIN net_buf = Sides, args' = args,
           NEW s \in Sides, Deliver(s), \A t \in Sides : Words(t)
    PROVE  \A t \in Sides : Words(t)'
<1> DEFINE p == Peer(s)
<1>1. /\ sq[s] = "posted" /\ last' = last /\ pc' = pc /\ batch' = batch /\ pending' = pending
      /\ net_buf' = [net_buf EXCEPT ![p] = Hardware(args.op, args.type, net_buf[s], OwnWord)]
      /\ sq' = [sq EXCEPT ![s] = "delivered"]
      /\ cq' = [cq EXCEPT ![p]["r"] = Append(cq[p]["r"], "recv")]
  BY DEF Deliver, mainVars, Completes
<1>2. p \in Sides /\ p # s /\ Peer(p) = s
  BY BothSides
<1>3. StateTypes
  BY DEF CcInv
<1>4. net_buf'[p] = Hardware(args.op, args.type, net_buf[s], OwnWord)
  BY <1>1, <1>2
<1>5. Out(s) /\ ~First /\ Ready(s)
  BY <1>1 DEF Out, Has, CcInv, OneTurn, Ready
<1>6. /\ Means(args.op, args.type, net_buf[s], last[p])
      /\ args.op \in {"MAX", "MIN"} => last[p] \in {Operand(1), Operand(2)}
      /\ last[s] = Result(last[p])
  BY <1>5 DEF Words
<1>7. Came(p)'
  <2>1. cq[p]["r"] \in Seq(Statuses) /\ cq'[p]["r"] = Append(cq[p]["r"], "recv")
    BY <1>1, <1>2, <1>3 DEF StateTypes
  <2>2. In("recv", cq'[p]["r"])
    BY <2>1, AppendIn DEF Statuses
  <2> QED
    BY <2>2 DEF Came
<1>8. ~Ready(p)' /\ ~Has(s)' /\ ~First'
  BY <1>2, <1>7 DEF CcInv, OneTurn, Has, Ready
<1>9. Words(p)'
  <2>1. /\ Means(args.op, args.type, net_buf'[p], last[s])
        /\ args.op \in {"MAX", "MIN"} => last[s] \in {Operand(1), Operand(2)}
    BY <1>4, <1>6, ResultMeans
  <2> QED
    BY <1>1, <1>2, <1>6, <1>8, <2>1 DEF Words, Result, Operand
<1>10. Words(s)'
  BY <1>8 DEF Words, Has, Ready
<1> QED
  BY <1>9, <1>10, BothSides

\* A SEND is over; in cc its completion is one of the loop's queue.
LEMMA SendIsOverWords ==
    ASSUME CcInv, args' = args, NEW s \in Sides, NEW what \in {"send", "error"},
           sq' = [sq EXCEPT ![s] = "none"], Completes(s, SendCq, what), net_buf' = net_buf,
           UNCHANGED mainVars, \A t \in Sides : Words(t), Cc
    PROVE  \A t \in Sides : Words(t)'
<1>0. StateTypes
  BY DEF CcInv
<1>1. /\ cq' = [cq EXCEPT ![s]["r"] = Append(cq[s]["r"], what)]
      /\ pc' = pc /\ batch' = batch /\ pending' = pending /\ last' = last
  BY DEF Completes, SendCq, mainVars
<1>2. /\ sq'[s] = "none" /\ cq'[s]["r"] = Append(cq[s]["r"], what)
      /\ cq[s]["r"] \in Seq(Statuses)
  BY <1>0, <1>1 DEF StateTypes
<1>3. \A t \in Sides \ {s} :
            /\ pc'[t] = pc[t] /\ sq'[t] = sq[t] /\ cq'[t]["r"] = cq[t]["r"]
            /\ batch'[t] = batch[t] /\ pending'[t] = pending[t]
  BY <1>0, <1>1 DEF StateTypes
<1>4. First' <=> First
  BY <1>1 DEF First
<1>5. In("recv", cq'[s]["r"]) => In("recv", cq[s]["r"])
  BY <1>2, AppendIn DEF Statuses
<1>6. (Came(s)' => Came(s)) /\ (Ready(s)' => Ready(s))
  BY <1>1, <1>2, <1>4, <1>5 DEF Came, Ready, Out, Owes
<1> QED
  BY <1>1, <1>3, <1>4, <1>6, WordsStep

LEMMA NicWords ==
    ASSUME CcInv, CcInv', args \in Args, OrderKept, DOMAIN net_buf = Sides, args' = args,
           NEW s \in Sides, Nic(s), \A t \in Sides : Words(t), Cc
    PROVE  \A t \in Sides : Words(t)'
<1>1. CASE Deliver(s)
  BY <1>1, DeliverWords
<1>2. CASE Acknowledge(s)
  BY <1>2, SendIsOverWords DEF Acknowledge
<1>3. CASE GivesUp(s)
  BY <1>3, SendIsOverWords DEF GivesUp
<1>4. CASE Manage(s)
  <2>1. mq[s] # <<>> /\ mq[s] \in Seq({"wait", "enable", "enable_signaled"})
    BY <1>4 DEF Manage, CcInv, StateTypes
  <2>2. Head(mq[s]) = "wait"
    BY <2>1 DEF CcInv, Held
  <2>3. sq' = sq /\ net_buf' = net_buf /\ cq' = cq /\ UNCHANGED mainVars
    BY <1>4, <2>2 DEF Manage, CcInv, StateTypes
  <2>4. \A t \in Sides : (Ready(t)' => Ready(t)) /\ (Came(t)' => Came(t))
    BY <2>3 DEF mainVars, Ready, Came, Out, Owes, First
  <2> QED
    BY <2>3, <2>4, WordsStay DEF mainVars
<1> QED
  BY <1>1, <1>2, <1>3, <1>4 DEF Nic

LEMMA CcLoopWords ==
    ASSUME CcInv, CcInv', args \in Args, DOMAIN last = Sides, args' = args,
           NEW s \in Sides, CcLoop(s), \A t \in Sides : Words(t), Cc
    PROVE  \A t \in Sides : Words(t)'
<1>1. ASSUME NEW w, w \notin {"task", "start", "exch"}, Goto(s, w),
             UNCHANGED <<net_buf, last, cq, batch, pending, sq>>
      PROVE  \A t \in Sides : Words(t)'
  BY <1>1, WordsMove DEF Goto
<1>2. CASE GetEvent(s)
  BY <1>1, <1>2 DEF GetEvent, AfterEvent
<1>3. CASE PostWait(s)
  BY <1>1, <1>3 DEF PostWait
<1>4. CASE PollMcq(s)
  BY <1>1, <1>4 DEF PollMcq
<1>5. CASE Poll(s)
  BY <1>5, PollWords
<1>6. CASE HandleSend(s)
  <2>1. /\ pc[s] = "handle" /\ Head(batch[s]) = "send" /\ GoesOn(s, "send")
        /\ net_buf' = net_buf /\ cq' = cq /\ last' = last
    BY <1>6 DEF HandleSend, GoesOn
  <2>2. /\ \A t \in Sides \ {s} :
               /\ pc'[t] = pc[t] /\ sq'[t] = sq[t] /\ cq'[t]["r"] = cq[t]["r"]
               /\ batch'[t] = batch[t] /\ pending'[t] = pending[t]
        /\ First' => First
        /\ Came(s)' => Came(s)
        /\ Ready(s)' => Ready(s)
    BY <2>1, GoesOnIs
  <2> QED
    BY <2>1, <2>2, WordsStep
<1>7. CASE HandleRecv(s)
  BY <1>7, RecvWords
<1>8. CASE VerifyFails(s) \/ HandleError(s)
  <2>1. /\ \E w \in {"stuck", "failed"} : Goto(s, w)
        /\ UNCHANGED <<net_buf, last, cq, batch, pending, sq>>
    BY <1>8 DEF VerifyFails, HandleError, Fails, nicVars
  <2> QED
    BY <1>1, <2>1
<1> QED
  BY <1>2, <1>3, <1>4, <1>5, <1>6, <1>7, <1>8 DEF CcLoop

\* Verification fails in one place only, in cc, of a message that has come.
LEMMA OnlyMainVerifies ==
    ASSUME CcInv, [Next]_vars, DOMAIN why = Sides, NEW t \in Sides, why'[t] = "verify"
    PROVE  why[t] = "verify" \/ (VerifyFails(t) /\ Came(t) /\ Cc)
<1>1. ASSUME NEW s, NEW r, Fails(s, r), r # "verify" PROVE why[t] = "verify"
  BY <1>1 DEF Fails
<1>2. ASSUME why' = why PROVE why[t] = "verify"
  BY <1>2
<1>3. CASE Exchange
  <2>1. why' = why \/ \E s \in Sides : Fails(s, "exchange")
    BY <1>3 DEF Exchange, ClientAddress, ServerConnect, ReadAddress, ReadDone, PeerGone
  <2> QED
    BY <1>1, <1>2, <2>1
<1>4. ASSUME NEW s \in Sides, CcLoop(s)
      PROVE  why[t] = "verify" \/ (VerifyFails(t) /\ Came(t) /\ Cc)
  <2>1. CASE GetEvent(s) \/ PostWait(s) \/ PollMcq(s) \/ Poll(s) \/ HandleSend(s) \/ HandleRecv(s)
    <3>1. why' = why
      BY <2>1 DEF GetEvent, PostWait, PollMcq, Poll, HandleSend, HandleRecv
    <3> QED
      BY <1>2, <3>1
  <2>2. CASE HandleError(s)
    <3>1. Fails(s, "status")
      BY <2>2 DEF HandleError
    <3> QED
      BY <1>1, <3>1
  <2>3. CASE VerifyFails(s)
    <3>1. pc[s] = "handle" /\ Head(batch[s]) = "recv" /\ Fails(s, "verify")
      BY <2>3 DEF VerifyFails
    <3>2. Cc /\ batch[s] \in Seq(Statuses) /\ batch[s] # <<>>
      BY <3>1 DEF CcInv, StateTypes, Loop
    <3>3. Came(s)
      <4>1. In(Head(batch[s]), batch[s])
        BY <3>2, TailIn
      <4> QED
        BY <3>1, <4>1 DEF Came
    <3>4. t # s => why[t] = "verify"
      BY <3>1 DEF Fails
    <3> QED
      BY <2>3, <3>2, <3>3, <3>4
  <2> QED
    BY <1>4, <2>1, <2>2, <2>3 DEF CcLoop
<1>5. ASSUME NEW s \in Sides, TaskLoop(s) PROVE why[t] = "verify"
  <2>1. why' = why \/ Fails(s, "send")
    BY <1>5 DEF TaskLoop, PollRecv, PostTask, Sent, NotSent
  <2> QED
    BY <1>1, <1>2, <2>1
<1>6. ASSUME NEW s \in Sides, Nic(s) \/ Kill(s) PROVE why[t] = "verify"
  <2>1. why' = why
    BY <1>6 DEF Nic, Deliver, Acknowledge, GivesUp, Manage, Kill, mainVars
  <2> QED
    BY <1>2, <2>1
<1>7. CASE UNCHANGED vars
  BY <1>2, <1>7 DEF vars, runVars, mainVars
<1> QED
  BY <1>3, <1>4, <1>5, <1>6, <1>7 DEF Next, Main

\* The domains of the data.
LEMMA DataDomains ==
    ASSUME [Next]_vars, DOMAIN why = Sides, DOMAIN net_buf = Sides, DOMAIN last = Sides
    PROVE  DOMAIN why' = Sides /\ DOMAIN net_buf' = Sides /\ DOMAIN last' = Sides
<1>1. /\ why' = why \/ \E s, r : Fails(s, r)
      /\ net_buf' = net_buf \/ \E s \in Sides : Deliver(s)
      /\ last' = last \/ \E s \in Sides : HandleRecv(s)
  <2>1. CASE Exchange
    <3>1. net_buf' = net_buf /\ last' = last
      BY <2>1 DEF Exchange, ClientAddress, ServerConnect, ReadAddress, ReadDone, PeerGone, nicVars
    <3>2. why' = why \/ \E s, r : Fails(s, r)
      BY <2>1 DEF Exchange, ClientAddress, ServerConnect, ReadAddress, ReadDone, PeerGone
    <3> QED
      BY <3>1, <3>2
  <2>2. ASSUME NEW s \in Sides, CcLoop(s)
        PROVE  /\ why' = why \/ \E r : Fails(s, r)
               /\ net_buf' = net_buf
               /\ last' = last \/ HandleRecv(s)
    <3>1. CASE GetEvent(s) \/ PostWait(s) \/ PollMcq(s) \/ Poll(s) \/ HandleSend(s)
      BY <3>1 DEF GetEvent, PostWait, PollMcq, Poll, HandleSend
    <3>2. CASE HandleRecv(s)
      BY <3>2 DEF HandleRecv
    <3>3. CASE VerifyFails(s) \/ HandleError(s)
      BY <3>3 DEF VerifyFails, HandleError, nicVars
    <3> QED
      BY <2>2, <3>1, <3>2, <3>3 DEF CcLoop
  <2>3. ASSUME NEW s \in Sides, TaskLoop(s)
        PROVE  (why' = why \/ \E r : Fails(s, r)) /\ net_buf' = net_buf /\ last' = last
    <3>1. CASE PollRecv(s) \/ PostTask(s) \/ Sent(s)
      BY <3>1 DEF PollRecv, PostTask, Sent
    <3>2. CASE NotSent(s)
      BY <3>2 DEF NotSent, nicVars
    <3> QED
      BY <2>3, <3>1, <3>2 DEF TaskLoop
  <2>4. ASSUME NEW s \in Sides, Nic(s)
        PROVE  why' = why /\ last' = last /\ (net_buf' = net_buf \/ Deliver(s))
    BY <2>4 DEF Nic, Acknowledge, GivesUp, Manage, Deliver, mainVars
  <2>5. ASSUME NEW s \in Sides, Kill(s) PROVE UNCHANGED <<why, last, net_buf>>
    BY <2>5 DEF Kill, nicVars
  <2>6. CASE UNCHANGED vars
    BY <2>6 DEF vars, runVars, mainVars, nicVars
  <2> QED
    BY <2>1, <2>2, <2>3, <2>4, <2>5, <2>6 DEF Next, Main
<1>2. DOMAIN why' = Sides
  BY <1>1 DEF Fails
<1>3. DOMAIN net_buf' = Sides
  BY <1>1 DEF Deliver
<1>4. DOMAIN last' = Sides
  BY <1>1 DEF HandleRecv
<1> QED
  BY <1>2, <1>3, <1>4

LEMMA NextWInv ==
    ASSUME CcInv, CcInv', WInv, [Next]_vars
    PROVE  WInv'
<1>1. args' = args
  BY DEF Next, vars
<1>2. DOMAIN why' = Sides /\ DOMAIN net_buf' = Sides /\ DOMAIN last' = Sides
  BY DataDomains DEF WInv
<1>3. args \in Args /\ DOMAIN why = Sides /\ DOMAIN net_buf = Sides /\ DOMAIN last = Sides
  BY DEF WInv
<1>4. VerifyFailsAtEdges'
  <2> SUFFICES ASSUME NEW t \in Sides, why'[t] = "verify", OrderKept PROVE FALSE
    BY <1>1 DEF VerifyFailsAtEdges, OrderKept, Operand
  <2>1. why[t] # "verify"
    BY DEF WInv, VerifyFailsAtEdges, OrderKept
  <2>2. VerifyFails(t) /\ Came(t) /\ Cc
    BY <1>3, <2>1, OnlyMainVerifies
  <2>3. Received(t) = Expected(t)
    BY <1>3, <2>2, ComesAsExpected DEF WInv
  <2> QED
    BY <2>2, <2>3 DEF VerifyFails
<1>5. ASSUME Cc', OrderKept' PROVE \A t \in Sides : Words(t)'
  <2>1. Cc /\ OrderKept /\ \A t \in Sides : Words(t)
    BY <1>1, <1>5 DEF WInv, Cc, OrderKept, Operand
  <2>2. CASE Exchange
    BY <1>1, <2>1, <2>2, ExchangeWords
  <2>3. ASSUME NEW s \in Sides, CcLoop(s) PROVE \A t \in Sides : Words(t)'
    BY <1>1, <1>3, <2>1, <2>3, CcLoopWords
  <2>4. ASSUME NEW s \in Sides, TaskLoop(s) PROVE FALSE
    <3>1. pc[s] \in {"recv", "task", "scq"}
      BY <2>4 DEF TaskLoop, PollRecv, PostTask, Sent, NotSent
    <3> QED
      BY <2>1, <3>1 DEF CcInv, Loop
  <2>5. ASSUME NEW s \in Sides, Nic(s) PROVE \A t \in Sides : Words(t)'
    BY <1>1, <1>3, <2>1, <2>5, NicWords
  <2>6. ASSUME NEW s \in Sides, Kill(s) PROVE \A t \in Sides : Words(t)'
    <3>1. /\ pc' = [pc EXCEPT ![s] = "killed"]
          /\ UNCHANGED <<net_buf, last, cq, batch, pending, sq>>
      BY <2>6 DEF Kill, Goto, nicVars
    <3> QED
      BY <1>1, <2>1, <3>1, WordsMove
  <2>7. CASE UNCHANGED vars
    <3>1. UNCHANGED <<net_buf, last, cq, batch, pending, sq, pc>>
      BY <2>7 DEF vars, runVars, mainVars, nicVars
    <3>2. \A t \in Sides : (Ready(t)' => Ready(t)) /\ (Came(t)' => Came(t))
      BY <3>1 DEF Ready, Came, Out, Owes, First
    <3> QED
      BY <1>1, <2>1, <3>1, <3>2, WordsStay
  <2> QED
    BY <2>2, <2>3, <2>4, <2>5, <2>6, <2>7 DEF Next, Main
<1> QED
  BY <1>1, <1>2, <1>3, <1>4, <1>5 DEF WInv

\* --verify fails only where packing loses the order of the operands: for all
\* widths, operations, types and operands, and any number of rounds, the NIC,
\* which knows 64 bits only, computes what the host computes in the type.
THEOREM VerifyOnlyFailsAtEdges == Spec => []VerifyFailsAtEdges
<1>1. Init => WInv
  BY InitWInv
<1>2. CcInv /\ CcInv' /\ WInv /\ [Next]_vars => WInv'
  BY NextWInv
<1>3. WInv => VerifyFailsAtEdges
  BY DEF WInv
<1> QED
  BY <1>1, <1>2, <1>3, CcInvariance, PTL DEF Spec

-----------------------------------------------------------------------------
(***************************************************************************)
(* Who fails, if nothing fails and the results verify.                     *)
(***************************************************************************)
CountTypes ==
    /\ args \in Args /\ DOMAIN why = Sides
    /\ tcp \in [Sides -> {"", "addr", "done"}]
    /\ cnt \in [Sides -> [{"recv", "send"} -> Nat]]

Clean == faults = {} /\ ~OrderLost(args.op, args.type, Operand(1), Operand(2))

Rcvd(s) == cnt[s]["recv"]

\* The five stages of the exchange of addresses: nobody ends before it is over.
Starting == {"start", "exch", "done_msg"}
Meet ==
    \/ pc["client"] = "start" /\ pc["server"] = "exch" /\ tcp["client"] = "" /\ tcp["server"] = ""
    \/ /\ pc["client"] = "exch" /\ pc["server"] = "exch"
       /\ tcp["client"] = "" /\ tcp["server"] = "addr"
    \/ /\ pc["client"] = "exch" /\ pc["server"] = "done_msg"
       /\ tcp["client"] = "addr" /\ tcp["server"] = ""
    \/ pc["client"] \notin Starting /\ pc["server"] = "done_msg" /\ tcp["server"] = "done"
    \/ pc["client"] \notin Starting /\ pc["server"] \notin Starting

\* Who has the message says which side is a message ahead.
Due(s) == IF s = "server" THEN 1 ELSE 0
Turn(s) ==
    /\ Out(s) \/ Owes(s) => Rcvd("server") = Rcvd("client") + Due(s)
    /\ Came(s) => Rcvd("server") = Rcvd("client") + Due(Peer(s))

\* cc counts its SENDs: the one under way is the one the round still needs, and
\* they are as many as the messages received, with the client's first.
Sending(s) == IF "send" \in pending[s] THEN 1 ELSE 0
OneSend(s) ==
    /\ sq[s] # "none" \/ In("send", cq[s]["r"]) \/ In("send", batch[s]) => "send" \in pending[s]
    /\ sq[s] # "none" => ~In("send", cq[s]["r"]) /\ ~In("send", batch[s])
    /\ In("send", batch[s]) => ~In("send", cq[s]["r"])
    /\ Once("send", cq[s]["r"]) /\ Once("send", batch[s])

SentCount(s) == cnt[s]["send"] + Sending(s)
Answers(s)   == Owes(s) \/ (s = "client" /\ First)
Sends(s) ==
    Cc => /\ OneSend(s)
          /\ SentCount(s) <= Iters
          /\ Answers(s) => SentCount(s) + Due(s) = Rcvd(s)
          /\ ~Answers(s) => SentCount(s) + Due(s) = Rcvd(s) + 1

\* A side that is done has all its messages, and only a client of task fails,
\* or is about to, when it has and the server is done.
Finish(s) ==
    /\ pc[s] \in {"failed", "stuck", "killed"} \/ In("error", cq[s]["s"]) =>
          s = "client" /\ ~Cc /\ Rcvd(s) = Iters /\ pc[Peer(s)] = "done"
    /\ ~In("error", cq[s]["r"]) /\ ~In("error", batch[s])
    /\ pc[s] = "done" => Rcvd(s) >= Iters
    /\ ~Cc => Rcvd(s) <= Iters /\ (pc[s] = "recv" => Rcvd(s) < Iters)
    /\ pc[s] \in Starting => Rcvd(s) = 0

Peace == Meet /\ \A s \in Sides : Turn(s) /\ Sends(s) /\ Finish(s)

PInv == CountTypes /\ (Clean => Peace)

LEMMA ItersIs ==
    ASSUME CountTypes
    PROVE  Iters \in Nat \ {0} /\ (~Cc => args.program = "TASK")
BY CcAssumption DEF CountTypes, Iters, Cc

LEMMA CountedOneMore ==
    ASSUME CountTypes, NEW s \in Sides, NEW w \in {"recv", "send"},
           cnt' = [cnt EXCEPT ![s][w] = cnt[s][w] + 1]
    PROVE  cnt' \in [Sides -> [{"recv", "send"} -> Nat]]
<1>1. cnt[s] \in [{"recv", "send"} -> Nat] /\ cnt[s][w] \in Nat
  BY DEF CountTypes
<1>2. cnt[s][w] + 1 \in Nat
  BY <1>1
<1>3. [cnt[s] EXCEPT ![w] = cnt[s][w] + 1] \in [{"recv", "send"} -> Nat]
  BY <1>1, <1>2
<1>4. cnt' = [cnt EXCEPT ![s] = [cnt[s] EXCEPT ![w] = cnt[s][w] + 1]]
  OBVIOUS
<1> QED
  BY <1>3, <1>4 DEF CountTypes

LEMMA CountTypesKept ==
    ASSUME CountTypes, [Next]_vars
    PROVE  CountTypes' /\ args' = args /\ faults' = faults
<1>1. args' = args /\ faults' = faults
  BY DEF Next, vars
<1> DEFINE Named   == DOMAIN why' = Sides
           Read    == tcp' \in [Sides -> {"", "addr", "done"}]
           Counted == cnt' \in [Sides -> [{"recv", "send"} -> Nat]]
<1>2. /\ why' = why => Named
      /\ tcp' = tcp => Read
      /\ cnt' = cnt => Counted
  BY DEF CountTypes
<1>3. ASSUME NEW s, NEW r, Fails(s, r) PROVE Named
  BY <1>3 DEF Fails, CountTypes
<1>4. ASSUME NEW s \in Sides, CcLoop(s) PROVE Named /\ Read /\ Counted
  <2>1. CASE GetEvent(s) \/ PostWait(s) \/ PollMcq(s) \/ Poll(s)
    <3>1. UNCHANGED <<why, tcp, cnt>>
      BY <2>1 DEF GetEvent, PostWait, PollMcq, Poll
    <3> QED
      BY <1>2, <3>1
  <2>2. CASE HandleSend(s)
    BY <1>2, <2>2, CountedOneMore DEF HandleSend
  <2>3. CASE HandleRecv(s)
    BY <1>2, <2>3, CountedOneMore DEF HandleRecv
  <2>4. CASE VerifyFails(s) \/ HandleError(s)
    BY <1>2, <1>3, <2>4 DEF VerifyFails, HandleError
  <2> QED
    BY <1>4, <2>1, <2>2, <2>3, <2>4 DEF CcLoop
<1>5. ASSUME NEW s \in Sides, TaskLoop(s) PROVE Named /\ Read /\ Counted
  <2>1. CASE PollRecv(s)
    BY <1>2, <2>1, CountedOneMore DEF PollRecv
  <2>2. CASE PostTask(s) \/ Sent(s)
    <3>1. UNCHANGED <<why, tcp, cnt>>
      BY <2>2 DEF PostTask, Sent
    <3> QED
      BY <1>2, <3>1
  <2>3. CASE NotSent(s)
    BY <1>2, <1>3, <2>3 DEF NotSent
  <2> QED
    BY <1>5, <2>1, <2>2, <2>3 DEF TaskLoop
<1>6. ASSUME NEW s \in Sides, Nic(s) \/ Kill(s) PROVE Named /\ Read /\ Counted
  <2>1. UNCHANGED <<why, tcp, cnt>>
    BY <1>6 DEF Nic, Deliver, Acknowledge, GivesUp, Manage, Kill, mainVars
  <2> QED
    BY <1>2, <2>1
<1>7. ASSUME Exchange PROVE Named /\ Read /\ Counted
  <2>1. Read
    BY <1>7 DEF CountTypes, Exchange, ClientAddress, ServerConnect, ReadAddress, ReadDone, PeerGone
  <2>2. cnt' = cnt /\ (why' = why \/ \E s \in Sides : Fails(s, "exchange"))
    BY <1>7 DEF Exchange, ClientAddress, ServerConnect, ReadAddress, ReadDone, PeerGone
  <2> QED
    BY <1>2, <1>3, <2>1, <2>2
<1>8. ASSUME UNCHANGED vars PROVE Named /\ Read /\ Counted
  <2>1. UNCHANGED <<why, tcp, cnt>>
    BY <1>8 DEF vars, runVars, mainVars
  <2> QED
    BY <1>2, <2>1
<1>9. Named /\ Read /\ Counted
  BY <1>4, <1>5, <1>6, <1>7, <1>8 DEF Next, Main
<1> QED
  BY <1>1, <1>9 DEF CountTypes

LEMMA InitPInv == Init => PInv
<1> SUFFICES ASSUME Init PROVE PInv
  OBVIOUS
<1>1. CountTypes
  BY DEF Init, CountTypes
<1>2. \A s \in Sides : /\ cq[s]["r"] = <<>> /\ cq[s]["s"] = <<>> /\ batch[s] = <<>>
                       /\ pending[s] = {"recv"} /\ sq[s] = "none"
                       /\ cnt[s]["recv"] = 0 /\ cnt[s]["send"] = 0
                       /\ pc[s] = IF s = "client" THEN "start" ELSE "exch"
  BY DEF Init
<1>3. "client" \in Sides /\ "server" \in Sides
  BY BothSides
<1>4. Meet
  BY <1>2, <1>3 DEF Init, Meet
<1>5. First
  BY <1>2, <1>3 DEF First
<1>6. ASSUME NEW s \in Sides PROVE Turn(s) /\ Sends(s) /\ Finish(s)
  <2>1. ~Out(s) /\ ~Owes(s) /\ ~Came(s)
    BY <1>2, NothingIn DEF Out, Owes, Came
  <2>2. Turn(s)
    BY <2>1 DEF Turn
  <2>3. OneSend(s)
    BY <1>2, NothingIn DEF OneSend
  <2>4. SentCount(s) = 0 /\ Rcvd(s) = 0 /\ Iters \in Nat \ {0}
    BY <1>1, <1>2, ItersIs DEF SentCount, Sending, Rcvd
  <2>5. Sends(s)
    <3>1. CASE s = "client"
      <4>1. Answers(s) /\ Due(s) = 0
        BY <1>5, <3>1 DEF Answers, Due
      <4> QED
        BY <2>3, <2>4, <4>1 DEF Sends
    <3>2. CASE s = "server"
      <4>1. ~Answers(s) /\ Due(s) = 1
        BY <2>1, <3>2 DEF Answers, Due
      <4> QED
        BY <2>3, <2>4, <4>1 DEF Sends
    <3> QED
      BY <3>1, <3>2 DEF Sides
  <2>6. Finish(s)
    BY <1>2, <2>4, NothingIn DEF Finish
  <2> QED
    BY <2>2, <2>5, <2>6
<1> QED
  BY <1>1, <1>4, <1>6 DEF PInv, Peace

LEMMA CountsAre ==
    ASSUME CountTypes, NEW s \in Sides
    PROVE  /\ Rcvd(s) \in Nat /\ cnt[s]["send"] \in Nat
           /\ Sending(s) \in {0, 1} /\ SentCount(s) \in Nat
           /\ Due(s) \in {0, 1}
<1>1. cnt[s]["recv"] \in Nat /\ cnt[s]["send"] \in Nat
  BY DEF CountTypes
<1>2. Sending(s) \in {0, 1} /\ Due(s) \in {0, 1}
  BY DEF Sending, Due
<1> QED
  BY <1>1, <1>2 DEF Rcvd, SentCount

\* A side that is left alone.
LEMMA PeaceLeftAlone ==
    ASSUME CcInv, Peace, args' = args, NEW t \in Sides,
           pc'[t] = pc[t], sq'[t] = sq[t], cq'[t] = cq[t], batch'[t] = batch[t],
           pending'[t] = pending[t], mq'[t] = mq[t], cnt'[t] = cnt[t],
           pc'[Peer(t)] = pc[Peer(t)] \/ pc[Peer(t)] # "done"
    PROVE  Sends(t)' /\ Finish(t)'
<1>0. Sends(t) /\ Finish(t)
  BY DEF Peace
<1>1. /\ Cc' <=> Cc
      /\ Iters' = Iters
  BY DEF Cc, Iters
<1>2. Rcvd(t)' = Rcvd(t) /\ SentCount(t)' = SentCount(t)
  BY DEF Rcvd, SentCount, Sending
<1>3. Owes(t)' <=> Owes(t)
  BY DEF Owes
<1>4. t = "client" => (First' <=> First)
  BY DEF First
<1>5. Answers(t)' <=> Answers(t)
  BY <1>3, <1>4 DEF Answers
<1>6. Cc => OneSend(t)'
  BY <1>0 DEF Sends, OneSend
<1>7. Sends(t)'
  BY <1>0, <1>1, <1>2, <1>5, <1>6 DEF Sends, Due
<1>8. Finish(t)'
  BY <1>0, <1>1, <1>2 DEF Finish
<1> QED
  BY <1>7, <1>8

\* A step of one side's.
LEMMA PeaceStep ==
    ASSUME CcInv, Peace, args' = args, NEW s \in Sides,
           \A t \in Sides \ {s} :
               /\ pc'[t] = pc[t] /\ sq'[t] = sq[t] /\ cq'[t] = cq[t] /\ batch'[t] = batch[t]
               /\ pending'[t] = pending[t] /\ mq'[t] = mq[t] /\ cnt'[t] = cnt[t],
           pc'[s] = pc[s] \/ pc[s] # "done",
           Rcvd(s)' = Rcvd(s) \/ Has(s),
           Meet', Turn(s)', Sends(s)', Finish(s)'
    PROVE  Peace'
<1>1. PICK p \in Sides \ {s} : p = Peer(s) /\ s = Peer(p)
  BY BothSides
<1>2. Sends(p)' /\ Finish(p)'
  BY <1>1, PeaceLeftAlone
<1>3. Turn(p)'
  <2>1. /\ Out(p)' <=> Out(p)
        /\ Came(p)' <=> Came(p)
        /\ Owes(p)' <=> Owes(p)
    BY <1>1, LeftAlone
  <2>2. CASE Rcvd(s)' = Rcvd(s)
    <3>1. Rcvd(p)' = Rcvd(p)
      BY <1>1 DEF Rcvd
    <3>2. /\ Rcvd("client")' = Rcvd("client")
          /\ Rcvd("server")' = Rcvd("server")
      BY <1>1, <2>2, <3>1, BothSides
    <3>3. Turn(p)
      BY <1>1 DEF Peace
    <3>4. Turn(p)' <=> /\ Out(p)' \/ Owes(p)' => Rcvd("server")' = Rcvd("client")' + Due(p)
                       /\ Came(p)' => Rcvd("server")' = Rcvd("client")' + Due(Peer(p))
      BY DEF Turn, Due, Peer
    <3> QED
      BY <2>1, <3>2, <3>3, <3>4 DEF Turn
  <2>3. CASE Has(s)
    <3>1. ~Out(p) /\ ~Came(p) /\ ~Owes(p)
      BY <1>1, <2>3 DEF CcInv, OneTurn, Has
    <3> QED
      BY <2>1, <3>1 DEF Turn
  <2> QED
    BY <2>2, <2>3
<1> QED
  BY <1>1, <1>2, <1>3, BothSides DEF Peace

\* Main goes on elsewhere, and nothing of the message or the counts changes.
LEMMA QuietStep ==
    ASSUME CcInv, CountTypes, Peace, args' = args, NEW s \in Sides, NEW w, Goto(s, w), Meet',
           sq' = sq, batch' = batch, pending' = pending, cnt' = cnt,
           \A t \in Sides \ {s} : cq'[t] = cq[t] /\ mq'[t] = mq[t],
           cq'[s]["r"] = cq[s]["r"], In("error", cq'[s]["s"]) => In("error", cq[s]["s"]),
           pc[s] \notin {"task"} \cup Ended, w \notin {"task", "failed", "stuck", "killed"},
           w \in Starting => pc[s] \in Starting,
           s = "client" => (w \in {"start", "exch"} <=> First),
           w = "done" => Rcvd(s) >= Iters,
           ~Cc /\ w = "recv" => Rcvd(s) < Iters
    PROVE  Peace'
<1>0. Turn(s) /\ Sends(s) /\ Finish(s) /\ StateTypes
  BY DEF Peace, CcInv
<1>1. pc' = [pc EXCEPT ![s] = w] /\ pc'[s] = w
  BY <1>0 DEF Goto, StateTypes
<1>2. \A t \in Sides \ {s} :
          /\ pc'[t] = pc[t] /\ sq'[t] = sq[t] /\ cq'[t] = cq[t] /\ batch'[t] = batch[t]
          /\ pending'[t] = pending[t] /\ mq'[t] = mq[t] /\ cnt'[t] = cnt[t]
  BY <1>0, <1>1 DEF StateTypes
<1>3. /\ Cc' <=> Cc
      /\ Iters' = Iters
  BY DEF Cc, Iters
<1>4. \A t \in Sides : Rcvd(t)' = Rcvd(t)
  BY DEF Rcvd
<1>5. SentCount(s)' = SentCount(s)
  BY DEF SentCount, Sending
<1>6. /\ Out(s)' <=> Out(s)
      /\ Came(s)' <=> Came(s)
      /\ Owes(s)' <=> Owes(s)
  BY <1>1 DEF Out, Came, Owes
<1>7. s = "client" => (First' <=> First)
  BY <1>1 DEF First
<1>8. Answers(s)' <=> Answers(s)
  BY <1>6, <1>7 DEF Answers
<1>9. Turn(s)'
  <2>1. /\ Rcvd("client")' = Rcvd("client")
        /\ Rcvd("server")' = Rcvd("server")
    BY <1>4, BothSides
  <2> QED
    BY <1>0, <1>6, <2>1 DEF Turn, Due, Peer
<1>10. Cc => OneSend(s)'
  BY <1>0 DEF Sends, OneSend
<1>11. Sends(s)'
  BY <1>0, <1>3, <1>4, <1>5, <1>8, <1>10 DEF Sends, Due
<1>12. Finish(s)'
  <2>1. In("error", cq[s]["s"]) => s = "client" /\ ~Cc /\ Rcvd(s) = Iters /\ pc[Peer(s)] = "done"
    BY <1>0 DEF Finish
  <2>2. pc'[Peer(s)] = pc[Peer(s)]
    BY <1>2, BothSides
  <2>3. /\ pc[s] \in Starting => Rcvd(s) = 0
        /\ ~Cc => Rcvd(s) <= Iters
    BY <1>0 DEF Finish
  <2>4. ~In("error", cq'[s]["r"]) /\ ~In("error", batch'[s])
    BY <1>0 DEF Finish
  <2> QED
    BY <1>1, <1>3, <1>4, <2>1, <2>2, <2>3, <2>4 DEF Finish
<1> QED
  BY <1>1, <1>2, <1>4, <1>9, <1>11, <1>12, PeaceStep DEF Ended

\* In the loops the exchange of addresses is over.
LEMMA LoopMeet ==
    ASSUME CcInv, Peace, NEW s \in Sides, NEW w, pc' = [pc EXCEPT ![s] = w], tcp' = tcp,
           pc[s] \notin Starting, w \notin Starting
    PROVE  Meet'
<1>1. "client" \in Sides /\ "server" \in Sides /\ DOMAIN pc = Sides /\ Meet
  BY BothSides DEF CcInv, StateTypes, Peace
<1>2. CASE s = "client"
  <2>1. pc'["client"] = w /\ pc'["server"] = pc["server"]
    BY <1>1, <1>2
  <2> QED
    BY <1>1, <1>2, <2>1 DEF Meet, Starting
<1>3. CASE s = "server"
  <2>1. pc'["server"] = w /\ pc'["client"] = pc["client"]
    BY <1>1, <1>3
  <2> QED
    BY <1>1, <1>3, <2>1 DEF Meet, Starting
<1> QED
  BY <1>2, <1>3 DEF Sides

LEMMA ExchangePeace ==
    ASSUME CcInv, CcInv', CountTypes, Peace, args' = args, Exchange
    PROVE  Peace'
<1>0. /\ StateTypes /\ Meet /\ "client" \in Sides /\ "server" \in Sides
      /\ DOMAIN pc = Sides /\ DOMAIN tcp = Sides
  BY BothSides DEF CcInv, StateTypes, Peace, CountTypes
<1>1. CASE ClientAddress
  <2>1. /\ pc["client"] = "start" /\ Goto("client", "exch")
        /\ pc' = [pc EXCEPT !["client"] = "exch"]
        /\ tcp' = [tcp EXCEPT !["server"] = "addr"]
        /\ sq' = sq /\ batch' = batch /\ pending' = pending /\ mq' = mq /\ cq' = cq /\ cnt' = cnt
    BY <1>1 DEF ClientAddress, nicVars, Goto
  <2>2. /\ pc'["client"] = "exch" /\ pc'["server"] = pc["server"]
        /\ tcp'["server"] = "addr" /\ tcp'["client"] = tcp["client"]
    BY <1>0, <2>1
  <2>3. Meet'
    BY <1>0, <2>1, <2>2 DEF Meet, Starting
  <2>4. First
    BY <2>1 DEF First
  <2> QED
    BY <1>0, <2>1, <2>3, <2>4, QuietStep DEF Starting, Ended
<1>2. CASE ServerConnect
  <2>1. /\ pc["server"] = "exch" /\ tcp["server"] = "addr"
        /\ Goto("server", "done_msg") /\ pc' = [pc EXCEPT !["server"] = "done_msg"]
        /\ tcp' = [tcp EXCEPT !["client"] = "addr", !["server"] = ""]
        /\ sq' = sq /\ batch' = batch /\ pending' = pending /\ mq' = mq /\ cq' = cq /\ cnt' = cnt
    BY <1>2 DEF ServerConnect, nicVars, Goto
  <2>2. /\ pc'["server"] = "done_msg" /\ pc'["client"] = pc["client"]
        /\ tcp'["server"] = "" /\ tcp'["client"] = "addr"
    BY <1>0, <2>1
  <2>3. Meet'
    BY <1>0, <2>1, <2>2 DEF Meet, Starting
  <2> QED
    BY <1>0, <2>1, <2>3, QuietStep DEF Starting, Ended
<1>3. CASE ReadDone
  <2> DEFINE w == Top
  <2>1. /\ pc["server"] = "done_msg" /\ tcp["server"] = "done"
        /\ Goto("server", w) /\ pc' = [pc EXCEPT !["server"] = w]
        /\ tcp' = [tcp EXCEPT !["server"] = ""]
        /\ sq' = sq /\ batch' = batch /\ pending' = pending /\ mq' = mq /\ cq' = cq /\ cnt' = cnt
    BY <1>3 DEF ReadDone, nicVars, Goto
  <2>2. w \in {"event", "wait", "poll", "recv"}
    BY TopIs
  <2> HIDE DEF w
  <2>3. /\ pc'["server"] = w /\ pc'["client"] = pc["client"]
    BY <1>0, <2>1
  <2>4. Meet'
    BY <1>0, <2>1, <2>2, <2>3 DEF Meet, Starting
  <2>5. Rcvd("server") = 0 /\ Iters \in Nat \ {0}
    BY <1>0, <2>1, ItersIs DEF Peace, Finish, Starting
  <2>6. Rcvd("server") < Iters
    BY <2>5
  <2> QED
    BY <1>0, <2>1, <2>2, <2>4, <2>6, QuietStep DEF Starting, Ended
<1>4. CASE \E s \in Sides : PeerGone(s)
  <2>1. PICK s \in Sides : pc[s] \in {"exch", "done_msg"} /\ tcp[s] = "" /\ pc[Peer(s)] \in Ended
    BY <1>4 DEF PeerGone
  <2>2. CASE s = "client"
    BY <1>0, <2>1, <2>2 DEF Meet, Starting, Ended, Peer
  <2>3. CASE s = "server"
    BY <1>0, <2>1, <2>3 DEF Meet, Starting, Ended, Peer
  <2> QED
    BY <2>2, <2>3 DEF Sides
<1>5. CASE ReadAddress
  <2> DEFINE w == IF Cc THEN Top ELSE "mcq"
  <2>1. /\ pc["client"] = "exch" /\ tcp["client"] = "addr" /\ pc' = [pc EXCEPT !["client"] = w]
        /\ tcp' = [tcp EXCEPT !["client"] = "",
                              !["server"] = IF pc["server"] \in Ended THEN tcp["server"] ELSE "done"]
        /\ sq' = [sq EXCEPT !["client"] = IF Cc THEN "posted" ELSE "held"]
        /\ pending' = [pending EXCEPT !["client"] = {"recv", "send"}]
        /\ mq' = [mq EXCEPT !["client"] = IF Cc THEN mq["client"] ELSE <<"enable_signaled">>]
        /\ cq' = cq /\ batch' = batch /\ cnt' = cnt
    BY <1>5 DEF ReadAddress, Goto
  <2>2. w \in {"event", "wait", "poll", "mcq"}
    BY TopIs
  <2> HIDE DEF w
  <2>3. pc["server"] = "done_msg"
    BY <1>0, <2>1 DEF Meet, Starting
  <2>4. /\ pc'["client"] = w /\ pc'["server"] = "done_msg" /\ tcp'["server"] = "done"
    BY <1>0, <2>1, <2>3 DEF Ended
  <2>5. Meet'
    BY <2>2, <2>4 DEF Meet, Starting
  <2>6. /\ sq'["client"] \in {"posted", "held"} /\ (Cc => sq'["client"] = "posted")
        /\ pending'["client"] = {"recv", "send"}
    BY <1>0, <2>1 DEF StateTypes
  <2>7. Sends("client") /\ Finish("client") /\ Finish("server")
    BY <1>0 DEF Peace
  <2>8. Rcvd("client") = 0 /\ Rcvd("server") = 0
    BY <2>1, <2>3, <2>7 DEF Finish, Starting
  <2>9. Rcvd("client")' = 0 /\ Rcvd("server")' = 0
    BY <2>1, <2>8 DEF Rcvd
  <2>10. Out("client")' /\ ~Came("client")' /\ ~Owes("client")' /\ ~First'
    <3>1. Out("client")'
      BY <2>6 DEF Out
    <3>2. OneTurn("client")'
      BY <1>0 DEF CcInv
    <3> QED
      BY <2>2, <2>4, <3>1, <3>2 DEF OneTurn, First
  <2>11. Turn("client")'
    <3>1. Due("client") = 0
      BY DEF Due
    <3>2. Rcvd("server")' = Rcvd("client")' + Due("client")
      BY <2>9, <3>1
    <3> QED
      BY <2>10, <3>2 DEF Turn, Due
  <2>12. Sends("client")'
    <3>1. SUFFICES ASSUME Cc, Cc' PROVE Sends("client")'
      BY DEF Cc, Sends
    <3>2. Answers("client")
      BY <2>1 DEF Answers, First
    <3>3. SentCount("client") = 0
      <4>1. SentCount("client") + Due("client") = Rcvd("client") /\ Due("client") = 0
        BY <2>7, <3>1, <3>2 DEF Sends, Due
      <4> QED
        BY <2>8, <4>1, CountsAre, <1>0
    <3>4. cnt["client"]["send"] = 0 /\ Sending("client") = 0
      BY <1>0, <3>3, CountsAre DEF SentCount
    <3>5. "send" \notin pending["client"]
      BY <3>4 DEF Sending
    <3>6. ~In("send", cq["client"]["r"]) /\ ~In("send", batch["client"]) /\ OneSend("client")
      BY <2>7, <3>1, <3>5 DEF Sends, OneSend
    <3>7. OneSend("client")'
      BY <2>1, <2>6, <3>6 DEF OneSend
    <3>8. SentCount("client")' = 1
      <4>1. Sending("client")' = 1
        BY <2>6 DEF Sending
      <4>2. cnt'["client"]["send"] = 0
        BY <2>1, <3>4
      <4>3. SentCount("client")' = cnt'["client"]["send"] + Sending("client")'
        BY DEF SentCount
      <4> QED
        BY <4>1, <4>2, <4>3
    <3>9. ~Answers("client")'
      BY <2>10 DEF Answers
    <3>10. Iters' \in Nat \ {0} /\ Due("client") = 0
      BY ItersIs DEF Iters, Due
    <3>11. SentCount("client")' <= Iters' /\ SentCount("client")' + 0 = Rcvd("client")' + 1
      BY <2>9, <3>8, <3>10
    <3> QED
      BY <3>7, <3>9, <3>10, <3>11 DEF Sends, Due
  <2>13. Finish("client")'
    <3>1. /\ Rcvd("client")' = 0 /\ Iters' = Iters /\ Iters \in Nat \ {0}
          /\ Cc' <=> Cc
      BY <2>9, ItersIs DEF Iters, Cc
    <3>2. /\ ~In("error", cq'["client"]["s"])
          /\ ~In("error", cq'["client"]["r"]) /\ ~In("error", batch'["client"])
      BY <2>1, <2>3, <2>7 DEF Finish, Peer
    <3>3. 0 <= Iters
      BY <3>1
    <3> QED
      BY <2>2, <2>4, <3>1, <3>2, <3>3 DEF Finish, Starting
  <2>14. \A t \in Sides \ {"client"} :
             /\ pc'[t] = pc[t] /\ sq'[t] = sq[t] /\ cq'[t] = cq[t] /\ batch'[t] = batch[t]
             /\ pending'[t] = pending[t] /\ mq'[t] = mq[t] /\ cnt'[t] = cnt[t]
    BY <1>0, <2>1 DEF StateTypes
  <2> QED
    BY <1>0, <2>1, <2>5, <2>8, <2>9, <2>11, <2>12, <2>13, <2>14, PeaceStep
<1> QED
  BY <1>1, <1>2, <1>3, <1>4, <1>5 DEF Exchange

-----------------------------------------------------------------------------
LEMMA PollPeace ==
    ASSUME CcInv, CcInv', CountTypes, Peace, NEW s \in Sides, args' = args, Poll(s)
    PROVE  Peace'
<1> DEFINE q == cq[s]["r"]
           n == IF Len(q) < 2 THEN Len(q) ELSE 2
           w == IF n = 0 THEN Top ELSE "handle"
           b == SubSeq(q, 1, n)
           r == SubSeq(q, n + 1, Len(q))
<1>0. /\ StateTypes /\ Turn(s) /\ Sends(s) /\ Finish(s)
      /\ OneTurn(s) /\ OneTurn(s)' /\ Loop(s) /\ OneMessage(s)
  BY DEF CcInv, Peace
<1>1. /\ pc[s] = "poll" /\ pc' = [pc EXCEPT ![s] = w] /\ batch' = [batch EXCEPT ![s] = b]
      /\ cq' = [cq EXCEPT ![s]["r"] = r]
      /\ sq' = sq /\ pending' = pending /\ mq' = mq /\ cnt' = cnt /\ tcp' = tcp
  BY DEF Poll, Goto
<1>2. Cc /\ Cc' /\ Iters' = Iters
  BY <1>0, <1>1 DEF Loop, Cc, Iters
<1>3. q \in Seq(Statuses) /\ n \in 0 .. Len(q) /\ Once("send", q)
  BY <1>0, <1>2 DEF StateTypes, Sends, OneSend
<1>4. /\ In("send", b) \/ In("send", r) => In("send", q)
      /\ Once("send", b) /\ Once("send", r) /\ (In("send", b) => ~In("send", r))
  <2> HIDE DEF q, n
  <2> QED
    BY <1>3, SplitIn
<1>5. /\ ~In("error", b) /\ ~In("error", r)
      /\ In("recv", b) \/ In("recv", r) => In("recv", q)
  <2>1. ~In("error", q) /\ Once("recv", q)
    BY <1>0 DEF Finish, OneMessage
  <2>2. Once("error", q)
    BY <2>1 DEF In, Once
  <2> HIDE DEF q, n
  <2> QED
    BY <1>3, <2>1, <2>2, SplitIn
<1>6. w \in {"event", "wait", "poll", "handle"}
  BY <1>2, TopIs
<1> HIDE DEF q, n, w, b, r
<1>7. pc'[s] = w /\ batch'[s] = b /\ cq'[s]["r"] = r /\ cq'[s]["s"] = cq[s]["s"]
  BY <1>0, <1>1 DEF StateTypes
<1>8. \A t \in Sides \ {s} :
          /\ pc'[t] = pc[t] /\ sq'[t] = sq[t] /\ cq'[t] = cq[t] /\ batch'[t] = batch[t]
          /\ pending'[t] = pending[t] /\ mq'[t] = mq[t] /\ cnt'[t] = cnt[t]
  BY <1>0, <1>1 DEF StateTypes
<1>9. Meet'
  BY <1>1, <1>6, LoopMeet DEF Starting
<1>10. \A t \in Sides : Rcvd(t)' = Rcvd(t)
  BY <1>1 DEF Rcvd
<1>11. /\ Out(s)' <=> Out(s)
       /\ Came(s)' => Came(s)
       /\ Owes(s)' <=> Owes(s)
  <2>1. Came(s)' => Came(s)
    BY <1>5, <1>7 DEF Came, q
  <2> QED
    BY <1>1, <1>6, <1>7, <2>1 DEF Out, Owes
<1>12. Turn(s)'
  <2>1. /\ Rcvd("client")' = Rcvd("client")
        /\ Rcvd("server")' = Rcvd("server")
    BY <1>10, BothSides
  <2> QED
    BY <1>0, <1>11, <2>1 DEF Turn, Due, Peer
<1>13. Sends(s)'
  <2>1. SentCount(s)' = SentCount(s)
    BY <1>1 DEF SentCount, Sending
  <2>2. s = "client" => ~First /\ ~First'
    BY <1>1, <1>6, <1>7 DEF First
  <2>3. Answers(s)' <=> Answers(s)
    BY <1>11, <2>2 DEF Answers
  <2>4. OneSend(s)
    BY <1>0, <1>2 DEF Sends
  <2>6. OneSend(s)'
    BY <1>1, <1>4, <1>7, <2>4 DEF OneSend, q
  <2> QED
    BY <1>0, <1>2, <1>10, <2>1, <2>3, <2>6 DEF Sends, Due
<1>14. Finish(s)'
  <2>1. In("error", cq[s]["s"]) => FALSE
    BY <1>0, <1>2 DEF Finish
  <2> QED
    BY <1>2, <1>5, <1>6, <1>7, <2>1 DEF Finish, Starting
<1> QED
  BY <1>1, <1>8, <1>9, <1>10, <1>12, <1>13, <1>14, PeaceStep

\* Who takes a message is then the one to answer.
LEMMA TurnTaken ==
    ASSUME CountTypes, NEW s \in Sides, Rcvd("server") = Rcvd("client") + Due(Peer(s)),
           Rcvd(s)' = Rcvd(s) + 1, Rcvd(Peer(s))' = Rcvd(Peer(s))
    PROVE  Rcvd("server")' = Rcvd("client")' + Due(s)
<1>0. Rcvd("client") \in Nat /\ Rcvd("server") \in Nat
  BY BothSides, CountsAre
<1>1. CASE s = "client"
  <2>1. Rcvd("client")' = Rcvd("client") + 1 /\ Rcvd("server")' = Rcvd("server")
    BY <1>1 DEF Peer
  <2>2. Due(s) = 0 /\ Due(Peer(s)) = 1
    BY <1>1 DEF Due, Peer
  <2> QED
    BY <1>0, <2>1, <2>2
<1>2. CASE s = "server"
  <2>1. Rcvd("server")' = Rcvd("server") + 1 /\ Rcvd("client")' = Rcvd("client")
    BY <1>2 DEF Peer
  <2>2. Due(s) = 1 /\ Due(Peer(s)) = 0
    BY <1>2 DEF Due, Peer
  <2> QED
    BY <1>0, <2>1, <2>2
<1> QED
  BY <1>1, <1>2 DEF Sides

LEMMA GoesOnPeace ==
    ASSUME CcInv, CcInv', CountTypes, CountTypes', Peace, NEW s \in Sides,
           NEW what \in {"recv", "send"}, args' = args, tcp' = tcp,
           pc[s] = "handle", Head(batch[s]) = what, GoesOn(s, what), UNCHANGED <<cq, mq>>,
           cnt' = [cnt EXCEPT ![s][what] = cnt[s][what] + 1]
    PROVE  Peace'
<1> DEFINE b == Tail(batch[s])
           more == \E v \in {"recv", "send"} : cnt'[s][v] < Iters
           w == IF Len(batch[s]) > 1 THEN "handle" ELSE IF more THEN Top ELSE "done"
           z == IF RoundOver(s, what) THEN "posted" ELSE sq[s]
           k == IF RoundOver(s, what) THEN {"recv", "send"} ELSE pending[s] \ {what}
<1>0. /\ StateTypes /\ Turn(s) /\ Sends(s) /\ Finish(s)
      /\ OneTurn(s) /\ OneTurn(s)' /\ Loop(s) /\ OneMessage(s)
  BY DEF CcInv, Peace
<1>1. /\ pc' = [pc EXCEPT ![s] = w] /\ batch' = [batch EXCEPT ![s] = b]
      /\ sq' = [sq EXCEPT ![s] = z] /\ pending' = [pending EXCEPT ![s] = k]
      /\ cq' = cq /\ mq' = mq
  BY <1>0 DEF GoesOn, Goto, StateTypes
<1>2. Cc /\ Cc' /\ Iters' = Iters /\ Iters \in Nat
  BY <1>0, ItersIs DEF Loop, Cc, Iters
<1>3. /\ batch[s] \in Seq(Statuses) /\ batch[s] # <<>>
      /\ Once("recv", batch[s]) /\ Once("send", batch[s])
  BY <1>0, <1>2 DEF StateTypes, Loop, OneMessage, Sends, OneSend
<1>4. /\ In("recv", b) => In("recv", batch[s])
      /\ In("send", b) => In("send", batch[s])
      /\ In("error", b) => In("error", batch[s])
      /\ Once("send", b) /\ In(what, batch[s]) /\ ~In(what, b)
  BY <1>3, TailIn
<1>5. w \in {"event", "wait", "poll", "handle", "done"} /\ (w = "done" => ~more)
  BY <1>2, TopIs
<1>6. w = "done" => Rcvd(s)' >= Iters
  <2>1. ~more => ~(cnt'[s]["recv"] < Iters)
    OBVIOUS
  <2>2. Rcvd(s)' \in Nat /\ Rcvd(s)' = cnt'[s]["recv"]
    BY DEF CountTypes, Rcvd
  <2> HIDE DEF more, w
  <2>3. w = "done" => ~(cnt'[s]["recv"] < Iters)
    BY <1>5, <2>1
  <2> QED
    BY <1>2, <2>2, <2>3
<1>7. RoundOver(s, what) => /\ z = "posted" /\ k = {"recv", "send"} /\ pending[s] \subseteq {what}
                            /\ cnt'[s]["send"] < Iters
  BY DEF RoundOver
<1>8. ~RoundOver(s, what) => z = sq[s] /\ k = pending[s] \ {what}
  OBVIOUS
<1> HIDE DEF b, more, w, z, k
<1>9. pc'[s] = w /\ batch'[s] = b /\ sq'[s] = z /\ pending'[s] = k
  BY <1>0, <1>1 DEF StateTypes
<1>10. \A t \in Sides \ {s} :
          /\ pc'[t] = pc[t] /\ sq'[t] = sq[t] /\ cq'[t] = cq[t] /\ batch'[t] = batch[t]
          /\ pending'[t] = pending[t] /\ mq'[t] = mq[t] /\ cnt'[t] = cnt[t]
  BY <1>0, <1>1 DEF StateTypes, CountTypes
<1>11. Meet'
  BY <1>1, <1>5, LoopMeet DEF Starting
<1>12. ~(s = "client" /\ First) /\ ~(s = "client" /\ First')
  BY <1>5, <1>9 DEF First
<1>13. /\ cnt[s]["recv"] \in Nat /\ cnt[s]["send"] \in Nat
       /\ what = "recv" => cnt'[s]["recv"] = cnt[s]["recv"] + 1 /\ cnt'[s]["send"] = cnt[s]["send"]
       /\ what = "send" => cnt'[s]["send"] = cnt[s]["send"] + 1 /\ cnt'[s]["recv"] = cnt[s]["recv"]
  <2>1. cnt[s]["recv"] \in Nat /\ cnt[s]["send"] \in Nat
    BY CountsAre DEF Rcvd
  <2>2. DOMAIN cnt = Sides /\ DOMAIN cnt[s] = {"recv", "send"}
    BY DEF CountTypes
  <2>3. cnt'[s] = [cnt[s] EXCEPT ![what] = cnt[s][what] + 1]
    BY <2>2
  <2> QED
    BY <2>1, <2>2, <2>3
<1>14. what = "recv" => Came(s)
  BY <1>4 DEF Came
<1>15. pending[s] \subseteq {what} /\ what = "send" => Owes(s)
  BY DEF Owes
<1>16. Has(s) \/ what = "send"
  BY <1>14 DEF Has
<1>17. RoundOver(s, what) => ~Owes(s)'
  BY <1>5, <1>7, <1>9 DEF Owes
<1>18. ~RoundOver(s, what) => IF what = "recv" THEN Owes(s)' ELSE (Owes(s)' <=> Owes(s))
  BY <1>5, <1>8, <1>9 DEF Owes
<1>19. Finish(s)'
  <2>1. ~In("error", cq'[s]["s"])
    BY <1>0, <1>1, <1>2 DEF Finish
  <2>2. ~In("error", cq'[s]["r"]) /\ ~In("error", batch'[s])
    BY <1>0, <1>1, <1>4, <1>9 DEF Finish
  <2> QED
    BY <1>2, <1>5, <1>6, <1>9, <2>1, <2>2 DEF Finish, Starting
<1>20. Turn(s)'
  <2>1. CASE what = "send"
    <3>1. \A t \in Sides : Rcvd(t)' = Rcvd(t)
      BY <1>10, <1>13, <2>1 DEF Rcvd
    <3>2. /\ Rcvd("client")' = Rcvd("client")
          /\ Rcvd("server")' = Rcvd("server")
      BY <3>1, BothSides
    <3>3. Came(s)' => Came(s)
      BY <1>1, <1>4, <1>9 DEF Came
    <3>4. Owes(s)' => Owes(s)
      BY <1>17, <1>18, <2>1
    <3>5. Out(s)' => Out(s) \/ Owes(s)
      BY <1>7, <1>8, <1>9, <1>15, <2>1 DEF Out
    <3> QED
      BY <1>0, <3>2, <3>3, <3>4, <3>5 DEF Turn, Due, Peer
  <2>2. CASE what = "recv"
    <3>1. ~Came(s)'
      <4>1. ~In("recv", cq[s]["r"])
        BY <1>0, <1>4, <2>2 DEF OneMessage
      <4> QED
        BY <1>1, <1>4, <1>9, <2>2, <4>1 DEF Came
    <3>2. Rcvd("server") = Rcvd("client") + Due(Peer(s))
      BY <1>0, <1>14, <2>2 DEF Turn
    <3>3. Rcvd(s)' = Rcvd(s) + 1 /\ Rcvd(Peer(s))' = Rcvd(Peer(s))
      BY <1>10, <1>13, <2>2, BothSides DEF Rcvd
    <3>5. Rcvd("server")' = Rcvd("client")' + Due(s)
      BY <3>2, <3>3, TurnTaken
    <3> QED
      BY <3>1, <3>5 DEF Turn, Due
  <2> QED
    BY <2>1, <2>2
<1>21. OneSend(s)'
  <2>1. OneSend(s)
    BY <1>0, <1>2 DEF Sends
  <2>2. CASE what = "send"
    <3>1. sq[s] = "none" /\ ~In("send", cq[s]["r"]) /\ ~In("send", b)
      BY <1>4, <2>1, <2>2 DEF OneSend
    <3>2. z # "none" => "send" \in k
      BY <1>7, <1>8, <3>1
    <3> QED
      BY <1>1, <1>4, <1>9, <2>1, <3>1, <3>2 DEF OneSend
  <2>3. CASE what = "recv" /\ RoundOver(s, what)
    <3>1. "send" \notin pending[s]
      BY <1>7, <2>3
    <3>2. ~In("send", cq[s]["r"]) /\ ~In("send", batch[s])
      BY <2>1, <3>1 DEF OneSend
    <3> QED
      BY <1>1, <1>4, <1>7, <1>9, <2>1, <2>3, <3>2 DEF OneSend
  <2>4. CASE what = "recv" /\ ~RoundOver(s, what)
    <3>1. z = sq[s] /\ ("send" \in pending[s] => "send" \in k)
      BY <1>8, <2>4
    <3> QED
      BY <1>1, <1>4, <1>9, <2>1, <3>1 DEF OneSend
  <2> QED
    BY <2>2, <2>3, <2>4
<1>22. Sends(s)'
  <2>1. /\ SentCount(s) = cnt[s]["send"] + Sending(s)
        /\ SentCount(s)' = cnt'[s]["send"] + Sending(s)'
        /\ Rcvd(s) = cnt[s]["recv"] /\ Rcvd(s)' = cnt'[s]["recv"]
    BY DEF SentCount, Rcvd
  <2>2. /\ Answers(s) <=> Owes(s)
        /\ Answers(s)' <=> Owes(s)'
    BY <1>12 DEF Answers
  <2>3. /\ SentCount(s) <= Iters
        /\ Owes(s) => SentCount(s) + Due(s) = Rcvd(s)
        /\ ~Owes(s) => SentCount(s) + Due(s) = Rcvd(s) + 1
    BY <1>0, <1>2, <2>2 DEF Sends
  <2>4. what = "send" => Sending(s) = 1
    BY <1>0, <1>2, <1>4 DEF Sends, OneSend, Sending
  <2>5. Due(s) \in {0, 1} /\ Sending(s) \in {0, 1}
    BY CountsAre
  <2>6. CASE RoundOver(s, what)
    <3>1. Sending(s)' = 1 /\ cnt'[s]["send"] < Iters
      BY <1>7, <1>9, <2>6 DEF Sending
    <3>2. SentCount(s)' + Due(s) = Rcvd(s)' + 1 /\ SentCount(s)' <= Iters
      <4>1. CASE what = "send"
        <5>1. SentCount(s) + Due(s) = Rcvd(s)
          BY <1>7, <1>15, <2>3, <2>6, <4>1
        <5> QED
          BY <1>2, <1>13, <2>1, <2>4, <2>5, <3>1, <4>1, <5>1
      <4>2. CASE what = "recv"
        <5>1. ~Owes(s)
          BY <1>0, <1>14, <4>2 DEF OneTurn
        <5>2. SentCount(s) + Due(s) = Rcvd(s) + 1
          BY <2>3, <5>1
        <5>3. Sending(s) = 0
          BY <1>7, <2>6, <4>2 DEF Sending
        <5> QED
          BY <1>2, <1>13, <2>1, <2>5, <3>1, <4>2, <5>2, <5>3
      <4> QED
        BY <4>1, <4>2
    <3> QED
      BY <1>2, <1>17, <1>21, <2>2, <2>6, <3>2 DEF Sends, Due
  <2>7. CASE ~RoundOver(s, what)
    <3>1. SentCount(s)' = SentCount(s)
      <4>1. CASE what = "send"
        <5>1. Sending(s)' = 0
          BY <1>8, <1>9, <2>7, <4>1 DEF Sending
        <5> QED
          BY <1>13, <2>1, <2>4, <4>1, <5>1
      <4>2. CASE what = "recv"
        <5>1. Sending(s)' = Sending(s)
          BY <1>8, <1>9, <2>7, <4>2 DEF Sending
        <5> QED
          BY <1>13, <2>1, <4>2, <5>1
      <4> QED
        BY <4>1, <4>2
    <3>2. CASE what = "send"
      <4>1. Rcvd(s)' = Rcvd(s)
        BY <1>13, <2>1, <3>2
      <4>2. Owes(s)' <=> Owes(s)
        BY <1>18, <2>7, <3>2
      <4> QED
        BY <1>2, <1>21, <2>2, <2>3, <3>1, <4>1, <4>2 DEF Sends, Due
    <3>3. CASE what = "recv"
      <4>1. Rcvd(s)' = Rcvd(s) + 1
        BY <1>13, <2>1, <3>3
      <4>2. Owes(s)' /\ ~Owes(s)
        BY <1>0, <1>14, <1>18, <2>7, <3>3 DEF OneTurn
      <4> QED
        BY <1>2, <1>21, <2>2, <2>3, <3>1, <4>1, <4>2 DEF Sends, Due
    <3> QED
      BY <3>2, <3>3
  <2> QED
    BY <2>6, <2>7
<1>23. Rcvd(s)' = Rcvd(s) \/ Has(s)
  BY <1>13, <1>16 DEF Rcvd
<1> QED
  BY <1>10, <1>11, <1>19, <1>20, <1>22, <1>23, PeaceStep

\* cc fails only when a result does not verify.
LEMMA CcLoopPeace ==
    ASSUME CcInv, CcInv', CountTypes, CountTypes', Peace, NEW s \in Sides, args' = args,
           CcLoop(s), why'[s] # "verify"
    PROVE  Peace'
<1>0. StateTypes /\ Loop(s) /\ Finish(s) /\ DOMAIN why = Sides
  BY DEF CcInv, Peace, CountTypes
<1>1. CASE GetEvent(s)
  <2>1. /\ pc[s] = "event" /\ Goto(s, AfterEvent) /\ pc' = [pc EXCEPT ![s] = AfterEvent]
        /\ sq' = sq /\ batch' = batch /\ pending' = pending /\ mq' = mq /\ cq' = cq /\ cnt' = cnt
        /\ tcp' = tcp
    BY <1>1 DEF GetEvent, Goto
  <2>2. AfterEvent \in {"wait", "poll"}
    BY DEF AfterEvent
  <2>3. Meet'
    BY <2>1, <2>2, LoopMeet DEF Starting
  <2>4. s = "client" => ~First
    BY <2>1 DEF First
  <2> QED
    BY <2>1, <2>2, <2>3, <2>4, QuietStep DEF Starting, Ended
<1>2. CASE PostWait(s)
  <2>1. /\ pc[s] = "wait" /\ Goto(s, "mcq") /\ pc' = [pc EXCEPT ![s] = "mcq"]
        /\ mq' = [mq EXCEPT ![s] = Append(mq[s], "wait")]
        /\ sq' = sq /\ batch' = batch /\ pending' = pending /\ cq' = cq /\ cnt' = cnt
        /\ tcp' = tcp
    BY <1>2 DEF PostWait, Goto
  <2>2. \A t \in Sides \ {s} : mq'[t] = mq[t]
    BY <1>0, <2>1 DEF StateTypes
  <2>3. Meet'
    BY <2>1, LoopMeet DEF Starting
  <2>4. s = "client" => ~First
    BY <2>1 DEF First
  <2> QED
    BY <2>1, <2>2, <2>3, <2>4, QuietStep DEF Starting, Ended
<1>3. CASE PollMcq(s)
  <2> DEFINE w == IF Cc THEN "poll" ELSE "scq"
  <2>1. /\ pc[s] = "mcq" /\ Goto(s, w) /\ pc' = [pc EXCEPT ![s] = w]
        /\ sq' = sq /\ batch' = batch /\ pending' = pending /\ mq' = mq /\ cq' = cq /\ cnt' = cnt
        /\ tcp' = tcp
    BY <1>3 DEF PollMcq, Goto
  <2>2. w \in {"poll", "scq"}
    OBVIOUS
  <2> HIDE DEF w
  <2>3. Meet'
    BY <2>1, <2>2, LoopMeet DEF Starting
  <2>4. s = "client" => ~First
    BY <2>1 DEF First
  <2> QED
    BY <2>1, <2>2, <2>3, <2>4, QuietStep DEF Starting, Ended
<1>4. CASE Poll(s)
  BY <1>4, PollPeace
<1>5. CASE HandleSend(s)
  <2>1. /\ pc[s] = "handle" /\ Head(batch[s]) = "send" /\ GoesOn(s, "send")
        /\ UNCHANGED <<cq, mq>> /\ tcp' = tcp
        /\ cnt' = [cnt EXCEPT ![s]["send"] = cnt[s]["send"] + 1]
    BY <1>5 DEF HandleSend
  <2> QED
    BY <2>1, GoesOnPeace
<1>6. CASE HandleRecv(s)
  <2>1. /\ pc[s] = "handle" /\ Head(batch[s]) = "recv" /\ GoesOn(s, "recv")
        /\ UNCHANGED <<cq, mq>> /\ tcp' = tcp
        /\ cnt' = [cnt EXCEPT ![s]["recv"] = cnt[s]["recv"] + 1]
    BY <1>6 DEF HandleRecv
  <2> QED
    BY <2>1, GoesOnPeace
<1>7. CASE VerifyFails(s)
  BY <1>0, <1>7 DEF VerifyFails, Fails
<1>8. CASE HandleError(s)
  <2>1. pc[s] = "handle" /\ Head(batch[s]) = "error"
    BY <1>8 DEF HandleError
  <2>2. batch[s] \in Seq(Statuses) /\ batch[s] # <<>>
    BY <1>0, <2>1 DEF StateTypes, Loop
  <2>3. In("error", batch[s])
    BY <2>1, <2>2, TailIn
  <2> QED
    BY <1>0, <2>3 DEF Finish
<1> QED
  BY <1>1, <1>2, <1>3, <1>4, <1>5, <1>6, <1>7, <1>8 DEF CcLoop

LEMMA TaskLoopPeace ==
    ASSUME CcInv, CcInv', CountTypes, CountTypes', Peace, NEW s \in Sides, args' = args,
           TaskLoop(s)
    PROVE  Peace'
<1>0. /\ StateTypes /\ Turn(s) /\ Finish(s) /\ Loop(s) /\ OneMessage(s)
      /\ OneTurn(s) /\ OneTurn(s)' /\ Iters \in Nat
  BY ItersIs DEF CcInv, Peace
<1>1. CASE PollRecv(s)
  <2> DEFINE q == cq[s]["r"]
             r == Tail(q)
  <2>1. /\ pc[s] = "recv" /\ q # <<>> /\ pc' = [pc EXCEPT ![s] = "task"]
        /\ cq' = [cq EXCEPT ![s]["r"] = r] /\ cnt' = [cnt EXCEPT ![s]["recv"] = cnt[s]["recv"] + 1]
        /\ sq' = sq /\ batch' = batch /\ pending' = pending /\ mq' = mq /\ tcp' = tcp
    BY <1>1 DEF PollRecv, Goto
  <2>2. ~Cc /\ ~Cc' /\ Iters' = Iters
    BY <1>0, <2>1 DEF Loop, Cc, Iters
  <2>3. q \in Seq(Statuses) /\ (\A i \in 1 .. Len(q) : q[i] = "recv") /\ ~In("error", q)
    BY <1>0, <2>1, <2>2 DEF StateTypes, OneMessage, Finish
  <2>4. In("recv", q) /\ ~In("error", r)
    <3>1. Head(q) = "recv"
      BY <2>1, <2>3
    <3> HIDE DEF q
    <3> QED
      BY <2>1, <2>3, <3>1, TailIn
  <2> HIDE DEF q, r
  <2>5. /\ pc'[s] = "task" /\ cq'[s]["r"] = r /\ cq'[s]["s"] = cq[s]["s"] /\ batch'[s] = batch[s]
    BY <1>0, <2>1 DEF StateTypes
  <2>6. Came(s) /\ Has(s)
    BY <2>4 DEF Came, Has, q
  <2>7. cnt'[s] = [cnt[s] EXCEPT !["recv"] = cnt[s]["recv"] + 1] /\ DOMAIN cnt[s] = {"recv", "send"}
    BY <2>1 DEF CountTypes
  <2>8. Rcvd(s)' = Rcvd(s) + 1
    BY <2>7 DEF Rcvd
  <2>9. \A t \in Sides \ {s} :
            /\ pc'[t] = pc[t] /\ sq'[t] = sq[t] /\ cq'[t] = cq[t] /\ batch'[t] = batch[t]
            /\ pending'[t] = pending[t] /\ mq'[t] = mq[t] /\ cnt'[t] = cnt[t]
    BY <1>0, <2>1 DEF StateTypes, CountTypes
  <2>10. Meet'
    BY <2>1, LoopMeet DEF Starting
  <2>11. Turn(s)'
    <3>1. Owes(s)' /\ ~Came(s)'
      BY <1>0, <2>5 DEF Owes, OneTurn
    <3>2. Rcvd("server") = Rcvd("client") + Due(Peer(s))
      BY <1>0, <2>6 DEF Turn
    <3>3. Rcvd(Peer(s))' = Rcvd(Peer(s))
      BY <2>9, BothSides DEF Rcvd
    <3>4. Rcvd("server")' = Rcvd("client")' + Due(s)
      BY <2>8, <3>2, <3>3, TurnTaken
    <3> QED
      BY <3>1, <3>4 DEF Turn, Due
  <2>12. Sends(s)'
    BY <2>2 DEF Sends
  <2>13. Finish(s)'
    <3>1. Rcvd(s) \in Nat /\ Rcvd(s) < Iters
      BY <1>0, <2>1, <2>2, CountsAre DEF Finish
    <3>2. Rcvd(s)' <= Iters'
      BY <1>0, <2>2, <2>8, <3>1
    <3>3. Rcvd(s) # Iters
      BY <1>0, <3>1
    <3>4. ~In("error", cq[s]["s"]) /\ ~In("error", batch[s])
      BY <1>0, <3>3 DEF Finish
    <3> QED
      BY <2>4, <2>5, <3>2, <3>4 DEF Finish, Starting
  <2> QED
    BY <2>1, <2>6, <2>9, <2>10, <2>11, <2>12, <2>13, PeaceStep
<1>2. CASE PostTask(s)
  <2>1. /\ pc[s] = "task" /\ pc' = [pc EXCEPT ![s] = "mcq"]
        /\ sq' = [sq EXCEPT ![s] = "held"]
        /\ mq' = [mq EXCEPT ![s] = mq[s] \o <<"wait", "enable">>]
        /\ cq' = cq /\ batch' = batch /\ pending' = pending /\ cnt' = cnt /\ tcp' = tcp
    BY <1>2 DEF PostTask, Goto
  <2>2. ~Cc /\ ~Cc' /\ Iters' = Iters
    BY <1>0, <2>1 DEF Loop, Cc, Iters
  <2>3. pc'[s] = "mcq" /\ sq'[s] = "held"
    BY <1>0, <2>1 DEF StateTypes
  <2>4. Owes(s) /\ Out(s)' /\ ~Came(s)'
    BY <1>0, <2>1, <2>3 DEF Owes, Out, OneTurn
  <2>5. Rcvd(s)' = Rcvd(s)
    BY <2>1 DEF Rcvd
  <2>6. \A t \in Sides \ {s} :
            /\ pc'[t] = pc[t] /\ sq'[t] = sq[t] /\ cq'[t] = cq[t] /\ batch'[t] = batch[t]
            /\ pending'[t] = pending[t] /\ mq'[t] = mq[t] /\ cnt'[t] = cnt[t]
    BY <1>0, <2>1 DEF StateTypes
  <2>7. Meet'
    BY <2>1, LoopMeet DEF Starting
  <2>8. Turn(s)'
    <3>1. /\ Rcvd("client")' = Rcvd("client")
          /\ Rcvd("server")' = Rcvd("server")
      BY <2>1 DEF Rcvd
    <3>2. Rcvd("server") = Rcvd("client") + Due(s)
      BY <1>0, <2>4 DEF Turn
    <3> QED
      BY <2>4, <3>1, <3>2 DEF Turn, Due
  <2>9. Sends(s)'
    BY <2>2 DEF Sends
  <2>10. Finish(s)'
    <3>1. pc'[Peer(s)] = pc[Peer(s)]
      BY <2>6, BothSides
    <3> QED
      BY <1>0, <2>1, <2>2, <2>3, <2>5, <3>1 DEF Finish, Starting
  <2> QED
    BY <2>1, <2>5, <2>6, <2>7, <2>8, <2>9, <2>10, PeaceStep
<1>3. CASE Sent(s)
  <2> DEFINE w == IF cnt[s]["recv"] < Iters THEN "recv" ELSE "done"
             q == cq[s]["s"]
  <2>1. /\ pc[s] = "scq" /\ q # <<>> /\ Goto(s, w) /\ pc' = [pc EXCEPT ![s] = w]
        /\ cq' = [cq EXCEPT ![s]["s"] = Tail(q)]
        /\ sq' = sq /\ batch' = batch /\ pending' = pending /\ mq' = mq /\ cnt' = cnt /\ tcp' = tcp
    BY <1>3 DEF Sent, Goto
  <2>2. Rcvd(s) \in Nat
    BY CountsAre
  <2>3. /\ w \in {"recv", "done"}
        /\ w = "recv" => Rcvd(s) < Iters
        /\ w = "done" => Rcvd(s) >= Iters
    <3>1. CASE Rcvd(s) < Iters
      BY <3>1 DEF Rcvd
    <3>2. CASE ~(Rcvd(s) < Iters)
      <4>1. Rcvd(s) >= Iters
        BY <1>0, <2>2, <3>2
      <4>2. w = "done"
        BY <3>2 DEF Rcvd
      <4> QED
        BY <4>1, <4>2
    <3> QED
      BY <3>1, <3>2
  <2> HIDE DEF w
  <2>4. q \in Seq(Statuses) /\ cq'[s]["s"] = Tail(q) /\ cq'[s]["r"] = cq[s]["r"]
        /\ \A t \in Sides \ {s} : cq'[t] = cq[t]
    BY <1>0, <2>1 DEF StateTypes
  <2>5. In("error", Tail(q)) => In("error", q)
    <3> HIDE DEF q
    <3> QED
      BY <2>1, <2>4, TailIn
  <2>6. Meet'
    BY <2>1, <2>3, LoopMeet DEF Starting
  <2>7. s = "client" => ~First
    BY <2>1 DEF First
  <2> QED
    BY <2>1, <2>3, <2>4, <2>5, <2>6, <2>7, QuietStep DEF Starting, Ended
<1>4. CASE NotSent(s)
  <2>1. /\ pc[s] = "scq" /\ cq[s]["s"] # <<>> /\ Head(cq[s]["s"]) = "error" /\ Fails(s, "send")
        /\ UNCHANGED <<sq, cq, mq, tcp, batch, pending, cnt>>
    BY <1>4 DEF NotSent, nicVars
  <2>2. ~Cc /\ ~Cc' /\ Iters' = Iters
    BY <1>0, <2>1 DEF Loop, Cc, Iters
  <2>3. pc' = [pc EXCEPT ![s] = "failed"] /\ pc'[s] = "failed"
    BY <1>0, <2>1, <2>2 DEF Fails, Goto, StateTypes
  <2>4. cq[s]["s"] \in Seq(Statuses)
    BY <1>0 DEF StateTypes
  <2>5. In("error", cq[s]["s"])
    BY <2>1, <2>4, TailIn
  <2>6. Rcvd(s)' = Rcvd(s)
    BY <2>1 DEF Rcvd
  <2>7. \A t \in Sides \ {s} :
            /\ pc'[t] = pc[t] /\ sq'[t] = sq[t] /\ cq'[t] = cq[t] /\ batch'[t] = batch[t]
            /\ pending'[t] = pending[t] /\ mq'[t] = mq[t] /\ cnt'[t] = cnt[t]
    BY <1>0, <2>1, <2>3 DEF StateTypes
  <2>8. Meet'
    BY <2>1, <2>3, LoopMeet DEF Starting
  <2>9. Turn(s)'
    <3>1. /\ Rcvd("client")' = Rcvd("client")
          /\ Rcvd("server")' = Rcvd("server")
      BY <2>1 DEF Rcvd
    <3>2. /\ Out(s)' <=> Out(s)
          /\ Came(s)' <=> Came(s)
          /\ Owes(s)' <=> Owes(s)
      BY <2>1, <2>3 DEF Out, Came, Owes
    <3> QED
      BY <1>0, <3>1, <3>2 DEF Turn, Due, Peer
  <2>10. Sends(s)'
    BY <2>2 DEF Sends
  <2>11. Finish(s)'
    <3>1. pc'[Peer(s)] = pc[Peer(s)]
      BY <2>7, BothSides
    <3> QED
      BY <1>0, <2>1, <2>2, <2>3, <2>5, <2>6, <3>1 DEF Finish, Starting
  <2> QED
    BY <2>1, <2>6, <2>7, <2>8, <2>9, <2>10, <2>11, PeaceStep
<1> QED
  BY <1>1, <1>2, <1>3, <1>4 DEF TaskLoop

-----------------------------------------------------------------------------
LEMMA DeliverPeace ==
    ASSUME CcInv, CcInv', CountTypes, Peace, NEW s \in Sides, args' = args, Deliver(s)
    PROVE  Peace'
<1>1. PICK p \in Sides : p = Peer(s) /\ s = Peer(p) /\ p # s /\ \A t \in Sides : t = s \/ t = p
  BY BothSides
<1> DEFINE q == cq[p]["r"]
           r == Append(q, "recv")
<1>0. /\ StateTypes /\ Meet /\ Turn(s) /\ Turn(p) /\ OneTurn(s)' /\ OneTurn(p)'
      /\ Sends(s) /\ Sends(p) /\ Finish(s) /\ Finish(p)
  BY <1>1 DEF CcInv, Peace
<1>2. /\ sq[s] = "posted" /\ sq' = [sq EXCEPT ![s] = "delivered"]
      /\ cq' = [cq EXCEPT ![p]["r"] = r]
      /\ pc' = pc /\ batch' = batch /\ pending' = pending /\ tcp' = tcp /\ cnt' = cnt
  BY <1>1 DEF Deliver, Completes, mainVars
<1>3. /\ Cc' <=> Cc
      /\ Iters' = Iters
  BY DEF Cc, Iters
<1>4. q \in Seq(Statuses) /\ "recv" \in Statuses
  BY <1>0 DEF StateTypes, Statuses
<1>5. /\ In("recv", r)
      /\ In("send", r) <=> In("send", q)
      /\ In("error", r) <=> In("error", q)
      /\ Once("send", q) => Once("send", r)
  <2> HIDE DEF q
  <2> QED
    BY <1>4, AppendIn
<1> HIDE DEF r
<1>6. /\ cq'[p]["r"] = r /\ cq'[p]["s"] = cq[p]["s"] /\ cq'[s] = cq[s]
      /\ sq'[s] = "delivered" /\ sq'[p] = sq[p]
  BY <1>0, <1>1, <1>2 DEF StateTypes
<1>7. /\ \A t \in Sides : Rcvd(t)' = Rcvd(t) /\ SentCount(t)' = SentCount(t)
      /\ \A t \in Sides : Answers(t)' <=> Answers(t)
  BY <1>2 DEF Rcvd, SentCount, Sending, Answers, Owes, First
<1>8. Meet'
  BY <1>0, <1>2 DEF Meet
<1>9. Turn(s)' /\ Turn(p)'
  <2>1. Came(p)'
    BY <1>5, <1>6 DEF Came
  <2>2. /\ ~Out(s)' /\ ~Came(s)' /\ ~Owes(s)' /\ ~Out(p)' /\ ~Owes(p)'
    BY <1>0, <1>1, <2>1 DEF OneTurn, Has
  <2>3. Rcvd("server") = Rcvd("client") + Due(s)
    BY <1>0, <1>2 DEF Turn, Out
  <2>4. /\ Rcvd("client")' = Rcvd("client")
        /\ Rcvd("server")' = Rcvd("server")
    BY <1>7, BothSides
  <2>5. Turn(s)'
    BY <2>2 DEF Turn
  <2>6. Turn(p)'
    BY <1>1, <2>2, <2>3, <2>4 DEF Turn, Due
  <2> QED
    BY <2>5, <2>6
<1>10. Cc => OneSend(s)' /\ OneSend(p)'
  <2>1. Cc => OneSend(s)'
    BY <1>0, <1>2, <1>6 DEF Sends, OneSend
  <2>2. Cc => OneSend(p)'
    BY <1>0, <1>2, <1>5, <1>6 DEF Sends, OneSend, q
  <2> QED
    BY <2>1, <2>2
<1>11. Sends(s)'
  BY <1>0, <1>3, <1>7, <1>10 DEF Sends, Due
<1>12. Sends(p)'
  BY <1>0, <1>3, <1>7, <1>10 DEF Sends, Due
<1>13. Finish(s)'
  BY <1>0, <1>2, <1>3, <1>6, <1>7 DEF Finish
<1>14. Finish(p)'
  BY <1>0, <1>2, <1>3, <1>5, <1>6, <1>7 DEF Finish, q
<1> QED
  BY <1>1, <1>8, <1>9, <1>11, <1>12, <1>13, <1>14 DEF Peace

\* Who sends to a peer that has ended is the client of task, after its last
\* round: in cc the peer would have been sent more than there are rounds.
LEMMA LastSend ==
    ASSUME CcInv, CountTypes, Peace, NEW s \in Sides,
           sq[s] = "posted", pc[s] \notin Ended, pc[Peer(s)] \in Ended
    PROVE  ~Cc /\ s = "client" /\ Rcvd(s) = Iters /\ pc[Peer(s)] = "done"
<1>1. PICK p \in Sides : p = Peer(s) /\ s = Peer(p) /\ p # s /\ \A t \in Sides : t = s \/ t = p
  BY BothSides
<1>0. /\ Turn(s) /\ OneTurn(s) /\ Sends(s) /\ Finish(s) /\ Finish(p)
  BY <1>1 DEF CcInv, Peace
<1>2. Out(s) /\ Has(s) /\ ~Owes(s) /\ ~First
  BY <1>0 DEF Out, Has, OneTurn
<1>3. Rcvd("server") = Rcvd("client") + Due(s)
  BY <1>0, <1>2 DEF Turn
<1>4. pc[p] = "done"
  BY <1>0, <1>1 DEF Finish, Ended
<1>5. Rcvd(p) >= Iters
  BY <1>0, <1>4 DEF Finish
<1>6. /\ Rcvd("client") \in Nat /\ Rcvd("server") \in Nat /\ SentCount(s) \in Nat
      /\ Iters \in Nat
  BY BothSides, CountsAre, ItersIs
<1>7. ~Answers(s)
  BY <1>2 DEF Answers
<1>8. Cc => SentCount(s) <= Iters /\ SentCount(s) + Due(s) = Rcvd(s) + 1
  BY <1>0, <1>7 DEF Sends
<1>9. ~Cc => Rcvd(s) <= Iters
  BY <1>0 DEF Finish
<1>10. CASE s = "client"
  <2>1. p = "server" /\ Due(s) = 0
    BY <1>1, <1>10 DEF Peer, Due
  <2>2. Rcvd("client") >= Iters
    BY <1>3, <1>5, <1>6, <2>1
  <2>3. ~Cc
    <3>1. Cc => SentCount(s) = Rcvd("client") + 1
      BY <1>6, <1>8, <1>10, <2>1
    <3> QED
      BY <1>6, <1>8, <2>2, <3>1
  <2>4. Rcvd(s) = Iters
    BY <1>6, <1>9, <1>10, <2>2, <2>3
  <2> QED
    BY <1>1, <1>4, <1>10, <2>3, <2>4
<1>11. CASE s = "server"
  <2>1. p = "client" /\ Due(s) = 1
    BY <1>1, <1>11 DEF Peer, Due
  <2>2. Rcvd("server") > Iters
    BY <1>3, <1>5, <1>6, <2>1
  <2>3. Cc => SentCount(s) = Rcvd("server")
    BY <1>6, <1>8, <1>11, <2>1
  <2>4. FALSE
    BY <1>6, <1>8, <1>9, <1>11, <2>2, <2>3
  <2> QED
    BY <2>4
<1> QED
  BY <1>10, <1>11 DEF Sides

LEMMA SendIsOverPeace ==
    ASSUME CcInv, CcInv', CountTypes, Peace, NEW s \in Sides, NEW what \in {"send", "error"},
           args' = args, sq[s] # "none", sq' = [sq EXCEPT ![s] = "none"],
           Completes(s, SendCq, what), UNCHANGED mq, UNCHANGED mainVars,
           what = "error" => ~Cc /\ s = "client" /\ Rcvd(s) = Iters /\ pc[Peer(s)] = "done"
    PROVE  Peace'
<1>0. StateTypes /\ Meet /\ Turn(s) /\ Sends(s) /\ Finish(s)
  BY DEF CcInv, Peace
<1>1. /\ cq' = [cq EXCEPT ![s][SendCq] = Append(cq[s][SendCq], what)]
      /\ pc' = pc /\ batch' = batch /\ pending' = pending /\ tcp' = tcp /\ cnt' = cnt
  BY DEF Completes, mainVars
<1>2. /\ Cc' <=> Cc
      /\ Iters' = Iters
  BY DEF Cc, Iters
<1>3. SendCq = IF Cc THEN "r" ELSE "s"
  BY DEF SendCq
<1>4. cq[s]["r"] \in Seq(Statuses) /\ cq[s]["s"] \in Seq(Statuses) /\ what \in Statuses
  BY <1>0 DEF StateTypes, Statuses
<1>5. /\ sq'[s] = "none"
      /\ Cc => cq'[s]["r"] = Append(cq[s]["r"], what) /\ cq'[s]["s"] = cq[s]["s"]
      /\ ~Cc => cq'[s]["s"] = Append(cq[s]["s"], what) /\ cq'[s]["r"] = cq[s]["r"]
  BY <1>0, <1>1, <1>3 DEF StateTypes
<1>6. \A t \in Sides \ {s} :
          /\ pc'[t] = pc[t] /\ sq'[t] = sq[t] /\ cq'[t] = cq[t] /\ batch'[t] = batch[t]
          /\ pending'[t] = pending[t] /\ mq'[t] = mq[t] /\ cnt'[t] = cnt[t]
  BY <1>0, <1>1, <1>3 DEF StateTypes
<1>7. /\ \A t \in Sides : Rcvd(t)' = Rcvd(t) /\ SentCount(t)' = SentCount(t)
      /\ Answers(s)' <=> Answers(s)
      /\ Owes(s)' <=> Owes(s)
  BY <1>1 DEF Rcvd, SentCount, Sending, Answers, Owes, First
<1>8. Meet'
  BY <1>0, <1>1 DEF Meet
<1>9. /\ In("recv", cq'[s]["r"]) <=> In("recv", cq[s]["r"])
      /\ In("error", cq'[s]["r"]) <=> In("error", cq[s]["r"])
  <2>1. CASE Cc
    <3>1. what = "send" /\ cq'[s]["r"] = Append(cq[s]["r"], what)
      BY <1>5, <2>1
    <3>2. /\ In("recv", Append(cq[s]["r"], what)) <=> In("recv", cq[s]["r"])
          /\ In("error", Append(cq[s]["r"], what)) <=> In("error", cq[s]["r"])
      BY <1>4, <3>1, AppendIn
    <3> QED
      BY <3>1, <3>2, Zenon
  <2>2. CASE ~Cc
    BY <1>5, <2>2
  <2> QED
    BY <2>1, <2>2
<1>10. In("error", cq'[s]["s"]) => In("error", cq[s]["s"]) \/ what = "error"
  <2>1. CASE Cc
    BY <1>5, <2>1
  <2>2. CASE ~Cc
    <3>1. cq'[s]["s"] = Append(cq[s]["s"], what)
      BY <1>5, <2>2
    <3>2. In("error", Append(cq[s]["s"], what)) <=> In("error", cq[s]["s"]) \/ "error" = what
      BY <1>4, AppendIn
    <3> QED
      BY <3>1, <3>2, Zenon
  <2> QED
    BY <2>1, <2>2
<1>11. Turn(s)'
  <2>1. ~Out(s)'
    BY <1>5 DEF Out
  <2>2. Came(s)' <=> Came(s)
    BY <1>1, <1>9 DEF Came
  <2>3. /\ Rcvd("client")' = Rcvd("client")
        /\ Rcvd("server")' = Rcvd("server")
    BY <1>7, BothSides
  <2> QED
    BY <1>0, <1>7, <2>1, <2>2, <2>3 DEF Turn, Due, Peer
<1>12. Sends(s)'
  <2>1. Cc => OneSend(s)'
    <3>1. SUFFICES ASSUME Cc PROVE OneSend(s)'
      OBVIOUS
    <3>2. OneSend(s) /\ what = "send" /\ cq'[s]["r"] = Append(cq[s]["r"], what)
      BY <1>0, <1>5, <3>1 DEF Sends
    <3>3. /\ ~In("send", cq[s]["r"]) /\ Once("send", cq[s]["r"])
          /\ ~In("send", batch[s]) /\ Once("send", batch[s]) /\ "send" \in pending[s]
      BY <3>2 DEF OneSend
    <3>4. Once("send", Append(cq[s]["r"], what))
      BY <1>4, <3>3, AppendIn
    <3>5. Once("send", cq'[s]["r"])
      BY <3>2, <3>4
    <3> QED
      BY <1>1, <1>5, <3>3, <3>5 DEF OneSend
  <2> QED
    BY <1>0, <1>2, <1>7, <2>1 DEF Sends, Due
<1>13. Finish(s)'
  BY <1>0, <1>1, <1>2, <1>7, <1>9, <1>10 DEF Finish
<1> QED
  BY <1>1, <1>6, <1>7, <1>8, <1>11, <1>12, <1>13, PeaceStep

LEMMA NicPeace ==
    ASSUME CcInv, CcInv', CountTypes, Peace, NEW s \in Sides, args' = args, Nic(s)
    PROVE  Peace'
<1>1. CASE Deliver(s)
  BY <1>1, DeliverPeace
<1>2. CASE Acknowledge(s)
  BY <1>2, SendIsOverPeace DEF Acknowledge
<1>3. CASE GivesUp(s)
  <2>1. sq[s] = "posted" /\ pc[s] \notin Ended /\ pc[Peer(s)] \in Ended
    BY <1>3 DEF Nic, GivesUp
  <2>2. ~Cc /\ s = "client" /\ Rcvd(s) = Iters /\ pc[Peer(s)] = "done"
    BY <2>1, LastSend
  <2>3. /\ sq' = [sq EXCEPT ![s] = "none"] /\ Completes(s, SendCq, "error")
        /\ UNCHANGED mq /\ UNCHANGED mainVars
    BY <1>3 DEF GivesUp
  <2> QED
    BY <2>1, <2>2, <2>3, SendIsOverPeace
<1>4. CASE Manage(s)
  <2> DEFINE z == IF Head(mq[s]) = "wait" THEN sq[s] ELSE "posted"
  <2>0. StateTypes /\ Meet /\ Turn(s) /\ Sends(s) /\ Finish(s) /\ Held(s)
    BY DEF CcInv, Peace
  <2>1. /\ mq[s] # <<>> /\ mq' = [mq EXCEPT ![s] = Tail(mq[s])] /\ sq' = [sq EXCEPT ![s] = z]
        /\ pc' = pc /\ batch' = batch /\ pending' = pending /\ cq' = cq /\ tcp' = tcp /\ cnt' = cnt
    BY <1>4 DEF Manage, mainVars
  <2>2. z = sq[s] \/ (sq[s] = "held" /\ z = "posted")
    <3>1. Cc => Head(mq[s]) = "wait"
      <4>1. mq[s] \in Seq({"wait", "enable", "enable_signaled"})
        BY <2>0 DEF StateTypes
      <4>2. Cc => mq[s][1] = "wait"
        BY <2>0, <2>1, <4>1 DEF Held
      <4> QED
        BY <4>1, <4>2
    <3>2. ~Cc => sq[s] = "held"
      BY <2>0, <2>1 DEF Held
    <3> QED
      BY <3>1, <3>2
  <2> HIDE DEF z
  <2>3. sq'[s] = z
    BY <2>0, <2>1 DEF StateTypes
  <2>4. /\ Out(s)' <=> Out(s)
        /\ Came(s)' <=> Came(s)
        /\ Owes(s)' <=> Owes(s)
        /\ First' <=> First
        /\ sq'[s] = "none" <=> sq[s] = "none"
    BY <2>1, <2>2, <2>3 DEF Out, Came, Owes, First
  <2>5. /\ Cc' <=> Cc
        /\ Iters' = Iters
    BY DEF Cc, Iters
  <2>6. /\ \A t \in Sides : Rcvd(t)' = Rcvd(t)
        /\ SentCount(s)' = SentCount(s)
        /\ Answers(s)' <=> Answers(s)
    BY <2>1, <2>4 DEF Rcvd, SentCount, Sending, Answers
  <2>7. Meet'
    BY <2>0, <2>1 DEF Meet
  <2>8. Turn(s)'
    <3>1. /\ Rcvd("client")' = Rcvd("client")
          /\ Rcvd("server")' = Rcvd("server")
      BY <2>6, BothSides
    <3> QED
      BY <2>0, <2>4, <3>1 DEF Turn, Due, Peer
  <2>9. Cc => OneSend(s)'
    BY <2>0, <2>1, <2>4 DEF Sends, OneSend
  <2>10. Sends(s)'
    BY <2>0, <2>5, <2>6, <2>9 DEF Sends, Due
  <2>11. Finish(s)'
    BY <2>0, <2>1, <2>5, <2>6 DEF Finish
  <2>12. \A t \in Sides \ {s} :
             /\ pc'[t] = pc[t] /\ sq'[t] = sq[t] /\ cq'[t] = cq[t] /\ batch'[t] = batch[t]
             /\ pending'[t] = pending[t] /\ mq'[t] = mq[t] /\ cnt'[t] = cnt[t]
    BY <2>0, <2>1 DEF StateTypes
  <2> QED
    BY <2>1, <2>6, <2>7, <2>8, <2>10, <2>11, <2>12, PeaceStep
<1> QED
  BY <1>1, <1>2, <1>3, <1>4 DEF Nic

LEMMA NextPInv ==
    ASSUME CcInv, CcInv', VerifyFailsAtEdges', PInv, [Next]_vars
    PROVE  PInv'
<1>1. CountTypes /\ CountTypes' /\ args' = args /\ faults' = faults
  BY CountTypesKept DEF PInv
<1>2. SUFFICES ASSUME Clean' PROVE Peace'
  BY <1>1 DEF PInv
<1>3. Clean /\ Peace
  BY <1>1, <1>2 DEF PInv, Clean, Operand
<1>4. CASE Exchange
  BY <1>1, <1>3, <1>4, ExchangePeace
<1>5. ASSUME NEW s \in Sides, Main(s) PROVE Peace'
  <2>1. why'[s] # "verify"
    BY <1>2 DEF VerifyFailsAtEdges, Clean
  <2> QED
    BY <1>1, <1>3, <1>5, <2>1, CcLoopPeace, TaskLoopPeace DEF Main
<1>6. ASSUME NEW s \in Sides, Nic(s) PROVE Peace'
  BY <1>1, <1>3, <1>6, NicPeace
<1>7. ASSUME NEW s \in Sides, Kill(s) PROVE Peace'
  BY <1>3, <1>7 DEF Clean, Kill
<1>8. CASE UNCHANGED vars
  <2>1. UNCHANGED <<args, pc, tcp, sq, cq, batch, pending, cnt>>
    BY <1>8 DEF vars, runVars, nicVars, mainVars
  <2>2. Meet'
    BY <1>3, <2>1 DEF Peace, Meet
  <2>3. ASSUME NEW s \in Sides PROVE Turn(s)' /\ Sends(s)' /\ Finish(s)'
    BY <1>3, <2>1, <2>3 DEF Peace, Turn, Sends, Finish, OneSend, SentCount, Sending, Answers, Rcvd,
       Out, Came, Owes, First, Cc, Iters, Due
  <2> QED
    BY <2>2, <2>3 DEF Peace
<1> QED
  BY <1>4, <1>5, <1>6, <1>7, <1>8 DEF Next

\* Where packing keeps the order of the operands and nobody is killed, cc never
\* fails, however many rounds there are and whatever the events, waits and
\* depths; in task only the client does, when it has had all its messages and its
\* server is done.
THEOREM OnlyTheLastFails == Spec => []OnlyLastSendFails
<1>1. CcInv /\ PInv => OnlyLastSendFails
  <2> SUFFICES ASSUME PInv, NEW s \in Sides, pc[s] \in {"failed", "stuck"}, faults = {},
                      ~OrderLost(args.op, args.type, Operand(1), Operand(2))
               PROVE  /\ args.program = "TASK" /\ s = "client"
                      /\ cnt[s]["recv"] = Iters /\ pc["server"] = "done"
    BY DEF OnlyLastSendFails
  <2>1. Finish(s) /\ CountTypes
    BY DEF PInv, Clean, Peace
  <2>2. s = "client" /\ ~Cc /\ Rcvd(s) = Iters /\ pc[Peer(s)] = "done"
    BY <2>1 DEF Finish
  <2> QED
    BY <2>1, <2>2, ItersIs DEF Rcvd, Peer
<1>2. Init => PInv
  BY InitPInv
<1>3. CcInv /\ CcInv' /\ VerifyFailsAtEdges' /\ PInv /\ [Next]_vars => PInv'
  BY NextPInv
<1>4. Spec => []CcInv
  BY CcInvariance
<1> QED
  BY <1>1, <1>2, <1>3, <1>4, VerifyOnlyFailsAtEdges, PTL DEF Spec
=============================================================================
