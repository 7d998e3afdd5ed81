----------------------------- MODULE CcPingPong -----------------------------
(***************************************************************************)
(* cc_pingpong and task_pingpong: a client and a server that exchange      *)
(* messages a NIC computes from two operands, the first of them the result *)
(* that came last, and a management queue pair whose work requests wait    *)
(* for completions of another queue (cc --wait_cq) or hold a SEND back     *)
(* until one is there (task).  cc is run with --verify.                    *)
(***************************************************************************)
EXTENDS CalcData, Sequences, FiniteSets

CONSTANTS
    Args,       \* how the two programs may be called, with the same options
    FaultSets   \* what the environment may do, subsets of {"kill"}

Sides == {"client", "server"}
Peer(s) == IF s = "client" THEN "server" ELSE "client"

ASSUME CcAssumption ==
    /\ Args \subseteq [program : {"CC", "TASK"}, iters : Nat \ {0}, rx_depth : Nat \ {0},
                       use_event : BOOLEAN, mqe_poll : BOOLEAN, op : CalcOps,
                       type : Types, operands : Seq(Nat)]
    /\ \A a \in Args : a.operands \in [1 .. 2 -> Values(a.type)]
    /\ FaultSets \subseteq SUBSET {"kill"}

VARIABLES
    args,     \* the options
    faults,   \* what may go wrong
    pc,       \* where main is
    why,      \* why it has failed
    tcp,      \* what was written to each side and not read
    routs,    \* receives main believes are posted
    rq,       \* receives that are posted
    sq,       \* the one SEND: held, posted, delivered, none
    net_buf,  \* the first word of the buffer: what was received last
    last,     \* last_result
    cq,       \* completions: the receive queue's (cc: the only one), the send queue's
    batch,    \* completions main has polled and not handled
    pending,  \* the completions the round still needs
    cnt,      \* rcnt and scnt
    armed,    \* the completion queue is armed
    events,   \* events in the completion channel
    unacked,  \* events read and not acknowledged
    mq,       \* the management queue pair's work requests
    waits,    \* completions counted by waits that are over
    comps,    \* completions there have been on the queue they wait for
    mcq       \* completions of the management queue pair

nicVars == <<rq, sq, net_buf, cq, armed, events, mq, waits, comps, mcq>>
mainVars == <<pc, why, tcp, routs, last, batch, pending, cnt, unacked>>
runVars == <<nicVars, mainVars>>
vars == <<args, faults, runVars>>

Cc       == args.program = "CC"
Iters    == args.iters
RxDepth  == args.rx_depth
Operand(i) == args.operands[i]

Ended == {"done", "failed", "killed", "stuck"}

\* The second word of the buffer, packed once.
OwnWord == PackDataForCalc(args.op, args.type, Operand(2))

TypeOK ==
    /\ args \in Args /\ faults \in FaultSets
    /\ pc \in [Sides -> {"start", "exch", "done_msg", "event", "wait", "mcq", "poll",
                         "handle", "recv", "task", "scq"} \cup Ended]
    /\ why \in [Sides -> {"", "exchange", "status", "verify", "send"}]
    /\ tcp \in [Sides -> {"", "addr", "done"}]
    /\ routs \in [Sides -> Nat] /\ rq \in [Sides -> 0 .. RxDepth]
    /\ sq \in [Sides -> {"none", "held", "posted", "delivered"}]
    /\ net_buf \in [Sides -> 0 .. 2 ^ Wide - 1]
    /\ last \in [Sides -> Values(args.type)]
    /\ cq \in [Sides -> [{"r", "s"} -> Seq({"recv", "send", "error"})]]
    /\ batch \in [Sides -> Seq({"recv", "send", "error"})]
    /\ pending \in [Sides -> SUBSET {"recv", "send"}]
    /\ cnt \in [Sides -> [{"recv", "send"} -> Nat]]
    /\ armed \in [Sides -> BOOLEAN] /\ events \in [Sides -> Nat]
    /\ unacked \in [Sides -> Nat]
    /\ mq \in [Sides -> Seq({"wait", "enable", "enable_signaled"})]
    /\ waits \in [Sides -> Nat] /\ comps \in [Sides -> Nat]
    /\ mcq \in [Sides -> {0, 1}]

\* The queues are made and the receives posted; pp_update_last_result computes
\* what the client sends first, the server starts with its own operand.
Init ==
    /\ args \in Args /\ faults \in FaultSets
    /\ pc = [s \in Sides |-> IF s = "client" THEN "start" ELSE "exch"]
    /\ why = [s \in Sides |-> ""] /\ tcp = [s \in Sides |-> ""]
    /\ routs = [s \in Sides |-> RxDepth] /\ rq = [s \in Sides |-> RxDepth]
    /\ sq = [s \in Sides |-> "none"]
    /\ net_buf = [s \in Sides |-> PackDataForCalc(args.op, args.type, Operand(1))]
    /\ last = [s \in Sides |-> IF s = "client"
                               THEN Exec(args.op, args.type, Operand(1), Operand(2))
                               ELSE Operand(1)]
    /\ cq = [s \in Sides |-> [q \in {"r", "s"} |-> <<>>]]
    /\ batch = [s \in Sides |-> <<>>]
    /\ pending = [s \in Sides |-> {"recv"}]
    /\ cnt = [s \in Sides |-> [w \in {"recv", "send"} |-> 0]]
    /\ armed = [s \in Sides |-> args.use_event] /\ events = [s \in Sides |-> 0]
    /\ unacked = [s \in Sides |-> 0]
    /\ mq = [s \in Sides |-> <<>>]
    /\ waits = [s \in Sides |-> 0] /\ comps = [s \in Sides |-> 0]
    /\ mcq = [s \in Sides |-> 0]

Goto(s, where) == pc' = [pc EXCEPT ![s] = where]

\* "goto out" of cc: the queue pair is destroyed, and ibv_destroy_cq waits for
\* events that are not acknowledged, for ever.  task returns at once.
Fails(s, reason) ==
    /\ why' = [why EXCEPT ![s] = reason]
    /\ Goto(s, IF Cc /\ unacked[s] > 0 THEN "stuck" ELSE "failed")

-----------------------------------------------------------------------------
(***************************************************************************)
(* The exchange of addresses.                                              *)
(***************************************************************************)
ClientAddress ==
    /\ pc["client"] = "start"
    /\ tcp' = [tcp EXCEPT !["server"] = "addr"]
    /\ Goto("client", "exch")
    /\ UNCHANGED <<nicVars, why, routs, last, batch, pending, cnt, unacked>>

\* The server connects its queue pair before it answers.
ServerConnect ==
    /\ pc["server"] = "exch" /\ tcp["server"] = "addr"
    /\ tcp' = [tcp EXCEPT !["client"] = "addr", !["server"] = ""]
    /\ Goto("server", "done_msg")
    /\ UNCHANGED <<nicVars, why, routs, last, batch, pending, cnt, unacked>>

\* What the loop begins with.
AfterEvent == IF args.mqe_poll THEN "wait" ELSE "poll"
Top == IF ~Cc THEN "recv" ELSE IF args.use_event THEN "event" ELSE AfterEvent

\* The client has the address, writes "done", connects its queue pair and sends.
\* In task this SEND is enabled by the management queue pair.
ReadAddress ==
    /\ pc["client"] = "exch" /\ tcp["client"] = "addr"
    /\ tcp' = [tcp EXCEPT !["client"] = "", !["server"] = IF pc["server"] \in Ended THEN @ ELSE "done"]
    /\ sq' = [sq EXCEPT !["client"] = IF Cc THEN "posted" ELSE "held"]
    /\ pending' = [pending EXCEPT !["client"] = {"recv", "send"}]
    /\ mq' = [mq EXCEPT !["client"] = IF Cc THEN @ ELSE <<"enable_signaled">>]
    /\ Goto("client", IF Cc THEN Top ELSE "mcq")
    /\ UNCHANGED <<rq, net_buf, cq, armed, events, waits, comps, mcq, why, routs, last,
                   batch, cnt, unacked>>

ReadDone ==
    /\ pc["server"] = "done_msg" /\ tcp["server"] = "done"
    /\ tcp' = [tcp EXCEPT !["server"] = ""]
    /\ Goto("server", Top)
    /\ UNCHANGED <<nicVars, why, routs, last, batch, pending, cnt, unacked>>

\* The connection is closed before what was expected has come.
PeerGone(s) ==
    /\ pc[s] \in {"exch", "done_msg"} /\ tcp[s] = "" /\ pc[Peer(s)] \in Ended
    /\ Fails(s, "exchange")
    /\ UNCHANGED <<nicVars, tcp, routs, last, batch, pending, cnt, unacked>>

Exchange == ClientAddress \/ ServerConnect \/ ReadAddress \/ ReadDone \/ \E s \in Sides : PeerGone(s)

-----------------------------------------------------------------------------
(***************************************************************************)
(* The loop of cc.                                                         *)
(***************************************************************************)
\* An event is read and the queue is armed again.
GetEvent(s) ==
    /\ pc[s] = "event" /\ events[s] > 0
    /\ events' = [events EXCEPT ![s] = @ - 1] /\ unacked' = [unacked EXCEPT ![s] = @ + 1]
    /\ armed' = [armed EXCEPT ![s] = TRUE]
    /\ Goto(s, AfterEvent)
    /\ UNCHANGED <<rq, sq, net_buf, cq, mq, waits, comps, mcq, why, tcp, routs, last,
                   batch, pending, cnt>>

\* MUTANT: a wait is for as many completions as may be polled at once.
WaitCountOfBatch == 2

\* cq_count: a wait is for one completion more than those before it.
WaitCount == 1

\* pp_post_ext_wqe: one more completion is to be waited for.
PostWait(s) ==
    /\ pc[s] = "wait"
    /\ mq' = [mq EXCEPT ![s] = Append(@, "wait")]
    /\ Goto(s, "mcq")
    /\ UNCHANGED <<rq, sq, net_buf, cq, armed, events, waits, comps, mcq, why, tcp,
                   routs, last, batch, pending, cnt, unacked>>

\* pp_poll_mcq.  (Its errors are the number 1, which main takes for success.)
PollMcq(s) ==
    /\ pc[s] = "mcq" /\ mcq[s] > 0
    /\ mcq' = [mcq EXCEPT ![s] = @ - 1]
    /\ Goto(s, IF Cc THEN "poll" ELSE "scq")
    /\ UNCHANGED <<rq, sq, net_buf, cq, armed, events, mq, waits, comps, why, tcp,
                   routs, last, batch, pending, cnt, unacked>>

\* At most two completions; with events, there may be none.
Poll(s) ==
    /\ pc[s] = "poll" /\ (cq[s]["r"] = <<>> => args.use_event)
    /\ LET n == IF Len(cq[s]["r"]) < 2 THEN Len(cq[s]["r"]) ELSE 2
       IN  /\ batch' = [batch EXCEPT ![s] = SubSeq(cq[s]["r"], 1, n)]
           /\ cq' = [cq EXCEPT ![s]["r"] = SubSeq(@, n + 1, Len(@))]
           /\ Goto(s, IF n = 0 THEN Top ELSE "handle")
    /\ UNCHANGED <<rq, sq, net_buf, armed, events, mq, waits, comps, mcq, why, tcp,
                   routs, last, pending, cnt, unacked>>

\* MUTANT: the message of the round need not have come.
RoundOverWithoutRecv(s, what) == cnt'[s]["send"] < Iters /\ "send" \notin pending[s] \ {what}

\* The completion is the last the round needs, and there is another round.
RoundOver(s, what) == cnt'[s]["send"] < Iters /\ pending[s] \subseteq {what}

\* After a completion: the next SEND, if the round is over, and the next
\* completion or iteration.
GoesOn(s, what) ==
    /\ IF RoundOver(s, what)
       THEN /\ sq' = [sq EXCEPT ![s] = "posted"]
            /\ pending' = [pending EXCEPT ![s] = {"recv", "send"}]
       ELSE /\ pending' = [pending EXCEPT ![s] = @ \ {what}]
            /\ UNCHANGED sq
    /\ batch' = [batch EXCEPT ![s] = Tail(@)]
    /\ Goto(s, IF Len(batch[s]) > 1 THEN "handle"
               ELSE IF \E w \in {"recv", "send"} : cnt'[s][w] < Iters THEN Top ELSE "done")

HandleSend(s) ==
    /\ pc[s] = "handle" /\ Head(batch[s]) = "send"
    /\ cnt' = [cnt EXCEPT ![s]["send"] = @ + 1]
    /\ GoesOn(s, "send")
    /\ UNCHANGED <<rq, net_buf, cq, armed, events, mq, waits, comps, mcq, why, tcp,
                   routs, last, unacked>>

\* What came, unpacked, and what pp_calc_verify expects: the operation on what
\* was sent last and the own second operand, as both sides have the same.
Received(s) == UnpackDataFromCalc(args.op, args.type, net_buf[s])
Expected(s) == Exec(args.op, args.type, last[s], Operand(2))

\* pp_update_last_result; the receives are posted again when one is left.
HandleRecv(s) ==
    /\ pc[s] = "handle" /\ Head(batch[s]) = "recv"
    /\ Received(s) = Expected(s)
    /\ last' = [last EXCEPT ![s] = Exec(args.op, args.type, Received(s), Operand(2))]
    /\ cnt' = [cnt EXCEPT ![s]["recv"] = @ + 1]
    /\ IF routs[s] - 1 <= 1
       THEN /\ routs' = [routs EXCEPT ![s] = RxDepth]
            /\ rq' = [rq EXCEPT ![s] = @ + RxDepth - (routs[s] - 1)]
       ELSE /\ routs' = [routs EXCEPT ![s] = @ - 1]
            /\ UNCHANGED rq
    /\ GoesOn(s, "recv")
    /\ UNCHANGED <<net_buf, cq, armed, events, mq, waits, comps, mcq, why, tcp, unacked>>

\* --verify
VerifyFails(s) ==
    /\ pc[s] = "handle" /\ Head(batch[s]) = "recv"
    /\ Received(s) # Expected(s)
    /\ Fails(s, "verify")
    /\ UNCHANGED <<nicVars, tcp, routs, last, batch, pending, cnt, unacked>>

HandleError(s) ==
    /\ pc[s] = "handle" /\ Head(batch[s]) = "error"
    /\ Fails(s, "status")
    /\ UNCHANGED <<nicVars, tcp, routs, last, batch, pending, cnt, unacked>>

CcLoop(s) ==
    \/ GetEvent(s) \/ PostWait(s) \/ PollMcq(s) \/ Poll(s)
    \/ HandleSend(s) \/ HandleRecv(s) \/ VerifyFails(s) \/ HandleError(s)

-----------------------------------------------------------------------------
(***************************************************************************)
(* The loop of task: scnt is never counted.                                *)
(***************************************************************************)

\* A message is polled and its receive posted again.
PollRecv(s) ==
    /\ pc[s] = "recv" /\ cq[s]["r"] # <<>>
    /\ cq' = [cq EXCEPT ![s]["r"] = Tail(@)]
    /\ cnt' = [cnt EXCEPT ![s]["recv"] = @ + 1]
    /\ rq' = [rq EXCEPT ![s] = @ + 1]
    /\ Goto(s, "task")
    /\ UNCHANGED <<sq, net_buf, armed, events, mq, waits, comps, mcq, why, tcp, routs,
                   last, batch, pending, unacked>>

\* pp_post_send: a wait for one more message, the SEND, and what enables it.
PostTask(s) ==
    /\ pc[s] = "task"
    /\ sq' = [sq EXCEPT ![s] = "held"]
    /\ mq' = [mq EXCEPT ![s] = @ \o <<"wait", "enable">>]
    /\ Goto(s, "mcq")
    /\ UNCHANGED <<rq, net_buf, cq, armed, events, waits, comps, mcq, why, tcp, routs,
                   last, batch, pending, cnt, unacked>>

\* MUTANT: the loop ends one message early.
SentOneFewer(s) ==
    /\ pc[s] = "scq" /\ cq[s]["s"] # <<>> /\ Head(cq[s]["s"]) = "send"
    /\ cq' = [cq EXCEPT ![s]["s"] = Tail(@)]
    /\ Goto(s, IF cnt[s]["recv"] < Iters - 1 THEN "recv" ELSE "done")
    /\ UNCHANGED <<rq, sq, net_buf, armed, events, mq, waits, comps, mcq, why, tcp,
                   routs, last, batch, pending, cnt, unacked>>

\* The SEND's own completion.
Sent(s) ==
    /\ pc[s] = "scq" /\ cq[s]["s"] # <<>> /\ Head(cq[s]["s"]) = "send"
    /\ cq' = [cq EXCEPT ![s]["s"] = Tail(@)]
    /\ Goto(s, IF cnt[s]["recv"] < Iters THEN "recv" ELSE "done")
    /\ UNCHANGED <<rq, sq, net_buf, armed, events, mq, waits, comps, mcq, why, tcp,
                   routs, last, batch, pending, cnt, unacked>>

NotSent(s) ==
    /\ pc[s] = "scq" /\ cq[s]["s"] # <<>> /\ Head(cq[s]["s"]) = "error"
    /\ Fails(s, "send")
    /\ UNCHANGED <<nicVars, tcp, routs, last, batch, pending, cnt, unacked>>

TaskLoop(s) == PollRecv(s) \/ PostTask(s) \/ Sent(s) \/ NotSent(s)

Main(s) == CcLoop(s) \/ TaskLoop(s)

-----------------------------------------------------------------------------
(***************************************************************************)
(* The NICs.                                                               *)
(***************************************************************************)

\* The completion queue of receives, in cc of all.
Completes(s, q, what) ==
    /\ cq' = [cq EXCEPT ![s][q] = Append(@, what)]
    /\ comps' = [comps EXCEPT ![s] = IF q = "r" THEN @ + 1 ELSE @]
    /\ events' = [events EXCEPT ![s] = IF q = "r" /\ armed[s] THEN @ + 1 ELSE @]
    /\ armed' = [armed EXCEPT ![s] = IF q = "r" THEN FALSE ELSE @]

SendCq == IF Cc THEN "r" ELSE "s"

\* The SEND is computed from the buffer when it leaves, and overwrites the
\* first word of the peer's.
Deliver(s) ==
    /\ sq[s] = "posted" /\ pc[Peer(s)] \notin Ended /\ rq[Peer(s)] > 0
    /\ sq' = [sq EXCEPT ![s] = "delivered"]
    /\ rq' = [rq EXCEPT ![Peer(s)] = @ - 1]
    /\ net_buf' = [net_buf EXCEPT ![Peer(s)] = Hardware(args.op, args.type, net_buf[s], OwnWord)]
    /\ Completes(Peer(s), "r", "recv")
    /\ UNCHANGED <<mq, waits, mcq, mainVars>>

Acknowledge(s) ==
    /\ sq[s] = "delivered"
    /\ sq' = [sq EXCEPT ![s] = "none"]
    /\ Completes(s, SendCq, "send")
    /\ UNCHANGED <<rq, net_buf, mq, waits, mcq, mainVars>>

\* The peer's queue pair is gone: the retries are used up.
GivesUp(s) ==
    /\ sq[s] = "posted" /\ pc[Peer(s)] \in Ended
    /\ sq' = [sq EXCEPT ![s] = "none"]
    /\ Completes(s, SendCq, "error")
    /\ UNCHANGED <<rq, net_buf, mq, waits, mcq, mainVars>>

\* The management queue pair: a wait ends with the next completion that no wait
\* has counted; an enable lets the SEND go.  A wait is signaled, of the enables
\* only the first.
Manage(s) ==
    /\ mq[s] # <<>>
    /\ Head(mq[s]) = "wait" => comps[s] >= waits[s] + WaitCount
    /\ mq' = [mq EXCEPT ![s] = Tail(@)]
    /\ waits' = [waits EXCEPT ![s] = IF Head(mq[s]) = "wait" THEN @ + WaitCount ELSE @]
    /\ sq' = [sq EXCEPT ![s] = IF Head(mq[s]) = "wait" THEN @ ELSE "posted"]
    /\ mcq' = [mcq EXCEPT ![s] = IF Head(mq[s]) = "enable" THEN @ ELSE @ + 1]
    /\ UNCHANGED <<rq, net_buf, cq, armed, events, comps, mainVars>>

Nic(s) ==
    pc[s] \notin Ended /\ (Deliver(s) \/ Acknowledge(s) \/ GivesUp(s) \/ Manage(s))

Kill(s) ==
    /\ "kill" \in faults /\ pc[s] \notin Ended
    /\ Goto(s, "killed")
    /\ UNCHANGED <<nicVars, why, tcp, routs, last, batch, pending, cnt, unacked>>

Next ==
    /\ Exchange \/ \E s \in Sides : Main(s) \/ Nic(s) \/ Kill(s)
    /\ UNCHANGED <<args, faults>>

Spec == Init /\ [][Next]_vars

\* Both programs run, and the NICs do their work.
Fairness ==
    WF_runVars(Exchange) /\ \A s \in Sides : WF_runVars(Main(s)) /\ WF_runVars(Nic(s))

FairSpec == Spec /\ Fairness

-----------------------------------------------------------------------------
(***************************************************************************)
(* Properties.                                                             *)
(***************************************************************************)

\* --verify fails only where packing loses the order of the operands: whatever
\* the operation, the type, the operands and the interleaving, a result is what
\* the host computes, although it is the NIC that computes it, in 64 bits, out
\* of a buffer both sides' messages go through.
VerifyFailsAtEdges ==
    \A s \in Sides : why[s] = "verify" =>
        OrderLost(args.op, args.type, Operand(1), Operand(2))

\* One buffer takes the messages and is what the next is computed from: while
\* the peer may still deliver, nothing of it waits to be sent or to be read.
BufferUnshared ==
    \A s \in Sides : sq[Peer(s)] \in {"held", "posted"} =>
        /\ sq[s] \notin {"held", "posted"}
        /\ \A i \in DOMAIN cq[s]["r"] : cq[s]["r"][i] # "recv"
        /\ \A i \in DOMAIN batch[s] : batch[s][i] # "recv"

\* Without a fault and with results that verify, a side fails in one case: the
\* client of task sends a message after its last round, which the server no
\* longer waits for and may be too late for.
OnlyLastSendFails ==
    \A s \in Sides :
        /\ pc[s] \in {"failed", "stuck"} /\ faults = {} /\ why[s] # "verify"
        /\ ~OrderLost(args.op, args.type, Operand(1), Operand(2))
        => /\ args.program = "TASK" /\ s = "client"
           /\ cnt[s]["recv"] = Iters /\ pc["server"] = "done"

\* Without a fault and with results that verify, both sides end, whichever waits
\* the management queue pair has been given and however many completions main
\* polls at once; the server of task with all its messages.
BothFinish ==
    (faults = {} /\ ~OrderLost(args.op, args.type, Operand(1), Operand(2)))
        ~> (pc["client"] \in Ended /\ pc["server"] = "done")
=============================================================================
