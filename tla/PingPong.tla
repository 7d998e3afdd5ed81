------------------------------ MODULE PingPong ------------------------------
(***************************************************************************)
(* rc_pingpong, uc_pingpong, ud_pingpong, srq_pingpong and umr_rc: a       *)
(* client and a server tell each other the addresses of their queue pairs  *)
(* over a TCP connection, connect them, and then send a message to and fro *)
(* Iters times.                                                            *)
(*                                                                         *)
(* Each program is a single thread; what runs beside it is its NIC and the *)
(* other program.  The programs have nearly the same text.  They differ in *)
(*   - the transport: a reliable connection repeats a message until the    *)
(*     receiver has a receive posted and reports it sent when it is        *)
(*     acknowledged; UC and UD report it sent when it has left, and drop   *)
(*     what finds no receive;                                              *)
(*   - srq_pingpong ("SRQ") has several queue pairs that share one receive *)
(*     queue, one completion queue and one pair of counters;               *)
(*   - umr_rc ("UMR") and rc_pingpong --check-nop ("NOP") put a work       *)
(*     request of their own on the connected queue pair and poll for its   *)
(*     completion before the exchange; umr_rc posts its receives only then.*)
(***************************************************************************)
EXTENDS Naturals, Sequences, FiniteSets

CONSTANTS
    Args,       \* how the two programs may be called
    FaultSets   \* what the environment may do, subsets of AllFaults

\* A side that is killed; an address that comes in two TCP segments; a message
\* of an unreliable transport, or the last ack of a reliable one, that is lost.
AllFaults == {"kill", "segments", "loss"}

ASSUME PingPongAssumption ==
    /\ Args \subseteq [program : {"RC", "NOP", "UC", "UD", "SRQ", "UMR"},
                       num_qp : Nat \ {0}, iters : Nat \ {0},
                       rx_depth : Nat \ {0}, use_event : BOOLEAN]
    /\ \A a \in Args : IF a.program = "SRQ" THEN a.num_qp <= a.rx_depth
                                           ELSE a.num_qp = 1
    /\ FaultSets \subseteq SUBSET AllFaults

VARIABLES
    args,     \* which program it is, and its arguments, the same on both sides
    faults,   \* what may go wrong
    pc,       \* where main is
    tcp,      \* what the side can read from its socket
    qp,       \* its queue pairs: "init", "rts" or "destroyed"
    recvs,    \* receives posted and not consumed
    sq,       \* messages posted and not sent, per queue pair
    net,      \* messages of an unreliable transport on their way
    unacked,  \* messages sent and not reported as completed
    cq,       \* completion queue: what completed, and on which queue pair
    armed,    \* ibv_req_notify_cq asked for an event that has not come yet
    events,   \* events in the completion channel
    wc,       \* completions ibv_poll_cq returned and main has not looked at
    routs,    \* main's count of outstanding receives
    pending,  \* ctx->pending, per queue pair
    scnt,     \* main's count of completed sends
    rcnt      \* main's count of completed receives

nicVars  == <<recvs, sq, net, unacked, cq, armed, events>>
loopVars == <<wc, routs, pending, scnt, rcnt>>
runVars  == <<pc, tcp, qp, nicVars, loopVars>>
vars == <<args, faults, runVars>>

Program   == args.program
NumQp     == args.num_qp
Qps       == 1 .. NumQp
Iters     == args.iters
RxDepth   == args.rx_depth
UseEvent  == args.use_event

Reliable == Program \notin {"UC", "UD"}

Sides   == {"client", "server"}
Peer(s) == IF s = "client" THEN "server" ELSE "client"

\* "absent": ended before it listened or connected; "stuck": in ibv_destroy_cq
\* for ever, its queue pairs destroyed.
Ended == {"ok", "failed", "stuck", "killed", "absent"}

Completions == {"send", "recv", "error"} \X Qps

\* Neither side posts more receives than its queue holds, and with one queue
\* pair none sends or receives more than Iters messages; several queue pairs
\* are in the midst of an exchange when the common counters reach Iters.
TypeOK ==
    /\ args \in Args
    /\ faults \in FaultSets
    /\ pc \in [Sides -> {"start", "wait_addr", "connect", "wait_done", "own",
                         "event", "poll", "handle", "close_ok", "close_failed",
                         "close_stuck"} \cup Ended]
    /\ tcp \in [Sides -> Seq({"addr", "split", "done"})]
    /\ qp \in [Sides -> {"init", "rts", "destroyed"}]
    /\ recvs \in [Sides -> 0 .. RxDepth]
    /\ sq \in [Sides -> [Qps -> Nat]]
    /\ net \in [Sides -> [Qps -> Nat]]
    /\ unacked \in [Sides -> [Qps -> Nat]]
    /\ cq \in [Sides -> Seq(Completions)]
    /\ armed \in [Sides -> BOOLEAN]
    /\ events \in [Sides -> Nat]
    /\ wc \in [Sides -> Seq(Completions)]
    /\ routs \in [Sides -> 0 .. RxDepth]
    /\ pending \in [Sides -> [Qps -> SUBSET {"recv", "send"}]]
    /\ scnt \in [Sides -> 0 .. Iters + NumQp - 1]
    /\ rcnt \in [Sides -> 0 .. Iters + NumQp - 1]

Init ==
    /\ args \in Args
    /\ faults \in FaultSets
    /\ pc = [s \in Sides |-> "start"]
    /\ tcp = [s \in Sides |-> <<>>]
    /\ qp = [s \in Sides |-> "init"]
    /\ recvs = [s \in Sides |-> 0]
    /\ sq = [s \in Sides |-> [q \in Qps |-> 0]]
    /\ net = [s \in Sides |-> [q \in Qps |-> 0]]
    /\ unacked = [s \in Sides |-> [q \in Qps |-> 0]]
    /\ cq = [s \in Sides |-> <<>>]
    /\ armed = [s \in Sides |-> FALSE]
    /\ events = [s \in Sides |-> 0]
    /\ wc = [s \in Sides |-> <<>>]
    /\ routs = [s \in Sides |-> 0]
    /\ pending = [s \in Sides |-> [q \in Qps |-> {}]]
    /\ scnt = [s \in Sides |-> 0]
    /\ rcnt = [s \in Sides |-> 0]

Running(s) == pc[s] \notin Ended

\* The process ends: its queue pairs and its socket go with it.  It has "failed"
\* when it left before the counts were reached, whatever the exit status:
\* umr_rc returns 0 also then.
Exit(s, how) ==
    /\ pc' = [pc EXCEPT ![s] = IF @ = "start" THEN "absent" ELSE how]
    /\ qp' = [qp EXCEPT ![s] = "destroyed"]

\* The addresses are written in order; TCP may deliver them in two segments.
Address == IF "segments" \in faults THEN {"addr", "split"} ELSE {"addr"}

Loop == IF UseEvent THEN "event" ELSE "poll"

-----------------------------------------------------------------------------
(***************************************************************************)
(* Setting up.                                                             *)
(***************************************************************************)

\* What is posted before the exchange of addresses; umr_rc has no memory key
\* to receive with yet.
FirstReceives == IF Program = "UMR" THEN 0 ELSE RxDepth

\* pp_init_ctx, the receives, ibv_req_notify_cq; the server then listens.
ServerStart ==
    LET s == "server"
    IN  /\ pc[s] = "start"
        /\ pc' = [pc EXCEPT ![s] = "wait_addr"]
        /\ recvs' = [recvs EXCEPT ![s] = FirstReceives]
        /\ routs' = [routs EXCEPT ![s] = FirstReceives]
        /\ armed' = [armed EXCEPT ![s] = UseEvent]
        /\ UNCHANGED <<tcp, qp, sq, net, unacked, cq, events, wc, pending, scnt, rcnt>>

\* The same, and the client connects and writes its addresses; without a
\* server that listens, connect fails and main returns 1.
ClientStart ==
    LET s == "client"
    IN  /\ pc[s] = "start"
        /\ recvs' = [recvs EXCEPT ![s] = FirstReceives]
        /\ routs' = [routs EXCEPT ![s] = FirstReceives]
        /\ armed' = [armed EXCEPT ![s] = UseEvent]
        /\ IF pc["server"] = "wait_addr"
           THEN /\ \E a \in Address : tcp' = [tcp EXCEPT !["server"] = <<a>>]
                /\ pc' = [pc EXCEPT ![s] = "wait_addr"]
                /\ UNCHANGED qp
           ELSE Exit(s, "failed") /\ UNCHANGED tcp
        /\ UNCHANGED <<sq, net, unacked, cq, events, wc, pending, scnt, rcnt>>

\* The addresses have been read.
ReadsAddress(s) == tcp[s] \in {<<"addr">>, <<"split">>}

\* rc_pingpong and ud_pingpong wait for all of them (MSG_WAITALL), and
\* srq_pingpong reads until it has them; uc_pingpong and umr_rc take what read
\* returns, which may be the first segment.
ReadsPart(s) == Program \in {"UC", "UMR"} /\ tcp[s] = <<"split">>

\* pp_server_exch_dest: connect the queue pairs, and only then tell the
\* client their addresses.
ServerConnect ==
    LET s == "server"
    IN  /\ pc[s] = "wait_addr" /\ ReadsAddress(s)
        /\ qp' = [qp EXCEPT ![s] = "rts"]
        /\ \E a \in Address : tcp' = [tcp EXCEPT ![s] = <<>>, !["client"] = <<a>>]
        /\ pc' = [pc EXCEPT ![s] = "wait_done"]
        /\ UNCHANGED <<nicVars, loopVars>>

\* pp_client_exch_dest: the answer is read and "done" written.
ClientReadAddress ==
    LET s == "client"
    IN  /\ pc[s] = "wait_addr" /\ ReadsAddress(s)
        /\ tcp' = [tcp EXCEPT ![s] = <<>>, !["server"] = <<"done">>]
        /\ pc' = [pc EXCEPT ![s] = "connect"]
        /\ UNCHANGED <<qp, nicVars, loopVars>>

\* The client begins every queue pair's exchange, the server waits for it.
EnterLoop(s) ==
    /\ IF s = "client"
       THEN /\ sq' = [sq EXCEPT ![s] = [q \in Qps |-> 1]]
            /\ pending' = [pending EXCEPT ![s] = [q \in Qps |-> {"recv", "send"}]]
       ELSE /\ pending' = [pending EXCEPT ![s] = [q \in Qps |-> {"recv"}]]
            /\ UNCHANGED sq
    /\ pc' = [pc EXCEPT ![s] = Loop]

\* A work request of the side's own comes before its exchange: create_umr on
\* both sides, send_nop on the client's.
HasOwnWork(s) == \/ Program = "UMR"
                 \/ Program = "NOP" /\ s = "client"

EnterOwnWork(s) == pc' = [pc EXCEPT ![s] = "own"] /\ UNCHANGED <<sq, pending>>

\* main: pp_connect_ctx, then what comes first.
ClientConnect ==
    LET s == "client"
    IN  /\ pc[s] = "connect"
        /\ qp' = [qp EXCEPT ![s] = "rts"]
        /\ IF HasOwnWork(s) THEN EnterOwnWork(s) ELSE EnterLoop(s)
        /\ UNCHANGED <<tcp, recvs, net, unacked, cq, armed, events, wc, routs, scnt, rcnt>>

\* The server has "done".
ServerReady ==
    LET s == "server"
    IN  /\ pc[s] = "wait_done" /\ tcp[s] # <<>>
        /\ tcp' = [tcp EXCEPT ![s] = <<>>]
        /\ IF HasOwnWork(s) THEN EnterOwnWork(s) ELSE EnterLoop(s)
        /\ UNCHANGED <<qp, recvs, net, unacked, cq, armed, events, wc, routs, scnt, rcnt>>

\* The side's own work completes, which raises the event main asked for, and
\* is polled for without waiting for that event; umr_rc posts its receives.
OwnWorkDone(s) ==
    /\ pc[s] = "own"
    /\ events' = [events EXCEPT ![s] = IF armed[s] THEN @ + 1 ELSE @]
    /\ armed' = [armed EXCEPT ![s] = FALSE]
    /\ recvs' = [recvs EXCEPT ![s] = RxDepth]
    /\ routs' = [routs EXCEPT ![s] = RxDepth]
    /\ EnterLoop(s)
    /\ UNCHANGED <<tcp, qp, net, unacked, cq, wc, scnt, rcnt>>

PeerGone(s) == tcp[s] = <<>> /\ pc[Peer(s)] \in Ended \ {"absent"}

\* A short read, or the end of the stream because the peer has ended.  At the
\* end of the stream srq_pingpong reads on for ever: its loop ends with all
\* bytes or with a negative result.
ExchangeFails(s) ==
    /\ pc[s] \in {"wait_addr", "wait_done"}
    /\ ReadsPart(s) \/ PeerGone(s)
    /\ Program = "SRQ" => pc[s] = "wait_done"
    /\ Exit(s, "failed")
    /\ UNCHANGED <<tcp, nicVars, loopVars>>

\* A server killed with the addresses unread resets the connection: read
\* fails, and srq_pingpong goes on with an array it has not filled.
ReadReset ==
    LET s == "client"
    IN  /\ Program = "SRQ" /\ pc[s] = "wait_addr" /\ PeerGone(s)
        /\ tcp[Peer(s)] # <<>>
        /\ pc' = [pc EXCEPT ![s] = "connect"]
        /\ UNCHANGED <<tcp, qp, nicVars, loopVars>>

SetUp ==
    \/ ServerStart \/ ServerConnect \/ ServerReady
    \/ ClientStart \/ ClientReadAddress \/ ClientConnect \/ ReadReset
    \/ \E s \in Sides : OwnWorkDone(s) \/ ExchangeFails(s)

-----------------------------------------------------------------------------
(***************************************************************************)
(* The loop of main, one completion at a time.                             *)
(***************************************************************************)
\* MUTANT: && instead of ||.
MoreBoth(s) == rcnt[s] < Iters /\ scnt[s] < Iters

More(s) == rcnt[s] < Iters \/ scnt[s] < Iters

Closing == [ok |-> "close_ok", failed |-> "close_failed", stuck |-> "close_stuck"]

\* pp_close_ctx, for which umr_rc must invalidate its memory key first.
Close(s, how) ==
    IF Program = "UMR"
    THEN pc' = [pc EXCEPT ![s] = Closing[how]] /\ UNCHANGED qp
    ELSE Exit(s, how)

\* Both counts are reached: ibv_ack_cq_events and pp_close_ctx.
Finish(s) ==
    /\ pc[s] = Loop /\ ~More(s)
    /\ Close(s, "ok")
    /\ UNCHANGED <<tcp, nicVars, loopVars>>

\* invalidate_umr posts a work request and takes the next completion for its
\* own, whatever it is; main does not look at its result.
InvalidateUmr(s) ==
    /\ \E how \in {"ok", "failed", "stuck"} :
          pc[s] = Closing[how] /\ Exit(s, how)
    /\ cq' = [cq EXCEPT ![s] = IF @ = <<>> THEN @ ELSE Tail(@)]
    /\ UNCHANGED <<tcp, recvs, sq, net, unacked, armed, events, loopVars>>

\* MUTANT: the queue is armed once, before the loop.
GetEventForgetsNotify(s) ==
    /\ pc[s] = "event" /\ More(s) /\ events[s] > 0
    /\ events' = [events EXCEPT ![s] = @ - 1]
    /\ pc' = [pc EXCEPT ![s] = "poll"]
    /\ UNCHANGED <<tcp, qp, recvs, sq, net, unacked, cq, armed, loopVars>>

\* ibv_get_cq_event, then ibv_req_notify_cq.
GetEvent(s) ==
    /\ pc[s] = "event" /\ More(s) /\ events[s] > 0
    /\ events' = [events EXCEPT ![s] = @ - 1]
    /\ armed' = [armed EXCEPT ![s] = TRUE]
    /\ pc' = [pc EXCEPT ![s] = "poll"]
    /\ UNCHANGED <<tcp, qp, recvs, sq, net, unacked, cq, loopVars>>

\* MUTANT: one completion per event.
Batch1 == 1

\* The length of wc[].
Batch == IF Program = "SRQ" THEN NumQp + RxDepth ELSE 2

\* ibv_poll_cq takes what wc[] holds; without events it is repeated
\* until there is one, with events it may find none.
PollCq(s) ==
    LET n == IF Len(cq[s]) < Batch THEN Len(cq[s]) ELSE Batch
    IN  /\ pc[s] = "poll" /\ (UseEvent \/ (More(s) /\ n > 0))
        /\ wc' = [wc EXCEPT ![s] = SubSeq(cq[s], 1, n)]
        /\ cq' = [cq EXCEPT ![s] = SubSeq(@, n + 1, Len(@))]
        /\ pc' = [pc EXCEPT ![s] = "handle"]
        /\ UNCHANGED <<tcp, qp, recvs, sq, net, unacked, armed, events, routs,
                       pending, scnt, rcnt>>

\* An error completion ends main.  rc, uc and ud_pingpong return at once; the
\* others close the context, past ibv_ack_cq_events, without which
\* ibv_destroy_cq does not return.
CompletionFails(s) ==
    /\ pc[s] = "handle" /\ wc[s] # <<>> /\ Head(wc[s])[1] = "error"
    /\ Close(s, IF UseEvent /\ Program \in {"SRQ", "UMR"} THEN "stuck" ELSE "failed")
    /\ UNCHANGED <<tcp, nicVars, loopVars>>

\* When nothing is pending any more on the queue pair, its next message is
\* posted.
Answer(s, id, q) ==
    LET again == scnt'[s] < Iters /\ pending[s][q] \subseteq {id}
    IN  /\ sq' = IF again THEN [sq EXCEPT ![s][q] = @ + 1] ELSE sq
        /\ pending' = [pending EXCEPT ![s][q] =
                          IF again THEN {"recv", "send"} ELSE @ \ {id}]

HandleSend(s) ==
    /\ pc[s] = "handle" /\ wc[s] # <<>> /\ Head(wc[s])[1] = "send"
    /\ wc' = [wc EXCEPT ![s] = Tail(@)]
    /\ scnt' = [scnt EXCEPT ![s] = @ + 1]
    /\ Answer(s, "send", Head(wc[s])[2])
    /\ UNCHANGED <<pc, tcp, qp, recvs, net, unacked, cq, armed, events, routs, rcnt>>

\* MUTANT: receives are not posted again.
ReplenishNever(n) == n

\* pp_post_recv fills up the receive queue when at most one receive per queue
\* pair is left.
Replenish(n) == IF n <= NumQp THEN RxDepth ELSE n

\* MUTANT: what pp_post_recv returns is not added to routs.
HandleRecvForgetsRouts(s) ==
    /\ pc[s] = "handle" /\ wc[s] # <<>> /\ Head(wc[s])[1] = "recv"
    /\ wc' = [wc EXCEPT ![s] = Tail(@)]
    /\ routs' = [routs EXCEPT ![s] = @ - 1]
    /\ recvs' = [recvs EXCEPT ![s] = @ + Replenish(routs[s] - 1) - (routs[s] - 1)]
    /\ rcnt' = [rcnt EXCEPT ![s] = @ + 1]
    /\ scnt' = scnt
    /\ Answer(s, "recv", Head(wc[s])[2])
    /\ UNCHANGED <<pc, tcp, qp, net, unacked, cq, armed, events>>

HandleRecv(s) ==
    /\ pc[s] = "handle" /\ wc[s] # <<>> /\ Head(wc[s])[1] = "recv"
    /\ wc' = [wc EXCEPT ![s] = Tail(@)]
    /\ routs' = [routs EXCEPT ![s] = Replenish(routs[s] - 1)]
    /\ recvs' = [recvs EXCEPT ![s] = @ + routs'[s] - (routs[s] - 1)]
    /\ rcnt' = [rcnt EXCEPT ![s] = @ + 1]
    /\ scnt' = scnt
    /\ Answer(s, "recv", Head(wc[s])[2])
    /\ UNCHANGED <<pc, tcp, qp, net, unacked, cq, armed, events>>

\* All completions of this round are handled.
NextRound(s) ==
    /\ pc[s] = "handle" /\ wc[s] = <<>>
    /\ pc' = [pc EXCEPT ![s] = Loop]
    /\ UNCHANGED <<tcp, qp, nicVars, loopVars>>

MainLoop(s) ==
    \/ Finish(s) \/ InvalidateUmr(s) \/ GetEvent(s) \/ PollCq(s) \/ CompletionFails(s)
    \/ HandleSend(s) \/ HandleRecv(s) \/ NextRound(s)

-----------------------------------------------------------------------------
(***************************************************************************)
(* The NIC and the network.                                                *)
(***************************************************************************)

\* A completion is added; if the queue is armed it raises an event.
Complete(s, what, q) ==
    /\ cq' = [cq EXCEPT ![s] = Append(@, <<what, q>>)]
    /\ events' = [events EXCEPT ![s] = IF armed[s] THEN @ + 1 ELSE @]
    /\ armed' = [armed EXCEPT ![s] = FALSE]

Prepared(s) == qp[s] = "rts" /\ recvs[s] > 0

\* Reliable: the message arrives when the receiver is prepared.
SendReliable(s, q) ==
    LET p == Peer(s)
    IN  /\ Reliable
        /\ qp[s] = "rts" /\ sq[s][q] > 0 /\ Prepared(p)
        /\ sq' = [sq EXCEPT ![s][q] = @ - 1]
        /\ unacked' = [unacked EXCEPT ![s][q] = @ + 1]
        /\ recvs' = [recvs EXCEPT ![p] = @ - 1]
        /\ Complete(p, "recv", q)
        /\ UNCHANGED <<pc, tcp, qp, net, loopVars>>

\* Unreliable: it leaves.
SendUnreliable(s, q) ==
    /\ ~Reliable
    /\ qp[s] = "rts" /\ sq[s][q] > 0
    /\ sq' = [sq EXCEPT ![s][q] = @ - 1]
    /\ unacked' = [unacked EXCEPT ![s][q] = @ + 1]
    /\ net' = [net EXCEPT ![s][q] = @ + 1]
    /\ UNCHANGED <<pc, tcp, qp, recvs, cq, armed, events, loopVars>>

\* It arrives, and is dropped unless the receiver is prepared.
Arrive(s, q) ==
    LET p == Peer(s)
    IN  /\ net[s][q] > 0
        /\ net' = [net EXCEPT ![s][q] = @ - 1]
        /\ IF Prepared(p)
           THEN /\ recvs' = [recvs EXCEPT ![p] = @ - 1]
                /\ Complete(p, "recv", q)
           ELSE UNCHANGED <<recvs, cq, armed, events>>
        /\ UNCHANGED <<pc, tcp, qp, sq, unacked, loopVars>>

\* It is lost.
Lose(s, q) ==
    /\ "loss" \in faults /\ net[s][q] > 0
    /\ net' = [net EXCEPT ![s][q] = @ - 1]
    /\ UNCHANGED <<pc, tcp, qp, recvs, sq, unacked, cq, armed, events, loopVars>>

\* The send is reported.  The ack of a reliable one may come late, after the
\* peer's next message.
SendCompletes(s, q) ==
    /\ qp[s] = "rts" /\ unacked[s][q] > 0
    /\ unacked' = [unacked EXCEPT ![s][q] = @ - 1]
    /\ Complete(s, "send", q)
    /\ UNCHANGED <<pc, tcp, qp, recvs, sq, net, loopVars>>

\* The peer's queue pair is gone: retries are in vain, also those for an ack
\* that was lost.
SendFails(s, q) ==
    /\ Reliable /\ qp[s] = "rts" /\ qp[Peer(s)] = "destroyed"
    /\ \/ sq[s][q] > 0
       \/ unacked[s][q] > 0 /\ "loss" \in faults
    /\ sq' = [sq EXCEPT ![s][q] = 0]
    /\ unacked' = [unacked EXCEPT ![s][q] = 0]
    /\ Complete(s, "error", q)
    /\ UNCHANGED <<pc, tcp, qp, recvs, net, loopVars>>

Nic(s) ==
    \E q \in Qps :
        \/ SendReliable(s, q) \/ SendUnreliable(s, q) \/ Arrive(s, q)
        \/ Lose(s, q) \/ SendCompletes(s, q) \/ SendFails(s, q)

\* A side is killed.
Kill(s) ==
    /\ "kill" \in faults /\ Running(s)
    /\ Exit(s, "killed")
    /\ UNCHANGED <<tcp, nicVars, loopVars>>

\* Both have ended, or the server waits in accept for a client that has.
Rest ==
    /\ ~Running("client")
    /\ \/ ~Running("server")
       \/ pc["client"] = "absent" /\ pc["server"] = "wait_addr"
    /\ UNCHANGED runVars

Next ==
    /\ SetUp \/ (\E s \in Sides : MainLoop(s) \/ Nic(s) \/ Kill(s)) \/ Rest
    /\ UNCHANGED <<args, faults>>

Spec == Init /\ [][Next]_vars

\* Main runs, and the NIC does its work; nothing makes messages get lost.
Fairness ==
    /\ WF_runVars(SetUp)
    /\ \A s \in Sides :
          /\ WF_runVars(MainLoop(s))
          /\ WF_runVars(\E q \in Qps : SendReliable(s, q) \/ SendUnreliable(s, q))
          /\ WF_runVars(\E q \in Qps : Arrive(s, q))
          /\ WF_runVars(\E q \in Qps : SendCompletes(s, q))
          /\ WF_runVars(\E q \in Qps : SendFails(s, q))

FairSpec == Spec /\ Fairness

-----------------------------------------------------------------------------
(***************************************************************************)
(* Properties.                                                             *)
(***************************************************************************)
Count(q, S) == Cardinality({i \in 1 .. Len(q) : q[i] \in S})

\* Completions that main has not looked at.
Unseen(s, S) == Count(cq[s], S) + Count(wc[s], S)
Received(s, q) == Unseen(s, {"recv"} \X {q})
AllReceived(s) == Unseen(s, {"recv"} \X Qps)

\* main's count of outstanding receives is what is posted, completed and not
\* looked at: it never posts more than the receive queue holds, and the
\* completion queue, made for RxDepth + NumQp entries, does not overflow.
RoutsIsOutstanding ==
    \A s \in Sides :
        Running(s) =>
            /\ routs[s] = recvs[s] + AllReceived(s)
            /\ Len(cq[s]) <= RxDepth + NumQp

\* Queue pairs with a message for the side on its way.
Coming(s) == {q \in Qps : sq[Peer(s)][q] + net[Peer(s)][q] > 0}

\* umr_rc has not made its memory key and posted its receives.
Late(s) == Program = "UMR" /\ pc[s] \in {"wait_done", "own"}

\* No message finds the peer without connected queue pairs, or without a
\* receive, also not when receives are posted again only in bulk and queue
\* pairs share them: there is one for every message under way, so the
\* unreliable transports drop none for that.  The client of umr_rc
\* alone may be ahead of a server that has not made its memory key yet.
MessageFindsReceive ==
    \A s \in Sides :
        Coming(s) # {} /\ Running(s) =>
            /\ qp[s] = "rts"
            /\ Late(s) \/ recvs[s] >= Cardinality(Coming(s))

\* ctx->pending says what is to come: a send is pending on a queue pair exactly
\* while main has not looked at its completion or failure, so there is never more
\* than one, and a message is answered only when the one before it has left; the
\* send queue, made for one message, does not overflow.
PendingIsOutstanding ==
    \A s \in Sides, q \in Qps :
        Running(s) =>
            (IF "send" \in pending[s][q] THEN 1 ELSE 0) =
                sq[s][q] + unacked[s][q] + Unseen(s, {"send", "error"} \X {q})

\* At most one message is under way on a queue pair, in either direction,
\* whatever has become of the two sides.
OneMessage ==
    \A q \in Qps :
        LET unseen(s) == sq[Peer(s)][q] + net[Peer(s)][q] + Received(s, q)
        IN  unseen("client") + unseen("server") <= 1

\* What main remembers agrees with what is posted, under way and completed, on
\* its own side and, for the one message of a queue pair, on both; at the end
\* the completion that invalidate_umr takes for its own is its own.
Accounting ==
    /\ TypeOK /\ RoutsIsOutstanding /\ PendingIsOutstanding /\ OneMessage
    /\ \A s \in Sides : pc[s] = "close_ok" => cq[s] = <<>>

\* main never sleeps on the completion channel while a completion waits and
\* no event is on its way, although it polls only once per event, and although
\* the event of its own work request comes for a completion it has polled.
NoLostWakeup ==
    \A s \in Sides : pc[s] = "event" /\ More(s) /\ cq[s] # <<>> => events[s] > 0

\* A side whose exchange went through has a peer that has received all of
\* its messages, whatever happens to the peer after that; on an unreliable
\* transport, where sent does not mean received, that is so of the client, and
\* the server's last message may be lost.
OkMeansAllReceived ==
    \A s \in Sides :
        pc[s] = "ok" /\ Running(Peer(s)) =>
            rcnt[Peer(s)] + AllReceived(Peer(s))
                >= IF Reliable \/ s = "client" THEN Iters ELSE Iters - 1

\* If nothing fails and the server was listening when the client started,
\* both sides complete all exchanges.  With several queue pairs the counters
\* may be reached by some of them alone: then one side completes and leaves,
\* and the other leaves too, if only by the failure of a message to its peer.
BothFinish ==
    (faults = {} /\ pc["client"] = "wait_addr") ~>
        /\ \A s \in Sides : pc[s] \in {"ok", "failed", "stuck"}
        /\ \E s \in Sides : pc[s] = "ok"
        /\ NumQp = 1 => \A s \in Sides : pc[s] = "ok"
=============================================================================
