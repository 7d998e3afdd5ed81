---------------------------- MODULE DcTransport ----------------------------
(***************************************************************************)
(* dcini and dctgt, the initiator and the target of the dynamically        *)
(* connected transport.  The target has three threads: main counts the     *)
(* messages of all initiators and posts receives again; handle_clients     *)
(* serves one initiator at a time with the target's address, closing the   *)
(* listening socket meanwhile; poll_async prints asynchronous events.  The *)
(* end of main cancels the other two.                                      *)
(***************************************************************************)
EXTENDS Naturals, FiniteSets

CONSTANTS
    Initiators,  \* the initiators, each started once
    None,        \* no initiator
    Depth,       \* receives posted on the shared receive queue (100)
    Args,        \* how the programs may be called
    FaultSets    \* what the environment may do, subsets of AllFaults

\* An initiator is killed; an address comes in two TCP segments.
AllFaults == {"kill", "segments"}

\* An initiator may be called with a key the target does not have, or with
\* messages that do not fit the target's buffers.
Kinds == {"good", "wrong_key", "too_long"}

ASSUME DcAssumption ==
    /\ IsFiniteSet(Initiators) /\ None \notin Initiators /\ Depth \in Nat \ {0}
    /\ Args \subseteq [iters : Nat \ {0}, target_iters : Nat, rdma : BOOLEAN,
                       kind : [Initiators -> Kinds]]
    /\ FaultSets \subseteq SUBSET AllFaults

VARIABLES
    args,       \* the arguments
    faults,     \* what may go wrong
    pc,         \* where the target's main is
    handler,    \* where handle_clients is
    poller,     \* where poll_async is
    listening,  \* there is a listening socket
    backlog,    \* initiators connected to it and not accepted
    serving,    \* the initiator handle_clients has accepted
    ipc,        \* where an initiator's main is
    test,       \* the test it runs
    done,       \* iterations of the test that are complete
    tcp,        \* what has been written to the target, and to the initiator
    srq,        \* receives posted
    cq,         \* the target's completions: senders, and whether they are good
    armed,      \* the DCT is armed for an asynchronous event
    asyncs,     \* asynchronous events not read
    lost,       \* receives that completed in error and are not posted again
    cnt         \* iterations of the target's loop

targetVars == <<pc, handler, poller, listening, backlog, serving, srq, cq,
                armed, asyncs, lost, cnt>>
iniVars == <<ipc, test, done, tcp>>
runVars == <<targetVars, iniVars>>
vars == <<args, faults, runVars>>

Iters       == args.iters
TargetIters == args.target_iters   \* 0: without end

IniEnded == {"ok", "failed", "killed"}
IniRunning(i) == ipc[i] \notin IniEnded

\* The process exists and has its target queue pair.
Alive == pc \in {"poll", "joining"}

TypeOK ==
    /\ args \in Args /\ faults \in FaultSets
    /\ pc \in {"start", "poll", "joining", "done", "exited"}
    /\ handler \in {"none", "bind", "accept", "read", "gone"}
    /\ poller \in {"none", "arm", "wait", "gone"}
    /\ listening \in BOOLEAN
    /\ backlog \subseteq Initiators
    /\ serving \in Initiators \cup {None}
    /\ ipc \in [Initiators -> {"start", "connected", "wait_addr", "post", "posted",
                               "acked", "error"} \cup IniEnded]
    /\ test \in [Initiators -> {"send", "write", "read"}]
    /\ done \in [Initiators -> 0 .. Iters]
    /\ tcp \in [Initiators \X {"target", "initiator"} -> {"none", "addr", "split", "reset"}]
    /\ srq \in 0 .. Depth
    /\ cq \in [{"good", "bad"} -> Nat]
    /\ armed \in BOOLEAN /\ asyncs \in Nat
    /\ lost \in Nat /\ cnt \in Nat

Init ==
    /\ args \in Args /\ faults \in FaultSets
    /\ pc = "start" /\ handler = "none" /\ poller = "none"
    /\ listening = FALSE /\ backlog = {} /\ serving = None
    /\ ipc = [i \in Initiators |-> "start"]
    /\ test = [i \in Initiators |-> "send"]
    /\ done = [i \in Initiators |-> 0]
    /\ tcp = [x \in Initiators \X {"target", "initiator"} |-> "none"]
    /\ srq = 0 /\ cq = [c \in {"good", "bad"} |-> 0]
    /\ armed = FALSE /\ asyncs = 0 /\ lost = 0 /\ cnt = 0

\* An address is written in one piece; TCP may deliver it in two segments.
Address == IF "segments" \in faults THEN {"addr", "split"} ELSE {"addr"}

\* Connections that are closed with nothing written to the initiator: its read
\* fails.
Reset(conns) ==
    tcp' = [x \in DOMAIN tcp |->
               IF x[1] \in conns /\ x[2] = "initiator" /\ tcp[x] = "none"
               THEN "reset" ELSE tcp[x]]

-----------------------------------------------------------------------------
(***************************************************************************)
(* The target: main.                                                       *)
(***************************************************************************)

\* Everything is created, the receives are posted, and both threads started.
TargetStart ==
    /\ pc = "start"
    /\ pc' = "poll" /\ handler' = "bind" /\ poller' = "arm"
    /\ srq' = Depth
    /\ UNCHANGED <<listening, backlog, serving, cq, armed, asyncs, lost, cnt, iniVars>>

Goes == TargetIters = 0 \/ cnt < TargetIters

\* An error completion counts as an iteration; its receive is not replaced.
PollBad ==
    /\ pc = "poll" /\ Goes /\ cq["bad"] > 0
    /\ cq' = [cq EXCEPT !["bad"] = @ - 1]
    /\ lost' = lost + 1 /\ cnt' = IF TargetIters = 0 THEN cnt ELSE cnt + 1
    /\ UNCHANGED <<pc, handler, poller, listening, backlog, serving, srq, armed,
                   asyncs, iniVars>>

\* MUTANT: the receive is not posted again.
PollGoodForgets ==
    /\ pc = "poll" /\ Goes /\ cq["good"] > 0
    /\ cq' = [cq EXCEPT !["good"] = @ - 1]
    /\ cnt' = IF TargetIters = 0 THEN cnt ELSE cnt + 1
    /\ UNCHANGED <<pc, handler, poller, listening, backlog, serving, srq, armed,
                   asyncs, lost, iniVars>>

\* A received message: the receive is posted again.  Without a number of
\* iterations i only runs on, and is not kept here.
PollGood ==
    /\ pc = "poll" /\ Goes /\ cq["good"] > 0
    /\ cq' = [cq EXCEPT !["good"] = @ - 1]
    /\ srq' = srq + 1
    /\ cnt' = IF TargetIters = 0 THEN cnt ELSE cnt + 1
    /\ UNCHANGED <<pc, handler, poller, listening, backlog, serving, armed, asyncs,
                   lost, iniVars>>

\* thread_active is cleared and both threads are cancelled.
TargetEnds ==
    /\ pc = "poll" /\ ~Goes
    /\ pc' = "joining"
    /\ UNCHANGED <<handler, poller, listening, backlog, serving, srq, cq, armed,
                   asyncs, lost, cnt, iniVars>>

\* The process ends, and with it its sockets.
TargetExit(how) ==
    /\ pc' = how /\ handler' = "gone" /\ poller' = "gone"
    /\ listening' = FALSE /\ backlog' = {} /\ serving' = None
    /\ Reset(backlog \cup {serving})
    /\ UNCHANGED <<srq, cq, armed, asyncs, lost, cnt, ipc, test, done>>

\* handle_clients is joined, the DCT destroyed, and main returns.
TargetReturns == pc = "joining" /\ handler = "gone" /\ TargetExit("done")

Target ==
    \/ TargetStart \/ PollGood \/ PollBad \/ TargetEnds \/ TargetReturns

-----------------------------------------------------------------------------
(***************************************************************************)
(* The target: handle_clients and poll_async.                              *)
(***************************************************************************)

\* socket, bind, listen.
Listen ==
    /\ Alive /\ handler = "bind"
    /\ listening' = TRUE /\ handler' = "accept"
    /\ UNCHANGED <<pc, poller, backlog, serving, srq, cq, armed, asyncs, lost, cnt,
                   iniVars>>

\* accept, and the listening socket is closed: whoever else has connected is
\* cut off.
Accept(i) ==
    /\ Alive /\ handler = "accept" /\ i \in backlog
    /\ serving' = i /\ handler' = "read"
    /\ listening' = FALSE /\ backlog' = {}
    /\ Reset(backlog \ {i})
    /\ UNCHANGED <<pc, poller, srq, cq, armed, asyncs, lost, cnt, ipc, test, done>>

\* The initiator's address is read and answered; the next round begins if
\* thread_active is still set.
Serve ==
    /\ Alive /\ handler = "read"
    /\ tcp[<<serving, "target">>] = "addr"
    /\ \E a \in Address : tcp' = [tcp EXCEPT ![<<serving, "initiator">>] = a]
    /\ serving' = None
    /\ handler' = IF pc = "poll" THEN "bind" ELSE "gone"
    /\ UNCHANGED <<pc, poller, listening, backlog, srq, cq, armed, asyncs, lost, cnt,
                   ipc, test, done>>

\* MUTANT: an address that is not there yet is an error.
ServeFailsEarly ==
    /\ Alive /\ handler = "read"
    /\ tcp[<<serving, "target">>] # "addr"
    /\ TargetExit("exited")

\* A short read, or an initiator that has gone without writing: the whole
\* target exits with EXIT_FAILURE.
ServeFails ==
    /\ Alive /\ handler = "read"
    /\ \/ tcp[<<serving, "target">>] = "split"
       \/ tcp[<<serving, "target">>] = "none" /\ ~IniRunning(serving)
    /\ TargetExit("exited")

\* MUTANT: the thread is not cancelled, only thread_active is cleared.
CancelledNot == FALSE /\ UNCHANGED runVars

\* accept and read are cancellation points.
Cancelled ==
    /\ pc = "joining" /\ handler \in {"accept", "read"}
    /\ handler' = "gone"
    /\ UNCHANGED <<pc, poller, listening, backlog, serving, srq, cq, armed, asyncs,
                   lost, cnt, iniVars>>

HandleClients ==
    Listen \/ (\E i \in Initiators : Accept(i)) \/ Serve \/ ServeFails \/ Cancelled

\* ibv_exp_arm_dct, and then the next asynchronous event is waited for.
ArmDct ==
    /\ Alive /\ poller = "arm"
    /\ armed' = TRUE /\ poller' = "wait"
    /\ UNCHANGED <<pc, handler, listening, backlog, serving, srq, cq, asyncs, lost,
                   cnt, iniVars>>

GetAsyncEvent ==
    /\ Alive /\ poller = "wait" /\ asyncs > 0
    /\ asyncs' = asyncs - 1 /\ poller' = "arm"
    /\ UNCHANGED <<pc, handler, listening, backlog, serving, srq, cq, armed, lost,
                   cnt, iniVars>>

PollAsync == ArmDct \/ GetAsyncEvent

-----------------------------------------------------------------------------
(***************************************************************************)
(* An initiator.                                                           *)
(***************************************************************************)
Goto(i, where) == ipc' = [ipc EXCEPT ![i] = where]

\* connect; nobody listens while another initiator is served.
Connect(i) ==
    /\ ipc[i] = "start"
    /\ IF listening
       THEN Goto(i, "connected") /\ backlog' = backlog \cup {i}
       ELSE Goto(i, "failed") /\ UNCHANGED backlog
    /\ UNCHANGED <<pc, handler, poller, listening, serving, srq, cq, armed, asyncs,
                   lost, cnt, test, done, tcp>>

\* The initiator writes its address.
WriteAddress(i) ==
    /\ ipc[i] = "connected"
    /\ \E a \in Address : tcp' = [tcp EXCEPT ![<<i, "target">>] = a]
    /\ Goto(i, "wait_addr")
    /\ UNCHANGED <<targetVars, test, done>>

\* It has the target's: ibv_create_ah, to_rts, and, if asked for, send_nop.
ReadAddress(i) ==
    /\ ipc[i] = "wait_addr" /\ tcp[<<i, "initiator">>] = "addr"
    /\ Goto(i, "post")
    /\ UNCHANGED <<targetVars, test, done, tcp>>

ReadFails(i) ==
    /\ ipc[i] = "wait_addr" /\ tcp[<<i, "initiator">>] \in {"split", "reset"}
    /\ Goto(i, "failed")
    /\ UNCHANGED <<targetVars, test, done, tcp>>

\* run_send_rdma_test: one request at a time.
PostTest(i) ==
    /\ ipc[i] = "post" /\ done[i] < Iters
    /\ Goto(i, "posted")
    /\ UNCHANGED <<targetVars, test, done, tcp>>

PollTest(i) ==
    /\ ipc[i] = "acked"
    /\ done' = [done EXCEPT ![i] = @ + 1]
    /\ Goto(i, "post")
    /\ UNCHANGED <<targetVars, test, tcp>>

PollTestFails(i) ==
    /\ ipc[i] = "error"
    /\ Goto(i, "failed")
    /\ UNCHANGED <<targetVars, test, done, tcp>>

\* The sends are followed by RDMA writes and reads, if a remote key is given.
NextTest(i) ==
    /\ ipc[i] = "post" /\ done[i] = Iters
    /\ IF args.rdma /\ test[i] # "read"
       THEN /\ test' = [test EXCEPT ![i] = IF @ = "send" THEN "write" ELSE "read"]
            /\ done' = [done EXCEPT ![i] = 0]
            /\ UNCHANGED ipc
       ELSE Goto(i, "ok") /\ UNCHANGED <<test, done>>
    /\ UNCHANGED <<targetVars, tcp>>

Initiator(i) ==
    \/ Connect(i) \/ WriteAddress(i) \/ ReadAddress(i) \/ ReadFails(i)
    \/ PostTest(i) \/ PollTest(i) \/ PollTestFails(i) \/ NextTest(i)

-----------------------------------------------------------------------------
(***************************************************************************)
(* The NICs.                                                               *)
(***************************************************************************)
Good(i) == args.kind[i] = "good"

\* A SEND takes a receive; one that is too long completes both in error.
DeliverSend(i) ==
    /\ ipc[i] = "posted" /\ test[i] = "send" /\ args.kind[i] # "wrong_key"
    /\ Alive /\ srq > 0
    /\ srq' = srq - 1
    /\ cq' = [cq EXCEPT ![IF Good(i) THEN "good" ELSE "bad"] = @ + 1]
    /\ Goto(i, IF Good(i) THEN "acked" ELSE "error")
    /\ UNCHANGED <<pc, handler, poller, listening, backlog, serving, armed, asyncs,
                   lost, cnt, test, done, tcp>>

\* RDMA passes the target's program by; what the target's queue pair grants is
\* for its NIC to say.
DeliverRdma(i) ==
    /\ ipc[i] = "posted" /\ test[i] # "send" /\ Alive
    /\ \E r \in {"acked", "error"} : Goto(i, r)
    /\ UNCHANGED <<targetVars, test, done, tcp>>

\* A wrong key is refused, with an event if the DCT is armed for it.
RefuseKey(i) ==
    /\ ipc[i] = "posted" /\ args.kind[i] = "wrong_key" /\ Alive
    /\ Goto(i, "error")
    /\ asyncs' = IF armed THEN asyncs + 1 ELSE asyncs
    /\ armed' = FALSE
    /\ UNCHANGED <<pc, handler, poller, listening, backlog, serving, srq, cq, lost,
                   cnt, test, done, tcp>>

\* The target is gone.
NoTarget(i) ==
    /\ ipc[i] = "posted" /\ ~Alive
    /\ Goto(i, "error")
    /\ UNCHANGED <<targetVars, test, done, tcp>>

Nic(i) == DeliverSend(i) \/ DeliverRdma(i) \/ RefuseKey(i) \/ NoTarget(i)

Kill(i) ==
    /\ "kill" \in faults /\ IniRunning(i) /\ ipc[i] # "start"
    /\ Goto(i, "killed")
    /\ UNCHANGED <<targetVars, test, done, tcp>>

Next ==
    /\ \/ Target \/ HandleClients \/ PollAsync
       \/ \E i \in Initiators : Initiator(i) \/ Nic(i) \/ Kill(i)
    /\ UNCHANGED <<args, faults>>

Spec == Init /\ [][Next]_vars

\* The threads and the initiators run, and the NICs do their work.
Fairness ==
    /\ WF_runVars(Target) /\ WF_runVars(HandleClients) /\ WF_runVars(PollAsync)
    /\ \A i \in Initiators : WF_runVars(Initiator(i)) /\ WF_runVars(Nic(i))

FairSpec == Spec /\ Fairness

-----------------------------------------------------------------------------
(***************************************************************************)
(* Properties.                                                             *)
(***************************************************************************)

TooLong == {i \in Initiators : args.kind[i] = "too_long"}

\* Every receive that was posted is still there, has completed, or was lost to
\* an error completion: each good message gives its receive back, however the
\* messages of the initiators mix, and one initiator costs the target no more
\* than one receive, although nothing tells main who sent what.
ReceivesConserved ==
    /\ TypeOK
    /\ Alive => srq + cq["good"] + cq["bad"] + lost = Depth
    /\ cq["bad"] + lost <= Cardinality({i \in TooLong : ipc[i] \in {"error"} \cup IniEnded})

\* handle_clients ends the process only because of the initiator it serves: one
\* killed before it had written its address, or an address that came in
\* pieces.  Whatever else initiators do, being cut off, refused or failing in
\* their tests, the target goes on.
ExitNeedsFault ==
    pc = "exited" => \E i \in Initiators :
        \/ tcp[<<i, "target">>] = "split"
        \/ tcp[<<i, "target">>] = "none" /\ ipc[i] = "killed"

\* If nothing fails, every initiator comes to an end, refused, cut off or
\* served, as long as there are receives left for it; and when main has its
\* number of messages the target ends too, although its thread may wait in
\* accept or for an initiator that does not write.
EverybodyEnds ==
    /\ \A i \in Initiators :
          (faults = {} /\ Cardinality(TooLong) < Depth) ~> ~IniRunning(i)
    /\ (pc = "joining") ~> (pc \in {"done", "exited"})
=============================================================================
