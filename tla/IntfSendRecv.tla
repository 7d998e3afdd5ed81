---------------------------- MODULE IntfSendRecv ----------------------------
(***************************************************************************)
(* intf.c: two processes, a sender (the server, which is given no host     *)
(* name) and a receiver, measure the verbs interfaces.  Each starts some   *)
(* threads; thread t of the sender has one queue pair connected to that of *)
(* thread t of the receiver, and one completion queue.  The threads start  *)
(* together, post and poll in bursts until num_msgs messages are posted,   *)
(* and main destroys everything when they are done.                        *)
(*                                                                         *)
(* Steps.  A burst that is posted, a call of qp_poll, and what main does   *)
(* between two calls that block are one step each.  The contents of a      *)
(* buffer are the number of the message in it; numbers of requests do not  *)
(* wrap.                                                                   *)
(***************************************************************************)
EXTENDS Naturals, FiniteSets

CONSTANT Configs  \* how the two programs may be called, and what may go wrong

Sides   == {"send", "recv"}
Peer(s) == IF s = "send" THEN "recv" ELSE "send"

\* A thread cannot be created; a thread cannot be pinned to its cpu, has no
\* clock, or finds a burst refused; a process is killed.
AllFaults == {"no_thread", "thread_fails", "kill"}

Args == [threads : Nat \ {0}, num_msgs : Nat \ {0}, poll_length : BOOLEAN,
         check_data : BOOLEAN, wr_burst : [Sides -> Nat \ {0}],
         max_wrs : [Sides -> Nat \ {0}]]

\* What parse_input lets pass: queues hold more than two bursts, and whole
\* bursts only.  Both sides are called with the same number of threads and
\* messages.
Valid(a) ==
    \A s \in Sides : /\ a.wr_burst[s] * 2 < a.max_wrs[s]
                     /\ a.max_wrs[s] % a.wr_burst[s] = 0

ASSUME IntfAssumption ==
    /\ Configs \subseteq [args : Args, faults : SUBSET AllFaults]
    /\ \A c \in Configs : Valid(c.args)

VARIABLES
    args,          \* the arguments of both programs
    faults,        \* what may go wrong
    main,          \* where main is
    exchanged,     \* the receiver has sent "done" over TCP
    threads_sem,   \* tells the threads of a process to start
    done_sem,      \* threads_done_sem
    pc,            \* where a thread is; a thread is a side and a number
    msg,           \* send_recv: requests posted
    free_wrs,      \* send_recv: room in the queue, as far as it knows
    polled,        \* completions polled (curr_poll_wr)
    cq,            \* completions that were not polled
    err,           \* there is an error completion behind them
    sq,            \* link t: SENDs posted and not delivered
    unacked,       \* link t: SENDs delivered and not reported
    recvs,         \* link t: receives posted and not consumed
    delivered      \* link t: messages delivered so far

mainVars == <<main, exchanged, threads_sem, done_sem>>
loopVars == <<msg, free_wrs, polled>>
cqVars   == <<cq, err>>
linkVars == <<sq, unacked, recvs, delivered>>
runVars  == <<mainVars, pc, loopVars, cqVars, linkVars>>
vars == <<args, faults, runVars>>

Threads == 1 .. args.threads
Ends    == Sides \X Threads
NumMsgs == args.num_msgs
Burst(e)  == args.wr_burst[e[1]]
MaxWrs(e) == args.max_wrs[e[1]]

\* free_wrs at the start: mmin(num_wrs, num_msgs).
Room(e) == IF MaxWrs(e) <= NumMsgs THEN MaxWrs(e) ELSE NumMsgs

MainEnded == {"exited", "failed", "killed"}
\* How a thread ends: it could not be pinned, send_recv failed, or it has
\* measured a duration.
ThreadDone == {"unpinned", "aborted", "measured"}

TypeOK ==
    /\ [args |-> args, faults |-> faults] \in Configs
    /\ main \in [Sides -> {"start", "exchange", "create", "join", "clean"}
                          \cup MainEnded]
    /\ exchanged \in BOOLEAN
    /\ threads_sem \in [Sides -> 0 .. args.threads]
    /\ done_sem \in [Sides -> 0 .. args.threads]
    /\ pc \in [Ends -> {"none", "start", "wait", "run"} \cup ThreadDone]
    /\ msg \in [Ends -> Nat]
    /\ free_wrs \in [Ends -> Nat]
    /\ polled \in [Ends -> Nat]
    /\ cq \in [Ends -> Nat]
    /\ err \in [Ends -> BOOLEAN]
    /\ sq \in [Threads -> Nat]
    /\ unacked \in [Threads -> Nat]
    /\ recvs \in [Threads -> Nat]
    /\ delivered \in [Threads -> Nat]

Init ==
    /\ \E c \in Configs : args = c.args /\ faults = c.faults
    /\ main = [s \in Sides |-> "start"]
    /\ exchanged = FALSE
    /\ threads_sem = [s \in Sides |-> 0]
    /\ done_sem = [s \in Sides |-> 0]
    /\ pc = [e \in Ends |-> "none"]
    /\ msg = [e \in Ends |-> 0]
    /\ free_wrs = [e \in Ends |-> Room(e)]
    /\ polled = [e \in Ends |-> 0]
    /\ cq = [e \in Ends |-> 0]
    /\ err = [e \in Ends |-> FALSE]
    /\ sq = [t \in Threads |-> 0]
    /\ unacked = [t \in Threads |-> 0]
    /\ recvs = [t \in Threads |-> 0]
    /\ delivered = [t \in Threads |-> 0]

Alive(s)     == main[s] \notin MainEnded
Connected(s) == main[s] \in {"create", "join", "clean"}

-----------------------------------------------------------------------------
(***************************************************************************)
(* main: exchange_remote_data, run_threads, destroy_resources.             *)
(***************************************************************************)
\* The receiver connects to the port the sender listens on.
Connect ==
    /\ main = [s \in Sides |-> "start"]
    /\ main' = [s \in Sides |-> "exchange"]
    /\ UNCHANGED <<exchanged, threads_sem, done_sem, pc, loopVars, cqVars, linkVars>>

\* The receiver has all addresses, sends "done" and connects its queue pairs.
ReceiverExchanged ==
    /\ main["recv"] = "exchange" /\ Alive("send")
    /\ main' = [main EXCEPT !["recv"] = "create"]
    /\ exchanged' = TRUE
    /\ UNCHANGED <<threads_sem, done_sem, pc, loopVars, cqVars, linkVars>>

\* The sender has read "done" and connects its queue pairs.
SenderExchanged ==
    /\ main["send"] = "exchange" /\ exchanged
    /\ main' = [main EXCEPT !["send"] = "create"]
    /\ UNCHANGED <<exchanged, threads_sem, done_sem, pc, loopVars, cqVars, linkVars>>

\* The peer has gone in the middle: its socket is closed.
ExchangeFails(s) ==
    /\ main[s] = "exchange" /\ ~Alive(Peer(s)) /\ (s = "send" => ~exchanged)
    /\ main' = [main EXCEPT ![s] = "failed"]
    /\ UNCHANGED <<exchanged, threads_sem, done_sem, pc, loopVars, cqVars, linkVars>>

Created(s) == {t \in Threads : pc[<<s, t>>] # "none"}
\* pthread_create is called for one thread after the other.
NextThread(s) == Cardinality(Created(s)) + 1

CreateThread(s) ==
    /\ main[s] = "create" /\ NextThread(s) \in Threads
    /\ pc' = [pc EXCEPT ![<<s, NextThread(s)>>] = "start"]
    /\ UNCHANGED <<mainVars, loopVars, cqVars, linkVars>>

\* MUTANT: one post for all threads.
StartThreadsOnce(s) ==
    /\ main[s] = "create" /\ NextThread(s) \notin Threads
    /\ main' = [main EXCEPT ![s] = "join"]
    /\ threads_sem' = [threads_sem EXCEPT ![s] = 1]
    /\ UNCHANGED <<exchanged, done_sem, pc, loopVars, cqVars, linkVars>>

\* All threads are created: they may start.
StartThreads(s) ==
    /\ main[s] = "create" /\ NextThread(s) \notin Threads
    /\ main' = [main EXCEPT ![s] = "join"]
    /\ threads_sem' = [threads_sem EXCEPT ![s] = args.threads]
    /\ UNCHANGED <<exchanged, done_sem, pc, loopVars, cqVars, linkVars>>

\* One cannot be created: those that were start all the same, because none of
\* them looks at thread_stop.
CreateFails(s) ==
    /\ main[s] = "create" /\ NextThread(s) \in Threads /\ "no_thread" \in faults
    /\ main' = [main EXCEPT ![s] = "clean"]
    /\ threads_sem' = [threads_sem EXCEPT ![s] = Cardinality(Created(s))]
    /\ UNCHANGED <<exchanged, done_sem, pc, loopVars, cqVars, linkVars>>

\* MUTANT: main waits for one thread only.
JoinFirst(s) ==
    /\ main[s] \in {"join", "clean"} /\ done_sem[s] > 0
    /\ done_sem' = [done_sem EXCEPT ![s] = 0]
    /\ main' = [main EXCEPT ![s] = IF @ = "join" THEN "exited" ELSE "failed"]
    /\ UNCHANGED <<exchanged, threads_sem, pc, loopVars, cqVars, linkVars>>

\* The threads that were created are done; main destroys the queue pairs and
\* ends, with an error only if a thread could not be created.
Join(s) ==
    /\ main[s] \in {"join", "clean"} /\ done_sem[s] = Cardinality(Created(s))
    /\ done_sem' = [done_sem EXCEPT ![s] = 0]
    /\ main' = [main EXCEPT ![s] = IF @ = "join" THEN "exited" ELSE "failed"]
    /\ UNCHANGED <<exchanged, threads_sem, pc, loopVars, cqVars, linkVars>>

Main(s) ==
    \/ s = "recv" /\ (Connect \/ ReceiverExchanged)
    \/ s = "send" /\ SenderExchanged
    \/ ExchangeFails(s) \/ CreateThread(s) \/ StartThreads(s) \/ CreateFails(s)
    \/ Join(s)

Kill(s) ==
    /\ "kill" \in faults /\ Alive(s) /\ main[s] # "start"
    /\ main' = [main EXCEPT ![s] = "killed"]
    /\ UNCHANGED <<exchanged, threads_sem, done_sem, pc, loopVars, cqVars, linkVars>>

-----------------------------------------------------------------------------
(***************************************************************************)
(* __thread_wrap and send_recv.                                            *)
(***************************************************************************)
At(e, where) == Alive(e[1]) /\ pc[e] = where

\* thread_out: main is told.
Out(e, how) ==
    /\ pc' = [pc EXCEPT ![e] = how]
    /\ done_sem' = [done_sem EXCEPT ![e[1]] = @ + 1]

\* The thread is on its cpu and waits for main.
Pinned(e) ==
    /\ At(e, "start")
    /\ pc' = [pc EXCEPT ![e] = "wait"]
    /\ UNCHANGED <<mainVars, loopVars, cqVars, linkVars>>

CpuFails(e) ==
    /\ At(e, "start") /\ "thread_fails" \in faults
    /\ Out(e, "unpinned")
    /\ UNCHANGED <<main, exchanged, threads_sem, loopVars, cqVars, linkVars>>

Start(e) ==
    /\ At(e, "wait") /\ threads_sem[e[1]] > 0
    /\ threads_sem' = [threads_sem EXCEPT ![e[1]] = @ - 1]
    /\ pc' = [pc EXCEPT ![e] = "run"]
    /\ UNCHANGED <<main, exchanged, done_sem, loopVars, cqVars, linkVars>>

MayPost(e) == free_wrs[e] >= Burst(e)

\* The provider refuses a burst for which the queue has no room.
QueueFull(e) == msg[e] + Burst(e) > polled[e] + MaxWrs(e)

\* MUTANT: room is taken for one request, not for a burst.
TakeOne(e) == IF free_wrs[e] = 0 THEN 0 ELSE free_wrs[e] - 1

Take(e) == free_wrs[e] - Burst(e)

\* qp_post: wr_burst requests, sends or receives.
Post(e) ==
    /\ At(e, "run") /\ MayPost(e) /\ ~QueueFull(e)
    /\ msg' = [msg EXCEPT ![e] = @ + Burst(e)]
    /\ free_wrs' = [free_wrs EXCEPT ![e] = Take(e)]
    /\ IF e[1] = "send"
         THEN sq' = [sq EXCEPT ![e[2]] = @ + Burst(e)] /\ UNCHANGED recvs
         ELSE recvs' = [recvs EXCEPT ![e[2]] = @ + Burst(e)] /\ UNCHANGED sq
    /\ UNCHANGED <<mainVars, pc, polled, cqVars, unacked, delivered>>

PostFails(e) ==
    /\ At(e, "run") /\ MayPost(e)
    /\ ~QueueFull(e) => "thread_fails" \in faults
    /\ Out(e, "aborted")
    /\ UNCHANGED <<main, exchanged, threads_sem, loopVars, cqVars, linkVars>>

\* How many completions qp_poll takes at most: poll_length, which is for
\* receives only, takes one.
WcBurst(e) == IF args.poll_length /\ e[1] = "recv" THEN 1 ELSE Burst(e)
Consumed(e) == IF cq[e] <= WcBurst(e) THEN cq[e] ELSE WcBurst(e)

\* The nibble of message m: the sender writes the number of a buffer into it.
Data(m) == (m % args.max_wrs["send"]) % 16

\* MUTANT: the index is advanced before the check.
FirstOfBatchNext(e) == polled[e] + Consumed(e)

FirstOfBatch(e) == polled[e]

\* is_data_valid looks at one of the consumed messages, in the buffer it was
\* received into: is what the buffer holds now the buffer's own nibble?
RightAt(e, i) ==
    LET slot == (FirstOfBatch(e) + i) % MaxWrs(e)
        last == {m \in 0 .. delivered[e[2]] - 1 :
                    m % MaxWrs(e) = slot /\ m + MaxWrs(e) >= delivered[e[2]]}
    IN  \E m \in last : Data(m) = slot % 16

MayBeRight(e) == \E i \in 0 .. Consumed(e) - 1 : RightAt(e, i)
MayBeWrong(e) == \E i \in 0 .. Consumed(e) - 1 : ~RightAt(e, i)

Checks(e) == args.check_data /\ e[1] = "recv"

\* An error completion is reached when the good ones before it do not fill
\* the call.
PollFails(e) ==
    /\ At(e, "run") /\ ~MayPost(e) /\ err[e] /\ cq[e] < WcBurst(e)
    /\ Out(e, "aborted")
    /\ UNCHANGED <<main, exchanged, threads_sem, loopVars, cqVars, linkVars>>

\* qp_poll, with completions or without, when there is no room for a burst.
\* The polling loop asks for room only while messages are left to post: the
\* first poll after the last burst is the last one.
Poll(e) ==
    /\ At(e, "run") /\ ~MayPost(e)
    /\ Consumed(e) = 0 => ~err[e]
    /\ Checks(e) /\ Consumed(e) > 0 => MayBeRight(e)
    /\ free_wrs' = [free_wrs EXCEPT ![e] = @ + Consumed(e)]
    /\ polled' = [polled EXCEPT ![e] = @ + Consumed(e)]
    /\ cq' = [cq EXCEPT ![e] = @ - Consumed(e)]
    /\ \/ msg[e] < NumMsgs /\ UNCHANGED <<pc, done_sem>>
       \/ msg[e] >= NumMsgs /\ Out(e, "measured")
       \/ msg[e] >= NumMsgs /\ "thread_fails" \in faults /\ Out(e, "aborted")
    /\ UNCHANGED <<main, exchanged, threads_sem, msg, err, linkVars>>

WrongData(e) ==
    /\ At(e, "run") /\ ~MayPost(e) /\ Checks(e) /\ Consumed(e) > 0 /\ MayBeWrong(e)
    /\ Out(e, "aborted")
    /\ UNCHANGED <<main, exchanged, threads_sem, loopVars, cqVars, linkVars>>

Thread(e) ==
    \/ Pinned(e) \/ CpuFails(e) \/ Start(e)
    \/ Post(e) \/ PostFails(e)
    \/ Poll(e) \/ PollFails(e) \/ WrongData(e)

-----------------------------------------------------------------------------
(***************************************************************************)
(* The reliable connection of thread t (external).                         *)
(***************************************************************************)
Deliver(t) ==
    /\ Connected("send") /\ Connected("recv") /\ ~err[<<"send", t>>]
    /\ sq[t] > 0 /\ recvs[t] > 0
    /\ sq' = [sq EXCEPT ![t] = @ - 1]
    /\ unacked' = [unacked EXCEPT ![t] = @ + 1]
    /\ recvs' = [recvs EXCEPT ![t] = @ - 1]
    /\ delivered' = [delivered EXCEPT ![t] = @ + 1]
    /\ cq' = [cq EXCEPT ![<<"recv", t>>] = @ + 1]
    /\ UNCHANGED <<mainVars, pc, loopVars, err>>

Acknowledge(t) ==
    /\ Connected("send") /\ unacked[t] > 0
    /\ unacked' = [unacked EXCEPT ![t] = @ - 1]
    /\ cq' = [cq EXCEPT ![<<"send", t>>] = @ + 1]
    /\ UNCHANGED <<mainVars, pc, loopVars, err, sq, recvs, delivered>>

\* The receiver's queue pair is gone, and so is every retry.
SendFails(t) ==
    /\ Connected("send") /\ ~Alive("recv") /\ sq[t] > 0 /\ ~err[<<"send", t>>]
    /\ unacked[t] = 0
    /\ err' = [err EXCEPT ![<<"send", t>>] = TRUE]
    /\ UNCHANGED <<mainVars, pc, loopVars, cq, linkVars>>

Nic(t) == Deliver(t) \/ Acknowledge(t) \/ SendFails(t)

\* Both have ended.
Rest ==
    /\ \A s \in Sides : ~Alive(s)
    /\ UNCHANGED runVars

Next ==
    /\ \/ \E s \in Sides : Main(s) \/ Kill(s)
       \/ \E e \in Ends : Thread(e)
       \/ \E t \in Threads : Nic(t)
       \/ Rest
    /\ UNCHANGED <<args, faults>>

Spec == Init /\ [][Next]_vars

\* Both programs are started, the scheduler runs every thread, and the NICs
\* deliver, acknowledge and give up.
Fairness ==
    /\ \A s \in Sides : WF_runVars(Main(s))
    /\ \A t \in UNION {1 .. c.args.threads : c \in Configs} :
          /\ \A s \in Sides : WF_runVars(t \in Threads /\ Thread(<<s, t>>))
          /\ WF_runVars(t \in Threads /\ Deliver(t))
          /\ WF_runVars(t \in Threads /\ Acknowledge(t))
          /\ WF_runVars(t \in Threads /\ SendFails(t))

FairSpec == Spec /\ Fairness

-----------------------------------------------------------------------------
(***************************************************************************)
(* Properties.                                                             *)
(***************************************************************************)
\* send_recv never has more requests posted than the queue holds, and the
\* completion queue, which is as large, never overflows: no burst is refused,
\* although free_wrs starts at the smaller of queue and number of messages,
\* and more than num_msgs may be posted.
QueuesFit ==
    \A e \in Ends :
        /\ msg[e] <= polled[e] + MaxWrs(e)
        /\ cq[e] + (IF err[e] THEN 1 ELSE 0) <= MaxWrs(e)
        /\ At(e, "run") /\ MayPost(e) => ~QueueFull(e)

\* main destroys the queue pairs and ends only when no thread uses them, also
\* when a thread could not be created or could not be pinned.
NoThreadLeft ==
    \A e \in Ends :
        main[e[1]] \in {"exited", "failed"} => pc[e] \in {"none"} \cup ThreadDone

\* With receive and send queues of one size the check of is_data_valid
\* succeeds: a buffer is not received into again before it was looked at, and
\* the sender's message has the number of the receiver's buffer.
DataChecksOut ==
    args.max_wrs["send"] = args.max_wrs["recv"] =>
        \A e \in Ends : At(e, "run") /\ Checks(e) => ~MayBeWrong(e)

\* The sender ends, whatever happens to the receiver and to threads of either
\* side, if there are enough messages for a burst and no thread goes missing
\* that could be created: with one such thread on each side both programs wait
\* for the other one's.  Without faults both programs run to their end, if
\* there are enough messages for a burst and the receive queue is not the
\* smaller one: the last messages a sender that ends takes with it are not
\* needed by the receiver.
SidesEnd ==
    /\ /\ NumMsgs >= args.wr_burst["send"]
       /\ "thread_fails" \in faults => args.threads = 1
       => <>(main["send"] \in MainEnded)
    /\ /\ faults = {}
       /\ \A s \in Sides : NumMsgs >= args.wr_burst[s]
       /\ args.max_wrs["recv"] >= args.max_wrs["send"]
       => <>(\A s \in Sides : main[s] = "exited")
=============================================================================
