------------------------- MODULE IntfSendRecvProofs -------------------------
(***************************************************************************)
(* The flow control of send_recv, its check of the data and the semaphores *)
(* of run_threads are right for any number of threads and messages, any    *)
(* queues and bursts, and all faults of the model.                         *)
(***************************************************************************)
EXTENDS IntfSendRecv, FiniteSetTheorems, TLAPS

\* Requests of an end that are posted and have no completion yet.
Outstanding(e) ==
    IF e[1] = "send" THEN sq[e[2]] + unacked[e[2]] ELSE recvs[e[2]]

\* The types of what the accounts are about.
LoopType ==
    /\ [args |-> args, faults |-> faults] \in Configs
    /\ msg \in [Ends -> Nat] /\ free_wrs \in [Ends -> Nat]
    /\ polled \in [Ends -> Nat] /\ cq \in [Ends -> Nat]
    /\ err \in [Ends -> BOOLEAN]
    /\ sq \in [Threads -> Nat] /\ unacked \in [Threads -> Nat]
    /\ recvs \in [Threads -> Nat] /\ delivered \in [Threads -> Nat]

\* What free_wrs counts, where every posted request is, and that an error
\* completion takes the place of a request that is never delivered.
Accounts(e) ==
    /\ free_wrs[e] + msg[e] = polled[e] + Room(e)
    /\ msg[e] = polled[e] + cq[e] + Outstanding(e)
    /\ err[e] => e[1] = "send" /\ sq[e[2]] > 0

IInv == LoopType /\ \A e \in Ends : Accounts(e)

-----------------------------------------------------------------------------
\* An end is a side and a thread.
LEMMA EndIsPair ==
    /\ \A e \in Ends : /\ e[1] \in Sides /\ e[2] \in Threads
                       /\ e = <<e[1], e[2]>>
    /\ \A s \in Sides, t \in Threads : <<s, t>> \in Ends
BY DEF Ends

\* Queues and bursts are those of a call that parse_input lets pass.
LEMMA Sizes ==
    ASSUME LoopType, NEW e \in Ends
    PROVE  /\ args \in Args /\ NumMsgs \in Nat
           /\ Burst(e) \in Nat \ {0} /\ MaxWrs(e) \in Nat \ {0}
           /\ Room(e) \in Nat /\ Room(e) <= MaxWrs(e)
<1>1. args \in Args
  <2>1. [args |-> args, faults |-> faults] \in [args : Args, faults : SUBSET AllFaults]
    BY IntfAssumption DEF LoopType
  <2> QED BY <2>1
<1>2. e[1] \in Sides
  BY EndIsPair
<1>3. /\ NumMsgs \in Nat
      /\ Burst(e) \in Nat \ {0} /\ MaxWrs(e) \in Nat \ {0}
  BY <1>1, <1>2 DEF Args, NumMsgs, Burst, MaxWrs
<1> QED BY <1>1, <1>3 DEF Room

LEMMA InitIInv == Init => IInv
<1> SUFFICES ASSUME Init PROVE IInv
  OBVIOUS
<1>1. [args |-> args, faults |-> faults] \in Configs
  <2> PICK c \in Configs : args = c.args /\ faults = c.faults
    BY DEF Init
  <2>1. c \in [args : Args, faults : SUBSET AllFaults]
    BY IntfAssumption
  <2>2. c = [args |-> c.args, faults |-> c.faults]
    BY <2>1
  <2> QED BY <2>2
<1>2. \A e \in Ends : Room(e) \in Nat
  <2> TAKE e \in Ends
  <2>1. [args |-> args, faults |-> faults] \in [args : Args, faults : SUBSET AllFaults]
    BY <1>1, IntfAssumption
  <2>2. args \in Args
    BY <2>1
  <2>3. e[1] \in Sides
    BY EndIsPair
  <2> QED BY <2>2, <2>3 DEF Args, Room, MaxWrs, NumMsgs
<1>3. LoopType
  BY <1>1, <1>2 DEF Init, LoopType
<1>4. ASSUME NEW e \in Ends PROVE Accounts(e)
  <2>1. e[2] \in Threads
    BY EndIsPair
  <2> QED BY <1>2, <2>1 DEF Init, Accounts, Outstanding
<1> QED BY <1>3, <1>4 DEF IInv

\* What none of main's steps and none of a thread's steps outside its loop
\* touches.
LEMMA Untouched ==
    ASSUME IInv, UNCHANGED <<args, faults, loopVars, cqVars, linkVars>>
    PROVE  IInv'
BY DEF IInv, LoopType, Accounts, Outstanding, loopVars, cqVars, linkVars,
       Room, MaxWrs, NumMsgs, Ends, Threads

-----------------------------------------------------------------------------
\* A burst is taken from the room and added to the requests.
LEMMA PostIInv ==
    ASSUME IInv, NEW d \in Ends, Post(d), UNCHANGED <<args, faults>>
    PROVE  IInv'
<1>0. /\ Ends' = Ends /\ Threads' = Threads /\ \A e \in Ends : Room(e)' = Room(e)
  BY DEF Ends, Threads, Room, MaxWrs, NumMsgs
<1>1. /\ Burst(d) \in Nat \ {0} /\ free_wrs[d] >= Burst(d)
      /\ d[1] \in Sides /\ d[2] \in Threads
  BY Sizes, EndIsPair DEF IInv, Post, MayPost
<1>2. LoopType /\ UNCHANGED <<polled, cq, err, unacked, delivered>>
  BY DEF IInv, Post, cqVars
<1>3. /\ msg' = [msg EXCEPT ![d] = @ + Burst(d)]
      /\ free_wrs' = [free_wrs EXCEPT ![d] = @ - Burst(d)]
      /\ d[1] = "send" => sq' = [sq EXCEPT ![d[2]] = @ + Burst(d)] /\ recvs' = recvs
      /\ d[1] # "send" => recvs' = [recvs EXCEPT ![d[2]] = @ + Burst(d)] /\ sq' = sq
  BY <1>2 DEF Post, Take, LoopType
<1>4. LoopType'
  BY <1>0, <1>1, <1>2, <1>3 DEF LoopType
<1>5. ASSUME NEW e \in Ends PROVE Accounts(e)'
  <2>1. Accounts(e) /\ e[1] \in Sides /\ e[2] \in Threads
    BY EndIsPair DEF IInv
  <2>2. e = d \/ e[1] # d[1] \/ e[2] # d[2]
    BY EndIsPair
  <2>3. Room(e) \in Nat /\ Room(e)' = Room(e)
    BY <1>0, <1>2, Sizes
  <2>4. CASE e = d
    BY <2>1, <2>3, <2>4, <1>1, <1>2, <1>3 DEF Accounts, Outstanding, LoopType, Sides
  <2>5. CASE e # d
    BY <2>1, <2>2, <2>3, <2>5, <1>1, <1>2, <1>3
       DEF Accounts, Outstanding, LoopType, Sides
  <2> QED BY <2>4, <2>5
<1> QED BY <1>0, <1>4, <1>5 DEF IInv

\* Completions are moved from the queue to the room.
LEMMA PollIInv ==
    ASSUME IInv, NEW d \in Ends, Poll(d), UNCHANGED <<args, faults>>
    PROVE  IInv'
<1>0. /\ Ends' = Ends /\ Threads' = Threads /\ \A e \in Ends : Room(e)' = Room(e)
  BY DEF Ends, Threads, Room, MaxWrs, NumMsgs
<1>1. LoopType /\ UNCHANGED <<msg, err, sq, unacked, recvs, delivered>>
  BY DEF IInv, Poll, linkVars
<1>2. Consumed(d) \in Nat /\ Consumed(d) <= cq[d]
  BY Sizes, <1>1 DEF Consumed, WcBurst, LoopType
<1>3. /\ free_wrs' = [free_wrs EXCEPT ![d] = @ + Consumed(d)]
      /\ polled' = [polled EXCEPT ![d] = @ + Consumed(d)]
      /\ cq' = [cq EXCEPT ![d] = @ - Consumed(d)]
  BY DEF Poll
<1>4. LoopType'
  BY <1>0, <1>1, <1>2, <1>3 DEF LoopType
<1>5. ASSUME NEW e \in Ends PROVE Accounts(e)'
  <2>1. Accounts(e) /\ e[2] \in Threads
    BY EndIsPair DEF IInv
  <2>2. Room(e) \in Nat /\ Room(e)' = Room(e)
    BY <1>0, <1>1, Sizes
  <2>3. Outstanding(e)' = Outstanding(e) /\ Outstanding(e) \in Nat
    BY <1>1, <2>1 DEF Outstanding, LoopType
  <2>4. CASE e = d
    BY <2>1, <2>2, <2>3, <2>4, <1>1, <1>2, <1>3 DEF Accounts, LoopType
  <2>5. CASE e # d
    BY <2>1, <2>2, <2>3, <2>5, <1>1, <1>2, <1>3 DEF Accounts, LoopType
  <2> QED BY <2>4, <2>5
<1> QED BY <1>0, <1>4, <1>5 DEF IInv

\* A delivery turns a posted receive into a completion, and a posted SEND into
\* one that is not acknowledged.
LEMMA DeliverIInv ==
    ASSUME IInv, NEW t \in Threads, Deliver(t), UNCHANGED <<args, faults>>
    PROVE  IInv'
<1> DEFINE r == <<"recv", t>>
<1>0. /\ Ends' = Ends /\ Threads' = Threads /\ \A e \in Ends : Room(e)' = Room(e)
  BY DEF Ends, Threads, Room, MaxWrs, NumMsgs
<1>1. LoopType /\ UNCHANGED <<msg, free_wrs, polled, err>>
  BY DEF IInv, Deliver, loopVars
<1>2. r \in Ends /\ r[1] = "recv" /\ r[2] = t /\ <<"send", t>> \in Ends
  BY EndIsPair DEF Sides
<1>3. /\ sq[t] > 0 /\ recvs[t] > 0 /\ ~err[<<"send", t>>]
      /\ sq' = [sq EXCEPT ![t] = @ - 1]
      /\ unacked' = [unacked EXCEPT ![t] = @ + 1]
      /\ recvs' = [recvs EXCEPT ![t] = @ - 1]
      /\ delivered' = [delivered EXCEPT ![t] = @ + 1]
      /\ cq' = [cq EXCEPT ![r] = @ + 1]
  BY DEF Deliver
<1> HIDE DEF r
<1>4. LoopType'
  BY <1>0, <1>1, <1>2, <1>3 DEF LoopType
<1>5. ASSUME NEW e \in Ends PROVE Accounts(e)'
  <2>1. Accounts(e) /\ e[1] \in Sides /\ e[2] \in Threads /\ e = <<e[1], e[2]>>
    BY EndIsPair DEF IInv
  <2>2. Room(e) \in Nat /\ Room(e)' = Room(e)
    BY <1>0, <1>1, Sizes
  <2>3. CASE e = r
    BY <2>1, <2>2, <2>3, <1>1, <1>2, <1>3 DEF Accounts, Outstanding, LoopType
  <2>4. CASE e[1] = "send" /\ e[2] = t
    <3>1. e # r /\ ~err[e]
      BY <2>1, <2>4, <1>2, <1>3
    <3> QED BY <3>1, <2>1, <2>2, <2>4, <1>1, <1>2, <1>3
               DEF Accounts, Outstanding, LoopType
  <2>5. CASE e[2] # t
    BY <2>1, <2>2, <2>5, <1>1, <1>2, <1>3 DEF Accounts, Outstanding, LoopType
  <2>6. e = r \/ (e[1] = "send" /\ e[2] = t) \/ e[2] # t
    BY <2>1 DEF r, Sides
  <2> QED BY <2>3, <2>4, <2>5, <2>6
<1> QED BY <1>0, <1>4, <1>5 DEF IInv

\* An acknowledgement turns a delivered SEND into a completion.
LEMMA AcknowledgeIInv ==
    ASSUME IInv, NEW t \in Threads, Acknowledge(t), UNCHANGED <<args, faults>>
    PROVE  IInv'
<1> DEFINE s == <<"send", t>>
<1>0. /\ Ends' = Ends /\ Threads' = Threads /\ \A e \in Ends : Room(e)' = Room(e)
  BY DEF Ends, Threads, Room, MaxWrs, NumMsgs
<1>1. LoopType /\ UNCHANGED <<msg, free_wrs, polled, err, sq, recvs, delivered>>
  BY DEF IInv, Acknowledge, loopVars
<1>2. s \in Ends /\ s[1] = "send" /\ s[2] = t
  BY EndIsPair DEF Sides
<1>3. /\ unacked[t] > 0
      /\ unacked' = [unacked EXCEPT ![t] = @ - 1]
      /\ cq' = [cq EXCEPT ![s] = @ + 1]
  BY DEF Acknowledge
<1>6. \A e \in Ends : e = s <=> e[1] = "send" /\ e[2] = t
  BY EndIsPair
<1> HIDE DEF s
<1>4. LoopType'
  BY <1>0, <1>1, <1>2, <1>3 DEF LoopType
<1>5. ASSUME NEW e \in Ends PROVE Accounts(e)'
  <2>1. Accounts(e) /\ e[2] \in Threads
    BY EndIsPair DEF IInv
  <2>2. Room(e) \in Nat /\ Room(e)' = Room(e)
    BY <1>0, <1>1, Sizes
  <2>3. CASE e = s
    BY <2>1, <2>2, <2>3, <1>1, <1>2, <1>3 DEF Accounts, Outstanding, LoopType
  <2>4. CASE e # s
    BY <2>1, <2>2, <2>4, <1>1, <1>2, <1>3, <1>6 DEF Accounts, Outstanding, LoopType
  <2> QED BY <2>3, <2>4
<1> QED BY <1>0, <1>4, <1>5 DEF IInv

\* The first SEND that is not delivered is reported as an error.
LEMMA SendFailsIInv ==
    ASSUME IInv, NEW t \in Threads, SendFails(t), UNCHANGED <<args, faults>>
    PROVE  IInv'
<1>0. /\ Ends' = Ends /\ Threads' = Threads /\ \A e \in Ends : Room(e)' = Room(e)
  BY DEF Ends, Threads, Room, MaxWrs, NumMsgs
<1>1. LoopType /\ UNCHANGED <<msg, free_wrs, polled, cq, sq, unacked, recvs, delivered>>
  BY DEF IInv, SendFails, loopVars, linkVars
<1>2. <<"send", t>> \in Ends /\ sq[t] > 0 /\ err' = [err EXCEPT ![<<"send", t>>] = TRUE]
  BY EndIsPair DEF Sides, SendFails
<1>3. LoopType'
  BY <1>0, <1>1, <1>2 DEF LoopType
<1>4. ASSUME NEW e \in Ends PROVE Accounts(e)'
  <2>1. Accounts(e)
    BY DEF IInv
  <2>2. err'[e] => err[e] \/ (e[1] = "send" /\ e[2] = t)
    BY <1>1, <1>2, EndIsPair DEF LoopType
  <2>3. Outstanding(e)' = Outstanding(e)
    BY <1>1 DEF Outstanding
  <2> QED BY <2>1, <2>2, <2>3, <1>0, <1>1, <1>2 DEF Accounts
<1> QED BY <1>0, <1>3, <1>4 DEF IInv

-----------------------------------------------------------------------------
\* Every step keeps the accounts.
LEMMA NextIInv == IInv /\ [Next]_vars => IInv'
<1> SUFFICES ASSUME IInv, [Next]_vars PROVE IInv'
  OBVIOUS
<1>1. ASSUME NEW s \in Sides, Main(s), UNCHANGED <<args, faults>> PROVE IInv'
  BY <1>1, Untouched
     DEF Main, Connect, ReceiverExchanged, SenderExchanged, ExchangeFails,
         CreateThread, StartThreads, CreateFails, Join
<1>2. ASSUME NEW s \in Sides, Kill(s), UNCHANGED <<args, faults>> PROVE IInv'
  BY <1>2, Untouched DEF Kill
<1>3. ASSUME NEW e \in Ends, Thread(e), UNCHANGED <<args, faults>> PROVE IInv'
  <2>1. CASE Pinned(e) \/ CpuFails(e) \/ Start(e)
    BY <1>3, <2>1, Untouched DEF Pinned, CpuFails, Start
  <2>2. CASE Post(e)
    BY <1>3, <2>2, PostIInv
  <2>3. CASE Poll(e)
    BY <1>3, <2>3, PollIInv
  <2>4. CASE PostFails(e) \/ PollFails(e) \/ WrongData(e)
    BY <1>3, <2>4, Untouched DEF PostFails, PollFails, WrongData
  <2> QED BY <1>3, <2>1, <2>2, <2>3, <2>4 DEF Thread
<1>4. ASSUME NEW t \in Threads, Nic(t), UNCHANGED <<args, faults>> PROVE IInv'
  BY <1>4, DeliverIInv, AcknowledgeIInv, SendFailsIInv DEF Nic
<1>5. CASE UNCHANGED vars
  BY <1>5, Untouched DEF vars, runVars
<1>6. ASSUME Rest, UNCHANGED <<args, faults>> PROVE IInv'
  BY <1>6, Untouched DEF Rest, runVars
<1> QED BY <1>1, <1>2, <1>3, <1>4, <1>5, <1>6 DEF Next

\* The accounts of send_recv: free_wrs is what the completions say is free, and
\* a posted request is on its way or has exactly one completion.
THEOREM IntfInvariance == Spec => []IInv
<1>1. Init => IInv
  BY InitIInv
<1>2. IInv /\ [Next]_vars => IInv'
  BY NextIInv
<1> QED BY <1>1, <1>2, PTL DEF Spec

\* No call of qp_post in send_recv is refused for lack of room, and no
\* completion queue overflows, whatever the queues, the bursts and the number
\* of messages.
THEOREM QueuesAlwaysFit == Spec => []QueuesFit
<1>1. IInv => QueuesFit
  <2> SUFFICES ASSUME IInv, NEW e \in Ends
               PROVE  /\ msg[e] <= polled[e] + MaxWrs(e)
                      /\ cq[e] + (IF err[e] THEN 1 ELSE 0) <= MaxWrs(e)
                      /\ At(e, "run") /\ MayPost(e) => ~QueueFull(e)
    BY DEF QueuesFit
  <2>1. LoopType /\ Accounts(e) /\ e[2] \in Threads
    BY EndIsPair DEF IInv
  <2>2. /\ Burst(e) \in Nat /\ MaxWrs(e) \in Nat
        /\ Room(e) \in Nat /\ Room(e) <= MaxWrs(e)
    BY <2>1, Sizes
  <2>3. Outstanding(e) \in Nat /\ (err[e] => Outstanding(e) > 0)
    BY <2>1 DEF LoopType, Accounts, Outstanding
  <2> QED BY <2>1, <2>2, <2>3 DEF LoopType, Accounts, MayPost, QueueFull
<1> QED BY <1>1, IntfInvariance, PTL

-----------------------------------------------------------------------------
(***************************************************************************)
(* The semaphores.                                                         *)
(***************************************************************************)
DoneThreads(s) == {t \in Threads : pc[<<s, t>>] \in ThreadDone}

ThreadType ==
    /\ args.threads \in Nat
    /\ main \in [Sides -> {"start", "exchange", "create", "join", "clean"}
                          \cup MainEnded]
    /\ done_sem \in [Sides -> Nat]
    /\ pc \in [Ends -> {"none", "start", "wait", "run"} \cup ThreadDone]

\* threads_done_sem counts the threads that are done, and those that were
\* created are the first k; when main has ended they are all done.
Counted(s) ==
    /\ main[s] \in {"start", "exchange"} => Created(s) = {}
    /\ \E k \in 0 .. args.threads : Created(s) = 1 .. k
    /\ Alive(s) => done_sem[s] = Cardinality(DoneThreads(s))
    /\ main[s] \in {"exited", "failed"} => Created(s) = DoneThreads(s)

SemInv == ThreadType /\ \A s \in Sides : Counted(s)

LEMMA InitSemInv == Init => SemInv
<1> SUFFICES ASSUME Init PROVE SemInv
  OBVIOUS
<1>1. args.threads \in Nat
  <2> PICK c \in Configs : args = c.args
    BY DEF Init
  <2>1. c \in [args : Args, faults : SUBSET AllFaults]
    BY IntfAssumption
  <2> QED BY <2>1 DEF Args
<1>2. ThreadType
  BY <1>1 DEF Init, ThreadType
<1>3. ASSUME NEW s \in Sides PROVE Counted(s)
  <2>1. \A t \in Threads : pc[<<s, t>>] = "none"
    BY EndIsPair DEF Init
  <2>2. Created(s) = {} /\ DoneThreads(s) = {}
    BY <2>1 DEF Created, DoneThreads, ThreadDone
  <2>3. Created(s) = 1 .. 0 /\ 0 \in 0 .. args.threads
    BY <2>2, <1>1
  <2> QED BY <2>2, <2>3, FS_EmptySet DEF Init, Counted, MainEnded
<1> QED BY <1>2, <1>3 DEF SemInv

\* The threads that are done are among those that were created, and both can
\* be counted.
LEMMA DoneAreCreated ==
    ASSUME SemInv, NEW s \in Sides
    PROVE  /\ IsFiniteSet(Created(s)) /\ IsFiniteSet(DoneThreads(s))
           /\ DoneThreads(s) \subseteq Created(s)
           /\ Created(s) = 1 .. Cardinality(Created(s))
           /\ Cardinality(Created(s)) \in Nat
           /\ Cardinality(DoneThreads(s)) = Cardinality(Created(s))
                 => DoneThreads(s) = Created(s)
<1>1. PICK k \in 0 .. args.threads : Created(s) = 1 .. k
  BY DEF SemInv, Counted
<1>2. k \in Nat
  BY DEF SemInv, ThreadType
<1>3. IsFiniteSet(Created(s)) /\ Cardinality(Created(s)) = k
  BY <1>1, <1>2, FS_Interval
<1>4. DoneThreads(s) \subseteq Created(s)
  BY DEF DoneThreads, Created, ThreadDone
<1> QED BY <1>1, <1>2, <1>3, <1>4, FS_Subset

\* main goes on or ends, and its threads do not move.
LEMMA MainSemInv ==
    ASSUME SemInv, NEW s \in Sides, NEW x, Alive(s),
           UNCHANGED <<args, pc>>, main' = [main EXCEPT ![s] = x],
           \/ done_sem' = done_sem
           \/ done_sem' = [done_sem EXCEPT ![s] = 0] /\ x \in MainEnded,
           x \in {"exchange", "create", "join", "clean"} \cup MainEnded,
           x = "exchange" => Created(s) = {},
           x \in {"exited", "failed"} => Created(s) = DoneThreads(s)
    PROVE  SemInv'
<1>1. ThreadType'
  BY DEF SemInv, ThreadType, Ends, Threads
<1>2. ASSUME NEW z \in Sides PROVE Counted(z)'
  <2>1. Created(z)' = Created(z) /\ DoneThreads(z)' = DoneThreads(z)
    BY DEF Created, DoneThreads, Threads
  <2>2. Counted(z) /\ ThreadType
    BY DEF SemInv
  <2>3. CASE z = s
    BY <2>1, <2>2, <2>3 DEF Counted, ThreadType, Alive, MainEnded
  <2>4. CASE z # s
    BY <2>1, <2>2, <2>4 DEF Counted, ThreadType, Alive
  <2> QED BY <2>3, <2>4
<1> QED BY <1>1, <1>2 DEF SemInv

\* main creates the next thread.
LEMMA CreateThreadSemInv ==
    ASSUME SemInv, NEW s \in Sides, CreateThread(s), UNCHANGED args
    PROVE  SemInv'
<1> DEFINE n == NextThread(s)
<1>1. /\ n \in Threads /\ main[s] = "create" /\ UNCHANGED <<main, done_sem>>
      /\ pc' = [pc EXCEPT ![<<s, n>>] = "start"]
  BY DEF CreateThread, mainVars
<1>2. /\ n = Cardinality(Created(s)) + 1 /\ Cardinality(Created(s)) \in Nat
      /\ Created(s) = 1 .. Cardinality(Created(s))
  BY DoneAreCreated DEF NextThread
<1> HIDE DEF n
<1>3. pc[<<s, n>>] = "none"
  <2>1. n \notin Created(s)
    BY <1>2
  <2> QED BY <2>1, <1>1 DEF Created
<1>4. ThreadType'
  BY <1>1, EndIsPair DEF SemInv, ThreadType, Ends, Threads
<1>5. ASSUME NEW z \in Sides PROVE Counted(z)'
  <2>1. \A t \in Threads :
           pc'[<<z, t>>] = IF z = s /\ t = n THEN "start" ELSE pc[<<z, t>>]
    BY <1>1, EndIsPair DEF SemInv, ThreadType
  <2>2. DoneThreads(z)' = DoneThreads(z)
    BY <2>1, <1>1, <1>3 DEF DoneThreads, ThreadDone, Threads
  <2>3. Created(z)' = IF z = s THEN Created(z) \cup {n} ELSE Created(z)
    BY <2>1, <1>1, <1>3 DEF Created, Threads
  <2>4. \E k \in 0 .. args.threads : Created(z)' = 1 .. k
    <3>1. CASE z = s
      <4>1. Created(z)' = 1 .. n /\ n \in 0 .. args.threads
        BY <2>3, <3>1, <1>1, <1>2 DEF Threads
      <4> QED BY <4>1
    <3>2. CASE z # s
      BY <2>3, <3>2 DEF SemInv, Counted
    <3> QED BY <3>1, <3>2
  <2> QED BY <2>2, <2>3, <2>4, <1>1 DEF SemInv, Counted, Alive, MainEnded
<1> QED BY <1>4, <1>5 DEF SemInv

\* A thread goes on, or is done and tells main.
LEMMA ThreadSemInv ==
    ASSUME SemInv, NEW e \in Ends, NEW x \in {"wait", "run"} \cup ThreadDone,
           Alive(e[1]), pc[e] \in {"start", "wait", "run"},
           UNCHANGED <<args, main>>, pc' = [pc EXCEPT ![e] = x],
           done_sem' = IF x \in ThreadDone
                         THEN [done_sem EXCEPT ![e[1]] = @ + 1] ELSE done_sem
    PROVE  SemInv'
<1> DEFINE s == e[1]
           t == e[2]
<1>1. s \in Sides /\ t \in Threads /\ e = <<s, t>>
  BY EndIsPair
<1> HIDE DEF s, t
<1>2. ThreadType'
  BY <1>1 DEF SemInv, ThreadType, Ends, Threads, s
<1>3. t \in Created(s) /\ t \notin DoneThreads(s)
  BY <1>1 DEF Created, DoneThreads, ThreadDone
<1>4. ASSUME NEW z \in Sides PROVE Counted(z)'
  <2>1. \A u \in Threads :
           pc'[<<z, u>>] = IF z = s /\ u = t THEN x ELSE pc[<<z, u>>]
    BY <1>1, EndIsPair DEF SemInv, ThreadType
  <2>2. Created(z)' = Created(z)
    BY <2>1, <1>3 DEF Created, Threads, ThreadDone
  <2>3. CASE z = s /\ x \in ThreadDone
    <3>1. DoneThreads(z)' = DoneThreads(z) \cup {t}
      BY <2>1, <2>3, <1>1 DEF DoneThreads, Threads
    <3>2. Cardinality(DoneThreads(z)') = Cardinality(DoneThreads(z)) + 1
      BY <3>1, <2>3, <1>3, DoneAreCreated, FS_AddElement
    <3>3. done_sem'[z] = done_sem[z] + 1
      BY <2>3, <1>1 DEF SemInv, ThreadType, s
    <3> QED BY <3>2, <3>3, <2>2, <2>3, <1>1
            DEF SemInv, Counted, Alive, MainEnded, s
  <2>4. CASE ~(z = s /\ x \in ThreadDone)
    <3>1. DoneThreads(z)' = DoneThreads(z)
      BY <2>1, <2>4, <1>3 DEF DoneThreads, Threads
    <3>2. done_sem'[z] = done_sem[z]
      BY <2>4, <1>1 DEF SemInv, ThreadType, s
    <3> QED BY <3>1, <3>2, <2>2 DEF SemInv, Counted, Alive
  <2> QED BY <2>3, <2>4
<1> QED BY <1>2, <1>4 DEF SemInv

LEMMA SameSemInv ==
    ASSUME SemInv, UNCHANGED <<args, main, done_sem, pc>>
    PROVE  SemInv'
BY SMTT(30) DEF SemInv, ThreadType, Counted, Created, DoneThreads, Alive, Ends, Threads

LEMMA NextSemInv == SemInv /\ [Next]_vars => SemInv'
<1> SUFFICES ASSUME SemInv, [Next]_vars PROVE SemInv'
  OBVIOUS
<1>1. CASE Connect
  <2>1. /\ main = [s \in Sides |-> "start"] /\ main' = [s \in Sides |-> "exchange"]
        /\ UNCHANGED <<done_sem, pc>>
    BY <1>1 DEF Connect
  <2>2. UNCHANGED args
    BY <1>1 DEF Next, vars
  <2> QED BY <2>1, <2>2
          DEF SemInv, ThreadType, Counted, Created, DoneThreads, Alive,
              MainEnded, Ends, Threads
<1>2. ASSUME NEW s \in Sides, Main(s), ~Connect, UNCHANGED args PROVE SemInv'
  <2>1. CASE s = "recv" /\ ReceiverExchanged
    BY <2>1, <1>2, MainSemInv DEF ReceiverExchanged, Alive, MainEnded
  <2>2. CASE s = "send" /\ SenderExchanged
    BY <2>2, <1>2, MainSemInv DEF SenderExchanged, Alive, MainEnded
  <2>3. CASE ExchangeFails(s)
    <3>1. Created(s) = {} /\ DoneThreads(s) = {}
      BY <2>3, DoneAreCreated DEF ExchangeFails, SemInv, Counted
    <3> QED BY <2>3, <3>1, <1>2, MainSemInv DEF ExchangeFails, Alive, MainEnded
  <2>4. CASE CreateThread(s)
    BY <2>4, <1>2, CreateThreadSemInv
  <2>5. CASE StartThreads(s)
    BY <2>5, <1>2, MainSemInv DEF StartThreads, Alive, MainEnded
  <2>6. CASE CreateFails(s)
    BY <2>6, <1>2, MainSemInv DEF CreateFails, Alive, MainEnded
  <2>7. CASE Join(s)
    <3>1. Alive(s)
      BY <2>7 DEF Join, Alive, MainEnded
    <3>2. Created(s) = DoneThreads(s)
      BY <2>7, <3>1, DoneAreCreated DEF Join, SemInv, Counted
    <3> DEFINE end == IF main[s] = "join" THEN "exited" ELSE "failed"
    <3>3. end \in MainEnded /\ main' = [main EXCEPT ![s] = end] /\ UNCHANGED pc
          /\ done_sem' = [done_sem EXCEPT ![s] = 0]
      BY <2>7 DEF Join, MainEnded
    <3> HIDE DEF end
    <3> QED BY <3>1, <3>2, <3>3, <1>2, MainSemInv DEF MainEnded
  <2> QED BY <1>2, <2>1, <2>2, <2>3, <2>4, <2>5, <2>6, <2>7 DEF Main
<1>3. ASSUME NEW s \in Sides, Kill(s), UNCHANGED args PROVE SemInv'
  BY <1>3, MainSemInv DEF Kill, MainEnded
<1>4. ASSUME NEW e \in Ends, Thread(e), UNCHANGED args PROVE SemInv'
  <2>1. CASE Pinned(e)
    BY <2>1, <1>4, ThreadSemInv DEF Pinned, At, ThreadDone, mainVars
  <2>2. CASE Start(e)
    BY <2>2, <1>4, ThreadSemInv DEF Start, At, ThreadDone
  <2>3. CASE CpuFails(e)
    BY <2>3, <1>4, ThreadSemInv DEF CpuFails, At, Out, ThreadDone
  <2>4. CASE PostFails(e) \/ PollFails(e) \/ WrongData(e)
    BY <2>4, <1>4, ThreadSemInv
       DEF PostFails, PollFails, WrongData, At, Out, ThreadDone
  <2>5. CASE Post(e)
    BY <2>5, <1>4, SameSemInv DEF Post, mainVars
  <2>6. CASE Poll(e)
    <3>1. CASE UNCHANGED <<pc, done_sem>>
      BY <2>6, <3>1, <1>4, SameSemInv DEF Poll
    <3>2. CASE Out(e, "measured") \/ Out(e, "aborted")
      BY <2>6, <3>2, <1>4, ThreadSemInv DEF Poll, At, Out, ThreadDone
    <3> QED BY <2>6, <3>1, <3>2 DEF Poll
  <2> QED BY <1>4, <2>1, <2>2, <2>3, <2>4, <2>5, <2>6 DEF Thread
<1>5. ASSUME NEW t \in Threads, Nic(t), UNCHANGED args PROVE SemInv'
  BY <1>5, SameSemInv DEF Nic, Deliver, Acknowledge, SendFails, mainVars
<1>6. CASE UNCHANGED vars
  BY <1>6, SameSemInv DEF vars, runVars, mainVars
<1>7. ASSUME Rest, UNCHANGED args PROVE SemInv'
  BY <1>7, SameSemInv DEF Rest, runVars, mainVars
<1> QED BY <1>1, <1>2, <1>3, <1>4, <1>5, <1>6, <1>7 DEF Next

\* main ends, and destroys what the threads use, only when every thread it
\* created is done, however many there are and wherever their creation stops.
THEOREM NoThreadIsLeft == Spec => []NoThreadLeft
<1>1. SemInv => NoThreadLeft
  <2> SUFFICES ASSUME SemInv, NEW e \in Ends, main[e[1]] \in {"exited", "failed"}
               PROVE  pc[e] \in {"none"} \cup ThreadDone
    BY DEF NoThreadLeft
  <2>1. e[1] \in Sides /\ e[2] \in Threads /\ e = <<e[1], e[2]>>
    BY EndIsPair
  <2>2. Created(e[1]) = DoneThreads(e[1])
    BY <2>1 DEF SemInv, Counted
  <2> QED BY <2>1, <2>2 DEF Created, DoneThreads
<1>2. Init => SemInv
  BY InitSemInv
<1>3. SemInv /\ [Next]_vars => SemInv'
  BY NextSemInv
<1> QED BY <1>1, <1>2, <1>3, PTL DEF Spec

-----------------------------------------------------------------------------
(***************************************************************************)
(* The check of the data.                                                  *)
(***************************************************************************)
\* A receiver's completions are the messages delivered to it, in their order.
Received ==
    \A t \in Threads : delivered[t] = polled[<<"recv", t>>] + cq[<<"recv", t>>]

LEMMA NextReceived == IInv /\ Received /\ [Next]_vars => Received'
<1> SUFFICES ASSUME IInv, Received, [Next]_vars PROVE Received'
  OBVIOUS
<1>1. LoopType
  BY DEF IInv
<1>2. ASSUME args' = args, UNCHANGED <<delivered, polled, cq>> PROVE Received'
  BY <1>2 DEF Received, Threads
<1>3. ASSUME args' = args, NEW e \in Ends, Poll(e) PROVE Received'
  <2>1. Consumed(e) \in Nat /\ Consumed(e) <= cq[e]
    BY Sizes, <1>1 DEF Consumed, WcBurst, LoopType
  <2>2. /\ polled' = [polled EXCEPT ![e] = @ + Consumed(e)]
        /\ cq' = [cq EXCEPT ![e] = @ - Consumed(e)]
        /\ delivered' = delivered
    BY <1>3 DEF Poll, linkVars
  <2> SUFFICES ASSUME NEW t \in Threads
               PROVE  delivered'[t] = polled'[<<"recv", t>>] + cq'[<<"recv", t>>]
    BY <1>3 DEF Received, Threads
  <2> DEFINE r == <<"recv", t>>
  <2>3. r \in Ends
    BY EndIsPair DEF Sides
  <2>4. delivered[t] = polled[r] + cq[r]
    BY DEF Received
  <2> HIDE DEF r
  <2> QED BY <1>1, <2>1, <2>2, <2>3, <2>4 DEF LoopType, r
<1>4. ASSUME args' = args, NEW d \in Threads, Deliver(d) PROVE Received'
  <2>1. /\ delivered' = [delivered EXCEPT ![d] = @ + 1]
        /\ cq' = [cq EXCEPT ![<<"recv", d>>] = @ + 1]
        /\ polled' = polled
    BY <1>4 DEF Deliver, loopVars
  <2> SUFFICES ASSUME NEW t \in Threads
               PROVE  delivered'[t] = polled'[<<"recv", t>>] + cq'[<<"recv", t>>]
    BY <1>4 DEF Received, Threads
  <2>2. <<"recv", t>> \in Ends /\ delivered[t] = polled[<<"recv", t>>] + cq[<<"recv", t>>]
    BY EndIsPair DEF Received, Sides
  <2>3. CASE t = d
    BY <1>1, <2>1, <2>2, <2>3 DEF LoopType
  <2>4. CASE t # d
    BY <1>1, <2>1, <2>2, <2>4 DEF LoopType
  <2> QED BY <2>3, <2>4
<1>5. ASSUME args' = args, NEW d \in Threads, Acknowledge(d) PROVE Received'
  <2>1. /\ cq' = [cq EXCEPT ![<<"send", d>>] = @ + 1]
        /\ UNCHANGED <<delivered, polled>>
    BY <1>5 DEF Acknowledge, loopVars
  <2>2. \A t \in Threads : cq'[<<"recv", t>>] = cq[<<"recv", t>>]
    BY <2>1, <1>1, EndIsPair DEF LoopType, Sides
  <2> QED BY <1>5, <2>1, <2>2 DEF Received, Threads
<1>6. ASSUME args' = args, NEW d \in Threads, SendFails(d) PROVE Received'
  BY <1>6, <1>2 DEF SendFails, loopVars, linkVars
<1>7. ASSUME args' = args, NEW s \in Sides, Main(s) \/ Kill(s) PROVE Received'
  BY <1>7, <1>2
     DEF Main, Kill, Connect, ReceiverExchanged, SenderExchanged, ExchangeFails,
         CreateThread, StartThreads, CreateFails, Join, loopVars, cqVars, linkVars
<1>8. ASSUME args' = args, NEW e \in Ends, Thread(e), ~Poll(e) PROVE Received'
  BY <1>8, <1>2
     DEF Thread, Pinned, CpuFails, Start, Post, PostFails, PollFails, WrongData,
         loopVars, cqVars, linkVars
<1>9. ASSUME UNCHANGED vars PROVE Received'
  BY <1>9, <1>2 DEF vars, runVars, loopVars, cqVars, linkVars
<1>10. ASSUME args' = args, Rest PROVE Received'
  BY <1>10, <1>2 DEF Rest, runVars, loopVars, cqVars, linkVars
<1> QED BY <1>3, <1>4, <1>5, <1>6, <1>7, <1>8, <1>9, <1>10 DEF Next, Nic

\* The message that completed is still the last one in its buffer: those that
\* came later are not more than there are buffers.
LEMMA BatchIsRight ==
    ASSUME IInv, Received, args.max_wrs["send"] = args.max_wrs["recv"],
           NEW e \in Ends, Checks(e), NEW i \in 0 .. Consumed(e) - 1
    PROVE  RightAt(e, i)
<1>1. e[1] = "recv" /\ e[2] \in Threads /\ e = <<"recv", e[2]>>
  BY EndIsPair DEF Checks
<1>2. LoopType /\ Accounts(e)
  BY DEF IInv
<1>3. /\ Burst(e) \in Nat \ {0} /\ MaxWrs(e) \in Nat \ {0}
      /\ Room(e) \in Nat /\ Room(e) <= MaxWrs(e)
  BY <1>2, Sizes
<1>4. Consumed(e) \in Nat /\ Consumed(e) <= cq[e] /\ cq[e] \in Nat
  BY <1>2, <1>3 DEF Consumed, WcBurst, LoopType
<1>5. delivered[e[2]] = polled[e] + cq[e]
  BY <1>1 DEF Received
<1>6. polled[e] + cq[e] <= polled[e] + MaxWrs(e)
  BY <1>1, <1>2, <1>3 DEF LoopType, Accounts, Outstanding
<1> DEFINE m == polled[e] + i
<1>7. /\ polled[e] \in Nat /\ i \in Nat
      /\ m \in 0 .. delivered[e[2]] - 1
      /\ m + MaxWrs(e) >= delivered[e[2]]
  BY <1>2, <1>3, <1>4, <1>5, <1>6 DEF LoopType
<1>8. MaxWrs(e) = args.max_wrs["send"]
  BY <1>1 DEF MaxWrs
<1>9. Data(m) = (m % MaxWrs(e)) % 16
  BY <1>8 DEF Data
<1> QED BY <1>7, <1>9 DEF RightAt, FirstOfBatch

\* With queues of one size is_data_valid finds the nibble of the buffer in
\* every buffer it looks at, for any bursts and number of messages: the free_wrs
\* of the receiver keep a buffer from being received into twice before it is
\* looked at, and message m goes to buffer m modulo the queue on both sides.
THEOREM DataAlwaysChecksOut == Spec => []DataChecksOut
<1>1. Init => Received
  <2> SUFFICES ASSUME Init, NEW t \in Threads
               PROVE  delivered[t] = polled[<<"recv", t>>] + cq[<<"recv", t>>]
    BY DEF Received
  <2>1. <<"recv", t>> \in Ends
    BY EndIsPair DEF Sides
  <2> QED BY <2>1 DEF Init
<1>2. IInv /\ Received => DataChecksOut
  <2> SUFFICES ASSUME IInv, Received, args.max_wrs["send"] = args.max_wrs["recv"],
                      NEW e \in Ends, At(e, "run"), Checks(e)
               PROVE  ~MayBeWrong(e)
    BY DEF DataChecksOut
  <2> QED BY BatchIsRight DEF MayBeWrong
<1> QED BY <1>1, <1>2, NextReceived, IntfInvariance, PTL DEF Spec

-----------------------------------------------------------------------------
(***************************************************************************)
(* The bounds of the semaphores.                                           *)
(***************************************************************************)
Semaphores ==
    /\ exchanged \in BOOLEAN
    /\ threads_sem \in [Sides -> 0 .. args.threads]
    /\ done_sem \in [Sides -> 0 .. args.threads]

\* The threads that were created or are done are no more than there are.
LEMMA PartOfInterval ==
    ASSUME NEW n \in Nat, NEW S \in SUBSET (1 .. n)
    PROVE  Cardinality(S) \in 0 .. n
<1>1. IsFiniteSet(1 .. n) /\ Cardinality(1 .. n) = n
  <2>1. 1 \in Int /\ n \in Int /\ (IF 1 > n THEN 0 ELSE n - 1 + 1) = n
    OBVIOUS
  <2> QED BY <2>1, FS_Interval
<1>2. IsFiniteSet(S) /\ Cardinality(S) <= n
  BY <1>1, FS_Subset
<1> QED BY <1>2, FS_CardinalityType

\* The sum of a side's steps: a semaphore is left alone, is emptied or filled
\* by main, or goes down by one; the other counts the threads that are done.
LEMMA SemaphoresKeep ==
    ASSUME SemInv, SemInv', Semaphores, args' = args, exchanged' \in BOOLEAN,
           NEW s \in Sides, NEW a, NEW b,
           threads_sem' = [threads_sem EXCEPT ![s] = a],
           \/ a = threads_sem[s] \/ a \in 0 .. args.threads
           \/ threads_sem[s] > 0 /\ a = threads_sem[s] - 1,
           done_sem' = [done_sem EXCEPT ![s] = b],
           b = done_sem[s] \/ b = 0 \/ Alive(s)'
    PROVE  Semaphores'
<1>1. ThreadType /\ args.threads \in Nat
  BY DEF SemInv, ThreadType
<1>2. a \in 0 .. args.threads
  BY <1>1 DEF Semaphores
<1>3. b \in 0 .. args.threads
  <2>1. CASE Alive(s)'
    <3>1. Cardinality(DoneThreads(s)') \in 0 .. args.threads
      <4>1. DoneThreads(s)' \in SUBSET (1 .. args.threads)
        BY DEF DoneThreads, Threads
      <4> QED BY <4>1, <1>1, PartOfInterval
    <3>2. done_sem'[s] = Cardinality(DoneThreads(s))'
      BY <2>1 DEF SemInv, Counted
    <3>3. done_sem'[s] = b
      BY DEF Semaphores
    <3> QED BY <3>1, <3>2, <3>3
  <2>2. CASE b = done_sem[s] \/ b = 0
    BY <2>2, <1>1 DEF Semaphores
  <2> QED BY <2>1, <2>2
<1> QED BY <1>2, <1>3 DEF Semaphores

LEMMA NextSemaphores ==
    SemInv /\ SemInv' /\ Semaphores /\ [Next]_vars => Semaphores'
<1> SUFFICES ASSUME SemInv, SemInv', Semaphores, [Next]_vars PROVE Semaphores'
  OBVIOUS
<1>1. ThreadType /\ args.threads \in Nat
  BY DEF SemInv, ThreadType
<1>2. ASSUME args' = args, exchanged' \in BOOLEAN, UNCHANGED <<threads_sem, done_sem>>
      PROVE  Semaphores'
  BY <1>2 DEF Semaphores
<1>3. ASSUME args' = args, NEW s \in Sides, Main(s) PROVE Semaphores'
  <2>1. CASE s = "recv" /\ (Connect \/ ReceiverExchanged)
    BY <2>1, <1>2, <1>3 DEF Connect, ReceiverExchanged, Semaphores
  <2>2. CASE \/ s = "send" /\ SenderExchanged
             \/ ExchangeFails(s) \/ CreateThread(s)
    BY <2>2, <1>2, <1>3
       DEF SenderExchanged, ExchangeFails, CreateThread, mainVars, Semaphores
  <2>3. CASE StartThreads(s)
    <3>1. /\ exchanged' = exchanged /\ done_sem' = [done_sem EXCEPT ![s] = done_sem[s]]
          /\ threads_sem' = [threads_sem EXCEPT ![s] = args.threads]
      BY <2>3 DEF StartThreads, Semaphores
    <3>2. args.threads \in 0 .. args.threads
      BY <1>1
    <3> QED BY <3>1, <3>2, <1>3, SemaphoresKeep DEF Semaphores
  <2>4. CASE CreateFails(s)
    <3>1. /\ exchanged' = exchanged /\ done_sem' = [done_sem EXCEPT ![s] = done_sem[s]]
          /\ threads_sem' = [threads_sem EXCEPT ![s] = Cardinality(Created(s))]
      BY <2>4 DEF CreateFails, Semaphores
    <3>2. Cardinality(Created(s)) \in 0 .. args.threads
      <4>1. Created(s) \in SUBSET (1 .. args.threads)
        BY DEF Created, Threads
      <4> QED BY <4>1, <1>1, PartOfInterval
    <3> QED BY <3>1, <3>2, <1>3, SemaphoresKeep DEF Semaphores
  <2>5. CASE Join(s)
    <3>1. /\ exchanged' = exchanged /\ done_sem' = [done_sem EXCEPT ![s] = 0]
          /\ threads_sem' = [threads_sem EXCEPT ![s] = threads_sem[s]]
      BY <2>5 DEF Join, Semaphores
    <3> QED BY <3>1, <1>3, SemaphoresKeep DEF Semaphores
  <2> QED BY <1>3, <2>1, <2>2, <2>3, <2>4, <2>5 DEF Main
<1>4. ASSUME args' = args, NEW s \in Sides, Kill(s) PROVE Semaphores'
  BY <1>4, <1>2 DEF Kill, Semaphores
<1>5. ASSUME args' = args, NEW e \in Ends, Thread(e) PROVE Semaphores'
  <2> DEFINE s == e[1]
  <2>1. s \in Sides
    BY EndIsPair
  <2> HIDE DEF s
  <2>2. CASE Pinned(e) \/ Post(e)
    BY <2>2, <1>2, <1>5 DEF Pinned, Post, mainVars, Semaphores
  <2>3. CASE Start(e)
    <3>1. /\ exchanged' = exchanged /\ done_sem' = [done_sem EXCEPT ![s] = done_sem[s]]
          /\ threads_sem[s] > 0
          /\ threads_sem' = [threads_sem EXCEPT ![s] = threads_sem[s] - 1]
      BY <2>3 DEF Start, Semaphores, s
    <3> QED BY <2>1, <3>1, <1>5, SemaphoresKeep DEF Semaphores
  <2>4. ASSUME NEW how, Out(e, how), Alive(s)', UNCHANGED <<threads_sem, exchanged>>
        PROVE  Semaphores'
    <3>1. /\ done_sem' = [done_sem EXCEPT ![s] = done_sem[s] + 1]
          /\ threads_sem' = [threads_sem EXCEPT ![s] = threads_sem[s]]
      BY <2>4 DEF Out, Semaphores, s
    <3> QED BY <2>1, <2>4, <3>1, <1>5, SemaphoresKeep DEF Semaphores
  <2>5. CASE CpuFails(e) \/ PostFails(e) \/ PollFails(e) \/ WrongData(e)
    BY <2>4, <2>5
       DEF CpuFails, PostFails, PollFails, WrongData, At, Alive, s
  <2>6. CASE Poll(e)
    <3>1. Alive(s)' /\ UNCHANGED <<threads_sem, exchanged>>
      BY <2>6 DEF Poll, At, Alive, s
    <3>2. CASE UNCHANGED <<pc, done_sem>>
      BY <1>2, <1>5, <3>1, <3>2 DEF Semaphores
    <3>3. CASE Out(e, "measured") \/ Out(e, "aborted")
      BY <2>4, <3>1, <3>3
    <3> QED BY <2>6, <3>2, <3>3 DEF Poll
  <2> QED BY <1>5, <2>2, <2>3, <2>5, <2>6 DEF Thread
<1>6. ASSUME args' = args, NEW t \in Threads, Nic(t) PROVE Semaphores'
  BY <1>6, <1>2 DEF Nic, Deliver, Acknowledge, SendFails, mainVars, Semaphores
<1>7. ASSUME UNCHANGED vars PROVE Semaphores'
  BY <1>7, <1>2 DEF vars, runVars, mainVars, Semaphores
<1>8. ASSUME args' = args, Rest PROVE Semaphores'
  BY <1>8, <1>2 DEF Rest, runVars, mainVars, Semaphores
<1> QED BY <1>3, <1>4, <1>5, <1>6, <1>7, <1>8 DEF Next

\* The type invariant: the semaphores never count more than the threads, also when
\* threads are created in part and fail in any order.
THEOREM TypeCorrect == Spec => []TypeOK
<1>1. Init => Semaphores
  <2> SUFFICES ASSUME Init PROVE Semaphores
    OBVIOUS
  <2>1. args.threads \in Nat
    BY InitSemInv DEF SemInv, ThreadType
  <2>2. 0 \in 0 .. args.threads
    BY <2>1
  <2>3. /\ exchanged = FALSE
        /\ threads_sem = [s \in Sides |-> 0] /\ done_sem = [s \in Sides |-> 0]
    BY DEF Init
  <2> QED BY <2>2, <2>3 DEF Semaphores
<1>2. Spec => []SemInv
  BY InitSemInv, NextSemInv, PTL DEF Spec
<1>3. Spec => []Semaphores
  BY <1>1, <1>2, NextSemaphores, PTL DEF Spec
<1>4. IInv /\ SemInv /\ Semaphores => TypeOK
  BY DEF IInv, LoopType, SemInv, ThreadType, Semaphores, TypeOK
<1> QED BY <1>2, <1>3, <1>4, IntfInvariance, PTL
=============================================================================
