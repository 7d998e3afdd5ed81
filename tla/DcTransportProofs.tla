--------------------------- MODULE DcTransportProofs ---------------------------
(***************************************************************************)
(* The DC target loses no receive but to a message in error, and exits     *)
(* only through the fault of the initiator it serves, for any number of    *)
(* initiators, receives and messages.                                      *)
(***************************************************************************)
EXTENDS DcTransport, FiniteSetTheorems, TLAPS

Ended(i) == ipc[i] \in {"error"} \cup IniEnded

\* The initiators whose messages were too long and that have been told so, or
\* have ended.
Errant == {i \in TooLong : Ended(i)}

Bad == cq["bad"] + lost

\* Main has its receives, and every bad one has somebody to blame.
Receives ==
    /\ pc = "start" => Bad = 0 /\ cq["good"] = 0
    /\ Alive => srq + cq["good"] + Bad = Depth
    /\ Bad <= Cardinality(Errant)

\* The initiators that handle_clients knows of have written their address, or
\* are at it, or were killed; nobody has written before.
Known ==
    /\ \A i \in Initiators : ipc[i] \in {"start", "connected"} => tcp[<<i, "target">>] = "none"
    /\ \A i \in backlog \cup ({serving} \cap Initiators) :
          tcp[<<i, "target">>] # "none" \/ ipc[i] \in {"connected", "killed"}
    /\ handler = "read" => serving \in Initiators

\* An iteration under way is one of those the test still has to do.
OneMore == \A i \in Initiators : ipc[i] \in {"posted", "acked"} => done[i] < Iters

DInv == TypeOK /\ Receives /\ Known /\ ExitNeedsFault /\ OneMore

\* What an initiator is asked to do is of the right type.
LEMMA ArgsType ==
    ASSUME args \in Args
    PROVE  /\ Iters \in Nat /\ TargetIters \in Nat
           /\ args.kind \in [Initiators -> Kinds]
BY DcAssumption DEF Iters, TargetIters

-----------------------------------------------------------------------------
(***************************************************************************)
(* Types, but for the bound on srq, which is a matter of the receives.     *)
(***************************************************************************)
LEMMA InitDInv == Init => DInv
<1> SUFFICES ASSUME Init PROVE DInv
  OBVIOUS
<1>1. TypeOK
  <2>1. 0 \in 0 .. Depth /\ 0 \in 0 .. Iters
    BY ArgsType, DcAssumption DEF Init
  <2>2. done \in [Initiators -> 0 .. Iters] /\ test \in [Initiators -> {"send", "write", "read"}]
    BY <2>1 DEF Init
  <2>3. /\ tcp \in [Initiators \X {"target", "initiator"} -> {"none", "addr", "split", "reset"}]
        /\ cq \in [{"good", "bad"} -> Nat]
    BY DEF Init
  <2> QED
    BY <2>1, <2>2, <2>3 DEF Init, TypeOK
<1>2. Receives
  <2>1. IsFiniteSet(Errant)
    BY DcAssumption, FS_Subset DEF Errant, TooLong
  <2>2. Cardinality(Errant) \in Nat
    BY <2>1, FS_CardinalityType
  <2> QED
    BY <2>2 DEF Init, Receives, Bad, Alive
<1>3. Known /\ ExitNeedsFault /\ OneMore
  BY DcAssumption DEF Init, Known, ExitNeedsFault, OneMore
<1> QED
  BY <1>1, <1>2, <1>3 DEF DInv

\* Resetting connections touches only what was written to initiators.
LEMMA ResetKeeps ==
    ASSUME TypeOK, NEW conns, Reset(conns)
    PROVE  /\ tcp' \in [Initiators \X {"target", "initiator"} -> {"none", "addr", "split", "reset"}]
           /\ \A i \in Initiators : tcp'[<<i, "target">>] = tcp[<<i, "target">>]
<1>1. DOMAIN tcp = Initiators \X {"target", "initiator"}
  BY DEF TypeOK
<1>2. tcp' = [x \in Initiators \X {"target", "initiator"} |->
               IF x[1] \in conns /\ x[2] = "initiator" /\ tcp[x] = "none"
               THEN "reset" ELSE tcp[x]]
  BY <1>1 DEF Reset
<1>3. \A i \in Initiators : <<i, "target">>[2] # "initiator"
  OBVIOUS
<1> QED
  BY <1>2, <1>3 DEF TypeOK

LEMMA TargetType ==
    ASSUME DInv, UNCHANGED <<args, faults>>, Target
    PROVE  TypeOK'
<1>1. Iters' = Iters
  BY DEF Iters
<1>2. CASE TargetStart
  BY <1>1, <1>2, DcAssumption DEF DInv, TypeOK, TargetStart, iniVars
<1>3. CASE PollGood
  <2>1. pc = "poll" /\ cq["good"] > 0 /\ cq \in [{"good", "bad"} -> Nat] /\ lost \in Nat /\ srq \in Nat
    BY <1>3 DEF DInv, TypeOK, PollGood
  <2>2. srq + cq["good"] + (cq["bad"] + lost) = Depth
    BY <2>1 DEF DInv, Receives, Alive, Bad
  <2>3. srq + 1 \in 0 .. Depth /\ cq["good"] - 1 \in Nat
    BY <2>1, <2>2, DcAssumption
  <2>4. [cq EXCEPT !["good"] = @ - 1] \in [{"good", "bad"} -> Nat]
    BY <2>1, <2>3
  <2> QED
    BY <1>1, <1>3, <2>3, <2>4 DEF DInv, TypeOK, PollGood, iniVars
<1>4. CASE PollBad
  <2>1. [cq EXCEPT !["bad"] = @ - 1] \in [{"good", "bad"} -> Nat]
    BY <1>4 DEF DInv, TypeOK, PollBad
  <2> QED
    BY <1>1, <1>4, <2>1 DEF DInv, TypeOK, PollBad, iniVars
<1>5. CASE TargetEnds
  BY <1>1, <1>5 DEF DInv, TypeOK, TargetEnds, iniVars
<1>6. CASE TargetReturns
  BY <1>1, <1>6, ResetKeeps DEF DInv, TypeOK, TargetReturns, TargetExit
<1> QED
  BY <1>2, <1>3, <1>4, <1>5, <1>6 DEF Target

LEMMA ThreadsType ==
    ASSUME DInv, UNCHANGED <<args, faults>>, HandleClients \/ PollAsync
    PROVE  TypeOK'
<1>1. Iters' = Iters
  BY DEF Iters
<1>2. CASE Listen
  BY <1>1, <1>2 DEF DInv, TypeOK, Listen, iniVars
<1>3. ASSUME NEW i \in Initiators, Accept(i) PROVE TypeOK'
  BY <1>1, <1>3, ResetKeeps DEF DInv, TypeOK, Accept
<1>4. CASE Serve
  <2>1. \A a \in Address : [tcp EXCEPT ![<<serving, "initiator">>] = a]
            \in [Initiators \X {"target", "initiator"} -> {"none", "addr", "split", "reset"}]
    BY DEF DInv, TypeOK, Address
  <2> QED
    BY <1>1, <1>4, <2>1 DEF DInv, TypeOK, Serve
<1>5. CASE ServeFails
  BY <1>1, <1>5, ResetKeeps DEF DInv, TypeOK, ServeFails, TargetExit
<1>6. CASE Cancelled
  BY <1>1, <1>6 DEF DInv, TypeOK, Cancelled, iniVars
<1>7. CASE ArmDct
  BY <1>1, <1>7 DEF DInv, TypeOK, ArmDct, iniVars
<1>8. CASE GetAsyncEvent
  BY <1>1, <1>8 DEF DInv, TypeOK, GetAsyncEvent, iniVars
<1> QED
  BY <1>2, <1>3, <1>4, <1>5, <1>6, <1>7, <1>8 DEF HandleClients, PollAsync

LEMMA InitiatorType ==
    ASSUME DInv, UNCHANGED <<args, faults>>, NEW i \in Initiators,
           Initiator(i) \/ Nic(i) \/ Kill(i)
    PROVE  TypeOK'
<1> USE DEF DInv, Goto
<1>1. Iters' = Iters /\ Iters \in Nat
  BY ArgsType DEF Iters, TypeOK
<1>2. CASE Connect(i)
  BY <1>1, <1>2 DEF TypeOK, Connect, IniEnded
<1>3. CASE WriteAddress(i)
  <2>1. \A a \in Address : [tcp EXCEPT ![<<i, "target">>] = a]
            \in [Initiators \X {"target", "initiator"} -> {"none", "addr", "split", "reset"}]
    BY DEF TypeOK, Address
  <2> QED
    BY <1>1, <1>3, <2>1 DEF TypeOK, WriteAddress, targetVars
<1>4. CASE ReadAddress(i) \/ ReadFails(i) \/ PostTest(i) \/ PollTestFails(i) \/ Kill(i)
  BY <1>1, <1>4 DEF TypeOK, ReadAddress, ReadFails, PostTest, PollTestFails, Kill,
                    IniEnded, targetVars
<1>5. CASE PollTest(i)
  <2>1. done[i] < Iters
    BY <1>5 DEF PollTest, OneMore
  <2> QED
    BY <1>1, <1>5, <2>1 DEF TypeOK, PollTest, targetVars
<1>6. CASE NextTest(i)
  BY <1>1, <1>6 DEF TypeOK, NextTest, IniEnded, targetVars
<1>7. CASE DeliverSend(i)
  <2>1. srq - 1 \in 0 .. Depth
    BY <1>7, DcAssumption DEF DeliverSend, TypeOK
  <2>2. \A c \in {"good", "bad"} : [cq EXCEPT ![c] = @ + 1] \in [{"good", "bad"} -> Nat]
    BY DEF TypeOK
  <2> QED
    BY <1>1, <1>7, <2>1, <2>2 DEF TypeOK, DeliverSend
<1>8. CASE DeliverRdma(i) \/ NoTarget(i)
  <2>1. UNCHANGED <<targetVars, test, done, tcp>>
    BY <1>8 DEF DeliverRdma, NoTarget
  <2>2. \E r \in {"acked", "error"} : Goto(i, r)
    BY <1>8 DEF DeliverRdma, NoTarget
  <2> QED
    BY <1>1, <2>1, <2>2 DEF TypeOK, targetVars
<1>9. CASE RefuseKey(i)
  <2>1. asyncs' \in Nat /\ armed' \in BOOLEAN
    <3>1. asyncs \in Nat /\ asyncs + 1 \in Nat
      BY DEF TypeOK
    <3>2. (asyncs' = asyncs \/ asyncs' = asyncs + 1) /\ armed' = FALSE
      BY <1>9, Zenon DEF RefuseKey
    <3> QED
      BY <3>1, <3>2
  <2>2. UNCHANGED <<pc, handler, poller, listening, backlog, serving, srq, cq, lost,
                    cnt, test, done, tcp>>
    BY <1>9 DEF RefuseKey
  <2>3. ipc' = [ipc EXCEPT ![i] = "error"]
    BY <1>9 DEF RefuseKey
  <2> QED
    BY <1>1, <2>1, <2>2, <2>3 DEF TypeOK
<1> QED
  BY <1>2, <1>3, <1>4, <1>5, <1>6, <1>7, <1>8, <1>9 DEF Initiator, Nic

-----------------------------------------------------------------------------
(***************************************************************************)
(* Receives.                                                               *)
(***************************************************************************)

\* There are as many to blame as before, or more, and one more when another
\* initiator is.
LEMMA Blame ==
    ASSUME DInv, args' = args, \A i \in Initiators : Ended(i) => Ended(i)'
    PROVE  /\ Cardinality(Errant) \in Nat /\ Cardinality(Errant') \in Nat
           /\ Cardinality(Errant) <= Cardinality(Errant')
           /\ (\E i \in TooLong : ~Ended(i) /\ Ended(i)') =>
                  Cardinality(Errant) + 1 <= Cardinality(Errant')
<1>1. TooLong' = TooLong
  BY DEF TooLong
<1>2. Errant \subseteq Errant' /\ IsFiniteSet(Errant) /\ IsFiniteSet(Errant')
  BY <1>1, DcAssumption, FS_Subset DEF Errant, TooLong
<1>3. Cardinality(Errant) \in Nat /\ Cardinality(Errant') \in Nat
  BY <1>2, FS_CardinalityType
<1>4. Cardinality(Errant) <= Cardinality(Errant')
  BY <1>2, FS_Subset
<1>5. ASSUME NEW i \in TooLong, ~Ended(i), Ended(i)'
      PROVE  Cardinality(Errant) + 1 <= Cardinality(Errant')
  <2>1. i \notin Errant /\ Errant \cup {i} \subseteq Errant'
    BY <1>1, <1>2, <1>5 DEF Errant
  <2>2. Cardinality(Errant \cup {i}) = Cardinality(Errant) + 1
    BY <1>2, <2>1, FS_AddElement
  <2> QED
    BY <1>2, <2>1, <2>2, FS_Subset
<1> QED
  BY <1>3, <1>4, <1>5

\* A step that leaves receives and completions alone.
LEMMA ReceivesElsewhere ==
    ASSUME DInv, args' = args, UNCHANGED <<srq, cq, lost>>,
           pc' = pc \/ (pc # "start" /\ pc' # "start" /\ (Alive' => Alive)),
           \A i \in Initiators : Ended(i) => Ended(i)'
    PROVE  Receives'
<1>1. /\ Cardinality(Errant) \in Nat /\ Cardinality(Errant') \in Nat
      /\ Cardinality(Errant) <= Cardinality(Errant')
  BY Blame
<1>2. cq["bad"] \in Nat /\ lost \in Nat
  BY DEF DInv, TypeOK
<1> QED
  BY <1>1, <1>2 DEF DInv, Receives, Alive, Bad

\* main posts all receives, and again what has completed well.
LEMMA TargetReceives ==
    ASSUME DInv, args' = args, Target
    PROVE  Receives'
<1> DEFINE good == cq["good"]
<1> DEFINE bad == cq["bad"]
<1>1. /\ good \in Nat /\ bad \in Nat /\ lost \in Nat /\ srq \in Nat /\ Depth \in Nat
      /\ cq \in [{"good", "bad"} -> Nat]
  BY DcAssumption DEF DInv, TypeOK
<1>2. ASSUME ipc' = ipc
      PROVE  /\ Cardinality(Errant) \in Nat /\ Cardinality(Errant') \in Nat
             /\ Cardinality(Errant) <= Cardinality(Errant')
  BY <1>2, Blame DEF Ended
<1>3. CASE TargetStart
  <2>1. /\ UNCHANGED <<cq, lost, ipc>> /\ pc = "start" /\ pc' = "poll" /\ srq' = Depth
    BY <1>3 DEF TargetStart, iniVars
  <2> QED
    BY <1>1, <1>2, <2>1 DEF DInv, Receives, Alive, Bad
<1>4. CASE PollGood
  <2>1. /\ pc' = pc /\ pc = "poll" /\ UNCHANGED <<lost, ipc>> /\ srq' = srq + 1
        /\ cq'["good"] = good - 1 /\ cq'["bad"] = bad
    BY <1>1, <1>4 DEF PollGood, iniVars
  <2> QED
    BY <1>1, <1>2, <2>1 DEF DInv, Receives, Alive, Bad
<1>5. CASE PollBad
  <2>1. /\ pc' = pc /\ pc = "poll" /\ UNCHANGED <<srq, ipc>> /\ lost' = lost + 1
        /\ cq'["good"] = good /\ cq'["bad"] = bad - 1
    BY <1>1, <1>5 DEF PollBad, iniVars
  <2> QED
    BY <1>1, <1>2, <2>1 DEF DInv, Receives, Alive, Bad
<1>6. CASE TargetEnds
  <2>1. UNCHANGED <<srq, cq, lost, ipc>> /\ pc = "poll" /\ pc' = "joining"
    BY <1>6 DEF TargetEnds, iniVars
  <2> QED
    BY <2>1, ReceivesElsewhere DEF Ended, Alive
<1>7. CASE TargetReturns
  <2>1. UNCHANGED <<srq, cq, lost, ipc>> /\ pc = "joining" /\ pc' = "done"
    BY <1>7 DEF TargetReturns, TargetExit
  <2> QED
    BY <2>1, ReceivesElsewhere DEF Ended, Alive
<1> QED
  BY <1>3, <1>4, <1>5, <1>6, <1>7 DEF Target

LEMMA ThreadsReceives ==
    ASSUME DInv, args' = args, HandleClients \/ PollAsync
    PROVE  Receives'
<1>1. UNCHANGED <<srq, cq, lost, ipc>>
  BY DEF HandleClients, PollAsync, Listen, Accept, Serve, ServeFails, TargetExit,
         Cancelled, ArmDct, GetAsyncEvent, iniVars
<1>2. pc' = pc \/ (Alive /\ pc' = "exited")
  BY DEF HandleClients, PollAsync, Listen, Accept, Serve, ServeFails, TargetExit,
         Cancelled, ArmDct, GetAsyncEvent
<1> QED
  BY <1>1, <1>2, ReceivesElsewhere DEF Ended, Alive

\* A SEND that is too long is an initiator's last.
LEMMA DeliverSendReceives ==
    ASSUME DInv, args' = args, NEW i \in Initiators, DeliverSend(i)
    PROVE  Receives'
<1> DEFINE good == cq["good"]
<1> DEFINE bad == cq["bad"]
<1>1. /\ good \in Nat /\ bad \in Nat /\ lost \in Nat /\ srq \in Nat /\ Depth \in Nat
      /\ cq \in [{"good", "bad"} -> Nat] /\ DOMAIN ipc = Initiators
  BY DcAssumption DEF DInv, TypeOK
<1>2. /\ pc' = pc /\ lost' = lost /\ srq' = srq - 1 /\ srq > 0
      /\ Alive /\ ipc[i] = "posted" /\ args.kind[i] # "wrong_key"
      /\ cq' = [cq EXCEPT ![IF Good(i) THEN "good" ELSE "bad"] = @ + 1]
      /\ ipc' = [ipc EXCEPT ![i] = IF Good(i) THEN "acked" ELSE "error"]
  BY DEF DeliverSend, Goto
<1>3. ~Ended(i) /\ \A j \in Initiators : Ended(j) => Ended(j)'
  BY <1>1, <1>2 DEF Ended, IniEnded
<1>4. CASE Good(i)
  <2>1. cq'["good"] = good + 1 /\ cq'["bad"] = bad
    BY <1>1, <1>2, <1>4
  <2>2. /\ Cardinality(Errant) \in Nat /\ Cardinality(Errant') \in Nat
        /\ Cardinality(Errant) <= Cardinality(Errant')
    BY <1>3, Blame
  <2> QED
    BY <1>1, <1>2, <2>1, <2>2 DEF DInv, Receives, Alive, Bad
<1>5. CASE ~Good(i)
  <2>1. cq'["good"] = good /\ cq'["bad"] = bad + 1
    BY <1>1, <1>2, <1>5
  <2>2. i \in TooLong
    BY <1>2, <1>5, ArgsType DEF TooLong, Good, Kinds, DInv, TypeOK
  <2>3. Ended(i)'
    BY <1>1, <1>2, <1>5 DEF Ended
  <2>4. /\ Cardinality(Errant) \in Nat /\ Cardinality(Errant') \in Nat
        /\ Cardinality(Errant) + 1 <= Cardinality(Errant')
    BY <1>3, <2>2, <2>3, Blame
  <2> QED
    BY <1>1, <1>2, <2>1, <2>4 DEF DInv, Receives, Alive, Bad
<1> QED
  BY <1>4, <1>5

LEMMA InitiatorReceives ==
    ASSUME DInv, args' = args, NEW i \in Initiators,
           Initiator(i) \/ Nic(i) \/ Kill(i)
    PROVE  Receives'
<1>1. CASE DeliverSend(i)
  BY <1>1, DeliverSendReceives
<1>2. CASE ~DeliverSend(i)
  <2>1. UNCHANGED <<pc, srq, cq, lost>>
    BY <1>2 DEF Initiator, Nic, Kill, Connect, WriteAddress, ReadAddress, ReadFails,
                PostTest, PollTest, PollTestFails, NextTest, DeliverRdma, RefuseKey,
                NoTarget, targetVars
  <2>2. \A j \in Initiators : Ended(j) => Ended(j)'
    <3>1. /\ ~Ended(i) \/ (ipc[i] = "error" /\ \E e \in IniEnded : ipc' = [ipc EXCEPT ![i] = e])
          /\ \A j \in Initiators : j # i => ipc'[j] = ipc[j]
      BY <1>2 DEF Initiator, Nic, Kill, Connect, WriteAddress, ReadAddress, ReadFails,
                  PostTest, PollTest, PollTestFails, NextTest, DeliverRdma, RefuseKey,
                  NoTarget, Goto, Ended, IniRunning, IniEnded, DInv, TypeOK
    <3> QED
      BY <3>1 DEF Ended, DInv, TypeOK
  <2> QED
    BY <2>1, <2>2, ReceivesElsewhere
<1> QED
  BY <1>1, <1>2

-----------------------------------------------------------------------------
(***************************************************************************)
(* What handle_clients knows, and why it exits.                            *)
(***************************************************************************)
Knowledge == Known /\ ExitNeedsFault /\ OneMore

\* A step of the target writes to no initiator's socket but for reading by it.
LEMMA TargetKnows ==
    ASSUME DInv, args' = args, UNCHANGED <<ipc, done>>,
           \A i \in Initiators : tcp'[<<i, "target">>] = tcp[<<i, "target">>],
           (backlog' \cup ({serving'} \cap Initiators))
               \subseteq (backlog \cup ({serving} \cap Initiators)),
           handler' = "read" => serving' \in Initiators,
           pc' = "exited" => pc = "exited" \/ ExitNeedsFault'
    PROVE  Knowledge'
<1>1. Known'
  BY DEF DInv, TypeOK, Known
<1>2. ExitNeedsFault'
  BY DEF DInv, TypeOK, ExitNeedsFault
<1>3. OneMore'
  BY DEF DInv, OneMore, Iters
<1> QED
  BY <1>1, <1>2, <1>3 DEF Knowledge

LEMMA TargetRest ==
    ASSUME DInv, args' = args, Target
    PROVE  Knowledge'
<1>1. CASE TargetReturns
  <2>1. /\ Reset(backlog \cup {serving}) /\ UNCHANGED <<ipc, done>> /\ pc' = "done"
        /\ backlog' = {} /\ serving' = None /\ handler' = "gone"
    BY <1>1 DEF TargetReturns, TargetExit
  <2> QED
    BY <2>1, ResetKeeps, TargetKnows, DcAssumption DEF DInv
<1>2. CASE TargetStart \/ PollGood \/ PollBad \/ TargetEnds
  <2>1. /\ UNCHANGED <<ipc, done, tcp, backlog, serving>> /\ pc' # "exited"
        /\ handler' = handler \/ handler' = "bind"
    BY <1>2 DEF TargetStart, PollGood, PollBad, TargetEnds, iniVars
  <2> QED
    BY <2>1, TargetKnows DEF DInv, Known
<1> QED
  BY <1>1, <1>2 DEF Target

\* The step that ends the process: the initiator served has written its address
\* in pieces, or has ended without writing it, and that is because it was killed.
LEMMA ServeFailsRest ==
    ASSUME DInv, args' = args, ServeFails
    PROVE  Knowledge'
<1>1. /\ Reset(backlog \cup {serving}) /\ UNCHANGED <<ipc, done>> /\ pc' = "exited"
      /\ backlog' = {} /\ serving' = None /\ handler' = "gone" /\ handler = "read"
  BY DEF ServeFails, TargetExit
<1>2. serving \in Initiators
  BY <1>1 DEF DInv, Known
<1>3. \A i \in Initiators : tcp'[<<i, "target">>] = tcp[<<i, "target">>]
  BY <1>1, ResetKeeps DEF DInv
<1>4. \/ tcp[<<serving, "target">>] = "split"
      \/ tcp[<<serving, "target">>] = "none" /\ ipc[serving] = "killed"
  BY <1>2 DEF ServeFails, DInv, Known, IniRunning, IniEnded
<1>5. ExitNeedsFault'
  BY <1>1, <1>2, <1>3, <1>4 DEF ExitNeedsFault
<1> QED
  BY <1>1, <1>3, <1>5, TargetKnows, DcAssumption

LEMMA ThreadsRest ==
    ASSUME DInv, args' = args, HandleClients \/ PollAsync
    PROVE  Knowledge'
<1>1. CASE ServeFails
  BY <1>1, ServeFailsRest
<1>2. CASE Serve
  <2>1. /\ UNCHANGED <<ipc, done, pc, backlog>> /\ serving' = None /\ handler' # "read"
        /\ \E a \in Address : tcp' = [tcp EXCEPT ![<<serving, "initiator">>] = a]
    BY <1>2 DEF Serve
  <2>2. \A i \in Initiators : tcp'[<<i, "target">>] = tcp[<<i, "target">>]
    BY <2>1 DEF DInv, TypeOK
  <2> QED
    BY <2>1, <2>2, TargetKnows, DcAssumption
<1>3. ASSUME NEW i \in Initiators, Accept(i) PROVE Knowledge'
  <2>1. /\ UNCHANGED <<ipc, done, pc>> /\ serving' = i /\ backlog' = {} /\ i \in backlog
        /\ Reset(backlog \ {i})
    BY <1>3 DEF Accept
  <2> QED
    BY <1>3, <2>1, ResetKeeps, TargetKnows DEF DInv
<1>4. CASE Listen \/ Cancelled \/ PollAsync
  <2>1. /\ UNCHANGED <<ipc, done, tcp, pc, backlog, serving>>
        /\ handler' = handler \/ handler' # "read"
    BY <1>4 DEF Listen, Cancelled, PollAsync, ArmDct, GetAsyncEvent, iniVars
  <2> QED
    BY <2>1, TargetKnows DEF DInv, Known
<1> QED
  BY <1>1, <1>2, <1>3, <1>4 DEF HandleClients

\* An initiator connects once, and writes its address once.
LEMMA InitiatorRest ==
    ASSUME DInv, args' = args, NEW i \in Initiators,
           Initiator(i) \/ Nic(i) \/ Kill(i)
    PROVE  Knowledge'
<1> USE DEF Goto
<1>1. /\ DOMAIN ipc = Initiators /\ done \in [Initiators -> 0 .. Iters] /\ Iters \in Nat
      /\ Iters' = Iters /\ serving \in Initiators \cup {None} /\ backlog \subseteq Initiators
      /\ DOMAIN tcp = Initiators \X {"target", "initiator"}
  BY ArgsType DEF DInv, TypeOK, Iters
<1>2. UNCHANGED <<pc, handler, serving>>
  BY DEF Initiator, Nic, Kill, Connect, WriteAddress, ReadAddress, ReadFails, PostTest,
         PollTest, PollTestFails, NextTest, DeliverSend, DeliverRdma, RefuseKey, NoTarget,
         targetVars
<1>3. /\ \A j \in Initiators : j # i =>
            ipc'[j] = ipc[j] /\ tcp'[<<j, "target">>] = tcp[<<j, "target">>]
                /\ done'[j] = done[j]
      /\ backlog' = backlog \/ (backlog' = backlog \cup {i} /\ ipc'[i] = "connected")
  BY <1>1 DEF Initiator, Nic, Kill, Connect, WriteAddress, ReadAddress, ReadFails, PostTest,
         PollTest, PollTestFails, NextTest, DeliverSend, DeliverRdma, RefuseKey, NoTarget,
         targetVars
<1>4. \/ /\ ipc[i] = "start" /\ ipc'[i] \in {"connected", "failed"} /\ tcp' = tcp
      \/ /\ ipc[i] = "connected" /\ ipc'[i] = "wait_addr"
         /\ tcp'[<<i, "target">>] \in {"addr", "split"}
      \/ /\ ipc[i] \notin {"start", "connected"} \cup IniEnded
         /\ ipc'[i] \notin {"start", "connected"}
         /\ tcp' = tcp
      \/ /\ ipc[i] \notin {"start"} \cup IniEnded /\ ipc'[i] = "killed" /\ tcp' = tcp
  BY <1>1 DEF Initiator, Nic, Kill, Connect, WriteAddress, ReadAddress, ReadFails, PostTest,
         PollTest, PollTestFails, NextTest, DeliverSend, DeliverRdma, RefuseKey, NoTarget,
         IniEnded, IniRunning, Address
<1>5. Known'
  BY <1>1, <1>2, <1>3, <1>4 DEF DInv, Known, IniEnded
<1>6. ExitNeedsFault'
  <2> SUFFICES ASSUME pc = "exited"
               PROVE  \E j \in Initiators :
                          \/ tcp'[<<j, "target">>] = "split"
                          \/ tcp'[<<j, "target">>] = "none" /\ ipc'[j] = "killed"
    BY <1>2 DEF ExitNeedsFault
  <2>1. PICK j \in Initiators :
            \/ tcp[<<j, "target">>] = "split"
            \/ tcp[<<j, "target">>] = "none" /\ ipc[j] = "killed"
    BY DEF DInv, ExitNeedsFault
  <2>2. CASE j # i
    BY <1>3, <2>1, <2>2
  <2>3. CASE j = i
    BY <1>4, <2>1, <2>3 DEF DInv, Known, IniEnded
  <2> QED
    BY <2>2, <2>3
<1>7. OneMore'
  <2>1. ipc'[i] \in {"posted", "acked"} => done'[i] < Iters
    BY <1>1 DEF Initiator, Nic, Kill, Connect, WriteAddress, ReadAddress, ReadFails, PostTest,
         PollTest, PollTestFails, NextTest, DeliverSend, DeliverRdma, RefuseKey, NoTarget,
         IniEnded, DInv, OneMore, targetVars
  <2> QED
    BY <1>1, <1>3, <2>1 DEF DInv, OneMore
<1> QED
  BY <1>5, <1>6, <1>7 DEF Knowledge

-----------------------------------------------------------------------------
LEMMA NextDInv == DInv /\ [Next]_vars => DInv'
<1> SUFFICES ASSUME DInv, [Next]_vars PROVE DInv'
  OBVIOUS
<1>1. CASE UNCHANGED vars
  <2>1. UNCHANGED <<args, faults, targetVars, iniVars>>
    BY <1>1 DEF vars, runVars
  <2>2. TypeOK'
    BY <2>1 DEF targetVars, iniVars, DInv, TypeOK, Iters
  <2>3. Receives'
    BY <2>1, ReceivesElsewhere DEF targetVars, iniVars, Ended
  <2>4. Knowledge'
    BY <2>1, TargetKnows DEF targetVars, iniVars, DInv, Known
  <2> QED
    BY <2>2, <2>3, <2>4 DEF DInv, Knowledge
<1>2. CASE Next
  <2>1. UNCHANGED <<args, faults>>
    BY <1>2 DEF Next
  <2>2. CASE Target
    BY <2>1, <2>2, TargetType, TargetReceives, TargetRest DEF DInv, Knowledge
  <2>3. CASE HandleClients \/ PollAsync
    BY <2>1, <2>3, ThreadsType, ThreadsReceives, ThreadsRest DEF DInv, Knowledge
  <2>4. ASSUME NEW i \in Initiators, Initiator(i) \/ Nic(i) \/ Kill(i)
        PROVE  DInv'
    BY <2>1, <2>4, InitiatorType, InitiatorReceives, InitiatorRest DEF DInv, Knowledge
  <2> QED
    BY <1>2, <2>2, <2>3, <2>4 DEF Next
<1> QED
  BY <1>1, <1>2

\* The invariant of the target, for any initiators, arguments and faults.
THEOREM DcInvariance == Spec => []DInv
<1> QED
  BY InitDInv, NextDInv, PTL DEF Spec

\* Each receive is posted, completed, or lost to a message that was too long,
\* of which each initiator can send one.
THEOREM ReceivesAreConserved == Spec => []ReceivesConserved
<1>1. DInv => ReceivesConserved
  <2> SUFFICES ASSUME DInv PROVE ReceivesConserved
    OBVIOUS
  <2>1. cq["bad"] \in Nat /\ cq["good"] \in Nat /\ lost \in Nat /\ srq \in Nat
    BY DcAssumption DEF DInv, TypeOK
  <2>2. Errant = {i \in TooLong : ipc[i] \in {"error"} \cup IniEnded}
    BY DEF Errant, Ended
  <2> QED
    BY <2>1, <2>2 DEF DInv, Receives, ReceivesConserved, Bad
<1> QED
  BY <1>1, DcInvariance, PTL

\* The target exits only for an initiator that was killed before it had written
\* its address, or whose address came in pieces.
THEOREM ExitIsForFault == Spec => []ExitNeedsFault
<1>1. DInv => ExitNeedsFault
  BY DEF DInv
<1> QED
  BY <1>1, DcInvariance, PTL
=============================================================================
