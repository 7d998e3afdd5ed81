------------------------- MODULE FileTransferProofs -------------------------
(***************************************************************************)
(* Theorems about FileTransfer for any number of clients, names and        *)
(* chunks, and all faults.  One assumption is added to those of the model: *)
(* the descriptor that on_pre_conn leaves uninitialised is never, by       *)
(* chance, an open one.  Up to Refinement acknowledgements may be late;    *)
(* the last two theorems, BuffersStay and NobodyEverDies, need them in     *)
(* order.                                                                  *)
(***************************************************************************)
EXTENDS FileTransfer, SequenceTheorems, FiniteSetTheorems, TLAPS

\* What the operators Has and AtMostOne say of a queue that grows or shrinks.
LEMMA HasAppend ==
    ASSUME NEW T, NEW s \in Seq(T), NEW x \in T, NEW X
    PROVE  Has(Append(s, x), X) <=> Has(s, X) \/ x \in X
<1> DEFINE t == Append(s, x)
<1>1. /\ Len(t) = Len(s) + 1 /\ Len(s) \in Nat
      /\ \A i \in 1 .. Len(s) : t[i] = s[i]
      /\ t[Len(s) + 1] = x
  OBVIOUS
<1> HIDE DEF t
<1>2. ASSUME Has(t, X) PROVE Has(s, X) \/ x \in X
  <2> PICK i \in 1 .. Len(t) : t[i] \in X  BY <1>2 DEF Has
  <2>1. CASE i = Len(s) + 1  BY <2>1, <1>1
  <2>2. CASE i \in 1 .. Len(s)  BY <2>2, <1>1 DEF Has
  <2> QED BY <2>1, <2>2, <1>1
<1>3. ASSUME Has(s, X) PROVE Has(t, X)
  <2> PICK i \in 1 .. Len(s) : s[i] \in X  BY <1>3 DEF Has
  <2>1. i \in 1 .. Len(t) /\ t[i] \in X  BY <1>1
  <2> QED BY <2>1 DEF Has
<1>4. ASSUME x \in X PROVE Has(t, X)
  <2>1. Len(s) + 1 \in 1 .. Len(t)  BY <1>1
  <2> QED BY <2>1, <1>1, <1>4 DEF Has
<1> QED BY <1>2, <1>3, <1>4 DEF t

LEMMA AtMostOneAppend ==
    ASSUME NEW T, NEW s \in Seq(T), NEW x \in T, NEW X,
           AtMostOne(s, X), x \notin X \/ ~Has(s, X)
    PROVE  AtMostOne(Append(s, x), X)
<1> DEFINE t == Append(s, x)
<1>1. /\ Len(t) = Len(s) + 1 /\ Len(s) \in Nat
      /\ \A i \in 1 .. Len(s) : t[i] = s[i]
      /\ t[Len(s) + 1] = x
  OBVIOUS
<1> HIDE DEF t
<1> SUFFICES ASSUME NEW i \in 1 .. Len(t), NEW j \in 1 .. Len(t),
                    t[i] \in X, t[j] \in X
             PROVE  i = j
  BY DEF AtMostOne, t
<1>2. CASE i \in 1 .. Len(s) /\ j \in 1 .. Len(s)
  BY <1>1, <1>2 DEF AtMostOne
<1>3. CASE i = Len(s) + 1 \/ j = Len(s) + 1
  <2>1. x \in X  BY <1>1, <1>3
  <2>2. \A k \in 1 .. Len(s) : s[k] \notin X  BY <2>1 DEF Has
  <2> QED BY <1>1, <2>2
<1> QED BY <1>1, <1>2, <1>3

LEMMA HasTail ==
    ASSUME NEW T, NEW s \in Seq(T), s # <<>>, NEW X
    PROVE  Has(s, X) <=> Head(s) \in X \/ Has(Tail(s), X)
<1> DEFINE t == Tail(s)
<1>1. /\ Len(s) \in Nat \ {0} /\ Len(t) = Len(s) - 1
      /\ \A i \in 1 .. Len(t) : t[i] = s[i + 1]
      /\ Head(s) = s[1]
  OBVIOUS
<1> HIDE DEF t
<1>2. ASSUME Has(s, X) PROVE Head(s) \in X \/ Has(t, X)
  <2> PICK i \in 1 .. Len(s) : s[i] \in X  BY <1>2 DEF Has
  <2>1. CASE i = 1  BY <2>1, <1>1
  <2>2. CASE i # 1
    <3>1. i - 1 \in 1 .. Len(t) /\ t[i - 1] = s[i]  BY <2>2, <1>1
    <3> QED BY <3>1 DEF Has
  <2> QED BY <2>1, <2>2
<1>3. ASSUME Head(s) \in X PROVE Has(s, X)
  <2>1. 1 \in 1 .. Len(s)  BY <1>1
  <2> QED BY <2>1, <1>1, <1>3 DEF Has
<1>4. ASSUME Has(t, X) PROVE Has(s, X)
  <2> PICK i \in 1 .. Len(t) : t[i] \in X  BY <1>4 DEF Has
  <2>1. i + 1 \in 1 .. Len(s) /\ s[i + 1] \in X  BY <1>1
  <2> QED BY <2>1 DEF Has
<1> QED BY <1>2, <1>3, <1>4 DEF t

LEMMA AtMostOneTail ==
    ASSUME NEW T, NEW s \in Seq(T), s # <<>>, NEW X, AtMostOne(s, X)
    PROVE  AtMostOne(Tail(s), X) /\ (Head(s) \in X => ~Has(Tail(s), X))
<1> DEFINE t == Tail(s)
<1>1. /\ Len(s) \in Nat \ {0} /\ Len(t) = Len(s) - 1
      /\ \A i \in 1 .. Len(t) : t[i] = s[i + 1]
      /\ Head(s) = s[1]
  OBVIOUS
<1> HIDE DEF t
<1>2. \A i \in 1 .. Len(t) : i + 1 \in 1 .. Len(s)  BY <1>1
<1>3. AtMostOne(t, X)
  <2> SUFFICES ASSUME NEW i \in 1 .. Len(t), NEW j \in 1 .. Len(t),
                      t[i] \in X, t[j] \in X
               PROVE  i = j
    BY DEF AtMostOne
  <2>1. s[i + 1] \in X /\ s[j + 1] \in X  BY <1>1
  <2>2. i + 1 = j + 1  BY <2>1, <1>2 DEF AtMostOne
  <2> QED BY <2>2
<1>4. ASSUME Head(s) \in X, Has(t, X) PROVE FALSE
  <2> PICK i \in 1 .. Len(t) : t[i] \in X  BY <1>4 DEF Has
  <2>1. s[i + 1] \in X /\ s[1] \in X  BY <1>1, <1>4
  <2>2. 1 \in 1 .. Len(s)  BY <1>1
  <2>3. i + 1 = 1  BY <2>1, <2>2, <1>2 DEF AtMostOne
  <2> QED BY <2>3
<1> QED BY <1>3, <1>4 DEF t

LEMMA HasEmpty == ASSUME NEW X PROVE ~Has(<<>>, X) /\ AtMostOne(<<>>, X)
BY DEF Has, AtMostOne

LEMMA Singleton ==
    ASSUME NEW T, NEW s \in Seq(T), s # <<>>, Len(s) <= 1
    PROVE  Head(s) \in T /\ Tail(s) = <<>>
<1>1. Len(s) # 0 /\ Len(s) \in Nat  OBVIOUS
<1>2. Len(s) = 1  BY <1>1
<1>3. Head(s) \in T /\ Tail(s) \in Seq(T)  OBVIOUS
<1>4. Len(Tail(s)) = 0  BY <1>2
<1> QED BY <1>3, <1>4

LEMMA HasImm ==
    ASSUME NEW s PROVE Has(s, Imm) <=> Has(s, {"data"}) \/ Has(s, {"eof"})
BY DEF Has, Imm

-----------------------------------------------------------------------------
USE DEF clientVars, wireVars, ctxVars, fileVars, serverVars, runVars

\* What the invariant says of a connection is about these values only; a
\* step that leaves them and the files alone leaves it true.
Here(c) == <<client[c], cMsg[c], cBuf[c], cPos[c], cCq[c], cHand[c], cSq[c],
             sSq[c], conn[c], sMsg[c], sBuf[c], hasName[c], fd[c], sCq[c],
             sHand[c]>>

LEMMA Frame ==
    ASSUME NEW c \in Clients, Local(c), Here(c)' = Here(c),
           hasName[c] => /\ File(c)' = File(c)
                         /\ conn[c] = "up" => fdTab'[fd[c]] = fdTab[fd[c]]
    PROVE  Local(c)'
<1> USE DEF Here
<1>1. OneTurn(c)'
  BY DEF Local, OneTurn, Writing, Written, Saving, Replying, Replied, Reading
<1>2. Progress(c)'
  BY DEF Local, Progress, Writing, Replying, Replied, Reading, Carries, Tells,
         Complete, Saved
<1>3. Fresh(c)'
  BY DEF Local, Fresh, Writing, Written, Saving, Replying, Replied, Reading
<1>4. OwnFile(c)'
  BY DEF Local, OwnFile
<1> QED BY <1>1, <1>2, <1>3, <1>4 DEF Local

\* A step of connection c: what is to be shown is the type invariant, the
\* other connections' values, files and descriptors, and c's own clauses.
LEMMA FileStepOf ==
    ASSUME IInv, NEW c \in Clients, TypeOK', OneOwner', Local(c)',
           \A d \in Clients : d # c =>
               /\ Here(d)' = Here(d)
               /\ hasName[d] => /\ File(d)' = File(d)
                                /\ conn[d] = "up" => fdTab'[fd[d]] = fdTab[fd[d]]
    PROVE  IInv'
<1>1. \A d \in Clients : Local(d)'
  <2> SUFFICES ASSUME NEW d \in Clients, d # c PROVE Local(d)'
    OBVIOUS
  <2> QED BY Frame DEF IInv
<1> QED BY <1>1 DEF IInv

\* The same for a step that leaves the files alone.
LEMMA StepOf ==
    ASSUME IInv, NEW c \in Clients, TypeOK',
           \A d \in Clients : d # c => Here(d)' = Here(d),
           UNCHANGED <<disk, fdTab, hasName>>,
           Local(c)'
    PROVE  IInv'
<1>1. OneOwner'  BY DEF IInv, OneOwner
<1>2. \A d \in Clients : File(d)' = File(d)  BY DEF File
<1> QED BY <1>1, <1>2, FileStepOf

-----------------------------------------------------------------------------
\* The client's event loop: only client and conn change.

LEMMA EventLoopStep ==
    ASSUME IInv, NEW c \in Clients, ClientEventLoop(c) \/ ClientCrash(c)
    PROVE  IInv'
<1> USE DEF IInv, Connecting, Ended
<1>1. CASE ClientAddrResolved(c)
  <2>1. TypeOK'  BY SMTT(30), <1>1 DEF ClientAddrResolved, TypeOK
  <2>2. client'[c] = "routing" /\ client[c] = "resolving" /\ conn' = conn
    BY <1>1 DEF ClientAddrResolved, TypeOK
  <2>3. Local(c)'
    BY <1>1, <2>2 DEF ClientAddrResolved, Local, OneTurn, Progress, Fresh, OwnFile,
       Writing, Written, Saving, Replying, Replied, Reading, Carries, Tells,
       Complete, Saved, File
  <2>4. \A d \in Clients : d # c => Here(d)' = Here(d)
    BY <1>1 DEF ClientAddrResolved, TypeOK, Here
  <2> QED BY <1>1, <2>1, <2>3, <2>4, StepOf DEF ClientAddrResolved
<1>2. CASE ClientRouteResolved(c)
  <2>1. TypeOK'  BY <1>2 DEF ClientRouteResolved, TypeOK
  <2>2. /\ client'[c] = "connecting" /\ client[c] = "routing"
        /\ conn'[c] = "requested" /\ conn[c] = "none"
    BY <1>2 DEF ClientRouteResolved, TypeOK, Local, Fresh
  <2>3. Local(c)'
    BY <1>2, <2>2 DEF ClientRouteResolved, Local, OneTurn, Progress, Fresh, OwnFile,
       Writing, Written, Saving, Replying, Replied, Reading, Carries, Tells,
       Complete, Saved, File
  <2>4. \A d \in Clients : d # c => Here(d)' = Here(d)
    BY <1>2 DEF ClientRouteResolved, TypeOK, Here
  <2> QED BY <1>2, <2>1, <2>3, <2>4, StepOf DEF ClientRouteResolved
<1>3. CASE ClientEstablished(c)
  <2>1. TypeOK'  BY <1>3 DEF ClientEstablished, TypeOK
  <2>2. /\ client'[c] = "up"
        /\ conn'[c] = "confirmed" /\ conn[c] = "accepted"
    BY <1>3 DEF ClientEstablished, TypeOK
  <2>3. Local(c)'
    BY <1>3, <2>2 DEF ClientEstablished, Local, OneTurn, Progress, Fresh, OwnFile,
       Writing, Written, Saving, Replying, Replied, Reading, Carries, Tells,
       Complete, Saved, File
  <2>4. \A d \in Clients : d # c => Here(d)' = Here(d)
    BY <1>3 DEF ClientEstablished, TypeOK, Here
  <2> QED BY <1>3, <2>1, <2>3, <2>4, StepOf DEF ClientEstablished
<1>4. CASE ClientUnknownEvent(c) \/ ClientDisconnected(c) \/ ClientCrash(c)
  <2>1. TypeOK'
    BY <1>4 DEF ClientUnknownEvent, ClientDisconnected, ClientCrash, TypeOK
  <2>2. client'[c] \in Ended /\ UNCHANGED <<conn, cRecv, cMsg, cBuf, cPos, cCq, cHand,
                                            wireVars, serverVars>>
    BY <1>4 DEF ClientUnknownEvent, ClientDisconnected, ClientCrash, TypeOK
  <2>3. Local(c)'
    BY <2>2 DEF Local, OneTurn, Progress, Fresh, OwnFile,
       Writing, Written, Saving, Replying, Replied, Reading, Carries, Tells,
       Complete, Saved, File
  <2>4. \A d \in Clients : d # c => Here(d)' = Here(d)
    BY <1>4 DEF ClientUnknownEvent, ClientDisconnected, ClientCrash, TypeOK, Here
  <2> QED BY <2>1, <2>2, <2>3, <2>4, StepOf
<1> QED BY <1>1, <1>2, <1>3, <1>4 DEF ClientEventLoop

-----------------------------------------------------------------------------
\* The client's poller: the turn passes from Replied to Reading to Writing.

LEMMA ClientPollStep ==
    ASSUME IInv, NEW c \in Clients, ClientPoll(c) PROVE IInv'
<1> USE DEF IInv
<1>1. /\ cCq[c] \in Seq(ClientWc) /\ cCq[c] # <<>>
      /\ Head(cCq[c]) \in ClientWc /\ Tail(cCq[c]) \in Seq(ClientWc)
      /\ cHand[c] = "none"
  BY DEF ClientPoll, TypeOK
<1>2. TypeOK'
  BY <1>1 DEF ClientPoll, TypeOK, ClientWc, Ended
<1>3. /\ cCq'[c] = Tail(cCq[c])
      /\ client[c] \in {"up", "closing"}
      /\ \/ Head(cCq[c]) = "error" /\ client'[c] = "failed" /\ cHand'[c] = "none"
         \/ client'[c] = client[c] /\ cHand'[c] = Head(cCq[c])
      /\ UNCHANGED <<cRecv, cMsg, cBuf, cPos, wireVars, serverVars>>
  BY <1>1 DEF ClientPoll, TypeOK, Alive
<1>4. /\ AtMostOne(cCq[c], {"recv"})
      /\ AtMostOne(cCq'[c], {"recv"})
      /\ Head(cCq[c]) = "recv" => ~Has(cCq'[c], {"recv"})
      /\ Has(cCq[c], {"recv"}) <=> Head(cCq[c]) = "recv" \/ Has(cCq'[c], {"recv"})
  <2>1. AtMostOne(cCq[c], {"recv"})  BY DEF Local, OneTurn
  <2> QED BY <1>1, <1>3, <2>1, HasTail, AtMostOneTail
<1>5. OneTurn(c)'
  BY <1>3, <1>4 DEF Local, OneTurn, Writing, Written, Saving, Replying, Replied,
                    Reading
<1>6. Progress(c)'
  BY <1>1, <1>3, <1>4 DEF Local, Progress, Writing, Replying, Replied, Reading, Carries,
                    Tells, Complete, Saved, File
<1>7. Fresh(c)' /\ OwnFile(c)'
  BY <1>1, <1>3, <1>4 DEF Local, Fresh, Writing, Written, Saving, Replying, Replied,
                    Reading, OwnFile, File
<1>8. \A d \in Clients : d # c => Here(d)' = Here(d)
  BY DEF ClientPoll, TypeOK, Here
<1> QED BY <1>2, <1>3, <1>5, <1>6, <1>7, <1>8, StepOf DEF Local

LEMMA ClientIdleStep ==
    ASSUME IInv, NEW c \in Clients, ClientSendDone(c) \/ ClientRearm(c)
    PROVE  IInv'
<1> USE DEF IInv
<1>1. TypeOK'
  <2>1. CASE ClientSendDone(c)
    <3>1. cHand' \in [Clients -> {"none", "send", "recv", "rearm"}]
      BY <2>1 DEF ClientSendDone, TypeOK
    <3> QED BY <2>1, <3>1 DEF ClientSendDone, TypeOK
  <2>2. CASE ClientRearm(c)
    <3>1. /\ cHand' \in [Clients -> {"none", "send", "recv", "rearm"}]
          /\ cRecv' \in [Clients -> Nat]
      BY <2>2 DEF ClientRearm, TypeOK
    <3> QED BY <2>2, <3>1 DEF ClientRearm, TypeOK
  <2> QED BY <2>1, <2>2
<1>2. /\ cHand[c] # "recv" /\ cHand'[c] = "none"
      /\ UNCHANGED <<client, cMsg, cBuf, cPos, cCq, wireVars, serverVars>>
  BY DEF ClientSendDone, ClientRearm, TypeOK
<1>3. Local(c)'
  BY <1>2 DEF Local, OneTurn, Progress, Fresh, OwnFile, Writing, Written, Saving,
       Replying, Replied, Reading, Carries, Tells, Complete, Saved, File
<1>4. \A d \in Clients : d # c => Here(d)' = Here(d)
  BY DEF ClientSendDone, ClientRearm, TypeOK, Here
<1> QED BY <1>1, <1>2, <1>3, <1>4, StepOf

LEMMA ClientHandleMessageStep ==
    ASSUME IInv, NEW c \in Clients, ClientHandleMessage(c) PROVE IInv'
<1> USE DEF IInv
<1>1. /\ FileName[c] \in Names /\ FileLen[c] \in Nat
      /\ cPos[c] \in Nat /\ cSq[c] \in Seq(Imm)
  BY ConstantsAssumption DEF TypeOK
<1>2. /\ Reading(c) /\ OneTurn(c) /\ Progress(c) /\ Fresh(c) /\ OwnFile(c)
      /\ Tells(c, cMsg[c])
  BY DEF ClientHandleMessage, Local, Reading, Progress
<1>3. ~Writing(c) /\ ~Written(c) /\ ~Saving(c) /\ ~Replying(c) /\ ~Replied(c)
  BY <1>2 DEF OneTurn
<1>4. cSq[c] = <<>>
  BY <1>3 DEF Writing
<1>5. \E x \in Imm, b \in Buffer, k \in Nat :
          /\ cSq' = [cSq EXCEPT ![c] = <<x>>]
          /\ cBuf' = [cBuf EXCEPT ![c] = b]
          /\ cPos' = [cPos EXCEPT ![c] = k]
          /\ x = "data" /\ cMsg[c] = "MR" => b = FileName[c] /\ k = 0
          /\ x = "data" /\ cMsg[c] = "READY" =>
                /\ k = cPos[c] + 1 /\ k <= FileLen[c] /\ b = <<c, k>>
          /\ x = "eof" => /\ cMsg[c] = "READY" /\ k = cPos[c]
                          /\ ~(cPos[c] < FileLen[c])
          /\ cMsg[c] \in {"MR", "READY"}
  <2>1. CASE cMsg[c] = "MR" /\ SendFileName(c)
    <3>1. cPos[c] = 0  BY <1>2, <2>1 DEF Tells
    <3>2. FileName[c] \in Buffer  BY <1>1 DEF Buffer
    <3>3. cPos' = [cPos EXCEPT ![c] = 0]  BY <2>1, <3>1 DEF SendFileName, TypeOK
    <3>4. Append(cSq[c], "data") = <<"data">>  BY <1>4
    <3>5. cSq' = [cSq EXCEPT ![c] = <<"data">>]  BY <2>1, <3>4 DEF SendFileName
    <3>6. cBuf' = [cBuf EXCEPT ![c] = FileName[c]]  BY <2>1 DEF SendFileName
    <3>7. "data" \in Imm /\ 0 \in Nat  BY DEF Imm
    <3> QED BY <2>1, <3>2, <3>3, <3>5, <3>6, <3>7
  <2>2. CASE cMsg[c] = "READY" /\ SendNextChunk(c)
    <3>1. CASE cPos[c] < FileLen[c]
      <4>1. <<c, cPos[c] + 1>> \in Buffer /\ cPos[c] + 1 \in Nat
        BY <1>1 DEF Buffer, Chunk
      <4>2. Append(cSq[c], "data") = <<"data">>  BY <1>4
      <4>3. cSq' = [cSq EXCEPT ![c] = <<"data">>]
        BY <2>2, <3>1, <4>2 DEF SendNextChunk
      <4>4. /\ cBuf' = [cBuf EXCEPT ![c] = <<c, cPos[c] + 1>>]
            /\ cPos' = [cPos EXCEPT ![c] = cPos[c] + 1]
        BY <2>2, <3>1 DEF SendNextChunk
      <4>5. cPos[c] + 1 <= FileLen[c]  BY <1>1, <3>1
      <4>6. "data" \in Imm  BY DEF Imm
      <4> QED BY <2>2, <4>1, <4>3, <4>4, <4>5, <4>6
    <3>2. CASE ~(cPos[c] < FileLen[c])
      <4>1. Append(cSq[c], "eof") = <<"eof">>  BY <1>4
      <4>2. cSq' = [cSq EXCEPT ![c] = <<"eof">>]
        BY <2>2, <3>2, <4>1 DEF SendNextChunk
      <4>3. /\ cBuf' = [cBuf EXCEPT ![c] = cBuf[c]]
            /\ cPos' = [cPos EXCEPT ![c] = cPos[c]]
            /\ cBuf[c] \in Buffer
        BY <2>2, <3>2 DEF SendNextChunk, TypeOK
      <4>4. "eof" \in Imm  BY DEF Imm
      <4> QED BY <1>1, <2>2, <3>2, <4>2, <4>3, <4>4
    <3> QED BY <3>1, <3>2
  <2> QED BY <2>1, <2>2 DEF ClientHandleMessage
<1>6. PICK x \in Imm, b \in Buffer, k \in Nat :
          /\ cSq' = [cSq EXCEPT ![c] = <<x>>]
          /\ cBuf' = [cBuf EXCEPT ![c] = b]
          /\ cPos' = [cPos EXCEPT ![c] = k]
          /\ x = "data" /\ cMsg[c] = "MR" => b = FileName[c] /\ k = 0
          /\ x = "data" /\ cMsg[c] = "READY" =>
                /\ k = cPos[c] + 1 /\ k <= FileLen[c] /\ b = <<c, k>>
          /\ x = "eof" => /\ cMsg[c] = "READY" /\ k = cPos[c]
                          /\ ~(cPos[c] < FileLen[c])
          /\ cMsg[c] \in {"MR", "READY"}
  BY <1>5
<1>7. /\ cSq'[c] = <<x>> /\ cBuf'[c] = b /\ cPos'[c] = k
      /\ cHand' = [cHand EXCEPT ![c] = "rearm"] /\ cHand'[c] = "rearm"
      /\ UNCHANGED <<client, cRecv, cMsg, cCq, cUnacked, sSq, sUnacked, serverVars>>
  BY <1>6 DEF ClientHandleMessage, TypeOK
<1>8. TypeOK'
  <2>1. <<x>> \in Seq(Imm)  OBVIOUS
  <2>2. /\ cSq' \in [Clients -> Seq(Imm)] /\ cBuf' \in [Clients -> Buffer]
        /\ cPos' \in [Clients -> Nat]
    BY <1>6, <2>1 DEF TypeOK
  <2> QED BY <1>7, <2>2 DEF TypeOK
<1>9. /\ cSq'[c] # <<>> /\ Len(cSq'[c]) = 1 /\ Head(cSq'[c]) = x
  BY <1>7
<1>10. OneTurn(c)'
  BY <1>2, <1>3, <1>7, <1>9 DEF OneTurn, Writing, Written, Saving, Replying, Replied,
                            Reading
<1>11. Progress(c)'
  <2>1. \/ cMsg[c] = "MR" /\ ~hasName[c] /\ cPos[c] = 0
        \/ cMsg[c] = "READY" /\ hasName[c] /\ cPos[c] = Len(File(c))
    BY <1>2, <1>6 DEF Tells, Saved
  <2>2. hasName[c] => Len(File(c)) \in Nat /\ Len(File(c)) <= FileLen[c]
    BY <1>2 DEF OwnFile
  <2>3. File(c)' = File(c)  BY <1>7 DEF File
  <2>4. x = "data" => Carries(c, cBuf[c])'
    BY <1>6, <1>7, <2>1, <2>3 DEF Carries
  <2>5. x = "eof" => Complete(c)'
    BY <1>1, <1>6, <1>7, <2>1, <2>2, <2>3 DEF Complete, Saved
  <2>6. ~Has(sCq[c], {"data"}) /\ ~Has(sCq[c], {"eof"})
    BY <1>3, HasImm DEF Written
  <2>7. client[c] = "closing" => Complete(c)'
    <3>1. client[c] = "closing" => Complete(c)  BY <1>2 DEF Progress
    <3>2. SUFFICES ASSUME client[c] = "closing" PROVE Complete(c)'
      OBVIOUS
    <3>3. cPos[c] = FileLen[c] /\ hasName[c]  BY <3>1, <3>2 DEF Complete, Saved
    <3>4. x = "eof"  BY <1>1, <1>6, <2>1, <3>3 DEF Imm
    <3> QED BY <2>5, <3>4
  <2> QED
    BY <1>3, <1>7, <1>9, <2>4, <2>5, <2>6, <2>7
    DEF Progress, Writing, Saving, Replying, Replied, Reading
<1>12. Fresh(c)' /\ OwnFile(c)'
  BY <1>2, <1>7 DEF Fresh, OwnFile, File, Reading
<1>13. \A d \in Clients : d # c => Here(d)' = Here(d)
  BY <1>6, <1>7 DEF TypeOK, Here
<1> QED BY <1>7, <1>8, <1>10, <1>11, <1>12, <1>13, StepOf DEF Local

LEMMA ClientDoneStep ==
    ASSUME IInv, NEW c \in Clients, ClientDone(c) PROVE IInv'
<1> USE DEF IInv
<1>1. /\ Reading(c) /\ OneTurn(c) /\ Progress(c) /\ Fresh(c) /\ OwnFile(c)
      /\ Tells(c, "DONE")
  BY DEF ClientDone, Local, Reading, Progress
<1>2. Complete(c)
  BY <1>1 DEF Tells
<1>3. PICK q \in Seq(ClientWc) :
          /\ cCq' = [cCq EXCEPT ![c] = q]
          /\ q = cCq[c] \/ q = Append(cCq[c], "error")
  <2>1. cCq[c] \in Seq(ClientWc) /\ Append(cCq[c], "error") \in Seq(ClientWc)
    BY DEF TypeOK, ClientWc
  <2>2. \/ cCq' = [cCq EXCEPT ![c] = Append(cCq[c], "error")]
        \/ cCq' = [cCq EXCEPT ![c] = cCq[c]]
    BY DEF ClientDone
  <2> QED BY <2>1, <2>2
<1>4. TypeOK'
  <2>1. /\ client' \in [Clients -> Connecting \cup {"up", "closing"} \cup Ended]
        /\ cHand' \in [Clients -> {"none", "send", "recv", "rearm"}]
        /\ cCq' \in [Clients -> Seq(ClientWc)]
        /\ cSq' \in [Clients -> Seq(Imm)]
        /\ cUnacked' \in [Clients -> Nat] /\ cRecv' \in [Clients -> Nat]
    BY <1>3 DEF ClientDone, TypeOK
  <2> QED BY <2>1 DEF ClientDone, TypeOK
<1>5. /\ cCq'[c] = q /\ cSq'[c] = <<>> /\ cHand'[c] = "none"
      /\ client'[c] = "closing"
      /\ UNCHANGED <<cMsg, cBuf, cPos, sSq, serverVars>>
  BY <1>3 DEF ClientDone, TypeOK
<1>6. AtMostOne(q, {"recv"}) /\ ~Has(q, {"recv"})
  <2>1. cCq[c] \in Seq(ClientWc) /\ "error" \in ClientWc /\ "error" \notin {"recv"}
    BY DEF TypeOK, ClientWc
  <2>2. AtMostOne(cCq[c], {"recv"}) /\ ~Has(cCq[c], {"recv"})
    BY <1>1 DEF OneTurn, Replied
  <2>3. CASE q = cCq[c]  BY <2>2, <2>3
  <2>4. CASE q = Append(cCq[c], "error")
    <3>1. AtMostOne(Append(cCq[c], "error"), {"recv"})
      BY <2>1, <2>2, AtMostOneAppend
    <3>2. ~Has(Append(cCq[c], "error"), {"recv"})
      BY <2>1, <2>2, HasAppend
    <3> QED BY <2>4, <3>1, <3>2
  <2> QED BY <1>3, <2>3, <2>4
<1>7. OneTurn(c)'
  BY <1>1, <1>5, <1>6 DEF OneTurn, Writing, Written, Saving, Replying, Replied, Reading
<1>8. Progress(c)'
  <2>1. Complete(c)'  BY <1>2, <1>5 DEF Complete, Saved, File
  <2> QED
    BY <1>1, <1>5, <1>6, <2>1 DEF Progress, OneTurn, Writing, Written, Saving,
       Replying, Replied, Reading, Complete, Saved, File, Carries, Tells
<1>9. Fresh(c)' /\ OwnFile(c)'
  BY <1>1, <1>5 DEF Fresh, OwnFile, File
<1>10. \A d \in Clients : d # c => Here(d)' = Here(d)
  BY <1>3 DEF ClientDone, TypeOK, Here
<1> QED BY <1>4, <1>5, <1>7, <1>8, <1>9, <1>10, StepOf DEF Local

-----------------------------------------------------------------------------
\* The reliable connection.

LEMMA DeliverWriteStep ==
    ASSUME IInv, NEW c \in Clients, DeliverWrite(c) PROVE IInv'
<1> USE DEF IInv
<1>1. /\ OneTurn(c) /\ Progress(c) /\ Fresh(c) /\ OwnFile(c) /\ Writing(c)
      /\ ~Written(c) /\ ~Saving(c) /\ ~Replying(c) /\ ~Replied(c) /\ ~Reading(c)
  BY DEF DeliverWrite, Local, Writing, OneTurn
<1> DEFINE x == Head(cSq[c])
<1>2. /\ cSq[c] \in Seq(Imm) /\ cSq[c] # <<>> /\ Len(cSq[c]) <= 1
      /\ x \in Imm /\ Tail(cSq[c]) = <<>>
  <2>1. cSq[c] \in Seq(Imm) /\ cSq[c] # <<>> /\ Len(cSq[c]) <= 1
    BY <1>1 DEF TypeOK, OneTurn, Writing
  <2> QED BY <2>1, Singleton
<1>3. sCq[c] \in Seq(ServerWc) /\ x \in ServerWc
  BY <1>2 DEF TypeOK, ServerWc
<1> DEFINE q == Append(sCq[c], x)
<1>4. /\ AtMostOne(q, Imm) /\ q \in Seq(ServerWc)
      /\ Has(q, {"data"}) <=> x = "data"
      /\ Has(q, {"eof"}) <=> x = "eof"
  <2>1. /\ ~Has(sCq[c], Imm) /\ ~Has(sCq[c], {"data"}) /\ ~Has(sCq[c], {"eof"})
        /\ AtMostOne(sCq[c], Imm)
    BY <1>1, HasImm DEF Written, OneTurn
  <2> QED BY <1>3, <2>1, HasAppend, AtMostOneAppend
<1>5. /\ cSq' = [cSq EXCEPT ![c] = <<>>] /\ cSq'[c] = <<>>
      /\ sCq' = [sCq EXCEPT ![c] = q] /\ sCq'[c] = q
      /\ sBuf' = [sBuf EXCEPT ![c] = IF x = "data" THEN cBuf[c] ELSE @]
      /\ x = "data" => sBuf'[c] = cBuf[c]
      /\ UNCHANGED <<clientVars, sSq, sUnacked, server, conn, sMsg, hasName, fd,
                     sHand, fileVars>>
  BY <1>2 DEF DeliverWrite, TypeOK
<1>6. TypeOK'
  <2>1. sRecv' = [sRecv EXCEPT ![c] = @ - 1] /\ sRecv[c] > 0 /\ sRecv[c] \in Nat
    BY DEF DeliverWrite, TypeOK
  <2>2. sRecv' \in [Clients -> Nat]
    BY <2>1 DEF TypeOK
  <2>3. cUnacked' \in [Clients -> Nat]
    BY SMTT(30) DEF DeliverWrite, TypeOK
  <2>4. /\ cSq' \in [Clients -> Seq(Imm)] /\ sCq' \in [Clients -> Seq(ServerWc)]
        /\ sBuf' \in [Clients -> Buffer]
    BY <1>4, <1>5 DEF TypeOK
  <2> QED BY <1>5, <2>2, <2>3, <2>4 DEF TypeOK
<1> HIDE DEF q, x
<1>7. x \in {"data", "eof"}  BY <1>2 DEF Imm
<1>8. OneTurn(c)'
  BY <1>1, <1>4, <1>5 DEF OneTurn, Writing, Written, Saving, Replying, Replied, Reading
<1>9. Progress(c)'
  <2>1. /\ x = "data" => Carries(c, cBuf[c])
        /\ x = "eof" => Complete(c)
    BY <1>1 DEF Progress, x
  <2>2. /\ x = "data" => Carries(c, sBuf[c])'
        /\ x = "eof" => Complete(c)'
    BY <1>5, <2>1 DEF Carries, Complete, Saved, File
  <2>3. ~(sHand[c] \in {"data", "eof", "reply"})  BY <1>1 DEF Saving
  <2> QED
    BY <1>1, <1>4, <1>5, <2>2, <2>3 DEF Progress, Writing, Replying, Replied, Reading,
       Complete, Saved, File
<1>10. Fresh(c)' /\ OwnFile(c)'
  BY <1>1, <1>5 DEF Fresh, OwnFile, File
<1>11. \A d \in Clients : d # c => Here(d)' = Here(d)
  BY <1>5 DEF TypeOK, Here
<1> QED BY <1>5, <1>6, <1>8, <1>9, <1>10, <1>11, StepOf DEF Local

\* A completion that passes the turn to nobody is added to a queue, and the
\* request it stands for may leave the other one.
LEMMA ClientCompletion ==
    ASSUME IInv, NEW c \in Clients, NEW x \in {"send", "error"},
           NEW r \in Seq(Imm), r = cSq[c] \/ r = <<>>,
           cCq' = [cCq EXCEPT ![c] = Append(@, x)],
           cSq' = [cSq EXCEPT ![c] = r],
           cUnacked' \in [Clients -> Nat],
           UNCHANGED <<client, cRecv, cMsg, cBuf, cPos, cHand, sSq, sUnacked,
                       serverVars>>
    PROVE  IInv'
<1> DEFINE q == Append(cCq[c], x)
<1>1. TypeOK /\ OneTurn(c) /\ Progress(c) /\ Fresh(c) /\ OwnFile(c)
  BY DEF IInv, Local
<1>2. cCq[c] \in Seq(ClientWc) /\ x \in ClientWc /\ x \notin {"recv"}
  BY <1>1 DEF TypeOK, ClientWc
<1>3. /\ q \in Seq(ClientWc)
      /\ AtMostOne(q, {"recv"}) /\ (Has(q, {"recv"}) <=> Has(cCq[c], {"recv"}))
  BY <1>1, <1>2, HasAppend, AtMostOneAppend DEF OneTurn
<1>4. cCq'[c] = q /\ cSq'[c] = r /\ cCq' = [cCq EXCEPT ![c] = q]
  BY <1>1 DEF TypeOK
<1> HIDE DEF q
<1>5. TypeOK'
  <2>1. cCq' \in [Clients -> Seq(ClientWc)]  BY <1>1, <1>3, <1>4 DEF TypeOK
  <2>2. cSq' \in [Clients -> Seq(Imm)]  BY <1>1 DEF TypeOK
  <2> QED BY <1>1, <2>1, <2>2 DEF TypeOK
<1>6. /\ Writing(c)' => Writing(c) /\ cSq'[c] = cSq[c]
      /\ Replied(c)' <=> Replied(c)
      /\ UNCHANGED <<Written(c), Saving(c), Replying(c), Reading(c)>>
  BY <1>3, <1>4 DEF Writing, Written, Saving, Replying, Replied, Reading
<1>7. OneTurn(c)'
  <2>1. Len(cSq'[c]) <= 1  BY <1>1, <1>4 DEF OneTurn
  <2> QED BY <1>1, <1>3, <1>4, <1>6, <2>1 DEF OneTurn
<1>8. Progress(c)'
  BY <1>1, <1>6 DEF Progress, Carries, Tells, Complete, Saved, File
<1>9. Fresh(c)' /\ OwnFile(c)'
  BY <1>1, <1>6 DEF Fresh, OwnFile, File
<1>10. \A d \in Clients : d # c => Here(d)' = Here(d)
  BY <1>1 DEF TypeOK, Here
<1> QED BY <1>5, <1>7, <1>8, <1>9, <1>10, StepOf DEF Local

LEMMA ServerCompletion ==
    ASSUME IInv, NEW c \in Clients, NEW x \in {"send", "error"},
           NEW r \in Nat, r = sSq[c] \/ r = 0,
           sCq' = [sCq EXCEPT ![c] = Append(@, x)],
           sSq' = [sSq EXCEPT ![c] = r],
           sUnacked' \in [Clients -> Nat],
           UNCHANGED <<clientVars, cSq, cUnacked, server, conn, ctxVars, sHand,
                       fileVars>>
    PROVE  IInv'
<1> DEFINE q == Append(sCq[c], x)
<1>1. TypeOK /\ OneTurn(c) /\ Progress(c) /\ Fresh(c) /\ OwnFile(c)
  BY DEF IInv, Local
<1>2. sCq[c] \in Seq(ServerWc) /\ x \in ServerWc /\ x \notin Imm
  BY <1>1 DEF TypeOK, ServerWc, Imm
<1>3. /\ q \in Seq(ServerWc)
      /\ AtMostOne(q, Imm) /\ (Has(q, Imm) <=> Has(sCq[c], Imm))
      /\ Has(q, {"data"}) <=> Has(sCq[c], {"data"})
      /\ Has(q, {"eof"}) <=> Has(sCq[c], {"eof"})
  BY <1>1, <1>2, HasAppend, AtMostOneAppend DEF OneTurn
<1>4. sCq'[c] = q /\ sSq'[c] = r /\ sCq' = [sCq EXCEPT ![c] = q]
  BY <1>1 DEF TypeOK
<1> HIDE DEF q
<1>5. TypeOK'
  <2>1. sCq' \in [Clients -> Seq(ServerWc)]  BY <1>1, <1>3, <1>4 DEF TypeOK
  <2>2. sSq' \in [Clients -> Nat]  BY <1>1 DEF TypeOK
  <2> QED BY <1>1, <2>1, <2>2 DEF TypeOK
<1>6. /\ Replying(c)' => Replying(c)
      /\ Written(c)' <=> Written(c)
      /\ UNCHANGED <<Writing(c), Saving(c), Replied(c), Reading(c)>>
  <2>1. Replying(c)' => Replying(c)  BY <1>4 DEF Replying
  <2>2. Written(c)' <=> Written(c)  BY <1>3, <1>4 DEF Written
  <2>3. UNCHANGED <<Writing(c), Saving(c), Replied(c), Reading(c)>>
    BY DEF Writing, Saving, Replied, Reading
  <2> QED BY <2>1, <2>2, <2>3
<1>7. OneTurn(c)'
  <2>1. sSq'[c] <= 1  BY <1>1, <1>4 DEF OneTurn
  <2> QED BY <1>1, <1>3, <1>4, <1>6, <2>1 DEF OneTurn
<1>8. Progress(c)'
  <2>1. UNCHANGED <<Carries(c, cBuf[c]), Carries(c, sBuf[c]), Tells(c, sMsg[c]),
                    Tells(c, cMsg[c]), Complete(c), Saved(c)>>
    BY DEF Carries, Tells, Complete, Saved, File
  <2> QED BY <1>1, <1>3, <1>4, <1>6, <2>1 DEF Progress
<1>9. Fresh(c)' /\ OwnFile(c)'
  BY <1>1, <1>6 DEF Fresh, OwnFile, File
<1>10. \A d \in Clients : d # c => Here(d)' = Here(d)
  BY <1>1 DEF TypeOK, Here
<1> QED BY <1>5, <1>7, <1>8, <1>9, <1>10, StepOf DEF Local

LEMMA DeliverSendStep ==
    ASSUME IInv, NEW c \in Clients, DeliverSend(c) PROVE IInv'
<1> USE DEF IInv
<1> DEFINE q == Append(cCq[c], "recv")
<1>1. /\ OneTurn(c) /\ Progress(c) /\ Fresh(c) /\ OwnFile(c) /\ Replying(c)
      /\ ~Writing(c) /\ ~Written(c) /\ ~Saving(c) /\ ~Replied(c) /\ ~Reading(c)
      /\ Tells(c, sMsg[c])
  BY DEF DeliverSend, Local, Replying, OneTurn, Progress
<1>2. cCq[c] \in Seq(ClientWc) /\ "recv" \in ClientWc /\ ~Has(cCq[c], {"recv"})
  BY <1>1 DEF TypeOK, ClientWc, Replied
<1>3. /\ q \in Seq(ClientWc)
      /\ AtMostOne(q, {"recv"}) /\ Has(q, {"recv"})
  BY <1>1, <1>2, HasAppend, AtMostOneAppend DEF OneTurn
<1>4. /\ cCq'[c] = q /\ cMsg'[c] = sMsg[c]
      /\ cCq' = [cCq EXCEPT ![c] = q]
      /\ sSq[c] = 1 /\ sSq'[c] = 0 /\ sSq' = [sSq EXCEPT ![c] = 0]
      /\ UNCHANGED <<client, cBuf, cPos, cHand, cSq, cUnacked, serverVars>>
  <2>1. sSq[c] \in Nat /\ sSq[c] > 0 /\ sSq[c] <= 1
    BY <1>1 DEF TypeOK, OneTurn, Replying
  <2>2. sSq[c] = 1 /\ sSq[c] - 1 = 0
    BY <2>1
  <2>3. sSq' = [sSq EXCEPT ![c] = 0]
    BY <2>2 DEF DeliverSend
  <2> QED BY <2>2, <2>3 DEF DeliverSend, TypeOK
<1>5. TypeOK'
  <2>1. /\ cCq' \in [Clients -> Seq(ClientWc)] /\ sSq' \in [Clients -> Nat]
    BY <1>3, <1>4 DEF TypeOK
  <2>2. /\ sUnacked' \in [Clients -> Nat] /\ cMsg' \in [Clients -> MsgIds]
    BY DEF DeliverSend, TypeOK
  <2>3. cRecv' = [cRecv EXCEPT ![c] = @ - 1] /\ cRecv[c] > 0 /\ cRecv[c] \in Nat
    BY DEF DeliverSend, TypeOK
  <2>4. cRecv' \in [Clients -> Nat]
    BY <2>3 DEF TypeOK
  <2> QED BY <1>4, <2>1, <2>2, <2>4 DEF TypeOK
<1> HIDE DEF q
<1>6. OneTurn(c)'
  BY <1>1, <1>3, <1>4 DEF OneTurn, Writing, Written, Saving, Replying, Replied, Reading
<1>7. Progress(c)'
  <2>1. Tells(c, cMsg[c])'
    BY <1>1, <1>4 DEF Tells, Complete, Saved, File
  <2> QED
    BY <1>1, <1>3, <1>4, <2>1 DEF Progress, Writing, Written, Saving, Replying,
       Replied, Reading, Carries, Tells, Complete, Saved, File
<1>8. Fresh(c)' /\ OwnFile(c)'
  BY <1>1, <1>4 DEF Fresh, OwnFile, File
<1>9. \A d \in Clients : d # c => Here(d)' = Here(d)
  BY <1>4 DEF DeliverSend, TypeOK, Here
<1> QED BY <1>4, <1>5, <1>6, <1>7, <1>8, <1>9, StepOf DEF Local

LEMMA NicStep ==
    ASSUME IInv, NEW c \in Clients, Nic(c) PROVE IInv'
<1>1. CASE DeliverWrite(c)  BY <1>1, DeliverWriteStep
<1>2. CASE DeliverSend(c)  BY <1>2, DeliverSendStep
<1>3. CASE AckWrite(c)
  <2>1. /\ cUnacked' \in [Clients -> Nat]
        /\ cSq[c] \in Seq(Imm) /\ cSq' = [cSq EXCEPT ![c] = cSq[c]]
    <3>1. cUnacked[c] - 1 \in Nat /\ cUnacked \in [Clients -> Nat]
      BY <1>3 DEF AckWrite, IInv, TypeOK
    <3>2. cSq \in [Clients -> Seq(Imm)]  BY DEF IInv, TypeOK
    <3>3. cUnacked' \in [Clients -> Nat]  BY <1>3, <3>1 DEF AckWrite
    <3> QED BY <1>3, <3>2, <3>3 DEF AckWrite
  <2> QED BY <1>3, <2>1, ClientCompletion DEF AckWrite
<1>4. CASE WriteFails(c)
  <2>1. cUnacked' \in [Clients -> Nat] /\ <<>> \in Seq(Imm)
    BY <1>4 DEF WriteFails, IInv, TypeOK
  <2> QED BY <1>4, <2>1, ClientCompletion DEF WriteFails
<1>5. CASE AckSend(c)
  <2>1. /\ sUnacked' \in [Clients -> Nat]
        /\ sSq[c] \in Nat /\ sSq' = [sSq EXCEPT ![c] = sSq[c]]
    <3>1. /\ sUnacked[c] - 1 \in Nat /\ sUnacked \in [Clients -> Nat]
          /\ sSq \in [Clients -> Nat]
      BY <1>5 DEF AckSend, IInv, TypeOK
    <3> QED BY <1>5, <3>1 DEF AckSend
  <2> QED BY <1>5, <2>1, ServerCompletion DEF AckSend
<1>6. CASE SendFails(c)
  <2>1. sUnacked' \in [Clients -> Nat] /\ 0 \in Nat
    BY <1>6 DEF SendFails, IInv, TypeOK
  <2> QED BY <1>6, <2>1, ServerCompletion DEF SendFails
<1> QED BY <1>1, <1>2, <1>3, <1>4, <1>5, <1>6 DEF Nic

-----------------------------------------------------------------------------
\* The server's event loop.

LEMMA ConnectRequestStep ==
    ASSUME IInv, GarbageFds \cap Fds = {}, NEW c \in Clients, ConnectRequest(c)
    PROVE  IInv'
<1>1. TypeOK /\ OneTurn(c) /\ Progress(c) /\ Fresh(c) /\ OwnFile(c)
  BY DEF IInv, Local
<1>2. PICK g \in GarbageFds : fd' = [fd EXCEPT ![c] = g]
  BY DEF ConnectRequest
<1>3. g \in Nat /\ g \notin Fds
  BY ConstantsAssumption
<1>4. /\ conn[c] = "requested" /\ conn' = [conn EXCEPT ![c] = "accepted"]
      /\ conn'[c] = "accepted" /\ fd'[c] = g /\ ~hasName[c]
      /\ UNCHANGED <<clientVars, wireVars, server, sMsg, sBuf, sCq, sHand, fileVars>>
  BY <1>1, <1>2 DEF ConnectRequest, TypeOK, Fresh
<1>5. hasName' = hasName
  BY <1>1, <1>4 DEF ConnectRequest, TypeOK
<1>6. TypeOK'
  <2>1. /\ conn' \in [Clients -> {"none", "requested", "accepted", "confirmed",
                                  "up", "freed"}]
        /\ sRecv' \in [Clients -> Nat]
    BY <1>1, <1>4 DEF ConnectRequest, TypeOK
  <2>2. fd' \in [Clients -> Nat]  BY <1>1, <1>2, <1>3 DEF TypeOK
  <2> QED BY <1>1, <1>4, <1>5, <2>1, <2>2 DEF TypeOK
<1>7. OneTurn(c)'
  BY <1>1, <1>4 DEF OneTurn, Writing, Written, Saving, Replying, Replied, Reading
<1>8. Progress(c)'
  BY <1>1, <1>4, <1>5 DEF Progress, Writing, Replying, Replied, Reading, Carries,
     Tells, Complete, Saved, File
<1>9. Fresh(c)' /\ OwnFile(c)'
  BY <1>1, <1>3, <1>4, <1>5 DEF Fresh, OwnFile, Writing, Written, Saving, Replying,
     Replied, Reading
<1>10. \A d \in Clients : d # c => Here(d)' = Here(d)
  BY <1>1, <1>2, <1>4, <1>5 DEF TypeOK, Here
<1> QED BY <1>4, <1>5, <1>6, <1>7, <1>8, <1>9, <1>10, StepOf DEF Local

LEMMA EstablishedStep ==
    ASSUME IInv, NEW c \in Clients, Established(c) PROVE IInv'
<1>1. TypeOK /\ OneTurn(c) /\ Progress(c) /\ Fresh(c) /\ OwnFile(c)
  BY DEF IInv, Local
<1>2. /\ conn[c] = "confirmed" /\ ~hasName[c] /\ cPos[c] = 0
      /\ ~(Writing(c) \/ Written(c) \/ Saving(c) \/ Replying(c)
           \/ Replied(c) \/ Reading(c))
      /\ client[c] \notin {"resolving", "routing"}
  BY <1>1 DEF Established, Fresh
<1>3. sSq' = [sSq EXCEPT ![c] = 1]
  <2>1. sSq[c] = 0  BY <1>1, <1>2 DEF TypeOK, Replying
  <2>2. sSq[c] + 1 = 1  BY <2>1
  <2> QED BY <2>2 DEF Established
<1>4. /\ conn' = [conn EXCEPT ![c] = "up"] /\ conn'[c] = "up"
      /\ sMsg' = [sMsg EXCEPT ![c] = "MR"] /\ sMsg'[c] = "MR"
      /\ sSq'[c] = 1
      /\ UNCHANGED <<clientVars, cSq, cUnacked, sUnacked, server,
                     sRecv, sBuf, hasName, fd, sCq, sHand, fileVars>>
  BY <1>1, <1>3 DEF Established, TypeOK
<1>5. TypeOK'
  <2>1. /\ conn' \in [Clients -> {"none", "requested", "accepted", "confirmed",
                                  "up", "freed"}]
        /\ sMsg' \in [Clients -> MsgIds] /\ sSq' \in [Clients -> Nat]
    BY <1>1, <1>3, <1>4 DEF TypeOK, MsgIds
  <2> QED BY <1>1, <1>4, <2>1 DEF TypeOK
<1>6. OneTurn(c)'
  BY <1>1, <1>2, <1>4 DEF OneTurn, Writing, Written, Saving, Replying, Replied, Reading
<1>7. Progress(c)'
  <2>1. Tells(c, sMsg[c])'  BY <1>2, <1>4 DEF Tells
  <2>2. ~Has(sCq[c], {"data"}) /\ ~Has(sCq[c], {"eof"})
    BY <1>2, HasImm DEF Written
  <2>3. UNCHANGED <<Complete(c), Writing(c), Written(c), Saving(c), Replied(c),
                    Reading(c)>>
    BY <1>4 DEF Complete, Saved, File, Writing, Written, Saving, Replied, Reading
  <2> QED BY <1>1, <1>2, <1>4, <2>1, <2>2, <2>3 DEF Progress, Saving
<1>8. Fresh(c)' /\ OwnFile(c)'
  BY <1>1, <1>2, <1>4 DEF Fresh, OwnFile, File
<1>9. \A d \in Clients : d # c => Here(d)' = Here(d)
  BY <1>1, <1>3, <1>4 DEF TypeOK, Here
<1> QED BY <1>4, <1>5, <1>6, <1>7, <1>8, <1>9, StepOf DEF Local

\* Only the server's life changes.
LEMMA DieStep ==
    ASSUME IInv, server' = "dead",
           UNCHANGED <<clientVars, wireVars, conn, ctxVars, sCq, sHand, fileVars>>
    PROVE  IInv'
<1>1. TypeOK'  BY DEF IInv, TypeOK
<1>2. ASSUME NEW c \in Clients PROVE Local(c)'
  <2>1. Here(c)' = Here(c)  BY DEF Here
  <2>2. File(c)' = File(c)  BY DEF File
  <2> QED BY <2>1, <2>2, Frame DEF IInv
<1>3. OneOwner'  BY DEF IInv, OneOwner
<1> QED BY <1>1, <1>2, <1>3 DEF IInv

\* A connection's descriptor is its own: to close it disturbs no other.
LEMMA DisconnectedStep ==
    ASSUME IInv, NEW c \in Clients, Disconnected(c) PROVE IInv'
<1>1. TypeOK /\ OneTurn(c) /\ Progress(c) /\ Fresh(c) /\ OwnFile(c) /\ OneOwner
  BY DEF IInv, Local
<1>2. /\ conn[c] = "up"
      /\ conn' = [conn EXCEPT ![c] = "freed"] /\ conn'[c] = "freed"
      /\ sCq' = [sCq EXCEPT ![c] = <<>>] /\ sCq'[c] = <<>>
      /\ sSq' = [sSq EXCEPT ![c] = 0] /\ sSq'[c] = 0
      /\ sRecv' = [sRecv EXCEPT ![c] = 0]
      /\ sUnacked' = [sUnacked EXCEPT ![c] = 0]
      /\ fdTab' = [g \in Fds |-> IF g = fd[c] THEN Absent ELSE fdTab[g]]
      /\ UNCHANGED <<clientVars, cSq, cUnacked, server,
                     sMsg, sBuf, hasName, fd, sHand, disk>>
  BY <1>1 DEF Disconnected, Close, TypeOK
<1>3. TypeOK'
  <2>1. /\ conn' \in [Clients -> {"none", "requested", "accepted", "confirmed",
                                  "up", "freed"}]
        /\ sSq' \in [Clients -> Nat] /\ sRecv' \in [Clients -> Nat]
        /\ sUnacked' \in [Clients -> Nat]
    BY <1>1, <1>2 DEF TypeOK
  <2>2. sCq' \in [Clients -> Seq(ServerWc)]
    <3>1. <<>> \in Seq(ServerWc)  OBVIOUS
    <3> QED BY <1>1, <1>2, <3>1 DEF TypeOK
  <2>3. fdTab' \in [Fds -> Names \cup {Absent}]  BY <1>1, <1>2 DEF TypeOK
  <2> QED BY <1>1, <1>2, <2>1, <2>2, <2>3 DEF TypeOK
<1>4. OneTurn(c)'
  <2>1. AtMostOne(sCq'[c], Imm) /\ ~Has(sCq'[c], Imm)  BY <1>2, HasEmpty
  <2>2. ~Written(c)' /\ ~Replying(c)' /\ sSq'[c] <= 1
    BY <1>2, <2>1 DEF Written, Replying
  <2>3. UNCHANGED <<Writing(c), Saving(c), Replied(c), Reading(c)>>
    BY <1>2 DEF Writing, Saving, Replied, Reading
  <2> QED BY <1>1, <1>2, <2>1, <2>2, <2>3 DEF OneTurn
<1>5. Progress(c)'
  <2>1. ~Has(sCq'[c], {"data"}) /\ ~Has(sCq'[c], {"eof"})  BY <1>2, HasEmpty
  <2>2. ~Replying(c)'  BY <1>2 DEF Replying
  <2>3. UNCHANGED <<Carries(c, cBuf[c]), Carries(c, sBuf[c]), Tells(c, cMsg[c]),
                    Complete(c), Saved(c), Writing(c), Replied(c), Reading(c)>>
    BY <1>2 DEF Carries, Tells, Complete, Saved, File, Writing, Replied, Reading
  <2> QED BY <1>1, <1>2, <2>1, <2>2, <2>3 DEF Progress
<1>6. Fresh(c)' /\ OwnFile(c)'
  BY <1>1, <1>2 DEF Fresh, OwnFile, File
<1>7. OneOwner'
  BY <1>1, <1>2 DEF OneOwner
<1>8. ASSUME NEW d \in Clients, d # c
      PROVE  /\ Here(d)' = Here(d)
             /\ hasName[d] => /\ File(d)' = File(d)
                              /\ conn[d] = "up" => fdTab'[fd[d]] = fdTab[fd[d]]
  <2>1. Here(d)' = Here(d)  BY <1>1, <1>2, <1>8 DEF TypeOK, Here
  <2>2. File(d)' = File(d)  BY <1>2 DEF File
  <2>3. ASSUME hasName[d], conn[d] = "up" PROVE fdTab'[fd[d]] = fdTab[fd[d]]
    <3>1. fd[d] \in Fds /\ fdTab[fd[d]] = FileName[d]
      BY <2>3 DEF IInv, Local, OwnFile
    <3>2. fd[d] # fd[c]
      <4>1. CASE hasName[c]
        <5>1. fdTab[fd[c]] = FileName[c]  BY <1>1, <1>2, <4>1 DEF OwnFile
        <5>2. FileName[c] # FileName[d]  BY <1>1, <1>8, <2>3, <4>1 DEF OneOwner
        <5> QED BY <3>1, <5>1, <5>2
      <4>2. CASE ~hasName[c]
        BY <1>1, <1>2, <3>1, <4>2 DEF OwnFile
      <4> QED BY <4>1, <4>2
    <3> QED BY <1>2, <3>1, <3>2
  <2> QED BY <2>1, <2>2, <2>3
<1> QED BY <1>3, <1>4, <1>5, <1>6, <1>7, <1>8, FileStepOf DEF Local

LEMMA ServerEventLoopStep ==
    ASSUME IInv, GarbageFds \cap Fds = {}, ServerEventLoop PROVE IInv'
<1> PICK c \in Clients : \/ ConnectRequest(c) \/ Established(c)
                         \/ UnknownEvent(c) \/ Disconnected(c)
  BY DEF ServerEventLoop
<1>1. CASE ConnectRequest(c)  BY <1>1, ConnectRequestStep
<1>2. CASE Established(c)  BY <1>2, EstablishedStep
<1>3. CASE UnknownEvent(c)  BY <1>3, DieStep DEF UnknownEvent
<1>4. CASE Disconnected(c)  BY <1>4, DisconnectedStep
<1> QED BY <1>1, <1>2, <1>3, <1>4

-----------------------------------------------------------------------------
\* The server's poller: the turn passes from Written to Saving to Replying.

LEMMA ServerPollStep ==
    ASSUME IInv, NEW c \in Clients, ServerPoll(c) PROVE IInv'
<1>1. TypeOK /\ OneTurn(c) /\ Progress(c) /\ Fresh(c) /\ OwnFile(c)
  BY DEF IInv, Local
<1>2. CASE Head(sCq[c]) = "error" /\ Die
  BY <1>2, DieStep DEF Die
<1>3. ASSUME Head(sCq[c]) # "error",
             sHand' = [sHand EXCEPT ![c] = Head(sCq[c])],
             sCq' = [sCq EXCEPT ![c] = Tail(@)],
             UNCHANGED <<clientVars, wireVars, server, conn, ctxVars, fileVars>>
      PROVE  IInv'
  <2> DEFINE x == Head(sCq[c])
             q == Tail(sCq[c])
  <2>1. /\ sCq[c] \in Seq(ServerWc) /\ sCq[c] # <<>>
        /\ sHand[c] = "none"
    BY <1>1 DEF ServerPoll, PollerIdle, TypeOK
  <2>2. x \in ServerWc \ {"error"} /\ q \in Seq(ServerWc)
    BY <1>3, <2>1
  <2>3. /\ AtMostOne(q, Imm) /\ (x \in Imm => ~Has(q, Imm))
        /\ Has(sCq[c], Imm) <=> x \in Imm \/ Has(q, Imm)
        /\ Has(sCq[c], {"data"}) <=> x = "data" \/ Has(q, {"data"})
        /\ Has(sCq[c], {"eof"}) <=> x = "eof" \/ Has(q, {"eof"})
    <3>1. AtMostOne(sCq[c], Imm)  BY <1>1 DEF OneTurn
    <3> QED BY <2>1, <3>1, HasTail, AtMostOneTail
  <2>4. /\ sHand'[c] = x /\ sHand' = [sHand EXCEPT ![c] = x]
        /\ sCq'[c] = q /\ sCq' = [sCq EXCEPT ![c] = q]
    BY <1>1, <1>3 DEF TypeOK
  <2> HIDE DEF x, q
  <2>5. x \in {"send", "data", "eof"} /\ (x \in Imm <=> x # "send")
    BY <2>2 DEF ServerWc, Imm
  <2>6. TypeOK'
    <3>1. sHand' \in [Clients -> {"none", "send", "data", "eof", "reply"}]
      BY <1>1, <2>4, <2>5 DEF TypeOK
    <3>2. sCq' \in [Clients -> Seq(ServerWc)]  BY <1>1, <2>2, <2>4 DEF TypeOK
    <3> QED BY <1>1, <1>3, <3>1, <3>2 DEF TypeOK
  <2>7. /\ Written(c)' => Written(c) /\ ~Saving(c)'
        /\ Saving(c)' => Written(c)
        /\ UNCHANGED <<Writing(c), Replying(c), Replied(c), Reading(c)>>
    <3>1. Written(c)' => Written(c) /\ ~Saving(c)'
      BY <2>3, <2>4, <2>5 DEF Written, Saving
    <3>2. Saving(c)' => Written(c)
      BY <2>3, <2>4, <2>5 DEF Written, Saving
    <3>3. UNCHANGED <<Writing(c), Replying(c), Replied(c), Reading(c)>>
      BY <1>3 DEF Writing, Replying, Replied, Reading
    <3> QED BY <3>1, <3>2, <3>3
  <2>8. OneTurn(c)'
    BY <1>1, <1>3, <2>3, <2>4, <2>7 DEF OneTurn
  <2>9. Progress(c)'
    <3>1. UNCHANGED <<Carries(c, cBuf[c]), Carries(c, sBuf[c]), Tells(c, sMsg[c]),
                      Tells(c, cMsg[c]), Complete(c), Saved(c)>>
      BY <1>3 DEF Carries, Tells, Complete, Saved, File
    <3> QED BY <1>1, <1>3, <2>3, <2>4, <2>5, <2>7, <3>1 DEF Progress
  <2>10. Fresh(c)' /\ OwnFile(c)'
    BY <1>1, <1>3, <2>7 DEF Fresh, OwnFile, File
  <2>11. \A d \in Clients : d # c => Here(d)' = Here(d)
    BY <1>1, <1>3 DEF TypeOK, Here
  <2> QED BY <1>3, <2>6, <2>8, <2>9, <2>10, <2>11, StepOf DEF Local
<1> QED BY <1>2, <1>3 DEF ServerPoll

LEMMA ServerSendDoneStep ==
    ASSUME IInv, NEW c \in Clients, ServerSendDone(c) PROVE IInv'
<1>1. TypeOK /\ OneTurn(c) /\ Progress(c) /\ Fresh(c) /\ OwnFile(c)
  BY DEF IInv, Local
<1>2. /\ sHand[c] = "send"
      /\ sHand' = [sHand EXCEPT ![c] = "none"] /\ sHand'[c] = "none"
      /\ UNCHANGED <<clientVars, wireVars, server, conn, ctxVars, sCq, fileVars>>
  BY <1>1 DEF ServerSendDone, TypeOK
<1>3. TypeOK'
  <2>1. sHand' \in [Clients -> {"none", "send", "data", "eof", "reply"}]
    BY <1>1, <1>2 DEF TypeOK
  <2> QED BY <1>1, <1>2, <2>1 DEF TypeOK
<1>4. Local(c)'
  BY <1>1, <1>2 DEF Local, OneTurn, Progress, Fresh, OwnFile, Writing, Written, Saving,
     Replying, Replied, Reading, Carries, Tells, Complete, Saved, File
<1>5. \A d \in Clients : d # c => Here(d)' = Here(d)
  BY <1>1, <1>2 DEF TypeOK, Here
<1> QED BY <1>2, <1>3, <1>4, <1>5, StepOf

\* A SEND of the server starts when its handler ends.
LEMMA ServerReplyStep ==
    ASSUME IInv, NEW c \in Clients, ServerReady(c) \/ ServerDone(c) PROVE IInv'
<1>1. TypeOK /\ OneTurn(c) /\ Progress(c) /\ Fresh(c) /\ OwnFile(c)
  BY DEF IInv, Local
<1>2. /\ Saving(c) /\ ~Writing(c) /\ ~Written(c) /\ ~Replying(c) /\ ~Replied(c)
      /\ ~Reading(c)
  BY <1>1 DEF ServerReady, ServerDone, Saving, OneTurn
<1>3. sSq' = [sSq EXCEPT ![c] = 1]
  <2>1. sSq[c] = 0  BY <1>1, <1>2 DEF TypeOK, Replying
  <2>2. sSq[c] + 1 = 1  BY <2>1
  <2> QED BY <2>2 DEF ServerReady, ServerDone
<1>4. PICK m \in {"READY", "DONE"} :
          sMsg' = [sMsg EXCEPT ![c] = m] /\ Tells(c, m)
  <2>1. CASE ServerReady(c)
    <3>1. Tells(c, "READY")  BY <1>1, <2>1 DEF ServerReady, Progress, Tells
    <3> QED BY <2>1, <3>1 DEF ServerReady
  <2>2. CASE ServerDone(c)
    <3>1. Tells(c, "DONE")  BY <1>1, <2>2 DEF ServerDone, Progress, Tells
    <3> QED BY <2>2, <3>1 DEF ServerDone
  <2> QED BY <2>1, <2>2
<1>5. /\ sSq'[c] = 1 /\ sMsg'[c] = m
      /\ sHand' = [sHand EXCEPT ![c] = "none"] /\ sHand'[c] = "none"
      /\ UNCHANGED <<clientVars, cSq, cUnacked, sUnacked, server, conn, sBuf,
                     hasName, fd, sCq, fileVars>>
  BY <1>1, <1>3, <1>4 DEF ServerReady, ServerDone, TypeOK
<1>6. TypeOK'
  <2>1. /\ sSq' \in [Clients -> Nat] /\ sMsg' \in [Clients -> MsgIds]
        /\ sHand' \in [Clients -> {"none", "send", "data", "eof", "reply"}]
    BY <1>1, <1>3, <1>4, <1>5 DEF TypeOK, MsgIds
  <2>2. sRecv' \in [Clients -> Nat]
    <3>1. CASE ServerReady(c)  BY <1>1, <3>1 DEF ServerReady, TypeOK
    <3>2. CASE ServerDone(c)  BY <1>1, <3>2 DEF ServerDone, TypeOK
    <3> QED BY <3>1, <3>2
  <2> QED BY <1>1, <1>5, <2>1, <2>2 DEF TypeOK
<1>7. ~Writing(c)' /\ ~Written(c)' /\ ~Saving(c)' /\ ~Replied(c)' /\ ~Reading(c)'
  BY <1>2, <1>5 DEF Writing, Written, Saving, Replied, Reading
<1>8. OneTurn(c)'
  BY <1>1, <1>5, <1>7 DEF OneTurn
<1>9. Progress(c)'
  <2>1. UNCHANGED <<Complete(c), Tells(c, m)>>
    BY <1>5 DEF Complete, Saved, File, Tells
  <2>2. ~Has(sCq'[c], {"data"}) /\ ~Has(sCq'[c], {"eof"})
    BY <1>7, HasImm DEF Written
  <2> QED BY <1>1, <1>4, <1>5, <1>7, <2>1, <2>2 DEF Progress
<1>10. Fresh(c)' /\ OwnFile(c)'
  BY <1>1, <1>2, <1>5, <1>7 DEF Fresh, OwnFile, File
<1>11. \A d \in Clients : d # c => Here(d)' = Here(d)
  BY <1>1, <1>3, <1>4, <1>5 DEF TypeOK, Here
<1> QED BY <1>5, <1>6, <1>8, <1>9, <1>10, <1>11, StepOf DEF Local

\* The context is up while one of its completions is handled, and the
\* handler that saves has the turn.
LEMMA SavingState ==
    ASSUME IInv, NEW c \in Clients, ServerSave(c)
    PROVE  /\ conn[c] = "up" /\ Carries(c, sBuf[c]) /\ client[c] # "closing"
           /\ ~Writing(c) /\ ~Written(c) /\ ~Replying(c) /\ ~Replied(c) /\ ~Reading(c)
           /\ sHand' = [sHand EXCEPT ![c] = "reply"] /\ sHand'[c] = "reply"
           /\ UNCHANGED <<clientVars, wireVars, server, conn, sRecv, sMsg, sBuf, sCq>>
<1>1. TypeOK /\ OneTurn(c) /\ Progress(c) /\ Fresh(c) /\ OwnFile(c)
  BY DEF IInv, Local
<1>2. Saving(c) /\ Carries(c, sBuf[c])
  BY <1>1 DEF ServerSave, Saving, Progress
<1>3. conn[c] = "up"
  BY <1>1, <1>2 DEF ServerSave, Fresh, TypeOK
<1>4. client[c] # "closing"
  <2> SUFFICES ASSUME Complete(c) PROVE FALSE
    BY <1>1 DEF Progress
  <2>1. hasName[c] /\ cPos[c] = Len(File(c)) /\ cPos[c] = FileLen[c]
    BY DEF Complete, Saved
  <2>2. cPos[c] = Len(File(c)) + 1
    BY <1>2, <2>1 DEF Carries
  <2>3. cPos[c] \in Nat  BY <1>1 DEF TypeOK
  <2> QED BY <2>1, <2>2, <2>3
<1>5. ~Writing(c) /\ ~Written(c) /\ ~Replying(c) /\ ~Replied(c) /\ ~Reading(c)
  BY <1>1, <1>2 DEF OneTurn
<1>6. sHand' = [sHand EXCEPT ![c] = "reply"] /\ sHand'[c] = "reply"
  BY <1>1 DEF ServerSave, TypeOK
<1> QED BY <1>2, <1>3, <1>4, <1>5, <1>6 DEF ServerSave

\* Whatever was saved, the turn stays with the handler; what is left to show
\* is that the file is as long as the client believes.
LEMMA SavedStep ==
    ASSUME IInv, NEW c \in Clients, ServerSave(c), Saved(c)'
    PROVE  OneTurn(c)' /\ Progress(c)' /\ Fresh(c)'
<1>1. TypeOK /\ OneTurn(c) /\ Progress(c) /\ Fresh(c)
  BY DEF IInv, Local
<1>2. /\ conn[c] = "up" /\ client[c] # "closing"
      /\ ~Writing(c) /\ ~Written(c) /\ ~Replying(c) /\ ~Replied(c) /\ ~Reading(c)
      /\ sHand'[c] = "reply"
      /\ UNCHANGED <<clientVars, wireVars, server, conn, sRecv, sMsg, sBuf, sCq>>
  BY SavingState
<1>3. ~Writing(c)' /\ ~Written(c)' /\ ~Replying(c)' /\ ~Replied(c)' /\ ~Reading(c)'
  BY <1>2 DEF Writing, Written, Replying, Replied, Reading
<1>4. OneTurn(c)'
  BY <1>1, <1>2, <1>3 DEF OneTurn
<1>5. Progress(c)'
  <2>1. ~Has(sCq'[c], {"data"}) /\ ~Has(sCq'[c], {"eof"})
    BY <1>3, HasImm DEF Written
  <2> QED BY <1>2, <1>3, <2>1 DEF Progress
<1>6. Fresh(c)'
  BY <1>1, <1>2 DEF Fresh
<1> QED BY <1>4, <1>5, <1>6

\* The first save creates the file: nobody else can own one of that name,
\* and the descriptor was nobody's.
LEMMA OpenFileStep ==
    ASSUME IInv, NEW c \in Clients, ServerSave(c), ~hasName[c] PROVE IInv'
<1>1. TypeOK /\ OwnFile(c) /\ OneOwner
  BY DEF IInv, Local
<1>2. /\ conn[c] = "up" /\ Carries(c, sBuf[c])
      /\ sHand' = [sHand EXCEPT ![c] = "reply"]
      /\ UNCHANGED <<clientVars, wireVars, server, conn, sRecv, sMsg, sBuf, sCq>>
  BY SavingState
<1>3. sBuf[c] = FileName[c] /\ cPos[c] = 0 /\ FileName[c] \in Names
  BY <1>2, ConstantsAssumption DEF Carries
<1>4. PICK f \in Fds : /\ fdTab[f] = Absent
                       /\ fd' = [fd EXCEPT ![c] = f]
                       /\ fdTab' = [fdTab EXCEPT ![f] = FileName[c]]
  BY <1>3 DEF ServerSave, OpenFile
<1>5. /\ hasName' = [hasName EXCEPT ![c] = TRUE] /\ hasName'[c]
      /\ disk[FileName[c]] = Absent
      /\ disk' = [disk EXCEPT ![FileName[c]] = <<>>]
      /\ disk'[FileName[c]] = <<>>
  BY <1>1, <1>3 DEF ServerSave, OpenFile, TypeOK
<1>6. f \in Nat  BY ConstantsAssumption
<1>7. TypeOK'
  <2>1. /\ sHand' \in [Clients -> {"none", "send", "data", "eof", "reply"}]
        /\ hasName' \in [Clients -> BOOLEAN]
        /\ fd' \in [Clients -> Nat]
    BY <1>1, <1>2, <1>4, <1>5, <1>6 DEF TypeOK
  <2>2. fdTab' \in [Fds -> Names \cup {Absent}]
    BY <1>1, <1>3, <1>4 DEF TypeOK
  <2>3. disk' \in [Names -> Seq(Buffer) \cup {Absent}]
    <3>1. <<>> \in Seq(Buffer)  OBVIOUS
    <3> QED BY <1>1, <1>5, <3>1 DEF TypeOK
  <2> QED BY <1>1, <1>2, <2>1, <2>2, <2>3 DEF TypeOK
<1>8. ASSUME NEW d \in Clients, d # c
      PROVE  /\ Here(d)' = Here(d)
             /\ hasName[d] =>
                  /\ FileName[d] # FileName[c]
                  /\ File(d)' = File(d)
                  /\ conn[d] = "up" => fdTab'[fd[d]] = fdTab[fd[d]]
  <2>1. Here(d)' = Here(d)
    BY <1>1, <1>2, <1>4, <1>5, <1>8 DEF TypeOK, Here
  <2>2. ASSUME hasName[d]
        PROVE  /\ FileName[d] # FileName[c]
               /\ File(d)' = File(d)
               /\ conn[d] = "up" => fdTab'[fd[d]] = fdTab[fd[d]]
    <3>1. File(d) \in Seq(Buffer)  BY <2>2 DEF IInv, Local, OwnFile
    <3>2. FileName[d] # FileName[c]
      BY <1>5, <3>1, DataAssumption DEF File
    <3>3. File(d)' = File(d)
      BY <1>1, <1>5, <3>2 DEF File, TypeOK
    <3>4. ASSUME conn[d] = "up" PROVE fdTab'[fd[d]] = fdTab[fd[d]]
      <4>1. fdTab[fd[d]] = FileName[d]  BY <2>2, <3>4 DEF IInv, Local, OwnFile
      <4>2. FileName[d] \in Names  BY ConstantsAssumption
      <4>3. fd[d] # f  BY <1>4, <4>1, <4>2, DataAssumption
      <4> QED BY <1>1, <1>4, <4>3 DEF TypeOK
    <3> QED BY <3>2, <3>3, <3>4
  <2> QED BY <2>1, <2>2
<1>9. Len(<<>>) = 0  OBVIOUS
<1>10. OneTurn(c)' /\ Progress(c)' /\ Fresh(c)'
  <2>1. Saved(c)'  BY <1>2, <1>3, <1>5, <1>9 DEF Saved, File
  <2> QED BY <2>1, SavedStep
<1>11. OwnFile(c)'
  <2>1. <<>> \in Seq(Buffer) /\ FileLen[c] \in Nat  BY ConstantsAssumption
  <2>2. fd'[c] \in Fds /\ fdTab'[fd'[c]] = FileName[c]
    BY <1>1, <1>4 DEF TypeOK
  <2>3. File(c)' = <<>>  BY <1>5 DEF File
  <2> QED BY <1>5, <1>9, <2>1, <2>2, <2>3 DEF OwnFile
<1>12. OneOwner'
  <2>1. ASSUME NEW a \in Clients, NEW b \in Clients,
               hasName'[a], hasName'[b], FileName[a] = FileName[b]
        PROVE  a = b
    <3>1. a # c => hasName[a]  BY <1>1, <1>5, <2>1 DEF TypeOK
    <3>2. b # c => hasName[b]  BY <1>1, <1>5, <2>1 DEF TypeOK
    <3> QED BY <1>1, <1>8, <2>1, <3>1, <3>2 DEF OneOwner
  <2>2. ASSUME NEW n \in Names \ Existing, disk'[n] # Absent
        PROVE  \E a \in Clients : hasName'[a] /\ FileName[a] = n
    <3>1. CASE n = FileName[c]  BY <1>5, <3>1
    <3>2. CASE n # FileName[c]
      <4>1. disk[n] # Absent  BY <1>1, <1>5, <2>2, <3>2 DEF TypeOK
      <4>2. PICK a \in Clients : hasName[a] /\ FileName[a] = n
        BY <1>1, <2>2, <4>1 DEF OneOwner
      <4>3. hasName'[a]  BY <1>1, <1>5, <4>2 DEF TypeOK
      <4> QED BY <4>2, <4>3
    <3> QED BY <3>1, <3>2
  <2> QED BY <2>1, <2>2 DEF OneOwner
<1> QED BY <1>7, <1>8, <1>10, <1>11, <1>12, FileStepOf DEF Local

\* Every later one appends the next chunk of c's file to c's file.
LEMMA WriteFileStep ==
    ASSUME IInv, NEW c \in Clients, ServerSave(c), hasName[c] PROVE IInv'
<1>1. TypeOK /\ OwnFile(c) /\ OneOwner
  BY DEF IInv, Local
<1>2. /\ conn[c] = "up" /\ Carries(c, sBuf[c])
      /\ sHand' = [sHand EXCEPT ![c] = "reply"]
      /\ UNCHANGED <<clientVars, wireVars, server, conn, sRecv, sMsg, sBuf, sCq>>
  BY SavingState
<1> DEFINE s == File(c)
           k == Len(File(c)) + 1
           t == Append(File(c), <<c, Len(File(c)) + 1>>)
<1>3. /\ s \in Seq(Buffer) /\ Len(s) \in Nat
      /\ \A i \in 1 .. Len(s) : s[i] = <<c, i>>
      /\ FileName[c] \in Names /\ FileLen[c] \in Nat
  BY <1>1, ConstantsAssumption DEF OwnFile
<1>4. cPos[c] = k /\ k <= FileLen[c] /\ sBuf[c] = <<c, k>>
  BY <1>2 DEF Carries
<1>5. fd[c] \in Fds /\ fdTab[fd[c]] = FileName[c]
  BY <1>1, <1>2 DEF OwnFile
<1>6. /\ UNCHANGED <<hasName, fd, fdTab>>
      /\ disk' = [disk EXCEPT ![FileName[c]] = Append(disk[FileName[c]], sBuf[c])]
  BY <1>5 DEF ServerSave, WriteFile
<1>7. disk' = [disk EXCEPT ![FileName[c]] = t] /\ File(c)' = t
  BY <1>1, <1>3, <1>4, <1>6 DEF File, TypeOK
<1>8. <<c, k>> \in Buffer
  BY <1>3 DEF Buffer, Chunk
<1>9. /\ t \in Seq(Buffer) /\ Len(t) = k
      /\ \A i \in 1 .. Len(t) : t[i] = <<c, i>>
  <2>1. t \in Seq(Buffer) /\ Len(t) = k  BY <1>3, <1>8
  <2>2. ASSUME NEW i \in 1 .. Len(t) PROVE t[i] = <<c, i>>
    <3>1. CASE i = k  BY <1>3, <1>8, <3>1
    <3>2. CASE i # k
      <4>1. i \in 1 .. Len(s)  BY <1>3, <2>1, <3>2
      <4> QED BY <1>3, <1>8, <4>1
    <3> QED BY <3>1, <3>2
  <2> QED BY <2>1, <2>2
<1> HIDE DEF t, k, s
<1>10. TypeOK'
  <2>1. sHand' \in [Clients -> {"none", "send", "data", "eof", "reply"}]
    BY <1>1, <1>2 DEF TypeOK
  <2>2. disk' \in [Names -> Seq(Buffer) \cup {Absent}]
    BY <1>1, <1>7, <1>9 DEF TypeOK
  <2> QED BY <1>1, <1>2, <1>6, <2>1, <2>2 DEF TypeOK
<1>11. ASSUME NEW d \in Clients, d # c
       PROVE  /\ Here(d)' = Here(d)
              /\ hasName[d] => /\ File(d)' = File(d)
                               /\ conn[d] = "up" => fdTab'[fd[d]] = fdTab[fd[d]]
  <2>1. Here(d)' = Here(d)
    BY <1>1, <1>2, <1>6, <1>11 DEF TypeOK, Here
  <2>2. ASSUME hasName[d] PROVE File(d)' = File(d)
    <3>1. FileName[d] # FileName[c]  BY <1>1, <1>11, <2>2 DEF OneOwner
    <3>2. FileName[d] \in Names  BY ConstantsAssumption
    <3> QED BY <1>1, <1>7, <3>1, <3>2 DEF File, TypeOK
  <2> QED BY <1>6, <2>1, <2>2
<1>12. OneTurn(c)' /\ Progress(c)' /\ Fresh(c)'
  <2>1. Saved(c)'  BY <1>2, <1>4, <1>6, <1>7, <1>9 DEF Saved
  <2> QED BY <2>1, SavedStep
<1>13. OwnFile(c)'
  BY <1>1, <1>2, <1>4, <1>6, <1>7, <1>9 DEF OwnFile
<1>14. OneOwner'
  <2>1. ASSUME NEW n \in Names, disk'[n] # Absent, n # FileName[c]
        PROVE  disk[n] # Absent
    BY <1>1, <1>7, <2>1 DEF TypeOK
  <2> QED BY <1>1, <1>6, <2>1 DEF OneOwner
<1> QED BY <1>10, <1>11, <1>12, <1>13, <1>14, FileStepOf DEF Local

LEMMA ServerPollerStep ==
    ASSUME IInv, ServerPoller PROVE IInv'
<1> PICK c \in Clients : \/ ServerPoll(c) \/ ServerSendDone(c) \/ ServerSave(c)
                         \/ ServerSaveFails(c) \/ ServerReady(c) \/ ServerDone(c)
                         \/ ServerStaleContext(c)
  BY DEF ServerPoller
<1>1. CASE ServerPoll(c)  BY <1>1, ServerPollStep
<1>2. CASE ServerSendDone(c)  BY <1>2, ServerSendDoneStep
<1>3. CASE ServerSave(c)
  <2>1. CASE hasName[c]  BY <1>3, <2>1, WriteFileStep
  <2>2. CASE ~hasName[c]  BY <1>3, <2>2, OpenFileStep
  <2> QED BY <2>1, <2>2
<1>4. CASE ServerReady(c) \/ ServerDone(c)  BY <1>4, ServerReplyStep
<1>5. CASE ServerSaveFails(c) \/ ServerStaleContext(c)
  <2>1. Die  BY <1>5 DEF ServerSaveFails, ServerStaleContext
  <2> QED BY <2>1, DieStep DEF Die
<1> QED BY <1>1, <1>2, <1>3, <1>4, <1>5

-----------------------------------------------------------------------------
LEMMA InitIInv == Init => IInv
<1> SUFFICES ASSUME Init PROVE IInv
  OBVIOUS
<1>1. TypeOK
  <2>1. /\ <<>> \in Seq(Buffer) /\ <<>> \in Seq(Imm) /\ <<>> \in Seq(ClientWc)
        /\ <<>> \in Seq(ServerWc)
    OBVIOUS
  <2> QED BY <2>1 DEF Init, TypeOK, Connecting, Ended, MsgIds, Buffer, NoData
<1>2. ASSUME NEW c \in Clients PROVE Local(c)
  <2>1. /\ ~Has(<<>>, Imm) /\ ~Has(<<>>, {"recv"}) /\ ~Has(<<>>, {"data"})
        /\ ~Has(<<>>, {"eof"}) /\ AtMostOne(<<>>, Imm) /\ AtMostOne(<<>>, {"recv"})
    BY HasEmpty
  <2>2. /\ cSq[c] = <<>> /\ sSq[c] = 0 /\ sCq[c] = <<>> /\ cCq[c] = <<>>
        /\ sHand[c] = "none" /\ cHand[c] = "none" /\ conn[c] = "none"
        /\ client[c] = "resolving" /\ ~hasName[c] /\ cPos[c] = 0
    BY DEF Init
  <2>3. /\ ~Writing(c) /\ ~Written(c) /\ ~Saving(c) /\ ~Replying(c) /\ ~Replied(c)
        /\ ~Reading(c)
    BY <2>1, <2>2 DEF Writing, Written, Saving, Replying, Replied, Reading
  <2>4. OneTurn(c)
    <3>1. Len(<<>>) = 0  OBVIOUS
    <3> QED BY <2>1, <2>2, <2>3, <3>1 DEF OneTurn
  <2>5. Progress(c)
    BY <2>1, <2>2, <2>3 DEF Progress
  <2> QED BY <2>2, <2>3, <2>4, <2>5 DEF Local, Fresh, OwnFile
<1>3. OneOwner
  BY DEF Init, OneOwner
<1> QED BY <1>1, <1>2, <1>3 DEF IInv

LEMMA NextIInv ==
    ASSUME GarbageFds \cap Fds = {}, IInv, [Next]_vars PROVE IInv'
<1>1. CASE UNCHANGED runVars
  <2>1. TypeOK'  BY <1>1 DEF IInv, TypeOK
  <2>2. ASSUME NEW c \in Clients PROVE Local(c)'
    <3>1. Here(c)' = Here(c) /\ File(c)' = File(c) /\ fdTab' = fdTab
      BY <1>1 DEF Here, File
    <3> QED BY <3>1, Frame DEF IInv
  <2>3. OneOwner'  BY <1>1 DEF IInv, OneOwner
  <2> QED BY <2>1, <2>2, <2>3 DEF IInv
<1>2. ASSUME NEW c \in Clients,
             ClientEventLoop(c) \/ ClientPoller(c) \/ ClientCrash(c) \/ Nic(c)
      PROVE  IInv'
  <2>1. CASE ClientEventLoop(c) \/ ClientCrash(c)  BY <2>1, EventLoopStep
  <2>2. CASE ClientPoll(c)  BY <2>2, ClientPollStep
  <2>3. CASE ClientSendDone(c) \/ ClientRearm(c)  BY <2>3, ClientIdleStep
  <2>4. CASE ClientHandleMessage(c)  BY <2>4, ClientHandleMessageStep
  <2>5. CASE ClientDone(c)  BY <2>5, ClientDoneStep
  <2>6. CASE Nic(c)  BY <2>6, NicStep
  <2> QED BY <1>2, <2>1, <2>2, <2>3, <2>4, <2>5, <2>6 DEF ClientPoller
<1>3. CASE ServerEventLoop  BY <1>3, ServerEventLoopStep
<1>4. CASE ServerPoller  BY <1>4, ServerPollerStep
<1>5. CASE Rest  BY <1>1, <1>5 DEF Rest
<1>6. CASE UNCHANGED vars  BY <1>1, <1>6 DEF vars
<1> QED BY <1>2, <1>3, <1>4, <1>5, <1>6 DEF Next

\* The turn-taking invariant of the two on_completion handlers, the wire and
\* the two event loops holds in every reachable state.
THEOREM Invariance ==
    ASSUME GarbageFds \cap Fds = {} PROVE Spec => []IInv
<1>1. Init => IInv  BY InitIInv
<1>2. IInv /\ [Next]_vars => IInv'  BY NextIInv
<1> QED BY <1>1, <1>2, PTL DEF Spec

\* Every variable keeps its type.  TypeOK is not inductive: that a write goes
\* to a file, and that a descriptor stands for a name, is the rest of IInv.
THEOREM TypeCorrect ==
    ASSUME GarbageFds \cap Fds = {} PROVE Spec => []TypeOK
<1>1. IInv => TypeOK  BY DEF IInv
<1> QED BY <1>1, Invariance, PTL

\* What a file of the server holds is the beginning of one client's file: the
\* handshake of send_next_chunk and MSG_READY keeps each chunk in the shared
\* buffer until write has stored it, once and in order.
THEOREM StoredFilesArePrefixes ==
    ASSUME GarbageFds \cap Fds = {} PROVE Spec => []FilesArePrefixes
<1>1. IInv => FilesArePrefixes
  <2> SUFFICES ASSUME IInv, NEW n \in Names \ Existing, disk[n] # Absent
               PROVE  \E c \in Clients :
                          FileName[c] = n /\ IsPrefixOf(disk[n], Content(c))
    BY DEF FilesArePrefixes
  <2>1. PICK c \in Clients : hasName[c] /\ FileName[c] = n
    BY DEF IInv, OneOwner
  <2>2. /\ disk[n] \in Seq(Buffer) /\ Len(disk[n]) <= FileLen[c]
        /\ \A i \in 1 .. Len(disk[n]) : disk[n][i] = <<c, i>>
    BY <2>1 DEF IInv, Local, OwnFile, File
  <2>3. FileLen[c] \in Nat /\ Len(disk[n]) \in Nat
    BY <2>2, ConstantsAssumption
  <2>4. Len(Content(c)) = FileLen[c]
    BY <2>3 DEF Content
  <2>5. \A i \in 1 .. Len(disk[n]) : Content(c)[i] = <<c, i>>
    BY <2>2, <2>3 DEF Content
  <2> QED BY <2>1, <2>2, <2>4, <2>5 DEF IsPrefixOf
<1> QED BY <1>1, Invariance, PTL

\* A complete copy is the client's file.
LEMMA CompleteContent ==
    ASSUME IInv, NEW c \in Clients, Complete(c)
    PROVE  hasName[c] /\ disk[FileName[c]] = Content(c)
<1>1. /\ hasName[c] /\ File(c) \in Seq(Buffer) /\ Len(File(c)) = FileLen[c]
      /\ \A i \in 1 .. Len(File(c)) : File(c)[i] = <<c, i>>
  BY DEF Complete, Saved, IInv, Local, OwnFile
<1>2. FileLen[c] \in Nat  BY ConstantsAssumption
<1>3. Content(c) \in Seq(Buffer) /\ Len(Content(c)) = FileLen[c]
  <2>1. \A i \in 1 .. FileLen[c] : <<c, i>> \in Buffer
    BY <1>2 DEF Buffer, Chunk
  <2> QED BY <1>2, <2>1 DEF Content
<1>4. \A i \in 1 .. Len(File(c)) : File(c)[i] = Content(c)[i]
  BY <1>1, <1>2 DEF Content
<1>5. File(c) = Content(c)
  BY <1>1, <1>3, <1>4, SeqEqual
<1> QED BY <1>1, <1>5 DEF File

\* A client that has read MSG_DONE and calls rc_disconnect has its whole file
\* at the server, whoever else crashes, collides or fills the disk.
THEOREM DoneIsStored ==
    ASSUME GarbageFds \cap Fds = {} PROVE Spec => []DoneMeansStored
<1>1. IInv => DoneMeansStored
  BY CompleteContent DEF IInv, Local, Progress, DoneMeansStored
<1> QED BY <1>1, Invariance, PTL

\* While a connection is up, conn_context.fd is a descriptor that is open on
\* its client's file, whatever on_disconnect of the others closes.
THEOREM DescriptorsStay ==
    ASSUME GarbageFds \cap Fds = {} PROVE Spec => []DescriptorsKept
<1>1. IInv => DescriptorsKept
  BY DEF IInv, Local, OwnFile, DescriptorsKept
<1> QED BY <1>1, Invariance, PTL

\* No step but a save touches the files, and a save creates a file that was
\* not there or appends to one: open has O_EXCL, write appends.
THEOREM FilesGrow ==
    ASSUME GarbageFds \cap Fds = {} PROVE Spec => FilesOnlyGrow
<1> DEFINE Grows(n) == disk[n] # Absent =>
                         disk'[n] # Absent /\ IsPrefixOf(disk[n], disk'[n])
<1>1. ASSUME IInv, [Next]_vars, disk' # disk, NEW n \in Names PROVE Grows(n)
  <2> SUFFICES ASSUME disk[n] # Absent
               PROVE  disk'[n] # Absent /\ IsPrefixOf(disk[n], disk'[n])
    OBVIOUS
  <2>1. disk \in [Names -> Seq(Buffer) \cup {Absent}]
    BY <1>1 DEF IInv, TypeOK
  <2>2. disk[n] \in Seq(Buffer)  BY <2>1
  <2>3. PICK c \in Clients : ServerSave(c)
    <3>1. Next  BY <1>1 DEF vars
    <3>2. \A c \in Clients :
              ~(ClientEventLoop(c) \/ ClientPoller(c) \/ ClientCrash(c) \/ Nic(c))
      BY <1>1 DEF ClientEventLoop, ClientAddrResolved, ClientRouteResolved,
         ClientEstablished, ClientUnknownEvent, ClientDisconnected, ClientCrash,
         ClientPoller, ClientPoll, ClientSendDone, ClientHandleMessage, ClientRearm,
         ClientDone, Nic, DeliverWrite, AckWrite, WriteFails, DeliverSend, AckSend,
         SendFails
    <3>3. ~ServerEventLoop /\ ~Rest
      BY <1>1 DEF ServerEventLoop, ConnectRequest, Established, UnknownEvent,
         Disconnected, Rest, vars
    <3>4. ServerPoller  BY <3>1, <3>2, <3>3 DEF Next
    <3> QED
      BY <1>1, <3>4 DEF ServerPoller, ServerPoll, ServerSendDone, ServerSaveFails,
         ServerReady, ServerDone, ServerStaleContext, Die
  <2>4. PICK m \in Names, t \in Seq(Buffer) :
            /\ disk' = [disk EXCEPT ![m] = t]
            /\ disk[m] # Absent => IsPrefixOf(disk[m], t)
    <3>1. Carries(c, sBuf[c]) /\ conn[c] = "up" /\ OwnFile(c) /\ FileName[c] \in Names
      BY <1>1, <2>3, SavingState, ConstantsAssumption DEF IInv, Local
    <3>2. CASE ~hasName[c]
      <4>1. /\ disk' = [disk EXCEPT ![FileName[c]] = <<>>]
            /\ disk[FileName[c]] = Absent
        BY <2>3, <3>1, <3>2 DEF ServerSave, OpenFile, Carries
      <4>2. <<>> \in Seq(Buffer)  OBVIOUS
      <4> QED BY <3>1, <4>1, <4>2
    <3>3. CASE hasName[c]
      <4> DEFINE s == disk[FileName[c]]
                 t == Append(s, sBuf[c])
      <4>1. s \in Seq(Buffer) /\ sBuf[c] \in Buffer
        BY <1>1, <3>1, <3>3 DEF IInv, TypeOK, OwnFile, File
      <4>2. disk' = [disk EXCEPT ![FileName[c]] = t]
        BY <2>3, <3>1, <3>3 DEF ServerSave, WriteFile, OwnFile
      <4>3. t \in Seq(Buffer) /\ IsPrefixOf(s, t)
        BY <4>1 DEF IsPrefixOf
      <4> QED BY <3>1, <4>2, <4>3
    <3> QED BY <3>2, <3>3
  <2>5. CASE n = m
    <3>1. disk'[n] = t  BY <2>1, <2>4, <2>5
    <3> QED BY <2>4, <2>5, <3>1, DataAssumption
  <2>6. CASE n # m
    <3>1. disk'[n] = disk[n]  BY <2>1, <2>4, <2>6
    <3>2. IsPrefixOf(disk[n], disk[n])  BY <2>2 DEF IsPrefixOf
    <3> QED BY <3>1, <3>2
  <2> QED BY <2>5, <2>6
<1>2. IInv /\ [Next]_vars => [\A n \in Names : Grows(n)]_disk
  BY <1>1
<1> QED BY <1>2, Invariance, PTL DEF Spec, FilesOnlyGrow
-----------------------------------------------------------------------------
(***************************************************************************)
(* FileTransfer implements FileCopy: every step of every thread, the NIC   *)
(* and the environment is a step of the abstract copy or leaves it alone.  *)
(***************************************************************************)
USE DEF clientVars, wireVars, ctxVars, fileVars, serverVars, runVars

\* The refinement mapping of Copy.
Opened  == {c \in Clients : hasName[c]}
Outcome == [c \in Clients |->
               IF client[c] = "closing" THEN "done"
               ELSE IF client[c] \in Ended THEN "over" ELSE "copying"]

\* A step that changes no file, no name and no client's outcome is a stutter.
LEMMA Stutter ==
    ASSUME UNCHANGED <<disk, hasName>>,
           \A c \in Clients :
               \/ client'[c] = client[c]
               \/ client[c] \notin Ended \cup {"closing"}
                  /\ client'[c] \notin Ended \cup {"closing"}
    PROVE  UNCHANGED Copy!vars
<1>1. Opened' = Opened  BY DEF Opened
<1>2. Outcome' = Outcome  BY DEF Outcome
<1> QED BY <1>1, <1>2 DEF Copy!vars, Opened, Outcome

\* A process that ends leaves.
LEMMA Leaves ==
    ASSUME IInv, NEW c \in Clients, client[c] \notin Ended, NEW e \in Ended,
           client' = [client EXCEPT ![c] = e], UNCHANGED <<disk, hasName>>
    PROVE  Copy!Next
<1>1. Outcome[c] # "over" /\ Outcome' = [Outcome EXCEPT ![c] = "over"]
  <2>1. \A d \in Clients : client'[d] = IF d = c THEN e ELSE client[d]
    BY DEF IInv, TypeOK
  <2>2. e # "closing"  BY DEF Ended
  <2> QED BY <2>1, <2>2 DEF Outcome
<1>2. Opened' = Opened  BY DEF Opened
<1> QED BY <1>1, <1>2 DEF Copy!Next, Copy!Leave, Opened, Outcome

LEMMA ClientRefines ==
    ASSUME IInv, NEW c \in Clients,
           ClientEventLoop(c) \/ ClientPoller(c) \/ ClientCrash(c) \/ Nic(c)
    PROVE  Copy!Next \/ UNCHANGED Copy!vars
<1>1. CASE ClientAddrResolved(c) \/ ClientRouteResolved(c) \/ ClientEstablished(c)
  <2>1. /\ client[c] \in Connecting /\ client'[c] \in Connecting \cup {"up"}
        /\ \A d \in Clients : d # c => client'[d] = client[d]
        /\ UNCHANGED <<disk, hasName>>
    BY <1>1 DEF ClientAddrResolved, ClientRouteResolved, ClientEstablished,
       Connecting, IInv, TypeOK
  <2> QED BY <2>1, Stutter DEF Connecting, Ended
<1>2. CASE ClientUnknownEvent(c) \/ ClientDisconnected(c) \/ ClientCrash(c)
  <2>1. /\ client[c] \notin Ended
        /\ \E e \in Ended : client' = [client EXCEPT ![c] = e]
        /\ UNCHANGED <<disk, hasName>>
    BY <1>2 DEF ClientUnknownEvent, ClientDisconnected, ClientCrash, Connecting, Ended
  <2> QED BY <2>1, Leaves
<1>3. CASE ClientPoll(c)
  <2>1. CASE client' = client
    BY <1>3, <2>1, Stutter DEF ClientPoll
  <2>2. CASE client' = [client EXCEPT ![c] = "failed"]
    <3>1. client[c] \notin Ended /\ "failed" \in Ended /\ UNCHANGED <<disk, hasName>>
      BY <1>3 DEF ClientPoll, Alive, Ended
    <3> QED BY <2>2, <3>1, Leaves
  <2> QED BY <1>3, <2>1, <2>2 DEF ClientPoll
<1>4. CASE ClientSendDone(c) \/ ClientHandleMessage(c) \/ ClientRearm(c) \/ Nic(c)
  BY <1>4, Stutter DEF ClientSendDone, ClientHandleMessage, ClientRearm, Nic,
     DeliverWrite, AckWrite, WriteFails, DeliverSend, AckSend, SendFails
<1>5. CASE ClientDone(c)
  <2>1. /\ hasName[c] /\ disk[FileName[c]] = Content(c)
        /\ client[c] \in {"up", "closing"}
        /\ \A d \in Clients : client'[d] = IF d = c THEN "closing" ELSE client[d]
        /\ UNCHANGED <<disk, hasName>>
    <3>1. Complete(c)
      BY <1>5 DEF ClientDone, IInv, Local, Progress, Reading, Tells
    <3>2. /\ client[c] \in {"up", "closing"} /\ UNCHANGED <<disk, hasName>>
          /\ \A d \in Clients : client'[d] = IF d = c THEN "closing" ELSE client[d]
      BY <1>5 DEF ClientDone, Alive, IInv, TypeOK
    <3> QED BY <3>1, <3>2, CompleteContent
  <2>2. CASE client[c] = "closing"
    BY <2>1, <2>2, Stutter
  <2>3. CASE client[c] = "up"
    <3>1. Outcome[c] = "copying" /\ Outcome' = [Outcome EXCEPT ![c] = "done"]
      BY <2>1, <2>3 DEF Outcome, Ended
    <3>2. c \in Opened /\ Opened' = Opened  BY <2>1 DEF Opened
    <3>3. Copy!Content(c) = Content(c)  BY DEF Content, Copy!Content
    <3> QED BY <2>1, <3>1, <3>2, <3>3 DEF Copy!Next, Copy!Finish, Opened, Outcome
  <2> QED BY <2>1, <2>2, <2>3
<1> QED BY <1>1, <1>2, <1>3, <1>4, <1>5 DEF ClientEventLoop, ClientPoller

\* The first save of a connection is Create, the others are Grow.
LEMMA SaveRefines ==
    ASSUME IInv, NEW c \in Clients, ServerSave(c) PROVE Copy!Next
<1>1. /\ Carries(c, sBuf[c]) /\ conn[c] = "up" /\ OwnFile(c) /\ TypeOK
      /\ FileName[c] \in Names /\ FileLen[c] \in Nat /\ client' = client
  BY SavingState, ConstantsAssumption DEF IInv, Local
<1>2. Outcome' = Outcome  BY <1>1 DEF Outcome
<1>3. CASE ~hasName[c]
  <2>1. /\ disk' = [disk EXCEPT ![FileName[c]] = <<>>]
        /\ disk[FileName[c]] = Absent
        /\ hasName' = [hasName EXCEPT ![c] = TRUE]
    BY <1>1, <1>3 DEF ServerSave, OpenFile, Carries
  <2>2. c \notin Opened /\ Opened' = Opened \cup {c}
    BY <1>1, <1>3, <2>1 DEF Opened, TypeOK
  <2> QED BY <1>2, <2>1, <2>2 DEF Copy!Next, Copy!Create, Opened, Outcome
<1>4. CASE hasName[c]
  <2> DEFINE s == disk[FileName[c]]
  <2>1. /\ sBuf[c] = <<c, Len(s) + 1>> /\ Len(s) + 1 <= FileLen[c]
        /\ s \in Seq(Buffer)
    BY <1>1, <1>4 DEF Carries, OwnFile, File
  <2>2. Len(s) < FileLen[c]
    BY <1>1, <2>1
  <2>3. /\ disk' = [disk EXCEPT ![FileName[c]] = Append(s, <<c, Len(s) + 1>>)]
        /\ hasName' = hasName
    BY <1>1, <1>4, <2>1 DEF ServerSave, WriteFile, OwnFile
  <2>4. c \in Opened /\ Opened' = Opened  BY <1>4, <2>3 DEF Opened
  <2> QED BY <1>2, <2>2, <2>3, <2>4 DEF Copy!Next, Copy!Grow, Opened, Outcome
<1> QED BY <1>3, <1>4

LEMMA ServerRefines ==
    ASSUME IInv, ServerEventLoop \/ ServerPoller
    PROVE  Copy!Next \/ UNCHANGED Copy!vars
<1>1. CASE ServerEventLoop
  <2>1. UNCHANGED <<client, disk, hasName>>
    <3>1. PICK c \in Clients : \/ ConnectRequest(c) \/ Established(c)
                               \/ UnknownEvent(c) \/ Disconnected(c)
      BY <1>1 DEF ServerEventLoop
    <3>2. CASE ConnectRequest(c)
      <4>1. ~hasName[c]  BY <3>2 DEF ConnectRequest, IInv, Local, Fresh
      <4> QED BY <3>2, <4>1 DEF ConnectRequest, IInv, TypeOK
    <3> QED BY <3>1, <3>2 DEF Established, UnknownEvent, Disconnected
  <2> QED BY <2>1, Stutter
<1>2. ASSUME NEW c \in Clients, ServerSave(c) PROVE Copy!Next
  BY <1>2, SaveRefines
<1>3. CASE ServerPoller
  <2>1. PICK c \in Clients : \/ ServerPoll(c) \/ ServerSendDone(c) \/ ServerSave(c)
                             \/ ServerSaveFails(c) \/ ServerReady(c) \/ ServerDone(c)
                             \/ ServerStaleContext(c)
    BY <1>3 DEF ServerPoller
  <2>2. ServerSave(c) \/ UNCHANGED <<client, disk, hasName>>
    BY <2>1 DEF ServerPoll, ServerSendDone, ServerSaveFails, ServerReady, ServerDone,
       ServerStaleContext, Die
  <2> QED BY <1>2, <2>2, Stutter
<1> QED BY <1>1, <1>3

\* The transfer as a whole, with crashes, failures and late acknowledgements,
\* is a copy that may stop: files appear once, grow by the client's next chunk
\* and are complete when DONE reaches the client.
THEOREM Refinement ==
    ASSUME GarbageFds \cap Fds = {} PROVE Spec => ImplementsFileCopy
<1>1. Init => Copy!Init
  <2> SUFFICES ASSUME Init PROVE Copy!Init
    OBVIOUS
  <2>1. Opened = {}  BY DEF Init, Opened
  <2>2. Outcome = [c \in Clients |-> "copying"]  BY DEF Init, Outcome, Ended
  <2> QED BY <2>1, <2>2 DEF Init, Copy!Init, Opened, Outcome
<1>2. IInv /\ [Next]_vars => [Copy!Next]_(Copy!vars)
  <2> SUFFICES ASSUME IInv, [Next]_vars PROVE Copy!Next \/ UNCHANGED Copy!vars
    OBVIOUS
  <2>1. CASE UNCHANGED vars \/ Rest
    BY <2>1, Stutter DEF Rest, vars
  <2>2. CASE ServerEventLoop \/ ServerPoller
    BY <2>2, ServerRefines
  <2>3. ASSUME NEW c \in Clients,
               ClientEventLoop(c) \/ ClientPoller(c) \/ ClientCrash(c) \/ Nic(c)
        PROVE  Copy!Next \/ UNCHANGED Copy!vars
    BY <2>3, ClientRefines
  <2> QED BY <2>1, <2>2, <2>3 DEF Next
<1> QED BY <1>1, <1>2, Invariance, PTL DEF Spec, ImplementsFileCopy, Copy!Spec

-----------------------------------------------------------------------------
(***************************************************************************)
(* With acknowledgements in order: buffers are left alone, and without     *)
(* faults nobody dies.                                                     *)
(***************************************************************************)
\* Requests of the client, and of the server, that are posted or have a
\* completion in the queue.
Requests(c) == Len(cCq[c]) + cUnacked[c] + Len(cSq[c])
Answers(c)  == Len(sCq[c]) + sUnacked[c] + sSq[c]

\* The client posts one receive and one write at a time: the write has
\* completed before the answer comes, and both completions have been polled
\* before the next is posted.
ClientPace(c) ==
    /\ cRecv[c] <= 1
    /\ Replied(c) \/ cHand[c] \in {"recv", "rearm"} => cRecv[c] = 0
    /\ cHand[c] = "rearm" => ~Replied(c)
    /\ client[c] \in Connecting => cHand[c] = "none"
    /\ client[c] = "resolving" => cRecv[c] = 0
    /\ Replied(c) => /\ cUnacked[c] = 0 /\ Len(cCq[c]) <= 2
                     /\ cCq[c][Len(cCq[c])] = "recv"
    /\ ~Replied(c) => Requests(c) <= 1
    /\ Reading(c) => cCq[c] = <<>> /\ cUnacked[c] = 0

\* So does the server.
Early == {"none", "requested", "accepted", "confirmed"}

ServerPace(c) ==
    /\ sRecv[c] <= 1
    /\ Written(c) \/ Saving(c) => sRecv[c] = 0
    /\ conn[c] \in {"none", "requested"} => sRecv[c] = 0
    /\ conn[c] \in Early => sCq[c] = <<>> /\ sUnacked[c] = 0
    /\ Written(c) => /\ sUnacked[c] = 0 /\ Len(sCq[c]) <= 2
                     /\ sCq[c][Len(sCq[c])] \in Imm
    /\ ~Written(c) => Answers(c) <= 1
    /\ Saving(c) => sCq[c] = <<>> /\ sUnacked[c] = 0

Pace == \A c \in Clients : ClientPace(c) /\ ServerPace(c)

\* What they say depends on these values of the connection.
ClientSide(c) == <<client[c], cRecv[c], cCq[c], cHand[c], cUnacked[c], cSq[c]>>
ServerSide(c) == <<conn[c], sRecv[c], sCq[c], sHand[c], sUnacked[c], sSq[c]>>

LEMMA ClientPaceSame ==
    ASSUME NEW c \in Clients, ClientPace(c), ClientSide(c)' = ClientSide(c)
    PROVE  ClientPace(c)'
BY DEF ClientPace, ClientSide, Replied, Reading, Requests

LEMMA ServerPaceSame ==
    ASSUME NEW c \in Clients, ServerPace(c), ServerSide(c)' = ServerSide(c)
    PROVE  ServerPace(c)'
BY DEF ServerPace, ServerSide, Written, Saving, Answers

LEMMA PaceOf ==
    ASSUME Pace, NEW c \in Clients, ClientPace(c)', ServerPace(c)',
           \A d \in Clients : d # c =>
               ClientSide(d)' = ClientSide(d) /\ ServerSide(d)' = ServerSide(d)
    PROVE  Pace'
<1> SUFFICES ASSUME NEW d \in Clients, d # c PROVE ClientPace(d)' /\ ServerPace(d)'
  BY DEF Pace
<1> QED BY ClientPaceSame, ServerPaceSame DEF Pace

LEMMA ZeroOrOne ==
    /\ \A n \in Nat : n <= 1 /\ n # 0 => n = 1
    /\ \A i, j, k \in Nat : i + j + k <= 1 => i <= 1 /\ j <= 1 /\ k <= 1
OBVIOUS

\* What the types and the turns say of a connection.
LEMMA Turns ==
    ASSUME IInv, NEW c \in Clients
    PROVE  /\ cRecv[c] \in Nat /\ cUnacked[c] \in Nat
           /\ cCq[c] \in Seq(ClientWc) /\ Len(cCq[c]) \in Nat
           /\ cSq[c] \in Seq(Imm) /\ Len(cSq[c]) \in Nat
           /\ sRecv[c] \in Nat /\ sUnacked[c] \in Nat /\ sSq[c] \in Nat
           /\ sCq[c] \in Seq(ServerWc) /\ Len(sCq[c]) \in Nat
           /\ AtMostOne(cCq[c], {"recv"}) /\ AtMostOne(sCq[c], Imm)
           /\ OneTurn(c) /\ Fresh(c)
<1>1. /\ cRecv[c] \in Nat /\ cUnacked[c] \in Nat
      /\ cCq[c] \in Seq(ClientWc) /\ cSq[c] \in Seq(Imm)
      /\ sRecv[c] \in Nat /\ sUnacked[c] \in Nat /\ sSq[c] \in Nat
      /\ sCq[c] \in Seq(ServerWc)
  BY DEF IInv, TypeOK
<1>2. Len(cCq[c]) \in Nat /\ Len(cSq[c]) \in Nat /\ Len(sCq[c]) \in Nat
  BY <1>1
<1>3. OneTurn(c) /\ Fresh(c)
  BY DEF IInv, Local
<1>4. AtMostOne(cCq[c], {"recv"}) /\ AtMostOne(sCq[c], Imm)
  BY <1>3 DEF OneTurn
<1> QED BY <1>1, <1>2, <1>3, <1>4

\* A queue whose last element alone is of a kind, before and after its first
\* element is taken.
LEMMA LastStays ==
    ASSUME NEW T, NEW s \in Seq(T), s # <<>>, NEW X, AtMostOne(s, X), s[Len(s)] \in X
    PROVE  /\ Head(s) \in X => Tail(s) = <<>>
           /\ Head(s) \notin X => /\ Tail(s)[Len(Tail(s))] \in X
                                  /\ Has(Tail(s), X)
<1>1. /\ Len(s) \in Nat \ {0} /\ Tail(s) \in Seq(T) /\ Len(Tail(s)) = Len(s) - 1
      /\ \A i \in 1 .. Len(Tail(s)) : Tail(s)[i] = s[i + 1]
      /\ Head(s) = s[1]
  OBVIOUS
<1>2. 1 \in 1 .. Len(s) /\ Len(s) \in 1 .. Len(s)
  BY <1>1
<1>3. ASSUME Head(s) \in X PROVE Tail(s) = <<>>
  <2>1. Len(s) = 1  BY <1>1, <1>2, <1>3 DEF AtMostOne
  <2>2. Len(s) <= 1  BY <2>1
  <2> QED BY <2>2, Singleton
<1>4. ASSUME Head(s) \notin X
      PROVE  Tail(s)[Len(Tail(s))] \in X /\ Has(Tail(s), X)
  <2>1. Len(s) # 1  BY <1>1, <1>4
  <2>2. Len(Tail(s)) \in 1 .. Len(Tail(s)) /\ Len(Tail(s)) + 1 = Len(s)
    BY <1>1, <2>1
  <2>3. Tail(s)[Len(Tail(s))] = s[Len(s)]  BY <1>1, <2>2
  <2> QED BY <2>2, <2>3 DEF Has
<1> QED BY <1>3, <1>4

\* The event loops.
LEMMA ClientLoopPace ==
    ASSUME IInv, Pace, NEW c \in Clients, ClientEventLoop(c) \/ ClientCrash(c)
    PROVE  Pace'
<1>1. ClientPace(c) /\ ServerPace(c) /\ Fresh(c) /\ TypeOK
  BY Turns DEF Pace, IInv
<1>2. CASE ClientAddrResolved(c)
  <2>1. /\ client[c] = "resolving" /\ client'[c] = "routing" /\ cRecv'[c] = cRecv[c] + 1
        /\ UNCHANGED <<cCq, cHand, wireVars, serverVars>>
    BY <1>1, <1>2 DEF ClientAddrResolved, TypeOK
  <2>2. ~Replied(c) /\ ~Reading(c) /\ cHand[c] = "none" /\ cRecv[c] = 0
    BY <1>1, <2>1 DEF Fresh, ClientPace, Connecting
  <2>3. cRecv'[c] = 1
    BY <2>1, <2>2
  <2>4. ClientPace(c)'
    BY <1>1, <2>1, <2>2, <2>3 DEF ClientPace, Replied, Reading, Requests
  <2>5. \A d \in Clients : d # c => ClientSide(d)' = ClientSide(d)
    BY <1>1, <1>2 DEF ClientAddrResolved, TypeOK, ClientSide
  <2>6. \A d \in Clients : ServerSide(d)' = ServerSide(d)
    BY <2>1 DEF ServerSide
  <2> QED BY <1>1, <2>4, <2>5, <2>6, ServerPaceSame, PaceOf
<1>3. CASE ~ClientAddrResolved(c)
  <2>1. /\ client'[c] \in Connecting => client[c] \in Connecting
        /\ client'[c] # "resolving"
        /\ conn'[c] = conn[c] \/ (conn[c] = "accepted" /\ conn'[c] = "confirmed")
              \/ (conn[c] \in {"none", "requested"} /\ conn'[c] = "requested")
        /\ UNCHANGED <<cRecv, cCq, cHand, wireVars, sRecv, sCq, sHand>>
    BY <1>1, <1>3 DEF ClientEventLoop, ClientRouteResolved, ClientEstablished,
       ClientUnknownEvent, ClientDisconnected, ClientCrash, TypeOK, Connecting, Ended,
       Fresh
  <2>2. ClientPace(c)'
    BY <1>1, <2>1 DEF ClientPace, Replied, Reading, Requests
  <2>3. ServerPace(c)'
    BY <1>1, <2>1 DEF ServerPace, Written, Saving, Answers, Early
  <2>4. \A d \in Clients : d # c =>
           ClientSide(d)' = ClientSide(d) /\ ServerSide(d)' = ServerSide(d)
    <3>1. \A d \in Clients : d # c => client'[d] = client[d] /\ conn'[d] = conn[d]
      BY <1>1, <1>3 DEF ClientEventLoop, ClientRouteResolved, ClientEstablished,
         ClientUnknownEvent, ClientDisconnected, ClientCrash, TypeOK
    <3> QED BY <2>1, <3>1 DEF ClientSide, ServerSide
  <2> QED BY <2>2, <2>3, <2>4, PaceOf
<1> QED BY <1>2, <1>3

\* The client's poller.
LEMMA ClientPollPace ==
    ASSUME IInv, Pace, NEW c \in Clients, ClientPoll(c) PROVE Pace'
<1>1. ClientPace(c) /\ ServerPace(c) /\ TypeOK
  BY DEF Pace, IInv
<1>2. /\ cCq[c] # <<>> /\ cHand[c] = "none"
      /\ cCq'[c] = Tail(cCq[c])
      /\ \/ Head(cCq[c]) = "error" /\ client'[c] = "failed" /\ cHand'[c] = "none"
         \/ client'[c] = client[c] /\ client[c] \notin Connecting
            /\ cHand'[c] = Head(cCq[c])
      /\ UNCHANGED <<cRecv, wireVars, serverVars>>
  BY <1>1 DEF ClientPoll, TypeOK, Alive, Connecting
<1>3. /\ cCq[c] \in Seq(ClientWc) /\ Len(cCq[c]) \in Nat \ {0}
      /\ Head(cCq[c]) \in ClientWc
      /\ Len(cCq'[c]) = Len(cCq[c]) - 1
  <2>1. cCq[c] \in Seq(ClientWc)  BY Turns
  <2> QED BY <1>2, <2>1
<1>4. Has(cCq[c], {"recv"}) <=> Head(cCq[c]) = "recv" \/ Has(cCq'[c], {"recv"})
  BY <1>2, <1>3, HasTail
<1>5. /\ cUnacked[c] \in Nat /\ Len(cSq[c]) \in Nat /\ OneTurn(c)
      /\ AtMostOne(cCq[c], {"recv"})
  BY Turns
<1>6. ASSUME Replied(c) PROVE ClientPace(c)'
  <2>1. /\ cUnacked[c] = 0 /\ Len(cCq[c]) <= 2 /\ cCq[c][Len(cCq[c])] = "recv"
        /\ cRecv[c] = 0 /\ cSq[c] = <<>>
    BY <1>1, <1>5, <1>6 DEF ClientPace, OneTurn, Writing
  <2>2. /\ Head(cCq[c]) \in {"recv"} => cCq'[c] = <<>>
        /\ Head(cCq[c]) \notin {"recv"} =>
              cCq'[c][Len(cCq'[c])] \in {"recv"} /\ Has(cCq'[c], {"recv"})
    BY <1>2, <1>3, <1>5, <2>1, LastStays
  <2>3. CASE Head(cCq[c]) = "recv"
    <3>1. cCq'[c] = <<>> /\ ~Replied(c)'
      BY <2>2, <2>3, HasEmpty DEF Replied
    <3>2. Requests(c)' <= 1
      BY <1>2, <2>1, <3>1 DEF Requests
    <3>3. client'[c] \notin Connecting
      BY <1>2, <2>3 DEF Connecting
    <3> QED BY <1>1, <1>2, <2>1, <3>1, <3>2, <3>3 DEF ClientPace, Connecting
  <2>4. CASE Head(cCq[c]) # "recv"
    <3>1. Replied(c)' /\ cCq'[c][Len(cCq'[c])] = "recv"
      BY <2>2, <2>4 DEF Replied
    <3>2. Len(cCq'[c]) <= 2
      BY <1>3, <2>1
    <3>3. cHand'[c] \notin {"recv", "rearm"} /\ client'[c] \notin Connecting
      BY <1>2, <1>3, <2>4 DEF ClientWc, Connecting
    <3> QED BY <1>1, <1>2, <2>1, <3>1, <3>2, <3>3
               DEF ClientPace, Connecting, Reading
  <2> QED BY <2>3, <2>4
<1>7. ASSUME ~Replied(c) PROVE ClientPace(c)'
  <2>1. ~Replied(c)' /\ Head(cCq[c]) # "recv"
    BY <1>4, <1>7 DEF Replied
  <2>2. Requests(c)' <= 1
    <3>1. Requests(c) <= 1  BY <1>1, <1>7 DEF ClientPace
    <3>2. cUnacked'[c] = cUnacked[c] /\ cSq'[c] = cSq[c]  BY <1>2
    <3> QED BY <1>3, <1>5, <3>1, <3>2 DEF Requests
  <2>3. cHand'[c] \notin {"recv", "rearm"} /\ client'[c] \notin Connecting
    BY <1>2, <1>3, <2>1 DEF ClientWc, Connecting
  <2>4. cRecv'[c] <= 1
    BY <1>1, <1>2 DEF ClientPace
  <2> QED BY <2>1, <2>2, <2>3, <2>4 DEF ClientPace, Connecting, Reading
<1>8. ServerPace(c)'
  BY <1>1, <1>2, ServerPaceSame DEF ServerSide
<1>9. \A d \in Clients : d # c =>
         ClientSide(d)' = ClientSide(d) /\ ServerSide(d)' = ServerSide(d)
  BY <1>1 DEF ClientPoll, TypeOK, ClientSide, ServerSide
<1> QED BY <1>6, <1>7, <1>8, <1>9, PaceOf

LEMMA ClientHandlerPace ==
    ASSUME IInv, Pace, NEW c \in Clients,
           ClientSendDone(c) \/ ClientHandleMessage(c) \/ ClientRearm(c) \/ ClientDone(c)
    PROVE  Pace'
<1>1. ClientPace(c) /\ ServerPace(c) /\ TypeOK
  BY DEF Pace, IInv
<1>2. OneTurn(c) /\ cSq[c] \in Seq(Imm) /\ cRecv[c] \in Nat /\ cUnacked[c] \in Nat
  BY Turns
<1>3. client[c] \notin Connecting
  BY DEF ClientSendDone, ClientHandleMessage, ClientRearm, ClientDone, Alive, Connecting
<1>4. CASE ClientSendDone(c)
  <2>1. /\ cHand'[c] = "none"
        /\ UNCHANGED <<client, cRecv, cCq, wireVars, serverVars>>
    BY <1>1, <1>4 DEF ClientSendDone, TypeOK
  <2>2. ClientPace(c)'
    BY <1>1, <2>1 DEF ClientPace, Replied, Reading, Requests
  <2>3. ServerPace(c)'
    BY <1>1, <2>1, ServerPaceSame DEF ServerSide
  <2>4. \A d \in Clients : d # c =>
           ClientSide(d)' = ClientSide(d) /\ ServerSide(d)' = ServerSide(d)
    BY <1>1, <1>4 DEF ClientSendDone, TypeOK, ClientSide, ServerSide
  <2> QED BY <2>2, <2>3, <2>4, PaceOf
<1>5. CASE ClientHandleMessage(c)
  <2>1. /\ Reading(c) /\ cHand'[c] = "rearm"
        /\ UNCHANGED <<client, cRecv, cCq, cUnacked, sSq, sUnacked, serverVars>>
    BY <1>1, <1>5 DEF ClientHandleMessage, TypeOK, Reading
  <2>2. cSq[c] = <<>> /\ cCq[c] = <<>> /\ cUnacked[c] = 0 /\ cRecv[c] = 0
    BY <1>1, <1>2, <2>1 DEF OneTurn, Writing, ClientPace, Reading
  <2>3. \E x \in Imm : cSq' = [cSq EXCEPT ![c] = Append(cSq[c], x)]
    BY <1>5 DEF ClientHandleMessage, SendFileName, SendNextChunk, Imm
  <2>4. Len(cSq'[c]) = 1
    BY <1>1, <2>2, <2>3 DEF TypeOK
  <2>5. Requests(c)' <= 1
    BY <2>1, <2>2, <2>4 DEF Requests
  <2>6. ~Replied(c)'
    BY <2>1, <2>2, HasEmpty DEF Replied
  <2>7. ClientPace(c)'
    BY <1>1, <1>3, <2>1, <2>2, <2>5, <2>6 DEF ClientPace, Reading, Connecting
  <2>8. ServerPace(c)'
    BY <1>1, <2>1, ServerPaceSame DEF ServerSide
  <2>9. \A d \in Clients : d # c =>
           ClientSide(d)' = ClientSide(d) /\ ServerSide(d)' = ServerSide(d)
    BY <1>1, <1>5, <2>3 DEF ClientHandleMessage, TypeOK, ClientSide, ServerSide
  <2> QED BY <2>7, <2>8, <2>9, PaceOf
<1>6. CASE ClientRearm(c)
  <2>1. /\ cHand[c] = "rearm" /\ cHand'[c] = "none" /\ cRecv'[c] = cRecv[c] + 1
        /\ UNCHANGED <<client, cCq, wireVars, serverVars>>
    BY <1>1, <1>6 DEF ClientRearm, TypeOK
  <2>2. cRecv[c] = 0 /\ ~Replied(c)
    BY <1>1, <2>1 DEF ClientPace
  <2>3. cRecv'[c] <= 1
    BY <2>1, <2>2
  <2>4. ClientPace(c)'
    BY <1>1, <1>3, <2>1, <2>2, <2>3
    DEF ClientPace, Replied, Reading, Requests, Connecting
  <2>5. ServerPace(c)'
    BY <1>1, <2>1, ServerPaceSame DEF ServerSide
  <2>6. \A d \in Clients : d # c =>
           ClientSide(d)' = ClientSide(d) /\ ServerSide(d)' = ServerSide(d)
    BY <1>1, <1>6 DEF ClientRearm, TypeOK, ClientSide, ServerSide
  <2> QED BY <2>4, <2>5, <2>6, PaceOf
<1>7. CASE ClientDone(c)
  <2>1. Reading(c)
    BY <1>7 DEF ClientDone, Reading
  <2>2. cSq[c] = <<>> /\ cCq[c] = <<>> /\ cUnacked[c] = 0 /\ cRecv[c] = 0
    BY <1>1, <1>2, <2>1 DEF OneTurn, Writing, ClientPace, Reading
  <2>3. /\ client'[c] = "closing" /\ cHand'[c] = "none" /\ cCq'[c] = <<>>
        /\ cSq'[c] = <<>> /\ cUnacked'[c] = 0 /\ cRecv'[c] = 0
        /\ UNCHANGED <<sSq, sUnacked, serverVars>>
    BY <1>1, <1>7, <2>2 DEF ClientDone, TypeOK
  <2>4. ~Replied(c)'
    BY <2>3, HasEmpty DEF Replied
  <2>5. Requests(c)' <= 1
    BY <2>3 DEF Requests
  <2>6. ClientPace(c)'
    BY <2>3, <2>4, <2>5 DEF ClientPace, Reading, Connecting
  <2>7. ServerPace(c)'
    BY <1>1, <2>3, ServerPaceSame DEF ServerSide
  <2>8. \A d \in Clients : d # c =>
           ClientSide(d)' = ClientSide(d) /\ ServerSide(d)' = ServerSide(d)
    BY <1>1, <1>7 DEF ClientDone, TypeOK, ClientSide, ServerSide
  <2> QED BY <2>6, <2>7, <2>8, PaceOf
<1> QED BY <1>4, <1>5, <1>6, <1>7

\* The NIC.  A write is delivered when the last SEND is acknowledged.
LEMMA DeliverWritePace ==
    ASSUME AcksInOrder, IInv, Pace, NEW c \in Clients, DeliverWrite(c) PROVE Pace'
<1>1. ClientPace(c) /\ ServerPace(c) /\ TypeOK
  BY DEF Pace, IInv
<1>2. /\ OneTurn(c) /\ Fresh(c) /\ cSq[c] \in Seq(Imm) /\ sCq[c] \in Seq(ServerWc)
      /\ sRecv[c] \in Nat /\ cUnacked[c] \in Nat /\ sSq[c] \in Nat
      /\ Len(cCq[c]) \in Nat /\ Len(sCq[c]) \in Nat /\ Len(cSq[c]) \in Nat
  BY Turns
<1>3. PICK x : x = Head(cSq[c])
  OBVIOUS
<1>4. /\ Writing(c) /\ sUnacked[c] = 0 /\ sRecv[c] > 0
      /\ cSq'[c] = Tail(cSq[c]) /\ cUnacked'[c] = cUnacked[c] + 1
      /\ sRecv'[c] = sRecv[c] - 1 /\ sCq'[c] = Append(sCq[c], x)
      /\ UNCHANGED <<clientVars, sSq, sUnacked, conn, sHand>>
  BY <1>1, <1>3 DEF DeliverWrite, Writing, TypeOK
<1>5. /\ ~Written(c) /\ ~Saving(c) /\ ~Replying(c) /\ ~Replied(c) /\ ~Reading(c)
      /\ conn[c] \notin Early
  BY <1>2, <1>4 DEF OneTurn, Fresh, Early
<1>6. x \in Imm /\ x \in ServerWc /\ cSq'[c] = <<>> /\ Len(cSq[c]) = 1
  <2>1. Len(cSq[c]) <= 1 /\ cSq[c] # <<>>
    BY <1>2, <1>4 DEF OneTurn, Writing
  <2>2. x \in Imm /\ Tail(cSq[c]) = <<>>
    BY <1>2, <1>3, <2>1, Singleton
  <2>3. x \in ServerWc
    BY <2>2 DEF ServerWc
  <2>4. Len(cSq[c]) = 1
    <3>1. Len(cSq[c]) # 0  BY <1>2, <2>1
    <3>2. Len(cSq[c]) \in Nat /\ Len(cSq[c]) <= 1  BY <1>2, <2>1
    <3> QED BY <3>1, <3>2, ZeroOrOne
  <2> QED BY <1>4, <2>2, <2>3, <2>4
<1>7. ClientPace(c)'
  <2>1. ~Replied(c)' /\ ~Reading(c)' /\ Requests(c) <= 1
    BY <1>1, <1>4, <1>5 DEF ClientPace, Replied, Reading
  <2>2. Len(cCq'[c]) = Len(cCq[c]) /\ Len(cSq'[c]) = 0
    BY <1>4, <1>6
  <2>3. Requests(c)' <= 1
    <3>1. Len(cCq[c]) + cUnacked[c] + 1 <= 1
      BY <1>6, <2>1 DEF Requests
    <3>2. Len(cCq[c]) + (cUnacked[c] + 1) + 0 <= 1
      BY <1>2, <3>1
    <3> QED BY <1>4, <2>2, <3>2 DEF Requests
  <2> QED BY <1>1, <1>4, <2>1, <2>3 DEF ClientPace
<1>8. ServerPace(c)'
  <2>1. sSq[c] = 0
    BY <1>2, <1>5 DEF Replying
  <2>2. Answers(c) <= 1 /\ sRecv[c] <= 1
    BY <1>1, <1>5 DEF ServerPace
  <2>3. Len(sCq[c]) <= 1
    BY <1>2, <1>4, <2>1, <2>2 DEF Answers
  <2>4. Len(sCq'[c]) <= 2 /\ sCq'[c][Len(sCq'[c])] = x /\ sRecv'[c] = 0
    BY <1>2, <1>4, <1>6, <2>2, <2>3
  <2>5. Written(c)' /\ ~Saving(c)'
    BY <1>2, <1>4, <1>5, <1>6, HasAppend DEF Written, Saving
  <2>6. sUnacked'[c] = 0 /\ conn'[c] \notin Early /\ conn'[c] \notin {"none", "requested"}
    BY <1>4, <1>5 DEF Early
  <2>7. sRecv'[c] <= 1
    BY <2>4
  <2> QED BY <1>6, <2>4, <2>5, <2>6, <2>7 DEF ServerPace, Early
<1>9. \A d \in Clients : d # c =>
         ClientSide(d)' = ClientSide(d) /\ ServerSide(d)' = ServerSide(d)
  BY <1>1 DEF DeliverWrite, TypeOK, ClientSide, ServerSide
<1> QED BY <1>7, <1>8, <1>9, PaceOf

\* A SEND is delivered when the last write is acknowledged.
LEMMA DeliverSendPace ==
    ASSUME AcksInOrder, IInv, Pace, NEW c \in Clients, DeliverSend(c) PROVE Pace'
<1>1. ClientPace(c) /\ ServerPace(c) /\ TypeOK
  BY DEF Pace, IInv
<1>2. /\ OneTurn(c) /\ Fresh(c) /\ cCq[c] \in Seq(ClientWc)
      /\ cRecv[c] \in Nat /\ sUnacked[c] \in Nat /\ sSq[c] \in Nat
      /\ Len(cCq[c]) \in Nat /\ Len(sCq[c]) \in Nat /\ Len(cSq[c]) \in Nat
  BY Turns
<1>3. /\ Replying(c) /\ cUnacked[c] = 0 /\ cRecv[c] > 0 /\ client[c] = "up"
      /\ sSq'[c] = sSq[c] - 1 /\ sUnacked'[c] = sUnacked[c] + 1
      /\ cRecv'[c] = cRecv[c] - 1 /\ cCq'[c] = Append(cCq[c], "recv")
      /\ UNCHANGED <<client, cHand, cSq, cUnacked, serverVars>>
  BY <1>1 DEF DeliverSend, Replying, TypeOK
<1>4. /\ ~Writing(c) /\ ~Written(c) /\ ~Saving(c) /\ ~Replied(c) /\ ~Reading(c)
      /\ conn[c] \notin Early
  BY <1>2, <1>3 DEF OneTurn, Fresh, Early
<1>5. ClientPace(c)'
  <2>1. Requests(c) <= 1 /\ cRecv[c] <= 1 /\ cHand[c] \notin {"recv", "rearm"}
    <3>1. cRecv[c] # 0  BY <1>2, <1>3
    <3> QED BY <1>1, <1>4, <3>1 DEF ClientPace
  <2>2. Len(cCq[c]) <= 1
    <3>1. Len(cCq[c]) + cUnacked[c] + Len(cSq[c]) <= 1  BY <2>1 DEF Requests
    <3>2. cUnacked[c] \in Nat  BY Turns
    <3> QED BY <1>2, <3>1, <3>2, ZeroOrOne
  <2>3. Len(cCq'[c]) <= 2 /\ cCq'[c][Len(cCq'[c])] = "recv" /\ cRecv'[c] = 0
    BY <1>2, <1>3, <2>1, <2>2
  <2>4. Replied(c)' /\ ~Reading(c)'
    BY <1>2, <1>3, <1>4, HasAppend DEF Replied, Reading, ClientWc
  <2>5. client'[c] = "up" /\ cHand'[c] = cHand[c] /\ cUnacked'[c] = 0
    BY <1>3
  <2>6. cRecv'[c] <= 1
    BY <2>3
  <2> QED BY <2>1, <2>3, <2>4, <2>5, <2>6 DEF ClientPace, Connecting
<1>6. ServerPace(c)'
  <2>1. ~Written(c)' /\ ~Saving(c)' /\ Answers(c) <= 1
    BY <1>1, <1>3, <1>4 DEF ServerPace, Written, Saving
  <2>2. Answers(c)' <= 1
    <3>1. Len(sCq'[c]) = Len(sCq[c])  BY <1>3
    <3> QED BY <1>2, <1>3, <2>1, <3>1 DEF Answers
  <2> QED BY <1>1, <1>3, <1>4, <2>1, <2>2 DEF ServerPace, Early
<1>7. \A d \in Clients : d # c =>
         ClientSide(d)' = ClientSide(d) /\ ServerSide(d)' = ServerSide(d)
  BY <1>1 DEF DeliverSend, TypeOK, ClientSide, ServerSide
<1> QED BY <1>5, <1>6, <1>7, PaceOf

\* A write completes, well or badly.
LEMMA WriteCompletesPace ==
    ASSUME IInv, Pace, NEW c \in Clients, AckWrite(c) \/ WriteFails(c) PROVE Pace'
<1>1. ClientPace(c) /\ ServerPace(c) /\ TypeOK
  BY DEF Pace, IInv
<1>2. /\ OneTurn(c) /\ cCq[c] \in Seq(ClientWc) /\ cSq[c] \in Seq(Imm)
      /\ cUnacked[c] \in Nat /\ Len(cCq[c]) \in Nat /\ Len(cSq[c]) \in Nat
  BY Turns
<1>3. PICK w \in {"send", "error"} : cCq'[c] = Append(cCq[c], w)
  BY <1>1 DEF AckWrite, WriteFails, TypeOK
<1>4. /\ client[c] = "up"
      /\ \/ cUnacked[c] > 0 /\ cUnacked'[c] = cUnacked[c] - 1 /\ cSq'[c] = cSq[c]
         \/ cSq[c] # <<>> /\ cSq'[c] = <<>> /\ cUnacked'[c] = cUnacked[c]
      /\ UNCHANGED <<client, cRecv, cHand, sSq, sUnacked, serverVars>>
  BY <1>1 DEF AckWrite, WriteFails, TypeOK
<1>5. ~Replied(c) /\ ~Reading(c)
  <2>1. CASE cSq[c] # <<>>
    BY <1>2, <2>1 DEF OneTurn, Writing
  <2>2. CASE cSq[c] = <<>>
    <3>1. cUnacked[c] # 0  BY <1>2, <1>4, <2>2
    <3> QED BY <1>1, <3>1 DEF ClientPace
  <2> QED BY <2>1, <2>2
<1>6. Requests(c)' <= 1
  <2>1. Requests(c) <= 1  BY <1>1, <1>5 DEF ClientPace
  <2>2. Len(cCq'[c]) = Len(cCq[c]) + 1
    BY <1>2, <1>3 DEF ClientWc
  <2>3. CASE cUnacked[c] > 0 /\ cUnacked'[c] = cUnacked[c] - 1 /\ cSq'[c] = cSq[c]
    BY <1>2, <2>1, <2>2, <2>3 DEF Requests
  <2>4. CASE cSq[c] # <<>> /\ cSq'[c] = <<>> /\ cUnacked'[c] = cUnacked[c]
    <3>1. Len(cSq[c]) # 0 /\ Len(cSq'[c]) = 0  BY <1>2, <2>4
    <3> QED BY <1>2, <2>1, <2>2, <2>4, <3>1 DEF Requests
  <2> QED BY <1>4, <2>3, <2>4
<1>7. ~Replied(c)' /\ ~Reading(c)'
  <2>1. w \in ClientWc /\ w \notin {"recv"}  BY <1>3 DEF ClientWc
  <2> QED BY <1>2, <1>3, <1>4, <1>5, <2>1, HasAppend DEF Replied, Reading
<1>8. ClientPace(c)'
  BY <1>1, <1>4, <1>6, <1>7 DEF ClientPace
<1>9. ServerPace(c)'
  BY <1>1, <1>4, ServerPaceSame DEF ServerSide
<1>10. \A d \in Clients : d # c =>
          ClientSide(d)' = ClientSide(d) /\ ServerSide(d)' = ServerSide(d)
  BY <1>1 DEF AckWrite, WriteFails, TypeOK, ClientSide, ServerSide
<1> QED BY <1>8, <1>9, <1>10, PaceOf

\* A SEND completes, well or badly.
LEMMA SendCompletesPace ==
    ASSUME IInv, Pace, NEW c \in Clients, AckSend(c) \/ SendFails(c) PROVE Pace'
<1>1. ClientPace(c) /\ ServerPace(c) /\ TypeOK
  BY DEF Pace, IInv
<1>2. /\ OneTurn(c) /\ Fresh(c) /\ sCq[c] \in Seq(ServerWc)
      /\ sUnacked[c] \in Nat /\ sSq[c] \in Nat /\ Len(sCq[c]) \in Nat
  BY Turns
<1>3. PICK w \in {"send", "error"} : sCq'[c] = Append(sCq[c], w)
  BY <1>1 DEF AckSend, SendFails, TypeOK
<1>4. /\ \/ sUnacked[c] > 0 /\ sUnacked'[c] = sUnacked[c] - 1 /\ sSq'[c] = sSq[c]
         \/ sSq[c] > 0 /\ sSq'[c] = 0 /\ sUnacked'[c] = sUnacked[c]
      /\ UNCHANGED <<clientVars, cSq, cUnacked, conn, sRecv, sHand>>
  BY <1>1 DEF AckSend, SendFails, TypeOK
<1>5. ~Written(c) /\ ~Saving(c) /\ conn[c] \notin Early
  <2>1. CASE Replying(c)
    BY <1>2, <2>1 DEF OneTurn, Fresh, Early
  <2>2. CASE ~Replying(c)
    <3>1. sUnacked[c] # 0  BY <1>2, <1>4, <2>2 DEF Replying
    <3> QED BY <1>1, <3>1 DEF ServerPace
  <2> QED BY <2>1, <2>2
<1>6. Answers(c)' <= 1
  <2>1. Answers(c) <= 1  BY <1>1, <1>5 DEF ServerPace
  <2>2. Len(sCq'[c]) = Len(sCq[c]) + 1
    BY <1>2, <1>3 DEF ServerWc
  <2> QED BY <1>2, <1>4, <2>1, <2>2 DEF Answers
<1>7. ~Written(c)' /\ ~Saving(c)'
  <2>1. w \in ServerWc /\ w \notin Imm  BY <1>3 DEF ServerWc, Imm
  <2> QED BY <1>2, <1>3, <1>4, <1>5, <2>1, HasAppend DEF Written, Saving
<1>8. ServerPace(c)'
  BY <1>1, <1>4, <1>5, <1>6, <1>7 DEF ServerPace, Early
<1>9. ClientPace(c)'
  BY <1>1, <1>4, ClientPaceSame DEF ClientSide
<1>10. \A d \in Clients : d # c =>
          ClientSide(d)' = ClientSide(d) /\ ServerSide(d)' = ServerSide(d)
  BY SMTT(30), <1>1 DEF AckSend, SendFails, TypeOK, ClientSide, ServerSide
<1> QED BY <1>8, <1>9, <1>10, PaceOf

\* The server's event loop.
LEMMA ServerLoopPace ==
    ASSUME IInv, Pace, NEW c \in Clients,
           ConnectRequest(c) \/ Established(c) \/ UnknownEvent(c) \/ Disconnected(c)
    PROVE  Pace'
<1>1. ClientPace(c) /\ ServerPace(c) /\ TypeOK
  BY DEF Pace, IInv
<1>2. Fresh(c) /\ sSq[c] \in Nat /\ sRecv[c] \in Nat
  BY Turns
<1>3. CASE ConnectRequest(c)
  <2>1. /\ conn[c] = "requested" /\ conn'[c] = "accepted" /\ sRecv'[c] = sRecv[c] + 1
        /\ UNCHANGED <<clientVars, wireVars, sCq, sHand>>
    BY <1>1, <1>3 DEF ConnectRequest, TypeOK
  <2>2. ~Written(c) /\ ~Saving(c) /\ sRecv[c] = 0
    BY <1>1, <1>2, <2>1 DEF Fresh, ServerPace
  <2>3. sRecv'[c] <= 1
    BY <2>1, <2>2
  <2>4. conn'[c] \notin {"none", "requested"} /\ conn[c] \in Early
    BY <2>1 DEF Early
  <2>5. ServerPace(c)'
    BY <1>1, <2>1, <2>2, <2>3, <2>4 DEF ServerPace, Written, Saving, Answers
  <2>6. ClientPace(c)'
    BY <1>1, <2>1, ClientPaceSame DEF ClientSide
  <2>7. \A d \in Clients : d # c =>
           ClientSide(d)' = ClientSide(d) /\ ServerSide(d)' = ServerSide(d)
    BY <1>1, <1>3 DEF ConnectRequest, TypeOK, ClientSide, ServerSide
  <2> QED BY <2>5, <2>6, <2>7, PaceOf
<1>4. CASE Established(c)
  <2>1. /\ conn[c] = "confirmed" /\ conn'[c] = "up" /\ sSq'[c] = sSq[c] + 1
        /\ UNCHANGED <<clientVars, cSq, cUnacked, sUnacked, sRecv, sCq, sHand>>
    BY <1>1, <1>4 DEF Established, TypeOK
  <2>2. ~Written(c) /\ ~Saving(c) /\ ~Replying(c) /\ sCq[c] = <<>> /\ sUnacked[c] = 0
    BY <1>1, <1>2, <2>1 DEF Fresh, ServerPace, Early
  <2>3. sSq[c] = 0
    BY <1>2, <2>2 DEF Replying
  <2>4. sCq'[c] = <<>> /\ sUnacked'[c] = 0 /\ sSq'[c] = 1
    BY <2>1, <2>2, <2>3
  <2>5. Answers(c)' <= 1
    BY <2>4 DEF Answers
  <2>6. ~Written(c)' /\ ~Saving(c)'
    BY <2>1, <2>2 DEF Written, Saving
  <2>7. sRecv'[c] <= 1
    BY <1>1, <2>1 DEF ServerPace
  <2>8. ServerPace(c)'
    BY <2>1, <2>5, <2>6, <2>7 DEF ServerPace, Early
  <2>9. ClientPace(c)'
    BY <1>1, <2>1, ClientPaceSame DEF ClientSide
  <2>10. \A d \in Clients : d # c =>
            ClientSide(d)' = ClientSide(d) /\ ServerSide(d)' = ServerSide(d)
    BY <1>1, <1>4 DEF Established, TypeOK, ClientSide, ServerSide
  <2> QED BY <2>8, <2>9, <2>10, PaceOf
<1>5. CASE UnknownEvent(c)
  <2>1. UNCHANGED <<clientVars, wireVars, conn, sRecv, sCq, sHand>>
    BY <1>5 DEF UnknownEvent
  <2>2. \A d \in Clients : ClientSide(d)' = ClientSide(d) /\ ServerSide(d)' = ServerSide(d)
    BY <2>1 DEF ClientSide, ServerSide
  <2> QED BY <2>2, ClientPaceSame, ServerPaceSame DEF Pace
<1>6. CASE Disconnected(c)
  <2>1. /\ conn'[c] = "freed" /\ sCq'[c] = <<>> /\ sRecv'[c] = 0 /\ sSq'[c] = 0
        /\ sUnacked'[c] = 0
        /\ UNCHANGED <<clientVars, cSq, cUnacked, sHand>>
    BY <1>1, <1>6 DEF Disconnected, TypeOK
  <2>2. ~Written(c)'
    BY <2>1, HasEmpty DEF Written
  <2>3. Answers(c)' <= 1 /\ sRecv'[c] <= 1
    BY <2>1 DEF Answers
  <2>4. ServerPace(c)'
    BY <2>1, <2>2, <2>3 DEF ServerPace, Early
  <2>5. ClientPace(c)'
    BY <1>1, <2>1, ClientPaceSame DEF ClientSide
  <2>6. \A d \in Clients : d # c =>
           ClientSide(d)' = ClientSide(d) /\ ServerSide(d)' = ServerSide(d)
    BY <1>1, <1>6 DEF Disconnected, TypeOK, ClientSide, ServerSide
  <2> QED BY <2>4, <2>5, <2>6, PaceOf
<1> QED BY <1>3, <1>4, <1>5, <1>6

\* The server's poller.
LEMMA ServerPollPace ==
    ASSUME IInv, Pace, NEW c \in Clients, ServerPoll(c), Head(sCq[c]) # "error"
    PROVE  Pace'
<1>1. ClientPace(c) /\ ServerPace(c) /\ TypeOK
  BY DEF Pace, IInv
<1>2. PICK x : x = Head(sCq[c])
  OBVIOUS
<1>3. /\ sCq[c] # <<>> /\ sHand[c] = "none" /\ x # "error"
      /\ sCq'[c] = Tail(sCq[c]) /\ sHand'[c] = x
      /\ UNCHANGED <<clientVars, wireVars, conn, sRecv>>
  BY <1>1, <1>2 DEF ServerPoll, PollerIdle, TypeOK
<1>4. /\ OneTurn(c) /\ sCq[c] \in Seq(ServerWc) /\ AtMostOne(sCq[c], Imm)
      /\ sUnacked[c] \in Nat /\ sSq[c] \in Nat
  BY Turns
<1>5. /\ Len(sCq[c]) \in Nat \ {0} /\ x \in ServerWc
      /\ Len(sCq'[c]) = Len(sCq[c]) - 1
  BY <1>2, <1>3, <1>4
<1>6. Written(c) <=> x \in Imm \/ Written(c)'
  BY <1>2, <1>3, <1>4, HasTail DEF Written
<1>7. conn'[c] \notin Early /\ conn'[c] \notin {"none", "requested"}
  BY <1>1, <1>3 DEF ServerPace, Early
<1>8. ServerPace(c)'
  <2>1. CASE Written(c)
    <3>1. /\ sUnacked[c] = 0 /\ Len(sCq[c]) <= 2 /\ sCq[c][Len(sCq[c])] \in Imm
          /\ sRecv[c] = 0 /\ ~Replying(c)
      BY <1>1, <1>4, <2>1 DEF ServerPace, OneTurn
    <3>2. /\ x \in Imm => sCq'[c] = <<>>
          /\ x \notin Imm => /\ sCq'[c][Len(sCq'[c])] \in Imm
                             /\ Has(sCq'[c], Imm)
      BY <1>2, <1>3, <1>4, <3>1, LastStays
    <3>3. CASE x \in Imm
      <4>1. sCq'[c] = <<>> /\ ~Written(c)'
        BY <3>2, <3>3, HasEmpty DEF Written
      <4>2. sSq[c] = 0
        BY <1>4, <3>1 DEF Replying
      <4>3. Answers(c)' <= 1
        BY <1>3, <3>1, <4>1, <4>2 DEF Answers
      <4>4. sRecv'[c] = 0 /\ sUnacked'[c] = 0
        BY <1>3, <3>1
      <4>5. sRecv'[c] <= 1
        BY <4>4
      <4> QED BY <1>7, <4>1, <4>3, <4>4, <4>5 DEF ServerPace
    <3>4. CASE x \notin Imm
      <4>1. Written(c)' /\ sCq'[c][Len(sCq'[c])] \in Imm
        BY <3>2, <3>4 DEF Written
      <4>2. Len(sCq'[c]) <= 2
        BY <1>5, <3>1
      <4>3. ~Saving(c)'
        BY <1>3, <1>5, <3>4 DEF ServerWc, Imm, Saving
      <4>4. sRecv'[c] = 0 /\ sUnacked'[c] = 0
        BY <1>3, <3>1
      <4>5. sRecv'[c] <= 1
        BY <4>4
      <4> QED BY <1>7, <4>1, <4>2, <4>3, <4>4, <4>5 DEF ServerPace
    <3> QED BY <3>3, <3>4
  <2>2. CASE ~Written(c)
    <3>1. ~Written(c)' /\ x \notin Imm
      BY <1>6, <2>2
    <3>2. ~Saving(c)'
      BY <1>3, <1>5, <3>1 DEF ServerWc, Imm, Saving
    <3>3. Answers(c) <= 1 /\ sRecv[c] <= 1
      BY <1>1, <2>2 DEF ServerPace
    <3>4. Answers(c)' <= 1
      BY <1>3, <1>4, <1>5, <3>3 DEF Answers
    <3>5. sRecv'[c] <= 1
      BY <1>3, <3>3
    <3> QED BY <1>7, <3>1, <3>2, <3>4, <3>5 DEF ServerPace
  <2> QED BY <2>1, <2>2
<1>9. ClientPace(c)'
  BY <1>1, <1>3, ClientPaceSame DEF ClientSide
<1>10. \A d \in Clients : d # c =>
          ClientSide(d)' = ClientSide(d) /\ ServerSide(d)' = ServerSide(d)
  BY SMTT(30), <1>1, <1>3 DEF ServerPoll, TypeOK, ClientSide, ServerSide, Die
<1> QED BY <1>8, <1>9, <1>10, PaceOf

LEMMA ServerHandlerPace ==
    ASSUME IInv, Pace, NEW c \in Clients,
           ServerSendDone(c) \/ ServerSave(c) \/ ServerReady(c) \/ ServerDone(c)
    PROVE  Pace'
<1>1. ClientPace(c) /\ ServerPace(c) /\ TypeOK
  BY DEF Pace, IInv
<1>2. OneTurn(c) /\ Fresh(c) /\ sSq[c] \in Nat /\ sRecv[c] \in Nat
  BY Turns
<1>3. ClientPace(c)'
  BY <1>1, ClientPaceSame
  DEF ServerSendDone, ServerSave, ServerReady, ServerDone, ClientSide
<1>4. \A d \in Clients : d # c =>
         ClientSide(d)' = ClientSide(d) /\ ServerSide(d)' = ServerSide(d)
  BY SMTT(30), <1>1 DEF ServerSendDone, ServerSave, ServerReady, ServerDone, TypeOK, ClientSide,
     ServerSide
<1>5. CASE ServerSendDone(c) \/ ServerSave(c)
  <2>1. /\ Saving(c)' => Saving(c)
        /\ UNCHANGED <<wireVars, conn, sRecv, sCq>>
    BY <1>1, <1>5 DEF ServerSendDone, ServerSave, TypeOK, Saving
  <2>2. ServerPace(c)'
    BY <1>1, <2>1 DEF ServerPace, Written, Answers
  <2> QED BY <1>3, <1>4, <2>2, PaceOf
<1>6. CASE ServerReady(c) \/ ServerDone(c)
  <2>1. /\ Saving(c) /\ sHand'[c] = "none" /\ sSq'[c] = sSq[c] + 1
        /\ sRecv'[c] = sRecv[c] + 1 \/ sRecv'[c] = sRecv[c]
        /\ UNCHANGED <<cSq, cUnacked, sUnacked, conn, sCq>>
    BY <1>1, <1>6 DEF ServerReady, ServerDone, TypeOK, Saving
  <2>2. sRecv[c] = 0 /\ sCq[c] = <<>> /\ sUnacked[c] = 0 /\ ~Replying(c) /\ ~Written(c)
    BY <1>1, <1>2, <2>1 DEF ServerPace, OneTurn
  <2>3. sSq[c] = 0
    BY <1>2, <2>2 DEF Replying
  <2>4. sSq'[c] = 1 /\ sRecv'[c] <= 1
    BY <2>1, <2>2, <2>3
  <2>5. Answers(c)' <= 1
    BY <2>1, <2>2, <2>4 DEF Answers
  <2>6. ~Written(c)' /\ ~Saving(c)'
    BY <2>1, <2>2 DEF Written, Saving
  <2>7. conn'[c] \notin Early /\ conn'[c] \notin {"none", "requested"}
    BY <1>2, <2>1 DEF Fresh, Early
  <2>8. ServerPace(c)'
    BY <2>4, <2>5, <2>6, <2>7 DEF ServerPace
  <2> QED BY <1>3, <1>4, <2>8, PaceOf
<1> QED BY <1>5, <1>6

\* Whatever happens, the pace is kept.
LEMMA PaceUnchanged ==
    ASSUME Pace, UNCHANGED <<client, cRecv, cCq, cHand, wireVars, conn, sRecv, sCq, sHand>>
    PROVE  Pace'
<1>1. \A c \in Clients : ClientSide(c)' = ClientSide(c) /\ ServerSide(c)' = ServerSide(c)
  BY DEF ClientSide, ServerSide
<1> QED BY <1>1, ClientPaceSame, ServerPaceSame DEF Pace

LEMMA ServerKeepsPace ==
    ASSUME IInv, Pace, ServerEventLoop \/ ServerPoller PROVE Pace'
<1>1. CASE ServerEventLoop
  BY <1>1, ServerLoopPace DEF ServerEventLoop
<1>2. CASE ServerPoller
  <2>1. PICK c \in Clients : \/ ServerPoll(c) \/ ServerSendDone(c) \/ ServerSave(c)
                             \/ ServerSaveFails(c) \/ ServerReady(c) \/ ServerDone(c)
                             \/ ServerStaleContext(c)
    BY <1>2 DEF ServerPoller
  <2>2. CASE ServerSendDone(c) \/ ServerSave(c) \/ ServerReady(c) \/ ServerDone(c)
    BY <2>2, ServerHandlerPace
  <2>3. CASE ServerPoll(c) /\ Head(sCq[c]) # "error"
    BY <2>3, ServerPollPace
  <2>4. CASE Die
    BY <2>4, PaceUnchanged DEF Die
  <2> QED BY <2>1, <2>2, <2>3, <2>4 DEF ServerPoll, ServerSaveFails, ServerStaleContext
<1> QED BY <1>1, <1>2

LEMMA NextPace ==
    ASSUME AcksInOrder, IInv, Pace, [Next]_vars PROVE Pace'
<1>1. CASE UNCHANGED vars \/ Rest
  BY <1>1, PaceUnchanged DEF Rest, vars
<1>2. CASE ServerEventLoop \/ ServerPoller
  BY <1>2, ServerKeepsPace
<1>3. ASSUME NEW c \in Clients,
             ClientEventLoop(c) \/ ClientPoller(c) \/ ClientCrash(c) \/ Nic(c)
      PROVE  Pace'
  BY <1>3, ClientLoopPace, ClientPollPace, ClientHandlerPace, DeliverWritePace,
     DeliverSendPace, WriteCompletesPace, SendCompletesPace DEF ClientPoller, Nic
<1> QED BY <1>1, <1>2, <1>3 DEF Next

LEMMA InitPace == Init => Pace
<1> SUFFICES ASSUME Init, NEW c \in Clients PROVE ClientPace(c) /\ ServerPace(c)
  BY DEF Pace
<1>1. /\ client[c] = "resolving" /\ cRecv[c] = 0 /\ cCq[c] = <<>> /\ cHand[c] = "none"
      /\ cUnacked[c] = 0 /\ cSq[c] = <<>> /\ conn[c] = "none" /\ sRecv[c] = 0
      /\ sCq[c] = <<>> /\ sHand[c] = "none" /\ sUnacked[c] = 0 /\ sSq[c] = 0
  BY DEF Init
<1>2. ~Replied(c) /\ ~Written(c)
  BY <1>1, HasEmpty DEF Replied, Written
<1>3. Requests(c) <= 1 /\ Answers(c) <= 1 /\ cRecv[c] <= 1 /\ sRecv[c] <= 1
  BY <1>1 DEF Requests, Answers
<1> QED BY <1>1, <1>2, <1>3 DEF ClientPace, ServerPace, Reading, Saving, Early

LEMMA KeepsPace ==
    ASSUME AcksInOrder, GarbageFds \cap Fds = {} PROVE Spec => []Pace
<1>1. IInv /\ Pace /\ [Next]_vars => Pace'
  BY NextPace
<1> QED BY <1>1, InitPace, Invariance, PTL DEF Spec

\* What the pace says of the buffers in one state,
BuffersFree ==
    \A c \in Clients :
       /\ cHand[c] = "recv" => cRecv[c] = 0
       /\ sHand[c] = "data" /\ conn[c] # "freed" => sRecv[c] = 0
       /\ Len(cCq[c]) <= 2 /\ Len(sCq[c]) <= 2

\* and in one step.
BuffersKept ==
    \A c \in Clients :
       /\ (cSq[c] # <<>> \/ cUnacked[c] > 0) => cBuf'[c] = cBuf[c]
       /\ (sSq[c] > 0 \/ sUnacked[c] > 0) => sMsg'[c] = sMsg[c]

LEMMA PaceFrees == IInv /\ Pace => BuffersFree
<1> SUFFICES ASSUME IInv, Pace, NEW c \in Clients
             PROVE  /\ cHand[c] = "recv" => cRecv[c] = 0
                    /\ sHand[c] = "data" /\ conn[c] # "freed" => sRecv[c] = 0
                    /\ Len(cCq[c]) <= 2 /\ Len(sCq[c]) <= 2
  BY DEF BuffersFree
<1>1. ClientPace(c) /\ ServerPace(c)
  BY DEF Pace
<1>2. /\ cUnacked[c] \in Nat /\ Len(cCq[c]) \in Nat /\ Len(cSq[c]) \in Nat
      /\ sUnacked[c] \in Nat /\ Len(sCq[c]) \in Nat /\ sSq[c] \in Nat
  BY Turns
<1>3. Len(cCq[c]) <= 2
  <2>1. CASE Replied(c)
    BY <1>1, <2>1 DEF ClientPace
  <2>2. CASE ~Replied(c)
    <3>1. Len(cCq[c]) + cUnacked[c] + Len(cSq[c]) <= 1
      BY <1>1, <2>2 DEF ClientPace, Requests
    <3> QED BY <1>2, <3>1
  <2> QED BY <2>1, <2>2
<1>4. Len(sCq[c]) <= 2
  <2>1. CASE Written(c)
    BY <1>1, <2>1 DEF ServerPace
  <2>2. CASE ~Written(c)
    <3>1. Len(sCq[c]) + sUnacked[c] + sSq[c] <= 1
      BY <1>1, <2>2 DEF ServerPace, Answers
    <3> QED BY <1>2, <3>1
  <2> QED BY <2>1, <2>2
<1> QED BY <1>1, <1>3, <1>4 DEF ClientPace, ServerPace, Saving

LEMMA PaceKeeps == ASSUME IInv, Pace, [Next]_vars PROVE BuffersKept
<1> SUFFICES ASSUME NEW c \in Clients
             PROVE  /\ cBuf'[c] # cBuf[c] => cSq[c] = <<>> /\ ~(cUnacked[c] > 0)
                    /\ sMsg'[c] # sMsg[c] => ~(sSq[c] > 0) /\ ~(sUnacked[c] > 0)
  BY DEF BuffersKept
<1>1. ClientPace(c) /\ ServerPace(c) /\ TypeOK
  BY DEF Pace, IInv
<1>2. OneTurn(c) /\ Fresh(c)
  BY Turns
<1>3. ASSUME cBuf'[c] # cBuf[c] PROVE ClientHandleMessage(c)
  <2>1. \E d \in Clients : ClientHandleMessage(d)
    BY <1>3 DEF Next, vars, Rest, ClientEventLoop, ClientAddrResolved,
       ClientRouteResolved, ClientEstablished, ClientUnknownEvent, ClientDisconnected,
       ClientCrash, ClientPoller, ClientPoll, ClientSendDone, ClientRearm, ClientDone,
       Nic, DeliverWrite, AckWrite, WriteFails, DeliverSend, AckSend, SendFails,
       ServerEventLoop, ConnectRequest, Established, UnknownEvent, Disconnected,
       ServerPoller, ServerPoll, ServerSendDone, ServerSave, ServerSaveFails,
       ServerReady, ServerDone, ServerStaleContext, Die
  <2>2. PICK d \in Clients : ClientHandleMessage(d)
    BY <2>1
  <2>3. d # c => cBuf'[c] = cBuf[c]
    BY <1>1, <2>2 DEF ClientHandleMessage, SendFileName, SendNextChunk, TypeOK
  <2> QED BY <1>3, <2>2, <2>3
<1>4. ASSUME sMsg'[c] # sMsg[c]
      PROVE  Established(c) \/ ServerReady(c) \/ ServerDone(c)
  <2>1. \E d \in Clients : Established(d) \/ ServerReady(d) \/ ServerDone(d)
    BY <1>4 DEF Next, vars, Rest, ClientEventLoop, ClientAddrResolved,
       ClientRouteResolved, ClientEstablished, ClientUnknownEvent, ClientDisconnected,
       ClientCrash, ClientPoller, ClientPoll, ClientSendDone, ClientHandleMessage,
       ClientRearm, ClientDone,
       Nic, DeliverWrite, AckWrite, WriteFails, DeliverSend, AckSend, SendFails,
       ServerEventLoop, ConnectRequest, UnknownEvent, Disconnected,
       ServerPoller, ServerPoll, ServerSendDone, ServerSave, ServerSaveFails,
       ServerStaleContext, Die
  <2>2. PICK d \in Clients : Established(d) \/ ServerReady(d) \/ ServerDone(d)
    BY <2>1
  <2>3. d # c => sMsg'[c] = sMsg[c]
    BY <1>1, <2>2 DEF Established, ServerReady, ServerDone, TypeOK
  <2> QED BY <1>4, <2>2, <2>3
<1>5. ASSUME ClientHandleMessage(c) PROVE cSq[c] = <<>> /\ ~(cUnacked[c] > 0)
  <2>1. Reading(c)  BY <1>5 DEF ClientHandleMessage, Reading
  <2>2. cSq[c] = <<>> /\ cUnacked[c] = 0
    BY <1>1, <1>2, <2>1 DEF OneTurn, Writing, ClientPace
  <2>3. ~(cUnacked[c] > 0)  BY <2>2
  <2> QED BY <2>2, <2>3
<1>6. ASSUME Established(c) \/ ServerReady(c) \/ ServerDone(c)
      PROVE  ~(sSq[c] > 0) /\ ~(sUnacked[c] > 0)
  <2>1. conn[c] = "confirmed" \/ Saving(c)
    BY <1>6 DEF Established, ServerReady, ServerDone, Saving
  <2>2. ~Replying(c) /\ sUnacked[c] = 0
    BY <1>1, <1>2, <2>1 DEF OneTurn, Fresh, ServerPace, Early
  <2>3. ~(sUnacked[c] > 0)  BY <2>2
  <2> QED BY <2>2, <2>3 DEF Replying
<1> QED BY <1>3, <1>4, <1>5, <1>6

\* A send buffer is written only when no request that the NIC may still read
\* from it is outstanding, a receive buffer is read only while no receive is
\* posted, and the shared completion queue holds at most two entries of a
\* connection: with acknowledgements in order, whatever crashes or fails.
THEOREM BuffersStay ==
    ASSUME AcksInOrder, GarbageFds \cap Fds = {} PROVE Spec => BuffersLeftAlone
<1>1. IInv /\ Pace => BuffersFree
  BY PaceFrees
<1>2. IInv /\ Pace /\ [Next]_vars => [BuffersKept]_<<cBuf, sMsg>>
  BY PaceKeeps
<1>3. Spec => []BuffersFree
  BY <1>1, Invariance, KeepsPace, PTL
<1>4. Spec => [][BuffersKept]_<<cBuf, sMsg>>
  BY <1>2, Invariance, KeepsPace, PTL DEF Spec
<1> QED BY <1>3, <1>4 DEF BuffersLeftAlone, BuffersFree, BuffersKept

-----------------------------------------------------------------------------
(***************************************************************************)
(* Without faults nobody dies, if the files have different names, none of  *)
(* which the server has yet, and the server has a descriptor for each      *)
(* client.                                                                 *)
(***************************************************************************)
OwnNames ==
    /\ \A c, d \in Clients : FileName[c] = FileName[d] => c = d
    /\ \A c \in Clients : FileName[c] \notin Existing

EnoughFds ==
    /\ IsFiniteSet(Clients) /\ IsFiniteSet(Fds)
    /\ Cardinality(Clients) <= Cardinality(Fds)

\* An open descriptor is the one of a connection that is up.
Owned ==
    \A f \in Fds : fdTab[f] # Absent =>
        \E d \in Clients : hasName[d] /\ conn[d] = "up" /\ fd[d] = f

\* Nothing has gone wrong, and a client leaves when nothing is on its way.
Quiet(c) == ~(Writing(c) \/ Written(c) \/ Saving(c) \/ Replying(c) \/ Replied(c)
              \/ Reading(c))

Calm(c) ==
    /\ client[c] \notin {"failed", "crashed"}
    /\ ~Has(cCq[c], {"error"}) /\ ~Has(sCq[c], {"error"})
    /\ conn[c] = "freed" => ClientGone(c)
    /\ ClientGone(c) => Quiet(c) /\ conn[c] \notin Early

AllCalm == server = "up" /\ \A c \in Clients : Calm(c)

CalmSide(c) == <<client[c], conn[c], cCq[c], sCq[c], cSq[c], sSq[c], cHand[c], sHand[c]>>

LEMMA CalmSame ==
    ASSUME NEW c \in Clients, Calm(c), CalmSide(c)' = CalmSide(c)
    PROVE  Calm(c)'
BY DEF Calm, CalmSide, ClientGone, Quiet, Writing, Written, Saving, Replying, Replied,
   Reading

LEMMA CalmOf ==
    ASSUME AllCalm, server' = "up", NEW c \in Clients, Calm(c)',
           \A d \in Clients : d # c => CalmSide(d)' = CalmSide(d)
    PROVE  AllCalm'
<1> SUFFICES ASSUME NEW d \in Clients, d # c PROVE Calm(d)'
  BY DEF AllCalm
<1> QED BY CalmSame DEF AllCalm

\* A step with a turn of its connection.
LEMMA CalmBusy ==
    ASSUME NEW c \in Clients, Calm(c), ~Quiet(c) \/ client[c] = "up",
           client'[c] = client[c], conn'[c] = conn[c],
           ~Has(cCq'[c], {"error"}), ~Has(sCq'[c], {"error"})
    PROVE  Calm(c)'
<1>1. ~ClientGone(c)
  BY DEF Calm, ClientGone, Ended
<1> QED BY <1>1 DEF Calm, ClientGone

\* The client's event loop.
LEMMA ClientLoopCalm ==
    ASSUME faults = {}, IInv, AllCalm, NEW c \in Clients,
           ClientEventLoop(c) \/ ClientCrash(c)
    PROVE  AllCalm'
<1>1. TypeOK /\ Calm(c) /\ server = "up" /\ Fresh(c)
  BY Turns DEF IInv, AllCalm
<1>2. ~ClientUnknownEvent(c) /\ ~ClientCrash(c)
  BY <1>1 DEF ClientUnknownEvent, ClientCrash
<1>3. ClientDisconnected(c) => client[c] = "closing"
  BY <1>1 DEF ClientDisconnected, ServerGone, Calm, ClientGone, Ended
<1>4. /\ server' = "up"
      /\ UNCHANGED <<cCq, sCq, cSq, sSq, cHand, sHand>>
  BY <1>1, <1>2 DEF ClientEventLoop, ClientAddrResolved, ClientRouteResolved,
     ClientEstablished, ClientDisconnected
<1>5. \/ client'[c] \in {"routing", "connecting", "up"} /\ conn'[c] # "freed"
      \/ client[c] = "closing" /\ client'[c] = "exited" /\ conn'[c] = conn[c]
  BY <1>1, <1>2, <1>3 DEF ClientEventLoop, ClientAddrResolved, ClientRouteResolved,
     ClientEstablished, ClientDisconnected, Fresh, TypeOK
<1>6. Calm(c)'
  BY <1>1, <1>4, <1>5 DEF Calm, ClientGone, Ended, Quiet, Writing, Written, Saving,
     Replying, Replied, Reading
<1>7. \A d \in Clients : d # c => CalmSide(d)' = CalmSide(d)
  <2>1. \A d \in Clients : d # c => client'[d] = client[d] /\ conn'[d] = conn[d]
    BY <1>1, <1>2 DEF ClientEventLoop, ClientAddrResolved, ClientRouteResolved,
       ClientEstablished, ClientDisconnected, TypeOK
  <2> QED BY <1>4, <2>1 DEF CalmSide
<1> QED BY <1>4, <1>6, <1>7, CalmOf

\* The client's poller: no completion carries an error, and when DONE comes
\* nothing is posted that the disconnect would flush.
LEMMA ClientPollCalm ==
    ASSUME IInv, AllCalm, NEW c \in Clients, ClientPoll(c) PROVE AllCalm'
<1>1. TypeOK /\ Calm(c) /\ server = "up" /\ cCq[c] \in Seq(ClientWc)
  BY Turns DEF IInv, AllCalm
<1>2. cCq[c] # <<>>
  BY DEF ClientPoll
<1>3. /\ Head(cCq[c]) # "error" /\ ~Has(Tail(cCq[c]), {"error"})
      /\ Has(cCq[c], {"recv"}) <=> Head(cCq[c]) = "recv" \/ Has(Tail(cCq[c]), {"recv"})
  BY <1>1, <1>2, HasTail DEF Calm
<1>4. /\ cCq'[c] = Tail(cCq[c]) /\ cHand'[c] = Head(cCq[c])
      /\ UNCHANGED <<client, wireVars, serverVars>>
  BY <1>1, <1>3 DEF ClientPoll, TypeOK
<1>5. Reading(c)' \/ Replied(c)' => Replied(c)
  BY <1>3, <1>4 DEF Reading, Replied
<1>6. Calm(c)'
  BY <1>1, <1>3, <1>4, <1>5 DEF Calm, ClientGone, Quiet, Writing, Written, Saving, Replying
<1>7. \A d \in Clients : d # c => CalmSide(d)' = CalmSide(d)
  BY <1>1 DEF ClientPoll, TypeOK, CalmSide
<1> QED BY <1>1, <1>4, <1>6, <1>7, CalmOf

LEMMA ClientHandlerCalm ==
    ASSUME IInv, Pace, AllCalm, NEW c \in Clients,
           ClientSendDone(c) \/ ClientHandleMessage(c) \/ ClientRearm(c) \/ ClientDone(c)
    PROVE  AllCalm'
<1>1. TypeOK /\ Calm(c) /\ server = "up" /\ OneTurn(c) /\ Fresh(c) /\ ClientPace(c)
  BY Turns DEF IInv, AllCalm, Pace
<1>2. server' = "up"
  BY <1>1 DEF ClientSendDone, ClientHandleMessage, ClientRearm, ClientDone
<1>3. \A d \in Clients : d # c => CalmSide(d)' = CalmSide(d)
  <2>1. CASE ClientHandleMessage(c)
    BY <1>1, <2>1 DEF ClientHandleMessage, SendFileName, SendNextChunk, TypeOK, CalmSide
  <2>2. CASE ClientSendDone(c) \/ ClientRearm(c) \/ ClientDone(c)
    BY <1>1, <2>2 DEF ClientSendDone, ClientRearm, ClientDone, TypeOK, CalmSide
  <2> QED BY <2>1, <2>2
<1>4. CASE ClientSendDone(c) \/ ClientRearm(c)
  <2>1. /\ cHand'[c] = "none"
        /\ UNCHANGED <<client, conn, cCq, sCq, cSq, sSq, sHand>>
    BY <1>1, <1>4 DEF ClientSendDone, ClientRearm, TypeOK
  <2>2. Calm(c)'
    BY <1>1, <2>1 DEF Calm, ClientGone, Quiet, Writing, Written, Saving, Replying,
       Replied, Reading
  <2> QED BY <1>2, <1>3, <2>2, CalmOf
<1>5. CASE ClientHandleMessage(c)
  <2>1. Reading(c) /\ UNCHANGED <<client, conn, cCq, sCq>>
    BY <1>5 DEF ClientHandleMessage, Reading
  <2>2. Calm(c)'
    BY <1>1, <2>1, CalmBusy DEF Quiet, Calm
  <2> QED BY <1>2, <1>3, <2>2, CalmOf
<1>6. CASE ClientDone(c)
  <2>1. Reading(c)
    BY <1>6 DEF ClientDone, Reading
  <2>2. cSq[c] = <<>> /\ cCq[c] = <<>> /\ cUnacked[c] = 0 /\ cRecv[c] = 0
    BY <1>1, <2>1 DEF OneTurn, Writing, ClientPace, Reading
  <2>3. /\ client'[c] = "closing" /\ cHand'[c] = "none" /\ cCq'[c] = <<>>
        /\ cSq'[c] = <<>>
        /\ UNCHANGED <<conn, sCq, sSq, sHand>>
    BY <1>1, <1>6, <2>2 DEF ClientDone, TypeOK
  <2>4. Quiet(c)' /\ ~Has(cCq'[c], {"error"})
    BY <1>1, <2>1, <2>3, HasEmpty DEF OneTurn, Quiet, Writing, Written, Saving, Replying,
       Replied, Reading
  <2>5. conn'[c] \notin Early
    BY <1>1, <2>1, <2>3 DEF Fresh, Early
  <2>6. ClientGone(c)'
    BY <2>3 DEF ClientGone
  <2>7. Calm(c)'
    BY <1>1, <2>3, <2>4, <2>5, <2>6 DEF Calm
  <2> QED BY <1>2, <1>3, <2>7, CalmOf
<1> QED BY <1>4, <1>5, <1>6

\* The NIC: it delivers and acknowledges, and flushes nothing.
LEMMA NicCalm ==
    ASSUME IInv, AllCalm, NEW c \in Clients, Nic(c) PROVE AllCalm'
<1>1. /\ TypeOK /\ Calm(c) /\ server = "up"
      /\ cCq[c] \in Seq(ClientWc) /\ sCq[c] \in Seq(ServerWc) /\ cSq[c] \in Seq(Imm)
      /\ sSq[c] \in Nat
  BY Turns DEF IInv, AllCalm
<1>2. ~WriteFails(c)
  BY <1>1 DEF WriteFails, ServerGone, Calm, ClientGone, Ended
<1>3. ~SendFails(c)
  BY <1>1 DEF SendFails, Calm, Quiet, Replying
<1>4. server' = "up" /\ UNCHANGED <<client, conn, cHand, sHand>>
  BY <1>1, <1>2, <1>3 DEF Nic, DeliverWrite, AckWrite, DeliverSend, AckSend
<1>5. \A d \in Clients : d # c => CalmSide(d)' = CalmSide(d)
  BY SMTT(30), <1>1, <1>2, <1>3, <1>4
  DEF Nic, DeliverWrite, AckWrite, DeliverSend, AckSend, TypeOK, CalmSide
<1>6. \A x \in Imm \cup {"send"} : x \in ServerWc /\ x \notin {"error"}
  BY DEF Imm, ServerWc
<1>7. \A x \in {"send", "recv"} : x \in ClientWc /\ x \notin {"error"}
  BY DEF ClientWc
<1>8. CASE DeliverWrite(c)
  <2>1. Writing(c) /\ Head(cSq[c]) \in Imm
    BY <1>1, <1>8 DEF DeliverWrite, Writing
  <2>2. sCq'[c] = Append(sCq[c], Head(cSq[c])) /\ cCq' = cCq
    BY <1>1, <1>8 DEF DeliverWrite, TypeOK
  <2>3. ~Has(sCq'[c], {"error"})
    BY <1>1, <1>6, <2>1, <2>2, HasAppend DEF Calm
  <2>4. Calm(c)'
    BY <1>1, <1>4, <2>1, <2>2, <2>3, CalmBusy DEF Quiet, Calm
  <2> QED BY <1>4, <1>5, <2>4, CalmOf
<1>9. CASE AckWrite(c) \/ DeliverSend(c)
  <2>1. PICK x \in {"send", "recv"} : cCq'[c] = Append(cCq[c], x)
    BY <1>1, <1>9 DEF AckWrite, DeliverSend, TypeOK
  <2>2. client[c] = "up" /\ sCq' = sCq
    BY <1>9 DEF AckWrite, DeliverSend
  <2>3. ~Has(cCq'[c], {"error"})
    BY <1>1, <1>7, <2>1, HasAppend DEF Calm
  <2>4. Calm(c)'
    BY <1>1, <1>4, <2>2, <2>3, CalmBusy DEF Calm
  <2> QED BY <1>4, <1>5, <2>4, CalmOf
<1>10. CASE AckSend(c)
  <2>1. sCq'[c] = Append(sCq[c], "send") /\ UNCHANGED <<cCq, cSq, sSq>>
    BY <1>1, <1>10 DEF AckSend, TypeOK
  <2>2. "send" \in ServerWc /\ "send" \notin {"error"} /\ "send" \notin Imm
    BY DEF ServerWc, Imm
  <2>3. ~Has(sCq'[c], {"error"}) /\ (Written(c)' <=> Written(c))
    BY <1>1, <2>1, <2>2, HasAppend DEF Calm, Written
  <2>4. Calm(c)'
    BY <1>1, <1>4, <2>1, <2>3 DEF Calm, ClientGone, Quiet, Writing, Saving, Replying,
       Replied, Reading
  <2> QED BY <1>4, <1>5, <2>4, CalmOf
<1> QED BY <1>2, <1>3, <1>8, <1>9, <1>10 DEF Nic

\* The server's event loop.
LEMMA ServerLoopCalm ==
    ASSUME IInv, AllCalm, NEW c \in Clients,
           ConnectRequest(c) \/ Established(c) \/ UnknownEvent(c) \/ Disconnected(c)
    PROVE  AllCalm'
<1>1. TypeOK /\ Calm(c) /\ server = "up"
  BY DEF IInv, AllCalm
<1>2. ~UnknownEvent(c)
  BY <1>1 DEF UnknownEvent, Calm, Early
<1>3. server' = "up" /\ UNCHANGED <<client, cCq, cSq, cHand, sHand>>
  BY <1>1, <1>2 DEF ConnectRequest, Established, Disconnected
<1>4. \A d \in Clients : d # c => CalmSide(d)' = CalmSide(d)
  BY SMTT(30), <1>1, <1>2, <1>3 DEF ConnectRequest, Established, Disconnected, TypeOK, CalmSide
<1>5. CASE ConnectRequest(c) \/ Established(c)
  <2>1. /\ conn[c] \in Early /\ conn'[c] # "freed" /\ sCq' = sCq
    BY <1>1, <1>5 DEF ConnectRequest, Established, Early, TypeOK
  <2>2. ~ClientGone(c)
    BY <1>1, <2>1 DEF Calm
  <2>3. Calm(c)'
    BY <1>1, <1>3, <2>1, <2>2 DEF Calm, ClientGone
  <2> QED BY <1>3, <1>4, <2>3, CalmOf
<1>6. CASE Disconnected(c)
  <2>1. /\ ClientGone(c) /\ conn'[c] = "freed" /\ sCq'[c] = <<>> /\ sSq'[c] = 0
    BY <1>1, <1>6 DEF Disconnected, TypeOK
  <2>2. ~Has(sCq'[c], {"error"}) /\ ~Written(c)' /\ ~Replying(c)'
    BY <2>1, HasEmpty DEF Written, Replying
  <2>3. Calm(c)'
    BY <1>1, <1>3, <2>1, <2>2
    DEF Calm, ClientGone, Quiet, Writing, Saving, Replied, Reading, Early
  <2> QED BY <1>3, <1>4, <2>3, CalmOf
<1> QED BY <1>2, <1>5, <1>6

\* The server's poller.
LEMMA ServerPollCalm ==
    ASSUME IInv, AllCalm, NEW c \in Clients, ServerPoll(c) PROVE AllCalm'
<1>1. TypeOK /\ Calm(c) /\ server = "up" /\ sCq[c] \in Seq(ServerWc)
  BY Turns DEF IInv, AllCalm
<1>2. sCq[c] # <<>>
  BY DEF ServerPoll
<1>3. /\ Head(sCq[c]) # "error" /\ ~Has(Tail(sCq[c]), {"error"})
      /\ Has(sCq[c], Imm) <=> Head(sCq[c]) \in Imm \/ Has(Tail(sCq[c]), Imm)
      /\ Head(sCq[c]) \in ServerWc
  BY <1>1, <1>2, HasTail DEF Calm
<1>4. /\ sCq'[c] = Tail(sCq[c]) /\ sHand'[c] = Head(sCq[c])
      /\ server' = "up" /\ UNCHANGED <<clientVars, wireVars, conn>>
  BY <1>1, <1>3 DEF ServerPoll, TypeOK
<1>5. Saving(c)' \/ Written(c)' => Written(c)
  BY <1>3, <1>4 DEF Saving, Written, ServerWc, Imm
<1>6. Calm(c)'
  BY <1>1, <1>3, <1>4, <1>5 DEF Calm, ClientGone, Quiet, Writing, Replying, Replied,
     Reading
<1>7. \A d \in Clients : d # c => CalmSide(d)' = CalmSide(d)
  BY SMTT(30), <1>1, <1>3 DEF ServerPoll, TypeOK, CalmSide
<1> QED BY <1>4, <1>6, <1>7, CalmOf

LEMMA ServerHandlerCalm ==
    ASSUME IInv, AllCalm, NEW c \in Clients,
           ServerSendDone(c) \/ ServerSave(c) \/ ServerReady(c) \/ ServerDone(c)
    PROVE  AllCalm'
<1>1. TypeOK /\ Calm(c) /\ server = "up"
  BY DEF IInv, AllCalm
<1>2. server' = "up" /\ UNCHANGED <<client, conn, cCq, sCq, cSq, cHand>>
  BY <1>1 DEF ServerSendDone, ServerSave, ServerReady, ServerDone
<1>3. \A d \in Clients : d # c => CalmSide(d)' = CalmSide(d)
  BY SMTT(30), <1>1, <1>2 DEF ServerSendDone, ServerSave, ServerReady, ServerDone, TypeOK, CalmSide
<1>4. CASE ServerSendDone(c)
  <2>1. sHand'[c] = "none" /\ sSq' = sSq
    BY <1>1, <1>4 DEF ServerSendDone, TypeOK
  <2>2. Calm(c)'
    BY <1>1, <1>2, <2>1 DEF Calm, ClientGone, Quiet, Writing, Written, Saving, Replying,
       Replied, Reading
  <2> QED BY <1>2, <1>3, <2>2, CalmOf
<1>5. CASE ServerSave(c) \/ ServerReady(c) \/ ServerDone(c)
  <2>1. Saving(c)
    BY <1>5 DEF ServerSave, ServerReady, ServerDone, Saving
  <2>2. Calm(c)'
    BY <1>1, <1>2, <2>1, CalmBusy DEF Quiet, Calm
  <2> QED BY <1>2, <1>3, <2>2, CalmOf
<1> QED BY <1>4, <1>5

\* A descriptor is left for a client that has not opened its file.
LEMMA FreeDescriptor ==
    ASSUME EnoughFds, Owned, NEW c \in Clients, ~hasName[c]
    PROVE  \E f \in Fds : fdTab[f] = Absent
<1> SUFFICES ASSUME \A f \in Fds : fdTab[f] # Absent PROVE FALSE
  OBVIOUS
<1> DEFINE Others  == Clients \ {c}
           own     == [f \in Fds |-> CHOOSE d \in Others : fd[d] = f]
<1>1. \A f \in Fds : \E d \in Others : fd[d] = f
  BY DEF Owned
<1>2. own \in [Fds -> Others] /\ \A f \in Fds : fd[own[f]] = f
  BY <1>1
<1> HIDE DEF own, Others
<1>3. own \in Injection(Fds, Others)
  BY <1>2 DEF Injection, IsInjective
<1>4. IsFiniteSet(Others) /\ Cardinality(Others) = Cardinality(Clients) - 1
  BY FS_RemoveElement DEF EnoughFds, Others
<1>5. Cardinality(Fds) <= Cardinality(Others)
  BY <1>3, <1>4, FS_Injection
<1>6. Cardinality(Clients) \in Nat /\ Cardinality(Fds) \in Nat
  BY FS_CardinalityType DEF EnoughFds
<1> QED BY <1>4, <1>5, <1>6 DEF EnoughFds

\* open and write succeed: the name is new, a descriptor is free, and the
\* descriptor of a connection that is up is open.
LEMMA NothingFails ==
    ASSUME faults = {}, OwnNames, EnoughFds, IInv, Owned, AllCalm, NEW c \in Clients
    PROVE  ~ServerSaveFails(c) /\ ~ServerStaleContext(c)
<1>1. TypeOK /\ Calm(c) /\ Local(c) /\ OneOwner
  BY DEF IInv, AllCalm
<1>2. ASSUME ServerSaveFails(c) PROVE FALSE
  <2>1. sHand[c] = "data" /\ Saving(c) /\ conn[c] # "freed"
    BY <1>2 DEF ServerSaveFails, Saving
  <2>2. conn[c] = "up"
    <3>1. conn[c] \notin {"none", "requested", "accepted", "confirmed"}
      BY <1>1, <2>1 DEF Local, Fresh
    <3> QED BY <1>1, <2>1, <3>1 DEF TypeOK
  <2>3. CASE hasName[c]
    <3>1. fd[c] \in Fds /\ fdTab[fd[c]] = FileName[c]
      BY <1>1, <2>2, <2>3 DEF Local, OwnFile
    <3>2. FileName[c] \in Names /\ Absent \notin Names
      BY ConstantsAssumption, DataAssumption
    <3>3. IsOpen(fd[c])
      BY <3>1, <3>2 DEF IsOpen
    <3> QED BY <1>2, <2>3, <3>3 DEF ServerSaveFails, WriteFileFails
  <2>4. CASE ~hasName[c]
    <3>1. sBuf[c] = FileName[c]
      BY <1>1, <2>1, <2>4 DEF Local, Progress, Carries
    <3>2. FileName[c] \in Names \ Existing
      BY ConstantsAssumption DEF OwnNames
    <3>3. disk[FileName[c]] = Absent
      BY <1>1, <2>4, <3>2 DEF OneOwner, OwnNames
    <3>4. ~OpenFails(c)
      BY <2>4, <3>1, <3>3, FreeDescriptor DEF OpenFails
    <3> QED BY <1>2, <2>4, <3>4 DEF ServerSaveFails
  <2> QED BY <2>3, <2>4
<1>3. ASSUME ServerStaleContext(c) PROVE FALSE
  BY <1>1, <1>3 DEF ServerStaleContext, Calm, Quiet, Saving
<1> QED BY <1>2, <1>3

\* The owner of a descriptor keeps it until on_disconnect closes it.
LEMMA OwnedSame ==
    ASSUME Owned, UNCHANGED <<fdTab, hasName, fd>>,
           \A d \in Clients : conn[d] = "up" => conn'[d] = "up"
    PROVE  Owned'
<1> SUFFICES ASSUME NEW f \in Fds, fdTab[f] # Absent
             PROVE  \E d \in Clients : hasName[d] /\ conn'[d] = "up" /\ fd[d] = f
  BY DEF Owned
<1> QED BY DEF Owned

LEMMA ServerOwned ==
    ASSUME IInv, Owned, ServerEventLoop \/ ServerPoller PROVE Owned'
<1>1. TypeOK  BY DEF IInv
<1>2. ASSUME NEW c \in Clients, ConnectRequest(c) PROVE Owned'
  <2> SUFFICES ASSUME NEW f \in Fds, fdTab[f] # Absent
               PROVE  \E d \in Clients : hasName'[d] /\ conn'[d] = "up" /\ fd'[d] = f
    BY <1>2 DEF Owned, ConnectRequest
  <2>1. PICK d \in Clients : hasName[d] /\ conn[d] = "up" /\ fd[d] = f
    BY DEF Owned
  <2>2. d # c
    BY <1>2, <2>1 DEF ConnectRequest
  <2>3. hasName'[d] = hasName[d] /\ conn'[d] = conn[d] /\ fd'[d] = fd[d]
    BY <1>1, <1>2, <2>2 DEF ConnectRequest, TypeOK
  <2> QED BY <2>1, <2>3
<1>3. ASSUME NEW c \in Clients, Established(c) PROVE Owned'
  <2>1. \A d \in Clients : conn[d] = "up" => conn'[d] = "up"
    BY <1>1, <1>3 DEF Established, TypeOK
  <2> QED BY <1>3, <2>1, OwnedSame DEF Established
<1>4. ASSUME NEW c \in Clients, Disconnected(c) PROVE Owned'
  <2> SUFFICES ASSUME NEW f \in Fds, fdTab'[f] # Absent
               PROVE  \E d \in Clients : hasName[d] /\ conn'[d] = "up" /\ fd[d] = f
    BY <1>4 DEF Owned, Disconnected
  <2>1. f # fd[c] /\ fdTab[f] # Absent
    BY <1>4 DEF Disconnected, Close
  <2>2. PICK d \in Clients : hasName[d] /\ conn[d] = "up" /\ fd[d] = f
    BY <2>1 DEF Owned
  <2>3. conn'[d] = conn[d]
    BY <1>1, <1>4, <2>1, <2>2 DEF Disconnected, TypeOK
  <2> QED BY <2>2, <2>3
<1>5. ASSUME NEW c \in Clients, ServerSave(c), ~hasName[c] PROVE Owned'
  <2>1. OpenFile(c) /\ conn' = conn
    BY <1>5 DEF ServerSave
  <2>2. PICK g \in Fds : /\ fd' = [fd EXCEPT ![c] = g]
                         /\ fdTab' = [fdTab EXCEPT ![g] = sBuf[c]]
    BY <2>1 DEF OpenFile
  <2>3. conn[c] = "up"
    <3>1. Saving(c) /\ conn[c] # "freed" /\ Fresh(c)
      BY <1>5, Turns DEF ServerSave, Saving
    <3>2. conn[c] \notin {"none", "requested", "accepted", "confirmed"}
      BY <3>1 DEF Fresh
    <3> QED BY <1>1, <3>1, <3>2 DEF TypeOK
  <2>4. hasName' = [hasName EXCEPT ![c] = TRUE]
    BY <2>1 DEF OpenFile
  <2> SUFFICES ASSUME NEW f \in Fds, fdTab'[f] # Absent
               PROVE  \E d \in Clients : hasName'[d] /\ conn'[d] = "up" /\ fd'[d] = f
    BY DEF Owned
  <2>5. CASE f = g
    BY <1>1, <2>1, <2>2, <2>3, <2>4, <2>5 DEF TypeOK
  <2>6. CASE f # g
    <3>1. fdTab[f] # Absent
      BY <1>1, <2>2, <2>6 DEF TypeOK
    <3>2. PICK d \in Clients : hasName[d] /\ conn[d] = "up" /\ fd[d] = f
      BY <3>1 DEF Owned
    <3>3. d # c
      BY <1>5, <3>2
    <3> QED BY <1>1, <2>1, <2>2, <2>4, <3>2, <3>3 DEF TypeOK
  <2> QED BY <2>5, <2>6
<1>6. ASSUME UNCHANGED <<fdTab, hasName, fd, conn>> PROVE Owned'
  BY <1>6, OwnedSame
<1>7. CASE ServerEventLoop
  BY <1>2, <1>3, <1>4, <1>6, <1>7 DEF ServerEventLoop, UnknownEvent
<1>8. CASE ServerPoller
  <2>1. PICK c \in Clients : \/ ServerPoll(c) \/ ServerSendDone(c) \/ ServerSave(c)
                             \/ ServerSaveFails(c) \/ ServerReady(c) \/ ServerDone(c)
                             \/ ServerStaleContext(c)
    BY <1>8 DEF ServerPoller
  <2>2. CASE ServerSave(c)
    <3>1. CASE hasName[c]
      BY <1>6, <2>2, <3>1 DEF ServerSave, WriteFile
    <3> QED BY <1>5, <2>2, <3>1
  <2>3. CASE ~ServerSave(c)
    BY <1>6, <2>1, <2>3 DEF ServerPoll, ServerSendDone, ServerSaveFails, ServerReady,
       ServerDone, ServerStaleContext, Die
  <2> QED BY <2>2, <2>3
<1> QED BY <1>7, <1>8

LEMMA ClientOwned ==
    ASSUME IInv, Owned, NEW c \in Clients,
           ClientEventLoop(c) \/ ClientPoller(c) \/ ClientCrash(c) \/ Nic(c)
    PROVE  Owned'
<1>1. TypeOK /\ Fresh(c)
  BY Turns DEF IInv
<1>2. UNCHANGED <<fdTab, hasName, fd>>
  BY DEF ClientEventLoop, ClientAddrResolved, ClientRouteResolved, ClientEstablished,
     ClientUnknownEvent, ClientDisconnected, ClientCrash, ClientPoller, ClientPoll,
     ClientSendDone, ClientHandleMessage, ClientRearm, ClientDone, Nic, DeliverWrite,
     AckWrite, WriteFails, DeliverSend, AckSend, SendFails
<1>3. CASE ClientRouteResolved(c) \/ ClientEstablished(c)
  <2>1. \A d \in Clients : conn[d] = "up" => conn'[d] = "up"
    BY <1>1, <1>3 DEF ClientRouteResolved, ClientEstablished, Fresh, TypeOK
  <2> QED BY <1>2, <2>1, OwnedSame
<1>4. CASE ~(ClientRouteResolved(c) \/ ClientEstablished(c))
  <2>1. conn' = conn
    BY <1>4 DEF ClientEventLoop, ClientAddrResolved, ClientUnknownEvent,
       ClientDisconnected, ClientCrash, ClientPoller, ClientPoll, ClientSendDone,
       ClientHandleMessage, ClientRearm, ClientDone, Nic, DeliverWrite, AckWrite,
       WriteFails, DeliverSend, AckSend, SendFails
  <2> QED BY <1>2, <2>1, OwnedSame
<1> QED BY <1>3, <1>4

\* All of it together.
Peace == Owned /\ (faults = {} => AllCalm)

LEMMA NextPeace ==
    ASSUME OwnNames, EnoughFds, IInv, Pace, Peace, [Next]_vars PROVE Peace'
<1>1. Owned /\ faults' = faults
  BY DEF Peace, Next, vars
<1>2. CASE UNCHANGED vars \/ Rest
  <2>1. Owned'
    BY <1>1, <1>2, OwnedSame DEF Rest, vars
  <2>2. ASSUME AllCalm PROVE AllCalm'
    <3>1. \A c \in Clients : CalmSide(c)' = CalmSide(c)
      BY <1>2 DEF Rest, vars, CalmSide
    <3> QED BY <1>2, <2>2, <3>1, CalmSame DEF AllCalm, Rest, vars
  <2> QED BY <1>1, <2>1, <2>2 DEF Peace
<1>3. ASSUME NEW c \in Clients,
             ClientEventLoop(c) \/ ClientPoller(c) \/ ClientCrash(c) \/ Nic(c)
      PROVE  Peace'
  <2>1. Owned'
    BY <1>1, <1>3, ClientOwned
  <2>2. ASSUME faults = {} PROVE AllCalm'
    <3>1. AllCalm  BY <2>2 DEF Peace
    <3> QED BY <1>3, <2>2, <3>1, ClientLoopCalm, ClientPollCalm, ClientHandlerCalm, NicCalm
            DEF ClientPoller
  <2> QED BY <1>1, <2>1, <2>2 DEF Peace
<1>4. CASE ServerEventLoop \/ ServerPoller
  <2>1. Owned'
    BY <1>1, <1>4, ServerOwned
  <2>2. ASSUME faults = {} PROVE AllCalm'
    <3>1. AllCalm  BY <2>2 DEF Peace
    <3>2. CASE ServerEventLoop
      BY <3>1, <3>2, ServerLoopCalm DEF ServerEventLoop
    <3>3. CASE ServerPoller
      BY <1>1, <2>2, <3>1, <3>3, ServerPollCalm, ServerHandlerCalm, NothingFails
      DEF ServerPoller
    <3> QED BY <1>4, <3>2, <3>3
  <2> QED BY <1>1, <2>1, <2>2 DEF Peace
<1> QED BY <1>2, <1>3, <1>4 DEF Next

LEMMA InitPeace == Init => Peace
<1> SUFFICES ASSUME Init PROVE Peace
  OBVIOUS
<1>1. Owned
  BY DEF Init, Owned
<1>2. ASSUME NEW c \in Clients PROVE Calm(c)
  BY HasEmpty DEF Init, Calm, ClientGone, Ended
<1> QED BY <1>1, <1>2 DEF Init, Peace, AllCalm

\* Without faults neither rc_die of the completion pollers nor that of the
\* event loops is reached: no completion carries an error, since the orderly
\* disconnect finds nothing posted, open finds a new name and a free
\* descriptor, and a client's context is freed when no receive of it is left.
THEOREM NobodyEverDies ==
    ASSUME AcksInOrder, GarbageFds \cap Fds = {}, OwnNames, EnoughFds
    PROVE  Spec => []NobodyDies
<1>1. IInv /\ Pace /\ Peace /\ [Next]_vars => Peace'
  BY NextPeace
<1>2. Peace => NobodyDies
  <2> SUFFICES ASSUME AllCalm, NEW c \in Clients
               PROVE  /\ server = "up" /\ client[c] # "failed"
                      /\ \A i \in 1 .. Len(cCq[c]) : cCq[c][i] # "error"
                      /\ \A i \in 1 .. Len(sCq[c]) : sCq[c][i] # "error"
    BY DEF Peace, NobodyDies, AllCalm
  <2> QED BY DEF AllCalm, Calm, Has
<1> QED BY <1>1, <1>2, InitPeace, Invariance, KeepsPace, PTL DEF Spec
=============================================================================
