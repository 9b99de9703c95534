------------------------- MODULE MassStorageProofs -------------------------
(***************************************************************************)
(* Host and device agree on where they are in a command, for every set of  *)
(* commands, tags, cards and blocks: proofs about MassStorage.             *)
(*                                                                         *)
(* Typed says what kind of value the variables hold, as far as the proof   *)
(* needs it; Transport is the invariant of MassStorage that says in which  *)
(* place of the host's command the device is.  Each is preserved by every  *)
(* action.                                                                 *)
(***************************************************************************)
EXTENDS MassStorage, Integers, TLAPS

Places == {"idle", "begin", "open", "card", "usb", "ack", "wait", "done", "send"}

\* A sequence, of whatever it holds.
IsBank(b) == b \in Seq({b[i] : i \in DOMAIN b})

IsEndpoint(e) ==
    /\ e \in [job : {e.job}, halt : Halts, bank : {e.bank}]
    /\ IsBank(e.bank)

IsHost ==
    /\ host \in [st : HostStates, cmd : Commands \cup {NoCommand}, tag : {host.tag},
                 moved : Nat, got : {host.got}, retried : BOOLEAN,
                 answer : {host.answer}]

IsPlace(t) == t \in [pc : Places, read : BOOLEAN, a : {t.a}, n : {t.n}, k : {t.k},
                     status : {t.status}]

IsTask == IsPlace(task)

IsCsw == csw \in [tag : {csw.tag}, residue : Int]

Typed == IsHost /\ IsTask /\ IsCsw /\ IsEndpoint(inEp) /\ IsEndpoint(outEp)

-----------------------------------------------------------------------------
\* Banks.

LEMMA SequenceIsBank ==
  ASSUME NEW S, NEW s \in Seq(S)
  PROVE  IsBank(s)
<1>1. s \in [1..Len(s) -> S] /\ Len(s) \in Nat
  OBVIOUS
<1>2. s \in [1..Len(s) -> {s[i] : i \in DOMAIN s}]
  BY <1>1
<1> QED BY <1>1, <1>2 DEF IsBank

LEMMA EmptyBank == IsBank(<<>>) /\ Len(<<>>) = 0
  BY DEF IsBank

LEMMA BankLen ==
  ASSUME NEW b, IsBank(b)
  PROVE  Len(b) \in Nat /\ (b = <<>> <=> Len(b) = 0)
  BY DEF IsBank

LEMMA BankAppend ==
  ASSUME NEW b, IsBank(b), NEW p
  PROVE  /\ IsBank(Append(b, p)) /\ Append(b, p) # <<>>
         /\ Len(Append(b, p)) = Len(b) + 1
         /\ Append(b, p)[Len(b) + 1] = p
         /\ \A i \in 1..Len(b) : Append(b, p)[i] = b[i]
<1> DEFINE S == {b[i] : i \in DOMAIN b} \cup {p}
           d == Append(b, p)
<1>1. b \in Seq(S)
  BY DEF IsBank
<1>2. /\ d \in Seq(S) /\ Len(d) = Len(b) + 1 /\ d[Len(b) + 1] = p
      /\ \A i \in 1..Len(b) : d[i] = b[i]
  BY <1>1
<1>3. d # <<>>
  BY <1>1, <1>2
<1>4. IsBank(d)
  BY <1>2, SequenceIsBank
<1> QED BY <1>2, <1>3, <1>4

LEMMA BankTail ==
  ASSUME NEW b, IsBank(b), b # <<>>
  PROVE  /\ IsBank(Tail(b)) /\ Len(b) > 0
         /\ Len(Tail(b)) = Len(b) - 1
         /\ Head(b) = b[1]
         /\ \A i \in 1..(Len(b) - 1) : Tail(b)[i] = b[i + 1]
<1> DEFINE S == {b[i] : i \in DOMAIN b}
           d == Tail(b)
<1>1. b \in Seq(S)
  BY DEF IsBank
<1>2. /\ d \in Seq(S) /\ Len(d) = Len(b) - 1 /\ Len(b) > 0
      /\ \A i \in 1..(Len(b) - 1) : d[i] = b[i + 1]
  BY <1>1
<1>3. IsBank(d)
  BY <1>2, SequenceIsBank
<1> QED BY <1>1, <1>2, <1>3

-----------------------------------------------------------------------------
\* The functions of the driver make endpoints of endpoints.

LEMMA EndpointConstants == IsEndpoint(Closed) /\ IsEndpoint(Opened)
  BY EmptyBank DEF IsEndpoint, Closed, Opened, Halts

LEMMA EndpointCalls ==
  ASSUME NEW e, IsEndpoint(e), NEW job, NEW wait
  PROVE  /\ IsEndpoint(Run(e, job)) /\ IsEndpoint(Done(e))
         /\ IsEndpoint(SetHalt(e)) /\ IsEndpoint(WaitClear(e, job))
         /\ IsEndpoint(RunOrWait(e, job, wait))
         /\ IsEndpoint(Unhalted(e)) /\ IsEndpoint(Aborted(e))
         /\ IsEndpoint([e EXCEPT !.halt = "yes"])
<1>1. \A j : IsEndpoint(Run(e, j)) /\ IsEndpoint(WaitClear(e, j))
  BY DEF IsEndpoint, Run, WaitClear
<1>2. IsEndpoint(Done(e)) /\ IsEndpoint(SetHalt(e))
  BY DEF IsEndpoint, Done, SetHalt, Halts
<1>3. IsEndpoint(RunOrWait(e, job, wait))
  BY <1>1 DEF RunOrWait
<1>4. IsEndpoint(Unhalted(e)) /\ IsEndpoint([e EXCEPT !.halt = "yes"])
  BY DEF IsEndpoint, Unhalted, Halts
<1>5. IsEndpoint(Aborted(e))
  <2>1. Aborted(e) \in [job : {"none"}, halt : Halts, bank : {<<>>}]
    BY DEF Aborted, IsEndpoint
  <2>2. Aborted(e).job = "none" /\ Aborted(e).bank = <<>>
    BY <2>1
  <2> QED BY <2>1, <2>2, EmptyBank DEF IsEndpoint
<1> QED BY <1>1, <1>2, <1>3, <1>4, <1>5

LEMMA ClassCalls ==
  ASSUME NEW e, IsEndpoint(e), NEW c, NEW r, NEW p
  PROVE  /\ IsEndpoint(CbwWait(e)) /\ IsEndpoint(CswSend(e))
         /\ IsEndpoint(StallIn(e, c, r)) /\ IsEndpoint(StallOut(e, c, r))
         /\ IsEndpoint(HaltCleared(e)) /\ IsEndpoint(AbortEp(e))
         /\ IsEndpoint(Loaded(e, p))
         /\ e.bank # <<>> => IsEndpoint([e EXCEPT !.bank = Tail(@)])
<1>1. \A x : IsEndpoint(x) => IsEndpoint(CbwWait(x)) /\ IsEndpoint(CswSend(x))
  BY EndpointCalls DEF CbwWait, CswSend
<1>2. IsEndpoint(StallIn(e, c, r)) /\ IsEndpoint(StallOut(e, c, r))
  BY EndpointCalls DEF StallIn, StallOut
<1>3. IsEndpoint(HaltCleared(e))
  <2>1. \A j : IsEndpoint(WaitClear(SetHalt(Unhalted(e)), j))
    BY EndpointCalls
  <2> QED BY <1>1, <2>1, EndpointCalls DEF HaltCleared
<1>4. IsEndpoint(AbortEp(e))
  BY EndpointCalls, EmptyBank DEF AbortEp, IsEndpoint
<1>5. IsEndpoint(Loaded(e, p))
  <2>1. IsBank(Append(e.bank, p))
    BY BankAppend DEF IsEndpoint
  <2>2. Loaded(e, p) \in [job : {"none"}, halt : Halts, bank : {Append(e.bank, p)}]
    BY DEF Loaded, Done, IsEndpoint
  <2>3. Loaded(e, p).job = "none" /\ Loaded(e, p).bank = Append(e.bank, p)
    BY <2>2
  <2> QED BY <2>1, <2>2, <2>3 DEF IsEndpoint
<1>6. e.bank # <<>> => IsEndpoint([e EXCEPT !.bank = Tail(@)])
  <2> SUFFICES ASSUME e.bank # <<>> PROVE IsEndpoint([e EXCEPT !.bank = Tail(@)])
    OBVIOUS
  <2>1. [e EXCEPT !.bank = Tail(@)] = [job |-> e.job, halt |-> e.halt, bank |-> Tail(e.bank)]
    BY DEF IsEndpoint
  <2>2. IsBank(Tail(e.bank))
    BY BankTail DEF IsEndpoint
  <2> QED BY <2>1, <2>2 DEF IsEndpoint
<1> QED BY <1>1, <1>2, <1>3, <1>4, <1>5, <1>6

-----------------------------------------------------------------------------
\* The kind of every variable.

LEMMA InitTyped == Init => Typed
  BY EndpointConstants
  DEF Init, MscInit, HostInit, Typed, IsHost, IsTask, IsPlace, IsCsw, HostStates, Places,
      Idle, NoCsw

LEMMA HostUpdated ==
  ASSUME IsHost, NEW st \in HostStates, NEW cmd \in Commands \cup {NoCommand}, NEW tag,
         NEW moved \in Nat, NEW got, NEW retried \in BOOLEAN, NEW answer,
         host' = [host EXCEPT !.st = st, !.cmd = cmd, !.tag = tag, !.moved = moved,
                              !.got = got, !.retried = retried, !.answer = answer]
  PROVE  /\ IsHost'
         /\ host'.st = st /\ host'.cmd = cmd /\ host'.tag = tag
         /\ host'.moved = moved /\ host'.retried = retried
  BY DEF IsHost

LEMMA Concluded ==
  ASSUME IsHost, NEW pass, NEW s \in HostStates, Conclude(pass, s)
  PROVE  /\ IsHost'
         /\ host'.st = s /\ host'.cmd = NoCommand /\ host'.tag = NoTag
         /\ host'.moved = 0 /\ host'.retried = FALSE
<1> DEFINE a == [pass |-> pass, data |-> IF pass THEN host.got ELSE <<>>]
<1>1. host' = [host EXCEPT !.st = s, !.cmd = NoCommand, !.tag = NoTag, !.moved = 0,
                           !.got = <<>>, !.retried = FALSE, !.answer = a]
  BY DEF Conclude
<1> HIDE DEF a
<1> QED BY <1>1 DEF IsHost

\* A packet of the data phase that the host reads.
LEMMA DataRead ==
  ASSUME IsHost, HostReadsData
  PROVE  LET block == Head(inEp.bank).kind = "block"
             moved == host.moved + (IF block THEN 2 ELSE 1)
         IN /\ IsHost'
            /\ host'.st = IF block THEN DataStage(host.cmd, moved) ELSE "csw"
            /\ host'.cmd = host.cmd /\ host'.tag = host.tag
            /\ host'.moved = moved /\ host'.retried = host.retried
<1> DEFINE p == Head(inEp.bank)
           moved == host.moved + (IF p.kind = "block" THEN 2 ELSE 1)
           got == IF p.kind = "block" THEN Append(host.got, p.v) ELSE host.got
           st == IF p.kind = "block" THEN DataStage(host.cmd, moved) ELSE "csw"
<1>1. host' = [host EXCEPT !.moved = moved, !.got = got, !.st = st]
  BY DEF HostReadsData
<1>2. moved \in Nat /\ st \in HostStates
  BY DEF IsHost, DataStage, HostStates
<1> HIDE DEF p, moved, got, st
<1>3. host' = [host EXCEPT !.st = st, !.cmd = host.cmd, !.tag = host.tag, !.moved = moved,
                           !.got = got, !.retried = host.retried, !.answer = host.answer]
  BY <1>1 DEF IsHost
<1>4. /\ IsHost'
      /\ host'.st = st /\ host'.cmd = host.cmd /\ host'.tag = host.tag
      /\ host'.moved = moved /\ host'.retried = host.retried
  BY <1>2, <1>3, HostUpdated DEF IsHost
<1> QED BY <1>4 DEF p, moved, st

LEMMA BlockWritten ==
  ASSUME IsHost, HostWritesBlock
  PROVE  /\ IsHost'
         /\ host'.st = DataStage(host.cmd, host.moved + 2)
         /\ host'.cmd = host.cmd /\ host'.tag = host.tag
         /\ host'.moved = host.moved + 2 /\ host'.retried = host.retried
<1>1. host' = [host EXCEPT !.moved = @ + 2, !.st = DataStage(host.cmd, host.moved + 2)]
  BY DEF HostWritesBlock
<1>2. DataStage(host.cmd, host.moved + 2) \in HostStates /\ host.moved + 2 \in Nat
  BY DEF IsHost, DataStage, HostStates
<1> QED BY <1>1, <1>2 DEF IsHost

LEMMA StepHost == IsHost /\ [Next]_vars => IsHost'
<1> SUFFICES ASSUME IsHost, [Next]_vars PROVE IsHost'
  OBVIOUS
<1> USE DEF IsHost, HostStates
<1>1. CASE host' = host
  BY <1>1
<1>2. CASE HostCommand
  <2>1. PICK c \in Commands, t \in Tags :
          host' = [host EXCEPT !.st = DataStage(c, 0), !.cmd = c, !.tag = t]
    BY <1>2 DEF HostCommand
  <2>2. DataStage(c, 0) \in HostStates
    BY DEF DataStage
  <2> QED BY <2>1, <2>2
<1>3. CASE HostReadsData
  BY <1>3, DataRead
<1>4. CASE HostWritesBlock
  BY <1>4, BlockWritten
<1>5. CASE HostTakes \/ HostDataStalled \/ HostCswStalled \/ HostCswRefused \/ HostResets
            \/ HostClearsIn
  BY <1>5 DEF HostTakes, HostDataStalled, HostCswStalled, HostCswRefused, HostResets,
              HostClearsIn, Goto
<1>6. CASE HostReadsCsw \/ HostClearsOut \/ HostConfigures
  <2>1. "recover" \in HostStates /\ "done" \in HostStates /\ "idle" \in HostStates
    OBVIOUS
  <2>2. HostReadsCsw => (\E pass : Conclude(pass, "done")) \/ Goto("recover")
    BY DEF HostReadsCsw
  <2>3. Goto("recover") => IsHost'
    BY DEF Goto
  <2>4. \A pass : Conclude(pass, "done") => IsHost'
    BY <2>1, Concluded
  <2>5. Conclude(FALSE, "idle") => IsHost'
    BY <2>1, Concluded
  <2> QED BY <1>6, <2>2, <2>3, <2>4, <2>5 DEF HostClearsOut, HostConfigures
<1>7. CASE HostOff
  BY <1>7 DEF HostOff
<1>8. Device \/ CardMoves \/ UNCHANGED vars => host' = host
  BY DEF Device, CardMoves, vars
<1> QED BY <1>1, <1>2, <1>3, <1>4, <1>5, <1>6, <1>7, <1>8 DEF Next, HostProceeds

\* The steps of the pipeline change the place, the count and the status only.
LEMMA PipelinePlaces ==
  ASSUME NEW t, IsPlace(t)
  PROVE  /\ IsPlace(BeginStep(t)) /\ IsPlace(EndStep(t)) /\ IsPlace(EndUsb(t))
         /\ IsPlace(EndCard(t)) /\ \A s : IsPlace(Failed(t, s))
<1> USE DEF IsPlace, Places
<1>1. \A x : IsPlace(x) => IsPlace(BeginStep(x))
  BY DEF BeginStep
<1>2. IsPlace([t EXCEPT !.k = @ - 1])
  OBVIOUS
<1>3. IsPlace(EndStep(t))
  <2>1. IsPlace([t EXCEPT !.pc = "done", !.status = "good"])
    OBVIOUS
  <2>2. IsPlace(BeginStep([t EXCEPT !.k = @ - 1]))
    BY <1>1, <1>2
  <2> HIDE DEF IsPlace
  <2> QED BY <2>1, <2>2 DEF EndStep
<1>4. IsPlace(EndCard(t)) /\ \A s : IsPlace(Failed(t, s))
  BY DEF EndCard, Failed
<1>5. IsPlace([t EXCEPT !.pc = "wait"])
  OBVIOUS
<1> HIDE DEF IsPlace
<1>6. IsPlace(EndUsb(t))
  BY <1>3, <1>5 DEF EndUsb
<1> QED BY <1>1, <1>3, <1>4, <1>6

LEMMA StepTask == Typed /\ [Next]_vars => IsTask'
<1> SUFFICES ASSUME Typed, [Next]_vars PROVE IsTask'
  OBVIOUS
<1> USE DEF Typed, IsTask
<1>1. CASE task' = task
  BY <1>1
<1>2. CASE TransSeen \/ TransReset \/ TransStatus \/ TransSend
  <2>1. IsPlace(Idle)
    BY DEF IsPlace, Places, Idle
  <2>2. CASE TransReset \/ TransSend
    BY <2>1, <2>2 DEF TransReset, TransSend
  <2>3. CASE TransSeen \/ TransStatus
    BY <2>3 DEF IsPlace, Places, TransSeen, TransStatus
  <2> QED BY <1>2, <2>2, <2>3
<1>3. CASE TransBegin
  <2> DEFINE r == cbw.c.op = "read"
  <2>1. /\ task' = [task EXCEPT !.pc = "open", !.read = r, !.a = cbw.c.a, !.n = cbw.c.n,
                                !.k = cbw.c.n]
        /\ r \in BOOLEAN
    BY <1>3 DEF TransBegin
  <2> HIDE DEF r
  <2>2. task' \in [pc : {"open"}, read : BOOLEAN, a : {cbw.c.a}, n : {cbw.c.n},
                   k : {cbw.c.n}, status : {task.status}]
    BY <2>1 DEF IsPlace
  <2> QED BY <2>2 DEF IsPlace, Places
<1>4. CASE TransOpen \/ CardStarts \/ BlockFails
  BY <1>4, PipelinePlaces DEF TransOpen, CardStarts, BlockFails
<1>5. CASE CardEnds \/ BlockAcked
  BY <1>5, PipelinePlaces DEF CardEnds, BlockAcked
<1>6. CASE BlockStarts
  BY <1>6 DEF BlockStarts, IsPlace, Places
<1>7. CASE Interrupt
  BY <1>7 DEF Interrupt, BlockSent, DataSent, CswSent, StallWhenSent, taskVars
<1>8. CASE HostCommand \/ HostWritesBlock
  BY <1>8 DEF HostCommand, CbwReceived, HostWritesBlock, BlockReceived, taskVars
<1>9. HostProceeds => task' = task
  BY <1>8 DEF HostProceeds, HostReadsData, HostWritesBlock, BlockReceived, HostDataStalled,
       HostReadsCsw, HostCswStalled, HostCswRefused, HostClearsIn, HostClearsOut,
       HostResets, ClearHaltIn, ClearHaltOut, BulkReset, mscVars, taskVars
<1>10. HostTakes \/ HostResets \/ HostOff \/ HostConfigures \/ CardMoves \/ UNCHANGED vars
         => task' = task
  BY DEF HostTakes, HostResets, HostOff, HostConfigures, CardMoves, BulkReset, BusReset,
         Configure, vars, mscVars, taskVars
<1> QED
  BY <1>1, <1>2, <1>3, <1>4, <1>5, <1>6, <1>7, <1>8, <1>9, <1>10
  DEF Next, Device, MainLoop

LEMMA StepCsw == Typed /\ [Next]_vars => IsCsw'
<1> SUFFICES ASSUME Typed, [Next]_vars PROVE IsCsw'
  OBVIOUS
<1> USE DEF Typed, IsCsw
<1>1. CASE csw' = csw
  BY <1>1
<1>2. CASE HostCommand
  <2>1. PICK c \in Commands, t \in Tags : CbwReceived(c, t)
    BY <1>2 DEF HostCommand
  <2>2. c.len \in Int
    BY CommandsAssumption
  <2>3. \A s : Finish(c, t, s) => IsCsw'
    BY <2>2 DEF Finish
  <2>4. DataSend(c, t) => IsCsw'
    BY <2>2, <2>3 DEF DataSend
  <2>5. Transfer(c, t) => IsCsw'
    BY <2>2, <2>3 DEF Transfer
  <2>6. InvalidCbw(c) => csw' = csw
    BY DEF InvalidCbw
  <2> QED
    BY <2>1, <2>3, <2>4, <2>5, <2>6, <1>1
    DEF CbwReceived, UnitReady, Information, ReadCapacity, StartStop, NoData
<1>3. CASE DataSent \/ CswSent \/ BlockAcked \/ TransStatus
  BY <1>3 DEF DataSent, CswSent, BlockAcked, TransStatus, NoCsw
<1>4. CASE HostConfigures
  BY <1>4 DEF HostConfigures, Configure, NoCsw
<1>5. HostProceeds => csw' = csw
  BY DEF HostProceeds, HostReadsData, HostWritesBlock, BlockReceived, HostDataStalled,
       HostReadsCsw, HostCswStalled, HostCswRefused, HostClearsIn, HostClearsOut,
       HostResets, ClearHaltIn, ClearHaltOut, BulkReset, mscVars
<1>6. HostTakes \/ HostResets \/ HostOff \/ CardMoves \/ UNCHANGED vars => csw' = csw
  BY DEF HostTakes, HostResets, HostOff, CardMoves, BulkReset, BusReset, vars, mscVars
<1>7. TransSeen \/ TransBegin \/ TransOpen \/ CardStarts \/ CardEnds \/ BlockStarts
        \/ BlockFails \/ TransReset \/ TransSend \/ BlockSent \/ StallWhenSent => csw' = csw
  BY DEF TransSeen, TransBegin, TransOpen, CardStarts, CardEnds, BlockStarts, BlockFails,
         TransReset, TransSend, BlockSent, StallWhenSent
<1> QED
  BY <1>1, <1>2, <1>3, <1>4, <1>5, <1>6, <1>7 DEF Next, Device, MainLoop, Interrupt

LEMMA StepIn == Typed /\ [Next]_vars => IsEndpoint(inEp')
<1> SUFFICES ASSUME Typed, [Next]_vars PROVE IsEndpoint(inEp')
  OBVIOUS
<1> USE EndpointConstants, EndpointCalls, ClassCalls DEF Typed
<1>1. CASE inEp' = inEp
  BY <1>1
<1>2. CASE HostCommand
  <2>1. PICK c \in Commands, t \in Tags : CbwReceived(c, t)
    BY <1>2 DEF HostCommand
  <2>2. \A s : Finish(c, t, s) => IsEndpoint(inEp')
    BY DEF Finish
  <2>3. DataSend(c, t) => IsEndpoint(inEp')
    <3>1. IsEndpoint(Run(inEp, "data"))
      BY EndpointCalls
    <3> QED BY <2>2, <3>1 DEF DataSend
  <2>4. Transfer(c, t) => IsEndpoint(inEp')
    BY <2>2 DEF Transfer
  <2>5. InvalidCbw(c) => IsEndpoint(inEp')
    BY DEF InvalidCbw
  <2> QED
    BY <2>1, <2>2, <2>3, <2>4, <2>5
    DEF CbwReceived, UnitReady, Information, ReadCapacity, StartStop, NoData
<1>3. CASE BlockSent \/ DataSent \/ CswSent
  <2>1. \A p : IsEndpoint(Loaded(inEp, p))
    BY ClassCalls
  <2>2. \A p, c, r : IsEndpoint(CswSend(StallIn(Loaded(inEp, p), c, r)))
    BY <2>1, ClassCalls
  <2> QED BY <1>3, <2>1, <2>2 DEF BlockSent, DataSent, CswSent
<1>4. CASE StallWhenSent
  BY <1>4 DEF StallWhenSent
<1>5. CASE HostReadsData \/ HostReadsCsw
  BY <1>5 DEF HostReadsData, HostReadsCsw, TakeIn, InPacket
<1>6. CASE HostDataStalled \/ HostCswStalled \/ HostClearsIn \/ HostClearsOut
  BY <1>6 DEF HostDataStalled, HostCswStalled, HostClearsIn, HostClearsOut, ClearHaltIn,
              ClearHaltOut
<1>7. CASE HostResets \/ HostOff \/ HostConfigures
  <2>1. IsEndpoint(AbortEp(inEp))
    BY ClassCalls
  <2> QED BY <1>7, <2>1 DEF HostResets, HostOff, HostConfigures, BulkReset, BusReset, Configure
<1>8. CASE BlockStarts \/ TransStatus \/ TransSend
  <2>1. IsEndpoint(Run(inEp, "block")) /\ \A c, r : IsEndpoint(StallIn(inEp, c, r))
    BY EndpointCalls, ClassCalls
  <2>2. IsEndpoint(CswSend(inEp))
    BY ClassCalls
  <2> QED BY <1>8, <2>1, <2>2, <1>1 DEF BlockStarts, TransStatus, TransSend
<1>9. TransSeen \/ TransBegin \/ TransOpen \/ CardStarts \/ CardEnds \/ BlockFails
        \/ BlockAcked \/ TransReset => inEp' = inEp
  BY DEF TransSeen, TransBegin, TransOpen, CardStarts, CardEnds, BlockFails, BlockAcked,
         TransReset
<1>10. HostTakes \/ HostWritesBlock \/ HostCswRefused \/ CardMoves \/ UNCHANGED vars
         => inEp' = inEp
  BY DEF HostTakes, HostWritesBlock, HostCswRefused, CardMoves, BlockReceived, vars, mscVars
<1> QED
  BY <1>1, <1>2, <1>3, <1>4, <1>5, <1>6, <1>7, <1>8, <1>9, <1>10
  DEF Next, Device, MainLoop, Interrupt, HostProceeds

LEMMA StepOut == Typed /\ [Next]_vars => IsEndpoint(outEp')
<1> SUFFICES ASSUME Typed, [Next]_vars PROVE IsEndpoint(outEp')
  OBVIOUS
<1> USE EndpointConstants, EndpointCalls, ClassCalls DEF Typed
<1>1. CASE outEp' = outEp
  BY <1>1
<1>2. CASE HostCommand
  <2>1. PICK c \in Commands, t \in Tags : CbwReceived(c, t)
    BY <1>2 DEF HostCommand
  <2>2. \A s : Finish(c, t, s) => IsEndpoint(outEp')
    <3>1. IsEndpoint(Done(outEp))
      BY EndpointCalls
    <3>2. IsEndpoint(StallOut(Done(outEp), c, c.len))
      BY <3>1, ClassCalls
    <3> QED BY <3>2 DEF Finish
  <2>3. DataSend(c, t) => IsEndpoint(outEp')
    BY <2>2 DEF DataSend
  <2>4. Transfer(c, t) => IsEndpoint(outEp')
    BY <2>2 DEF Transfer
  <2>5. InvalidCbw(c) => IsEndpoint(outEp')
    BY DEF InvalidCbw
  <2> QED
    BY <2>1, <2>2, <2>3, <2>4, <2>5
    DEF CbwReceived, UnitReady, Information, ReadCapacity, StartStop, NoData
<1>3. CASE DataSent \/ CswSent \/ HostWritesBlock
  <2>1. /\ IsEndpoint(Done(outEp)) /\ IsEndpoint(CbwWait(outEp))
        /\ \A c, r : IsEndpoint(StallOut(outEp, c, r))
    BY EndpointCalls, ClassCalls
  <2> QED BY <1>3, <2>1 DEF DataSent, CswSent, HostWritesBlock, BlockReceived
<1>4. CASE HostDataStalled \/ HostCswStalled \/ HostClearsIn \/ HostClearsOut
  BY <1>4 DEF HostDataStalled, HostCswStalled, HostClearsIn, HostClearsOut, ClearHaltIn,
              ClearHaltOut
<1>5. CASE HostResets \/ HostOff \/ HostConfigures
  <2>1. IsEndpoint(AbortEp(outEp))
    BY ClassCalls
  <2>2. IsEndpoint(CbwWait(AbortEp(outEp))) /\ IsEndpoint(CbwWait(Opened))
    BY <2>1, EndpointConstants, ClassCalls
  <2> QED BY <1>5, <2>2, EndpointConstants DEF HostResets, HostOff, HostConfigures, BulkReset, BusReset, Configure
<1>6. CASE BlockStarts \/ TransStatus
  <2>1. IsEndpoint(Run(outEp, "block")) /\ \A c, r : IsEndpoint(StallOut(outEp, c, r))
    BY EndpointCalls, ClassCalls
  <2> QED BY <1>6, <2>1, <1>1 DEF BlockStarts, TransStatus
<1>7. TransSeen \/ TransBegin \/ TransOpen \/ CardStarts \/ CardEnds \/ BlockFails
        \/ BlockAcked \/ TransReset \/ TransSend \/ BlockSent \/ StallWhenSent => outEp' = outEp
  BY DEF TransSeen, TransBegin, TransOpen, CardStarts, CardEnds, BlockFails, BlockAcked,
         TransReset, TransSend, BlockSent, StallWhenSent
<1>8. HostTakes \/ HostReadsData \/ HostReadsCsw \/ HostCswRefused \/ CardMoves \/ UNCHANGED vars
        => outEp' = outEp
  BY DEF HostTakes, HostReadsData, HostReadsCsw, HostCswRefused, CardMoves, vars, mscVars
<1> QED
  BY <1>1, <1>2, <1>3, <1>4, <1>5, <1>6, <1>7, <1>8
  DEF Next, Device, MainLoop, Interrupt, HostProceeds

LEMMA StepTyped == Typed /\ [Next]_vars => Typed'
<1>1. ASSUME NEW e, NEW f, e = f, IsEndpoint(e) PROVE IsEndpoint(f)
  BY <1>1
<1> QED BY StepHost, StepTask, StepCsw, StepIn, StepOut DEF Typed

-----------------------------------------------------------------------------
\* What the calls do to an endpoint at rest.

LEMMA Fields ==
  /\ Opened.job = "none" /\ Opened.halt = "no" /\ Opened.bank = <<>>
  /\ Closed.job = "none" /\ Closed.halt = "off" /\ Closed.bank = <<>>
  /\ \A j : /\ Waits(j).job = j /\ Waits(j).halt = "yes" /\ Waits(j).bank = <<>>
            /\ Run(Opened, j).job = j /\ Run(Opened, j).halt = "no"
            /\ Run(Opened, j).bank = <<>>
  BY DEF Opened, Closed, Waits, Run

\* An endpoint is its fields.
LEMMA SameEndpoint ==
  ASSUME NEW e, IsEndpoint(e)
  PROVE  /\ e.job = "none" /\ e.halt = "no" /\ e.bank = <<>> => e = Opened
         /\ \A j : e.job = j /\ e.halt = "no" /\ e.bank = <<>> => e = Run(Opened, j)
         /\ \A j : e.job = j /\ e.halt = "yes" /\ e.bank = <<>> => e = Waits(j)
  BY DEF IsEndpoint, Opened, Run, Waits

LEMMA AtRest ==
  /\ \A j : Done(Run(Opened, j)) = Opened
  /\ SetHalt(Opened) = Waits("none") /\ SetHalt(Closed) = Closed
  /\ \A j, w : /\ RunOrWait(Opened, j, w) = Run(Opened, j)
               /\ RunOrWait(Waits("none"), j, w) = Waits(w)
               /\ RunOrWait(Closed, j, w) = Closed
  /\ \A j : WaitClear(Waits("none"), j) = Waits(j)
  /\ \A j : Unhalted(Waits(j)) = Opened
  /\ \A j : Aborted(Run(Opened, j)) = Opened /\ Aborted(Waits(j)) = Waits("none")
  /\ Aborted(Opened) = Opened
<1>1. \A j : Done(Run(Opened, j)) = Opened
  <2> TAKE j
  <2>1. IsEndpoint(Run(Opened, j))
    BY EndpointConstants, EndpointCalls
  <2>2. IsEndpoint(Done(Run(Opened, j)))
    BY <2>1, EndpointCalls
  <2>3. /\ Done(Run(Opened, j)).job = "none" /\ Done(Run(Opened, j)).halt = "no"
        /\ Done(Run(Opened, j)).bank = <<>>
    BY DEF Done, Run, Opened
  <2> QED BY <2>2, <2>3, SameEndpoint
<1>2. SetHalt(Opened) = Waits("none") /\ SetHalt(Closed) = Closed
  BY DEF SetHalt, Opened, Closed, Waits
<1>3. \A j, w : RunOrWait(Opened, j, w) = Run(Opened, j)
  BY Fields DEF RunOrWait, CanRun
<1>4. \A j : WaitClear(Waits("none"), j) = Waits(j)
  BY DEF WaitClear, Halted, Run, Waits
<1>5. \A j, w : RunOrWait(Waits("none"), j, w) = Waits(w)
  BY <1>4, Fields DEF RunOrWait, CanRun
<1>6. \A j, w : RunOrWait(Closed, j, w) = Closed
  BY Fields DEF RunOrWait, CanRun, WaitClear, Halted
<1>7. \A j : Unhalted(Waits(j)) = Opened
  BY DEF Unhalted, Halted, Waits, Opened
<1>8. /\ \A j : Aborted(Run(Opened, j)) = Opened /\ Aborted(Waits(j)) = Waits("none")
      /\ Aborted(Opened) = Opened
  <2>1. IsEndpoint(Opened) /\ \A j : IsEndpoint(Run(Opened, j)) /\ IsEndpoint(Waits(j))
    BY EndpointConstants, EndpointCalls, EmptyBank DEF IsEndpoint, Waits, Halts
  <2>2. IsEndpoint(Aborted(Opened))
        /\ \A j : IsEndpoint(Aborted(Run(Opened, j))) /\ IsEndpoint(Aborted(Waits(j)))
    BY <2>1, EndpointCalls
  <2>3. \A e : IsEndpoint(e) => /\ Aborted(e).job = "none" /\ Aborted(e).halt = e.halt
                                /\ Aborted(e).bank = <<>>
    BY DEF Aborted, IsEndpoint
  <2> QED BY <2>1, <2>2, <2>3, Fields, SameEndpoint
<1> QED BY <1>1, <1>2, <1>3, <1>4, <1>5, <1>6, <1>7, <1>8

\* The same for an endpoint that still holds packets.
LEMMA Stalled ==
  ASSUME NEW e, IsEndpoint(e), e.job = "none", e.halt = "no"
  PROVE  /\ SetHalt(e).job = "none" /\ SetHalt(e).bank = e.bank
         /\ SetHalt(e).halt = IF e.bank = <<>> THEN "yes" ELSE "requested"
  BY DEF SetHalt, IsEndpoint

LEMMA Sent ==
  ASSUME NEW e, IsEndpoint(e), e.job = "none", e.halt # "off", NEW j, NEW w
  PROVE  /\ RunOrWait(e, j, w).job = IF Halted(e) THEN w ELSE j
         /\ RunOrWait(e, j, w).bank = e.bank /\ RunOrWait(e, j, w).halt = e.halt
<1>1. e.halt = "no" \/ Halted(e)
  BY DEF IsEndpoint, Halts, Halted
<1>2. CASE e.halt = "no"
  BY <1>2 DEF RunOrWait, CanRun, Run, Halted, IsEndpoint
<1>3. CASE Halted(e)
  BY <1>3 DEF RunOrWait, CanRun, WaitClear, Run, Halted, IsEndpoint
<1> QED BY <1>1, <1>2, <1>3

LEMMA LoadedFields ==
  ASSUME NEW e, IsEndpoint(e), NEW p
  PROVE  /\ Loaded(e, p).job = "none" /\ Loaded(e, p).halt = e.halt
         /\ Loaded(e, p).bank = Append(e.bank, p)
  BY DEF Loaded, Done, IsEndpoint

-----------------------------------------------------------------------------
\* Where the device is, from what can be seen of it.

LEMMA IdleFields ==
  /\ Idle.pc = "idle" /\ [Idle EXCEPT !.pc = "begin"].pc = "begin"
  BY DEF Idle

\* The host has a well-formed command out.
InCommand ==
    /\ host.st \in {"data", "csw"} /\ host.cmd \in Commands
    /\ host.cmd.op # "bad" /\ ~cbwInvalid

LEMMA Stage ==
  ASSUME Typed, Transport, enabled
  PROVE  \/ host.st \in {"idle", "done"} /\ Ready
         \/ host.st \in {"clearIn", "clearOut"} /\ Recovering
         \/ host.st \in {"data", "csw", "recover"} /\ Invalid
         \/ InCommand /\ (Answering \/ CswLoaded)
  BY DEF Typed, IsHost, HostStates, Transport, FlagsAgree, InCommand

LEMMA AtRequest ==
  ASSUME Typed, Transport, enabled, transReq \/ task.pc = "begin"
  PROVE  InCommand /\ Held /\ Requested
<1>1. task # Idle \/ transReq
  BY IdleFields
<1> QED
  BY <1>1, Stage, IdleFields
  DEF Ready, Recovering, Invalid, Answering, Moving, InPipeline, Ending, SendsData, SendsCsw, CswLoaded

LEMMA AtMove ==
  ASSUME Typed, Transport, enabled,
         task.pc \in {"open", "card", "usb", "ack", "wait", "done"}
  PROVE  InCommand /\ Held /\ Moving
<1>1. task # Idle /\ task # [Idle EXCEPT !.pc = "begin"]
  BY IdleFields
<1> QED
  BY <1>1, Stage
  DEF Ready, Recovering, Invalid, Answering, Requested, Ending, SendsData, SendsCsw, CswLoaded

LEMMA AtSend ==
  ASSUME Typed, Transport, enabled, task.pc = "send"
  PROVE  InCommand /\ Held /\ Ending
<1>1. task # Idle /\ task # [Idle EXCEPT !.pc = "begin"]
  BY IdleFields
<1> QED
  BY <1>1, Stage
  DEF Ready, Recovering, Invalid, Answering, Requested, Moving, InPipeline, SendsData,
      SendsCsw, CswLoaded

LEMMA AtJob ==
  ASSUME Typed, Transport, enabled
  PROVE  /\ inEp.job = "data" => InCommand /\ Held /\ SendsData
         /\ inEp.job = "csw" => InCommand /\ Held /\ SendsCsw
         /\ inEp.job = "block" => InCommand /\ Held /\ Moving /\ host.cmd.in
         /\ outEp.job = "block" => InCommand /\ Held /\ Moving /\ ~host.cmd.in
         /\ inEp.halt = "requested" => InCommand /\ Held /\ (Ending \/ SendsCsw)
<1>1. InCommand /\ Moving =>
        /\ inEp.halt = "no" /\ inEp.job \in {"none", "block"}
        /\ inEp.job = "block" => host.cmd.in
        /\ outEp.job = "block" => ~host.cmd.in
  BY CommandsAssumption, Fields DEF InCommand, Moving, Moves
<1>2. \/ host.st \in {"idle", "done"} /\ Ready
      \/ host.st \in {"clearIn", "clearOut"} /\ Recovering
      \/ host.st \in {"data", "csw", "recover"} /\ Invalid
      \/ InCommand /\ (Answering \/ CswLoaded)
  BY Stage
<1>3. CASE Ready \/ Recovering \/ Invalid
  BY <1>3, Fields DEF Ready, Recovering, Invalid
<1>4. CASE InCommand /\ CswLoaded
  BY <1>4 DEF CswLoaded, DataOver
<1>5. CASE InCommand /\ Held /\ Requested
  BY <1>5, Fields DEF Requested
<1>6. CASE InCommand /\ Held /\ SendsData
  BY <1>6, Fields DEF SendsData
<1>7. CASE InCommand /\ Held /\ Moving
  BY <1>7, <1>1
<1>8. CASE InCommand /\ Held /\ (Ending \/ SendsCsw)
  BY <1>8, Fields DEF Ending, SendsCsw
<1> QED BY <1>2, <1>3, <1>4, <1>5, <1>6, <1>7, <1>8 DEF Answering

\* A step of the device while the bus is on, and while it is off.
LEMMA OnKeeps ==
  ASSUME InCommand, host' = host, cbwInvalid' = cbwInvalid, FlagsAgree',
         (Held /\ (Requested \/ Moving \/ Ending \/ SendsData \/ SendsCsw))' \/ CswLoaded'
  PROVE  Transport'
  BY DEF InCommand, Transport, Answering

LEMMA OffKeeps ==
  ASSUME Typed, Transport, ~enabled, host' = host, enabled' = enabled,
         inEp' = inEp, outEp' = outEp, ~transReq',
         task'.pc = "idle" => task' = Idle
  PROVE  Transport'
  BY DEF Transport, FlagsAgree

-----------------------------------------------------------------------------
\* The main loop.

\* What a command in Commands is like.
LEMMA CommandFacts ==
  ASSUME InCommand
  PROVE  /\ host.cmd.in \in BOOLEAN /\ host.cmd.len \in Nat /\ host.cmd.n \in Nat
         /\ IsTransfer(host.cmd) =>
              /\ host.cmd.n > 0 /\ host.cmd.len >= 2 * host.cmd.n
              /\ host.cmd.in <=> host.cmd.op = "read"
  BY CommandsAssumption DEF InCommand, IsTransfer, Validate

LEMMA StepSeen ==
  ASSUME Typed, Transport, TransSeen, host' = host
  PROVE  Transport'
<1>1. InCommand /\ Held /\ Requested
  BY AtRequest DEF TransSeen
<1>2. task = Idle
  BY DEF TransSeen, Transport, FlagsAgree
<1>3. task' = [Idle EXCEPT !.pc = "begin"] /\ task'.pc = "begin"
  BY <1>2, IdleFields DEF TransSeen
<1>4. FlagsAgree'
  BY <1>3 DEF TransSeen, flagVars, Transport, FlagsAgree
<1>5. Requested' /\ Held'
  BY <1>1, <1>3 DEF Requested, Held, TransSeen, flagVars, IsTransfer, Validate
<1>6. cbwInvalid' = cbwInvalid
  BY DEF TransSeen, flagVars
<1> QED BY <1>1, <1>4, <1>5, <1>6, OnKeeps

LEMMA StepBegin ==
  ASSUME Typed, Transport, TransBegin, host' = host
  PROVE  Transport'
<1>1. CASE ~enabled
  <2>1. task'.pc = "open"
    BY DEF TransBegin, Typed, IsTask, IsPlace
  <2> QED BY <1>1, <2>1, OffKeeps DEF TransBegin
<1>2. CASE enabled
  <2>1. InCommand /\ Held /\ Requested
    BY <1>2, AtRequest DEF TransBegin
  <2>2. /\ task'.pc = "open" /\ task'.n = host.cmd.n /\ task'.k = host.cmd.n
        /\ task'.read <=> host.cmd.op = "read"
    BY <2>1 DEF TransBegin, Typed, IsTask, IsPlace, Held
  <2>3. FlagsAgree' /\ ackTrans'
    BY <1>2, <2>2 DEF TransBegin, Transport, FlagsAgree
  <2>4. Moving' /\ Held'
    <3>1. IsTransfer(host.cmd) /\ host.cmd.len > 0
      BY <2>1, CommandFacts DEF Requested
    <3>2. Counted'
      BY <2>1, <2>2 DEF Counted, Requested, TransBegin
    <3>3. task'.read = host.cmd.in /\ task'.k \in 0..task'.n
      <4>1. task'.read \in BOOLEAN
        BY StepTask, <2>1 DEF TransBegin, Typed, IsTask, IsPlace
      <4> QED BY <2>1, <2>2, <3>1, <4>1, CommandFacts
    <3>4. host.st = DataStage(host.cmd, host.moved)
      BY <2>1, <3>1 DEF Requested, DataStage
    <3>5. InPipeline'
      BY <2>2, <3>1, <3>2, <3>3 DEF InPipeline, TransBegin, IsTransfer, Validate
    <3>6. (Moves(inEp, outEp) /\ Moves(outEp, inEp) /\ outEp.bank = <<>>)'
      BY <2>1, <2>2, <2>3, <3>1, CommandFacts, EmptyBank, Fields
      DEF Moves, AreData, Requested, TransBegin
    <3> QED BY <2>1, <3>4, <3>5, <3>6 DEF Moving, Held, Requested, TransBegin
  <2>5. cbwInvalid' = cbwInvalid
    BY DEF TransBegin
  <2> QED BY <2>1, <2>3, <2>4, <2>5, OnKeeps
<1> QED BY <1>1, <1>2

\* The place in the pipeline after a part of a step.
SamePart(t, u) == u.n = t.n /\ u.k = t.k /\ u.read = t.read

LEMMA BeginFields ==
  ASSUME NEW t, IsPlace(t)
  PROVE  SamePart(t, BeginStep(t)) /\ BeginStep(t).pc = IF CardPart(t) THEN "card" ELSE "usb"
  BY DEF IsPlace, SamePart, BeginStep

LEMMA FailedFields ==
  ASSUME NEW t, IsPlace(t), NEW x
  PROVE  SamePart(t, Failed(t, x)) /\ Failed(t, x).pc = "done"
  BY DEF IsPlace, SamePart, Failed

LEMMA CardFields ==
  ASSUME NEW t, IsPlace(t)
  PROVE  SamePart(t, EndCard(t)) /\ EndCard(t).pc = IF UsbPart(t) THEN "usb" ELSE "wait"
  BY DEF IsPlace, SamePart, EndCard

LEMMA EndFields ==
  ASSUME NEW t, IsPlace(t)
  PROVE  /\ t.k = 0 => SamePart(t, EndStep(t)) /\ EndStep(t).pc = "done"
         /\ t.k # 0 => /\ EndStep(t).n = t.n /\ EndStep(t).k = t.k - 1
                       /\ EndStep(t).read = t.read
                       /\ EndStep(t).pc = IF CardPart(EndStep(t)) THEN "card" ELSE "usb"
<1>1. CASE t.k = 0
  BY <1>1 DEF IsPlace, SamePart, EndStep
<1>2. CASE t.k # 0
  <2> DEFINE u == [t EXCEPT !.k = @ - 1]
  <2>1. IsPlace(u) /\ u.n = t.n /\ u.k = t.k - 1 /\ u.read = t.read
    BY DEF IsPlace
  <2>2. EndStep(t) = BeginStep(u)
    BY <1>2 DEF EndStep
  <2> HIDE DEF u
  <2> QED BY <1>2, <2>1, <2>2, BeginFields DEF SamePart, CardPart
<1> QED BY <1>1, <1>2

LEMMA UsbFields ==
  ASSUME NEW t, IsPlace(t)
  PROVE  /\ CardPart(t) => SamePart(t, EndUsb(t)) /\ EndUsb(t).pc = "wait"
         /\ ~CardPart(t) => EndUsb(t) = EndStep(t)
  BY DEF IsPlace, SamePart, EndUsb

\* A task that is at most at the end of its transfer has counted at most as
\* many sectors.
LEMMA CountedBound ==
  ASSUME Typed, InCommand, InPipeline
  PROVE  /\ task.n \in Nat /\ task.n > 0 /\ task.k \in Nat /\ task.read \in BOOLEAN
         /\ csw.residue \in Int
         /\ host.cmd.len - csw.residue \in 0..2 * task.n
         /\ task.pc = "ack" => host.cmd.len - csw.residue <= 2 * (task.n - 1)
<1>1. /\ task.n \in Nat /\ task.n > 0 /\ task.k \in 0..task.n /\ task.read \in BOOLEAN
      /\ csw.residue \in Int /\ host.cmd.len \in Nat
  BY CommandFacts DEF InPipeline, Typed, IsCsw, IsTask, IsPlace
<1> QED
  BY <1>1 DEF InPipeline, Counted, UsbPart, CardPart

\* A move of the main loop inside the pipeline that leaves the bus alone.
LEMMA PipelineKeeps ==
  ASSUME Typed, Transport, enabled, host' = host, IsPlace(task'),
         task.pc \in {"open", "card", "usb", "wait"}, task'.pc \in {"card", "usb", "wait", "done"},
         task'.n = task.n, task'.read = task.read, task'.k \in 0..task.n,
         task'.pc = "usb" => UsbPart(task'),
         task'.pc \in {"card", "wait"} => CardPart(task'),
         Counted', csw' = csw, cbw' = cbw, UNCHANGED flagVars, inEp' = inEp, outEp' = outEp
  PROVE  Transport'
<1>1. InCommand /\ Held /\ Moving
  BY AtMove
<1>2. FlagsAgree'
  BY DEF Transport, FlagsAgree, flagVars
<1>3. InPipeline'
  BY <1>1 DEF Moving, InPipeline, IsTransfer, Validate, flagVars
<1>4. Moving' /\ Held'
  BY <1>1, <1>3 DEF Moving, Moves, Held, AreData, DataKind, DataStage, flagVars
<1>5. cbwInvalid' = cbwInvalid
  BY DEF flagVars
<1> QED BY <1>1, <1>2, <1>4, <1>5, OnKeeps

LEMMA StepOpen ==
  ASSUME Typed, Transport, TransOpen, host' = host
  PROVE  Transport'
<1>1. /\ task' = BeginStep(task) \/ \E x : task' = Failed(task, x)
      /\ csw' = csw /\ cbw' = cbw /\ UNCHANGED flagVars /\ inEp' = inEp /\ outEp' = outEp
      /\ task.pc = "open"
  BY DEF TransOpen
<1>2. /\ IsPlace(task') /\ SamePart(task, task')
      /\ task'.pc = "done" \/ task'.pc = (IF CardPart(task) THEN "card" ELSE "usb")
  BY <1>1, PipelinePlaces, BeginFields, FailedFields DEF Typed, IsTask
<1>3. CASE ~enabled
  BY <1>1, <1>2, <1>3, OffKeeps DEF flagVars, Transport, FlagsAgree
<1>4. CASE enabled
  <2>1. InCommand /\ InPipeline
    BY <1>1, <1>4, AtMove DEF Moving
  <2>2. /\ task.n \in Nat /\ task.n > 0 /\ task.k \in 0..task.n /\ task.read \in BOOLEAN
        /\ csw.residue \in Int /\ host.cmd.len \in Nat
    BY <2>1, CountedBound, CommandFacts DEF InPipeline
  <2>3. task.k = task.n /\ csw.residue = host.cmd.len
    BY <1>1, <2>1 DEF InPipeline, Counted
  <2>4. Counted'
    BY <1>1, <1>2, <2>2, <2>3 DEF SamePart, Counted
  <2>5. ~CardPart(task) => UsbPart(task)
    BY <2>2, <2>3 DEF CardPart, UsbPart
  <2>6. /\ CardPart(task') <=> CardPart(task)
        /\ UsbPart(task') <=> UsbPart(task)
    BY <1>2 DEF SamePart, CardPart, UsbPart
  <2>7. task'.pc \in {"card", "usb", "done"}
    BY <1>2
  <2> QED BY <1>1, <1>2, <1>4, <2>2, <2>4, <2>5, <2>6, <2>7, PipelineKeeps DEF SamePart
<1> QED BY <1>3, <1>4

LEMMA StepCardStarts ==
  ASSUME Typed, Transport, CardStarts, host' = host
  PROVE  Transport'
<1>1. /\ task' = EndCard(task) \/ task' = Failed(task, "fail")
      /\ csw' = csw /\ cbw' = cbw /\ UNCHANGED flagVars /\ inEp' = inEp /\ outEp' = outEp
      /\ task.pc = "card"
  BY DEF CardStarts
<1>2. /\ IsPlace(task') /\ SamePart(task, task')
      /\ task'.pc = "done" \/ task'.pc = (IF UsbPart(task) THEN "usb" ELSE "wait")
  BY <1>1, PipelinePlaces, CardFields, FailedFields DEF Typed, IsTask
<1>3. CASE ~enabled
  BY <1>1, <1>2, <1>3, OffKeeps DEF flagVars, Transport, FlagsAgree
<1>4. CASE enabled
  <2>1. InCommand /\ InPipeline
    BY <1>1, <1>4, AtMove DEF Moving
  <2>2. /\ task.n \in Nat /\ task.n > 0 /\ task.k \in 0..task.n /\ task.read \in BOOLEAN
        /\ csw.residue \in Int /\ host.cmd.len \in Nat
        /\ host.cmd.len - csw.residue \in 0..2 * task.n
    BY <2>1, CountedBound, CommandFacts DEF InPipeline
  <2>3. CardPart(task)
    BY <1>1, <2>1 DEF InPipeline
  <2>4. /\ CardPart(task') <=> CardPart(task)
        /\ UsbPart(task') <=> UsbPart(task)
    BY <1>2 DEF SamePart, CardPart, UsbPart
  <2>5. Counted'
    BY <1>1, <1>2, <2>1, <2>2, <2>4 DEF InPipeline, SamePart, Counted
  <2>6. task'.pc \in {"usb", "wait", "done"}
    BY <1>2
  <2> QED BY <1>1, <1>2, <1>4, <2>2, <2>3, <2>4, <2>5, <2>6, PipelineKeeps DEF SamePart
<1> QED BY <1>3, <1>4

LEMMA StepCardEnds ==
  ASSUME Typed, Transport, CardEnds, host' = host
  PROVE  Transport'
<1>1. /\ task' = EndStep(task) \/ task' = Failed(task, "fail")
      /\ csw' = csw /\ cbw' = cbw /\ UNCHANGED flagVars /\ inEp' = inEp /\ outEp' = outEp
      /\ task.pc = "wait"
  BY DEF CardEnds
<1>2. IsPlace(task') /\ task'.pc \in {"card", "usb", "done"}
  BY <1>1, PipelinePlaces, EndFields, FailedFields DEF Typed, IsTask
<1>3. CASE ~enabled
  BY <1>1, <1>2, <1>3, OffKeeps DEF flagVars, Transport, FlagsAgree
<1>4. CASE enabled
  <2>1. InCommand /\ InPipeline
    BY <1>1, <1>4, AtMove DEF Moving
  <2>2. /\ task.n \in Nat /\ task.n > 0 /\ task.k \in 0..task.n /\ task.read \in BOOLEAN
        /\ csw.residue \in Int /\ host.cmd.len \in Nat
        /\ host.cmd.len - csw.residue \in 0..2 * task.n
    BY <2>1, CountedBound, CommandFacts DEF InPipeline
  <2>3. /\ task'.n = task.n /\ task'.read = task.read /\ task'.k \in 0..task.n
        /\ \/ task'.pc = "done"
           \/ /\ task'.k = task.k - 1
              /\ task'.pc = IF CardPart(task') THEN "card" ELSE "usb"
    BY <1>1, <2>2, EndFields, FailedFields DEF SamePart, Typed, IsTask
  <2>4. Counted'
    BY <1>1, <2>1, <2>2, <2>3 DEF InPipeline, Counted, UsbPart, CardPart
  <2>5. /\ task'.pc = "usb" => UsbPart(task')
        /\ task'.pc = "card" => CardPart(task')
    BY <2>2, <2>3 DEF CardPart, UsbPart
  <2> QED BY <1>1, <1>2, <1>4, <2>3, <2>4, <2>5, PipelineKeeps
<1> QED BY <1>3, <1>4

LEMMA StepBlockStarts ==
  ASSUME Typed, Transport, BlockStarts, host' = host
  PROVE  Transport'
<1>1. CASE ~enabled
  BY <1>1, Fields DEF BlockStarts, Transport, FlagsAgree, CanRun
<1>2. CASE enabled
  <2>1. InCommand /\ Held /\ Moving
    BY <1>2, AtMove DEF BlockStarts
  <2>2. /\ task' = [task EXCEPT !.pc = "ack"] /\ task.pc = "usb" /\ ackTrans /\ ~ackTrans'
        /\ csw' = csw /\ cbw' = cbw /\ cbwInvalid' = cbwInvalid /\ transReq' = transReq
        /\ resetTrans' = resetTrans /\ enabled' = enabled
    BY DEF BlockStarts
  <2>3. task'.pc = "ack" /\ SamePart(task, task')
    BY <2>2 DEF SamePart, Typed, IsTask, IsPlace
  <2>4. FlagsAgree'
    BY <2>2, <2>3, <1>2 DEF Transport, FlagsAgree
  <2>5. InPipeline'
    BY <2>1, <2>2, <2>3
    DEF Moving, InPipeline, Counted, SamePart, UsbPart, CardPart, IsTransfer, Validate
  <2>6. CASE host.cmd.in
    <3>1. inEp' = Run(inEp, "block") /\ outEp' = outEp
      BY <2>1, <2>6 DEF BlockStarts, Moving, InPipeline
    <3>2. inEp'.job = "block" /\ inEp'.halt = inEp.halt /\ inEp'.bank = inEp.bank
      BY <3>1 DEF Run, Typed, IsEndpoint
    <3>3. Moves(inEp, outEp)
      BY <2>1, <2>6 DEF Moving
    <3>4. Moves(inEp, outEp)'
      BY <2>2, <2>3, <3>1, <3>2, <3>3 DEF Moves, AreData, DataKind
    <3> QED BY <2>1, <2>2, <2>4, <2>5, <2>6, <3>4, OnKeeps DEF Moving, DataStage, Held
  <2>7. CASE ~host.cmd.in
    <3>1. outEp' = Run(outEp, "block") /\ inEp' = inEp
      BY <2>1, <2>7 DEF BlockStarts, Moving, InPipeline
    <3>2. outEp'.job = "block" /\ outEp'.halt = outEp.halt /\ outEp'.bank = outEp.bank
      BY <3>1 DEF Run, Typed, IsEndpoint
    <3>3. Moves(outEp, inEp) /\ outEp.bank = <<>>
      BY <2>1, <2>7 DEF Moving
    <3>4. Moves(outEp, inEp)'
      BY <2>2, <2>3, <3>1, <3>2, <3>3 DEF Moves, AreData, DataKind
    <3> QED BY <2>1, <2>2, <2>4, <2>5, <2>7, <3>2, <3>3, <3>4, OnKeeps DEF Moving, DataStage, Held
  <2> QED BY <2>6, <2>7
<1> QED BY <1>1, <1>2

LEMMA StepBlockFails ==
  ASSUME Typed, Transport, BlockFails, host' = host
  PROVE  Transport'
<1>1. CASE ~enabled
  <2>1. task'.pc = "done"
    BY FailedFields DEF BlockFails, Typed, IsTask
  <2> QED BY <1>1, <2>1, OffKeeps DEF BlockFails, flagVars, Transport, FlagsAgree
<1>2. CASE enabled
  <2>1. InCommand /\ Moving
    BY <1>2, AtMove DEF BlockFails
  <2>2. task.pc = "usb" => ackTrans /\ CanRun(IF task.read THEN inEp ELSE outEp)
    BY <1>2, <2>1, CommandFacts DEF Transport, FlagsAgree, Moving, Moves, InPipeline, CanRun
  <2> QED BY <1>2, <2>2 DEF BlockFails, Transport, FlagsAgree
<1> QED BY <1>1, <1>2

LEMMA StepBlockAcked ==
  ASSUME Typed, Transport, BlockAcked, host' = host
  PROVE  Transport'
<1>1. /\ task' = EndUsb(task) /\ task.pc = "ack" /\ ackTrans /\ ~abortTrans
      /\ csw' = [csw EXCEPT !.residue = @ - 2] /\ cbw' = cbw /\ UNCHANGED flagVars
      /\ inEp' = inEp /\ outEp' = outEp
  BY DEF BlockAcked
<1>2. IsPlace(task') /\ task'.pc \in {"card", "usb", "wait", "done"}
  BY <1>1, PipelinePlaces, EndFields, UsbFields DEF Typed, IsTask
<1>3. CASE ~enabled
  BY <1>1, <1>2, <1>3, OffKeeps DEF flagVars, Transport, FlagsAgree
<1>4. CASE enabled
  <2>1. InCommand /\ Held /\ Moving
    BY <1>1, <1>4, AtMove
  <2>2. /\ task.n \in Nat /\ task.n > 0 /\ task.k \in 0..task.n /\ task.read \in BOOLEAN
        /\ csw.residue \in Int /\ host.cmd.len \in Nat
        /\ host.cmd.len - csw.residue \in 0..2 * (task.n - 1)
    BY <1>1, <2>1, CountedBound, CommandFacts DEF Moving, InPipeline
  <2>3. csw'.residue = csw.residue - 2
    BY <1>1 DEF Typed, IsCsw
  <2>4. /\ task'.n = task.n /\ task'.read = task.read /\ task'.k \in 0..task.n
        /\ CASE CardPart(task) -> task'.pc = "wait" /\ task'.k = task.k
             [] ~CardPart(task) /\ task.k = 0 -> task'.pc = "done"
             [] OTHER -> task'.k = task.k - 1
                         /\ task'.pc = IF CardPart(task') THEN "card" ELSE "usb"
    BY <1>1, <2>2, EndFields, UsbFields DEF SamePart, Typed, IsTask
  <2>5. UsbPart(task)
    BY <1>1, <2>1 DEF Moving, InPipeline
  <2>6. Counted'
    <3>1. host.cmd.len - csw.residue
            = 2 * (IF task.read /\ task.k # task.n THEN task.n - 1 - task.k ELSE task.n - task.k)
      BY <1>1, <2>1, <2>2 DEF Moving, InPipeline, Counted
    <3>2. host.cmd.len - csw'.residue = (host.cmd.len - csw.residue) + 2
      BY <2>2, <2>3
    <3>3. CASE CardPart(task)
      <4>1. task'.pc = "wait" /\ task'.k = task.k /\ UsbPart(task')
        BY <2>4, <2>5, <3>3 DEF UsbPart
      <4> QED BY <2>2, <2>4, <3>1, <3>2, <4>1 DEF Counted
    <3>4. CASE ~CardPart(task) /\ task.k = 0
      BY <2>2, <2>3, <2>4, <3>4 DEF Counted
    <3>5. CASE ~CardPart(task) /\ task.k # 0
      <4>1. ~task.read /\ task.k = task.n
        BY <3>5 DEF CardPart
      <4>2. task'.k = task.n - 1 /\ task'.pc = IF CardPart(task') THEN "card" ELSE "usb"
        BY <2>4, <3>5, <4>1
      <4> QED BY <2>2, <2>4, <3>1, <3>2, <4>1, <4>2 DEF Counted
    <3> QED BY <3>3, <3>4, <3>5
  <2>7. /\ task'.pc = "usb" => UsbPart(task')
        /\ task'.pc \in {"card", "wait"} => CardPart(task')
    BY <2>2, <2>4 DEF CardPart, UsbPart
  <2>8. InPipeline'
    BY <1>1, <1>2, <2>1, <2>4, <2>6, <2>7
    DEF Moving, InPipeline, IsTransfer, Validate, flagVars
  <2>9. host.cmd.in => Moves(inEp, outEp)'
    <3> SUFFICES ASSUME host.cmd.in PROVE Moves(inEp, outEp)'
      OBVIOUS
    <3>1. Moves(inEp, outEp)
      BY <2>1 DEF Moving
    <3>2. /\ host.moved + 2 * Len(inEp.bank) = host.cmd.len - csw'.residue
          /\ host.cmd.len - csw'.residue \in Int
      <4>1. task.pc = "ack" /\ ackTrans
        BY <1>1
      <4>2. host.moved + 2 * Len(inEp.bank) = host.cmd.len - csw.residue + 2
        BY <3>1, <4>1 DEF Moves
      <4> QED BY <2>2, <2>3, <4>2
    <3>3. AreData(inEp.bank, Len(inEp.bank))'
      BY <1>1, <3>1 DEF Moves, AreData, DataKind
    <3> QED BY <1>1, <1>2, <3>1, <3>2, <3>3 DEF Moves, flagVars
  <2>10. ~host.cmd.in => Moves(outEp, inEp)'
    <3> SUFFICES ASSUME ~host.cmd.in PROVE Moves(outEp, inEp)'
      OBVIOUS
    <3>1. Moves(outEp, inEp)
      BY <2>1 DEF Moving
    <3>2. /\ host.moved + 2 * Len(outEp.bank) = host.cmd.len - csw'.residue
          /\ host.cmd.len - csw'.residue \in Int
      <4>1. task.pc = "ack" /\ ackTrans
        BY <1>1
      <4>2. host.moved + 2 * Len(outEp.bank) = host.cmd.len - csw.residue + 2
        BY <3>1, <4>1 DEF Moves
      <4> QED BY <2>2, <2>3, <4>2
    <3>3. AreData(outEp.bank, Len(outEp.bank))'
      BY <1>1, <3>1 DEF Moves, AreData, DataKind
    <3> QED BY <1>1, <1>2, <3>1, <3>2, <3>3 DEF Moves, flagVars
  <2>11. Moving' /\ Held'
    BY <1>1, <2>1, <2>8, <2>9, <2>10 DEF Moving, Held, DataStage
  <2>12. FlagsAgree' /\ cbwInvalid' = cbwInvalid
    BY <1>1, <1>2 DEF Transport, FlagsAgree, flagVars
  <2> QED BY <2>1, <2>11, <2>12, OnKeeps
<1> QED BY <1>3, <1>4

LEMMA StepReset ==
  ASSUME Typed, Transport, TransReset, host' = host
  PROVE  Transport'
<1>1. ~enabled
  BY DEF TransReset, Transport, FlagsAgree
<1> QED BY <1>1, OffKeeps DEF TransReset, Transport, FlagsAgree

\* The end of a transfer: the data phase is over once a residue has stalled it.
LEMMA StepStatus ==
  ASSUME Typed, Transport, TransStatus, host' = host
  PROVE  Transport'
<1>1. task'.pc = "send"
  BY DEF TransStatus, Typed, IsTask, IsPlace
<1>2. CASE ~enabled
  <2>1. inEp = Closed /\ outEp = Closed
    BY <1>2 DEF Transport, FlagsAgree
  <2> QED
    BY <1>1, <1>2, <2>1, AtRest, OffKeeps
    DEF TransStatus, StallIn, StallOut, flagVars, Transport, FlagsAgree
<1>3. CASE enabled
  <2>1. InCommand /\ Held /\ Moving
    BY <1>3, AtMove DEF TransStatus
  <2>2. /\ csw'.residue = csw.residue /\ csw'.tag = host.tag
        /\ cbw' = cbw /\ UNCHANGED flagVars /\ task.pc = "done"
        /\ inEp' = StallIn(inEp, host.cmd, csw.residue)
        /\ outEp' = StallOut(outEp, host.cmd, csw.residue)
    BY <2>1 DEF TransStatus, Held, Typed, IsCsw
  <2>3. FlagsAgree' /\ ackTrans
    BY <1>1, <1>3, <2>2 DEF Transport, FlagsAgree, flagVars
  <2>4. /\ csw.residue \in Nat /\ host.cmd.len \in Nat /\ host.moved \in Nat
        /\ host.cmd.in \in BOOLEAN
    BY <2>1, <2>2, CountedBound, CommandFacts DEF Moving, InPipeline, Typed, IsHost
  <2>5. Ending'
    <3>1. CASE host.cmd.in
      <4>1. Moves(inEp, outEp) /\ host.cmd.op = "read"
        BY <2>1, <3>1, CommandFacts DEF Moving, InPipeline
      <4>2. outEp' = Opened
        BY <2>2, <3>1, <4>1 DEF StallOut, Moves
      <4>3. /\ inEp'.job = "none" /\ inEp'.bank = inEp.bank
            /\ csw.residue = 0 => inEp'.halt = "no"
            /\ csw.residue # 0 => inEp'.halt = IF inEp.bank = <<>> THEN "yes" ELSE "requested"
        <5>1. inEp.job = "none" /\ inEp.halt = "no"
          BY <2>3, <4>1 DEF Moves
        <5>2. CASE csw.residue = 0
          BY <2>2, <5>1, <5>2 DEF StallIn
        <5>3. CASE csw.residue # 0
          BY <2>2, <3>1, <5>1, <5>3, Stalled DEF StallIn, Typed
        <5> QED BY <5>2, <5>3
      <4>4. Len(inEp.bank) \in Nat /\ (inEp.bank = <<>> <=> Len(inEp.bank) = 0)
        BY BankLen DEF Typed, IsEndpoint
      <4>5. /\ host.moved + 2 * Len(inEp.bank) + csw.residue = host.cmd.len
            /\ AreData(inEp.bank, Len(inEp.bank))
        BY <2>2, <2>4, <4>1, <4>4 DEF Moves
      <4>6. host.st = DataStage(host.cmd, host.moved) /\ ~host.retried
        BY <2>1 DEF Moving
      <4>7. DataOver(Len(inEp.bank), csw.residue)'
        <5>1. outEp'.halt = "no" /\ outEp'.bank = <<>>
          BY <4>2, Fields
        <5>2. Units(Len(inEp.bank))' = 2 * Len(inEp.bank)
          BY <4>1, <4>3 DEF Units
        <5>3. host.st = "data" \/ (host.st = "csw" /\ Len(inEp.bank) = 0 /\ csw.residue = 0)
          BY <2>4, <4>4, <4>5, <4>6 DEF DataStage
        <5>4. csw.residue # 0 \/ Len(inEp.bank) > 0 => host.st = "data"
          BY <4>4, <5>3
        <5> QED
          BY <2>2, <2>4, <3>1, <4>1, <4>3, <4>4, <4>5, <4>6, <5>1, <5>2, <5>3, <5>4
          DEF DataOver, DataStage, Unstalled, Halted
      <4> QED
        BY <1>1, <2>1, <2>2, <4>2, <4>3, <4>5, <4>7, Fields
        DEF Ending, AreData, DataKind, flagVars, Moving, InPipeline
    <3>2. CASE ~host.cmd.in
      <4>1. Moves(outEp, inEp) /\ outEp.bank = <<>> /\ host.cmd.op = "write"
        BY <2>1, <3>2, CommandFacts DEF Moving, InPipeline, IsTransfer
      <4>2. inEp' = Opened
        BY <2>2, <3>2, <4>1 DEF StallIn, Moves
      <4>3. /\ outEp'.job = "none" /\ outEp'.bank = <<>>
            /\ outEp'.halt = IF csw.residue = 0 THEN "no" ELSE "yes"
        BY <2>2, <2>3, <2>4, <3>2, <4>1, Stalled DEF StallOut, Moves, Typed
      <4>4. host.moved + csw.residue = host.cmd.len
        BY <2>2, <2>4, <4>1, EmptyBank DEF Moves
      <4>5. host.st = DataStage(host.cmd, host.moved) /\ ~host.retried
        BY <2>1 DEF Moving
      <4>6. DataOver(0, csw.residue)'
        BY <2>2, <2>4, <3>2, <4>1, <4>2, <4>3, <4>4, <4>5, Fields
        DEF DataOver, DataStage, Units, Unstalled
      <4> QED
        BY <1>1, <2>1, <2>2, <4>2, <4>3, <4>6, Fields, EmptyBank
        DEF Ending, AreData, flagVars, Moving, InPipeline
    <3> QED BY <2>4, <3>1, <3>2
  <2> QED BY <2>1, <2>2, <2>3, <2>5, OnKeeps DEF Held, flagVars
<1> QED BY <1>2, <1>3

LEMMA StepSend ==
  ASSUME Typed, Transport, TransSend, host' = host
  PROVE  Transport'
<1>1. task' = Idle /\ task'.pc = "idle"
  BY IdleFields DEF TransSend
<1>2. CASE ~enabled
  <2>1. inEp = Closed
    BY <1>2 DEF Transport, FlagsAgree
  <2> QED
    BY <1>1, <1>2, <2>1, AtRest, OffKeeps
    DEF TransSend, CswSend, flagVars, Transport, FlagsAgree
<1>3. CASE enabled
  <2>1. InCommand /\ Held /\ Ending
    BY <1>3, AtSend DEF TransSend
  <2>2. /\ csw' = csw /\ cbw' = cbw /\ UNCHANGED flagVars /\ outEp' = outEp
        /\ inEp' = RunOrWait(inEp, "csw", "wait_csw")
    BY DEF TransSend, CswSend
  <2>3. /\ inEp'.job = (IF Halted(inEp) THEN "wait_csw" ELSE "csw")
        /\ inEp'.bank = inEp.bank /\ inEp'.halt = inEp.halt
    <3>1. inEp.halt # "off" /\ inEp.job = "none"
      BY <2>1 DEF Ending, DataOver, Halted
    <3> QED BY <2>2, <3>1, Sent DEF Typed
  <2>4. SendsCsw'
    BY <1>1, <2>1, <2>2, <2>3
    DEF Ending, SendsCsw, AreData, DataKind, DataOver, Units, Unstalled, DataStage, Halted,
        flagVars
  <2>5. FlagsAgree'
    BY <1>1, <2>2, <1>3 DEF TransSend, Transport, FlagsAgree, flagVars
  <2> QED BY <2>1, <2>2, <2>4, <2>5, OnKeeps DEF Held, flagVars
<1> QED BY <1>2, <1>3

-----------------------------------------------------------------------------
\* The interrupt.

\* It has nothing to do while the endpoints are freed.
LEMMA InterruptOn ==
  ASSUME Transport, Interrupt PROVE enabled
<1>1. CASE ~enabled
  <2>1. inEp.halt = "off"
    BY <1>1, Fields DEF Transport, FlagsAgree
  <2> QED
    BY <2>1 DEF Interrupt, BlockSent, DataSent, CswSent, StallWhenSent, CanLoad
<1> QED BY <1>1

LEMMA StepBlockSent ==
  ASSUME Typed, Transport, BlockSent, host' = host
  PROVE  Transport'
<1>1. enabled /\ inEp.job = "block"
  BY InterruptOn DEF Interrupt, BlockSent, CanLoad
<1>2. InCommand /\ Held /\ Moving /\ host.cmd.in
  BY <1>1, AtJob
<1>3. Moves(inEp, outEp) /\ ~ackTrans /\ task.pc = "ack"
  BY <1>1, <1>2 DEF Moving, Moves, Transport, FlagsAgree
<1>4. /\ ackTrans' /\ ~abortTrans' /\ csw' = csw /\ cbw' = cbw /\ outEp' = outEp /\ task' = task
      /\ cbwInvalid' = cbwInvalid /\ transReq' = transReq /\ resetTrans' = resetTrans
      /\ enabled' = enabled
  BY DEF BlockSent, taskVars
<1> DEFINE p == [kind |-> "block", v |-> sectors[UsbBuffer(task.k)]]
<1>5. inEp' = Loaded(inEp, p) /\ p.kind = "block"
  BY DEF BlockSent
<1> HIDE DEF p
<1>6. inEp'.job = "none" /\ inEp'.halt = "no" /\ inEp'.bank = Append(inEp.bank, p)
  BY <1>3, <1>5, LoadedFields DEF Typed, Moves
<1>7. /\ Len(inEp'.bank) = Len(inEp.bank) + 1 /\ Len(inEp.bank) \in Nat
      /\ inEp'.bank[Len(inEp.bank) + 1] = p
      /\ \A i \in 1..Len(inEp.bank) : inEp'.bank[i] = inEp.bank[i]
  BY <1>6, BankAppend, BankLen DEF Typed, IsEndpoint
<1>8. AreData(inEp.bank, Len(inEp.bank))'
  <2>1. DataKind = "block"
    BY <1>2, CommandFacts DEF DataKind, Moving, InPipeline
  <2>2. \A i \in 1..Len(inEp.bank) : inEp.bank[i].kind = DataKind
    BY <1>3 DEF Moves, AreData
  <2>3. \A i \in 1..(Len(inEp.bank) + 1) : i = Len(inEp.bank) + 1 \/ i \in 1..Len(inEp.bank)
    BY <1>7
  <2>4. \A i \in 1..Len(inEp'.bank) : inEp'.bank[i].kind = "block"
    BY <1>5, <1>7, <2>1, <2>2, <2>3
  <2>5. DataKind' = "block"
    BY <2>1 DEF DataKind
  <2> QED BY <2>4, <2>5 DEF AreData
<1>9. Moves(inEp, outEp)'
  <2>1. csw.residue \in Int /\ host.cmd.len \in Nat /\ host.moved \in Nat
    BY <1>2, CommandFacts DEF Typed, IsCsw, IsHost
  <2> QED BY <1>3, <1>4, <1>6, <1>7, <1>8, <2>1 DEF Moves
<1>10. InPipeline'
  BY <1>2, <1>4
  DEF Moving, InPipeline, Counted, UsbPart, CardPart, IsTransfer, Validate
<1>11. Moving' /\ Held'
  BY <1>2, <1>4, <1>9, <1>10 DEF Moving, Held, DataStage
<1>12. FlagsAgree'
  BY <1>4 DEF Transport, FlagsAgree
<1> QED BY <1>2, <1>4, <1>11, <1>12, OnKeeps

LEMMA StepDataSent ==
  ASSUME Typed, Transport, DataSent, host' = host
  PROVE  Transport'
<1>1. enabled /\ inEp.job = "data"
  BY InterruptOn DEF Interrupt, DataSent, CanLoad
<1>2. InCommand /\ Held /\ SendsData
  BY <1>1, AtJob
<1>3. /\ host.cmd.len \in Nat /\ host.cmd.len > 0 /\ host.cmd.in /\ host.moved = 0
      /\ csw.residue = host.cmd.len /\ host.cmd.op # "read"
  BY <1>2, CommandFacts DEF SendsData
<1> DEFINE p == [kind |-> "data", v |-> IF cbw.c.op = "sense" THEN sense ELSE "info"]
           e == Loaded(inEp, p)
           r == host.cmd.len - 1
<1>4. /\ csw'.tag = host.tag /\ csw'.residue = r
      /\ inEp' = CswSend(StallIn(e, host.cmd, r))
      /\ outEp' = StallOut(outEp, host.cmd, r)
      /\ cbw' = cbw /\ UNCHANGED flagVars /\ task' = task
  <2>1. cbw.c = host.cmd /\ cbw.tag = host.tag
    BY <1>2 DEF Held
  <2> QED BY <1>3, <2>1 DEF DataSent, taskVars
<1>5. p.kind = "data"
  OBVIOUS
<1> HIDE DEF p
<1>6. /\ IsEndpoint(e) /\ e.job = "none" /\ e.halt = "no"
      /\ e.bank # <<>> /\ Len(e.bank) = 1 /\ e.bank[1] = p
  <2>1. inEp.halt = "no" /\ inEp.bank = <<>>
    BY <1>2, Fields DEF SendsData
  <2>2. IsEndpoint(e) /\ e.job = "none" /\ e.halt = "no" /\ e.bank = Append(<<>>, p)
    BY <2>1, LoadedFields, ClassCalls DEF Typed
  <2> QED BY <2>2, EmptyBank, BankAppend
<1> HIDE DEF e
<1>7. outEp' = Opened
  BY <1>2, <1>3, <1>4 DEF StallOut, SendsData
<1>8. /\ inEp'.bank = e.bank
      /\ r = 0 => inEp'.halt = "no" /\ inEp'.job = "csw"
      /\ r # 0 => inEp'.halt = "requested" /\ inEp'.job = "wait_csw"
  <2>1. CASE r = 0
    <3>1. inEp' = RunOrWait(e, "csw", "wait_csw")
      BY <1>4, <2>1 DEF StallIn, CswSend
    <3> QED BY <1>6, <2>1, <3>1, Sent DEF Halted
  <2>2. CASE r # 0
    <3> DEFINE f == SetHalt(e)
    <3>1. f.job = "none" /\ f.bank = e.bank /\ f.halt = "requested" /\ IsEndpoint(f)
      BY <1>6, Stalled, EndpointCalls
    <3>2. inEp' = RunOrWait(f, "csw", "wait_csw")
      BY <1>3, <1>4, <2>2 DEF StallIn, CswSend
    <3> HIDE DEF f
    <3>3. Halted(f)
      BY <3>1 DEF Halted
    <3> QED BY <2>2, <3>1, <3>2, <3>3, Sent
  <2> QED BY <2>1, <2>2
<1>9. SendsCsw'
  <2>1. AreData(inEp.bank, Len(inEp.bank))'
    BY <1>3, <1>5, <1>6, <1>8 DEF AreData, DataKind
  <2>2. host.st = "data" /\ ~host.retried
    BY <1>2 DEF SendsData
  <2>3. DataOver(Len(inEp.bank), csw.residue)'
    <3>1. Len(inEp'.bank) = 1 /\ Units(1)' = 1 /\ r \in Nat /\ csw'.residue = r
      BY <1>3, <1>4, <1>6, <1>8 DEF Units
    <3>2. outEp'.halt = "no" /\ outEp'.bank = <<>>
      BY <1>7, Fields
    <3>3. DataStage(host.cmd, host.moved) = "data"
      BY <1>3 DEF DataStage
    <3>4. inEp'.halt = "no" \/ (Halted(inEp') /\ r # 0)
      BY <1>8 DEF Halted
    <3>5. inEp'.halt # "yes" /\ (r # 0 => inEp'.halt # "no")
      BY <1>8
    <3>6. host.moved + 1 + r = host.cmd.len
      BY <1>3
    <3> HIDE DEF r
    <3> QED
      BY <1>3, <2>2, <3>1, <3>2, <3>3, <3>4, <3>5, <3>6 DEF DataOver, Unstalled, DataStage
  <2> QED
    BY <1>2, <1>4, <1>7, <1>8, <2>1, <2>3, Fields DEF SendsCsw, SendsData, Halted, flagVars
<1>10. FlagsAgree'
  BY <1>4 DEF Transport, FlagsAgree, flagVars
<1> QED BY <1>2, <1>4, <1>9, <1>10, OnKeeps DEF Held, flagVars

LEMMA StepCswSent ==
  ASSUME Typed, Transport, CswSent, host' = host
  PROVE  Transport'
<1>1. enabled /\ inEp.job = "csw"
  BY InterruptOn DEF Interrupt, CswSent, CanLoad
<1>2. InCommand /\ Held /\ SendsCsw
  BY <1>1, AtJob
<1> DEFINE p == [kind |-> "csw", tag |-> csw.tag, residue |-> csw.residue,
                 pass |-> sense = "none"]
<1>3. /\ inEp' = Loaded(inEp, p) /\ outEp' = RunOrWait(outEp, "cbw", "wait_cbw")
      /\ UNCHANGED flagVars /\ task' = task /\ inEp.halt = "no"
  BY DEF CswSent, CbwWait, taskVars, CanLoad
<1>4. p.kind = "csw" /\ p.tag = host.tag /\ p.residue = csw.residue
  BY <1>2 DEF SendsCsw
<1> HIDE DEF p
<1>5. inEp'.job = "none" /\ inEp'.halt = "no" /\ inEp'.bank = Append(inEp.bank, p)
  BY <1>3, LoadedFields DEF Typed
<1>6. /\ inEp'.bank # <<>> /\ Len(inEp'.bank) - 1 = Len(inEp.bank) /\ Len(inEp.bank) \in Nat
      /\ inEp'.bank[Len(inEp.bank) + 1] = p
      /\ \A i \in 1..Len(inEp.bank) : inEp'.bank[i] = inEp.bank[i]
  <2>1. IsBank(inEp.bank)
    BY DEF Typed, IsEndpoint
  <2>2. Len(inEp.bank) \in Nat
    BY <2>1, BankLen
  <2> QED BY <1>5, <2>1, <2>2, BankAppend
<1>7. /\ outEp'.job = (IF Halted(outEp) THEN "wait_cbw" ELSE "cbw")
      /\ outEp'.bank = outEp.bank /\ outEp'.halt = outEp.halt
  <2>1. outEp.halt # "off" /\ outEp.job = "none"
    BY <1>2 DEF SendsCsw, DataOver
  <2> QED BY <1>3, <2>1, Sent DEF Typed
<1>8. CswLoaded'
  <2>1. AreData(inEp.bank, Len(inEp.bank) - 1)'
    BY <1>2, <1>6 DEF SendsCsw, AreData, DataKind
  <2>2. DataOver(Len(inEp.bank) - 1, inEp.bank[Len(inEp.bank) - 1 + 1].residue)'
    BY <1>2, <1>3, <1>4, <1>5, <1>6, <1>7
    DEF SendsCsw, DataOver, DataStage, Units, Unstalled, Halted
  <2> QED
    BY <1>2, <1>3, <1>4, <1>5, <1>6, <1>7, <2>1, <2>2
    DEF SendsCsw, CswLoaded, Halted, flagVars
<1>9. FlagsAgree'
  BY <1>3 DEF Transport, FlagsAgree, flagVars
<1> QED BY <1>2, <1>3, <1>8, <1>9, OnKeeps DEF flagVars

LEMMA StepStall ==
  ASSUME Typed, Transport, StallWhenSent, host' = host
  PROVE  Transport'
<1>1. enabled /\ inEp.halt = "requested"
  BY InterruptOn DEF Interrupt, StallWhenSent
<1>2. InCommand /\ Held /\ (Ending \/ SendsCsw)
  BY <1>1, AtJob
<1>3. /\ csw' = csw /\ cbw' = cbw /\ UNCHANGED flagVars /\ task' = task /\ outEp' = outEp
      /\ inEp.bank = <<>>
  BY DEF StallWhenSent, taskVars
<1>4. inEp'.halt = "yes" /\ inEp'.bank = inEp.bank /\ inEp'.job = inEp.job
  BY DEF StallWhenSent, Typed, IsEndpoint
<1>5. (Ending \/ SendsCsw)'
  BY <1>1, <1>2, <1>3, <1>4, EmptyBank
  DEF Ending, SendsCsw, AreData, DataKind, DataOver, DataStage, Units, Unstalled, Halted, flagVars
<1>6. FlagsAgree'
  BY <1>3 DEF Transport, FlagsAgree, flagVars
<1> QED BY <1>2, <1>3, <1>5, <1>6, OnKeeps DEF Held, flagVars

-----------------------------------------------------------------------------
\* The host.

LEMMA GotoFields ==
  ASSUME IsHost, NEW s \in HostStates, Goto(s)
  PROVE  /\ host'.st = s /\ host'.cmd = host.cmd /\ host'.tag = host.tag
         /\ host'.moved = host.moved /\ host'.retried = host.retried
  BY DEF IsHost, Goto

LEMMA HostKeeps ==
  ASSUME InCommand', FlagsAgree',
         (Held /\ (Requested \/ Moving \/ Ending \/ SendsData \/ SendsCsw))' \/ CswLoaded'
  PROVE  Transport'
  BY DEF InCommand, Transport, Answering

\* One packet less in the banks.
LEMMA DataOverRead ==
  ASSUME Typed, InCommand, NEW m \in Nat, NEW r, DataOver(m, r), m > 0, host.st = "data",
         inEp'.halt = inEp.halt, outEp' = outEp, host'.cmd = host.cmd,
         host.cmd.in,
         host'.retried = host.retried,
         host'.moved = host.moved + Units(1),
         host'.st = IF host.cmd.op = "read" THEN DataStage(host.cmd, host'.moved) ELSE "csw"
  PROVE  DataOver(m - 1, r)'
<1>1. /\ host.moved \in Nat /\ host.cmd.len \in Nat /\ host'.moved \in Nat
      /\ host'.moved + Units(m - 1) + r = host.cmd.len /\ r \in Nat
  <2>1. host.moved \in Nat /\ host.cmd.len \in Nat
    BY CommandFacts DEF Typed, IsHost
  <2>2. host.moved + Units(m) + r = host.cmd.len /\ r \in Nat
    BY DEF DataOver
  <2>3. Units(m) = Units(m - 1) + Units(1) /\ Units(m - 1) \in Nat /\ Units(1) \in Nat
    BY DEF Units
  <2> QED BY <2>1, <2>2, <2>3
<1>2. host.cmd.op # "read" => m = 1
  BY DEF DataOver
<1>3. inEp.halt = "yes" => m = 0
  BY DEF DataOver
<1>4. r # 0 => inEp.halt # "no"
  BY DEF DataOver, Unstalled
<1>5. /\ r = 0 => host'.st = DataStage(host.cmd, host'.moved)
      /\ host'.st = "csw" => m - 1 = 0
  <2>1. CASE host.cmd.op = "read"
    <3>1. Units(m - 1) = 2 * (m - 1)
      BY <2>1 DEF Units
    <3> QED BY <1>1, <2>1, <3>1 DEF DataStage
  <2>2. CASE host.cmd.op # "read"
    <3>1. m = 1 /\ Units(m - 1) = 0
      BY <1>2, <2>2 DEF Units
    <3> QED BY <1>1, <2>2, <3>1 DEF DataStage
  <2> QED BY <2>1, <2>2
<1>6. Units(m - 1)' = Units(m - 1)
  BY DEF Units
<1>7. host'.retried = FALSE
  BY DEF DataOver, Typed, IsHost
<1> QED
  BY <1>1, <1>2, <1>3, <1>4, <1>5, <1>6, <1>7
  DEF DataOver, Unstalled, Halted, DataStage

LEMMA StepReadsData ==
  ASSUME Typed, Transport, HostReadsData
  PROVE  Transport'
<1> DEFINE b == inEp.bank
           n == Len(b)
           p == b[1]
<1>1. /\ host.st = "data" /\ host.cmd.in /\ b # <<>>
      /\ csw' = csw /\ cbw' = cbw /\ UNCHANGED flagVars /\ outEp' = outEp /\ task' = task
  BY DEF HostReadsData, InPacket, taskVars
<1>2. inEp'.bank = Tail(b) /\ inEp'.job = inEp.job /\ inEp'.halt = inEp.halt
  BY DEF HostReadsData, TakeIn, Typed, IsEndpoint
<1>3. IsBank(b) /\ IsBank(Tail(b))
  BY <1>1, BankTail DEF Typed, IsEndpoint
<1>4. /\ n \in Nat /\ n > 0 /\ Len(Tail(b)) = n - 1 /\ Head(b) = p
      /\ \A i \in 1..(n - 1) : Tail(b)[i] = b[i + 1]
  BY <1>1, <1>3, BankTail, BankLen
<1>5. Tail(b) = <<>> <=> n - 1 = 0
  BY <1>3, <1>4, BankLen
<1>6. /\ host'.cmd = host.cmd /\ host'.tag = host.tag /\ host'.retried = host.retried
      /\ p.kind = "block" => /\ host'.moved = host.moved + 2
                             /\ host'.st = DataStage(host.cmd, host.moved + 2)
      /\ p.kind # "block" => host'.moved = host.moved + 1 /\ host'.st = "csw"
  BY <1>4, DataRead DEF Typed
<1>7. enabled
  BY <1>1 DEF Transport, FlagsAgree
<1>8. InCommand /\ (Answering \/ CswLoaded)
  BY <1>1, <1>7, Stage, Fields DEF Ready, Recovering, Invalid
<1>9. InCommand' /\ FlagsAgree'
  <2>1. host'.st \in {"data", "csw"}
    BY <1>6 DEF DataStage
  <2> QED BY <1>1, <1>6, <1>8, <2>1 DEF InCommand, Transport, FlagsAgree, flagVars
<1>10. host.moved \in Nat /\ host.cmd.len \in Nat
  BY <1>8, CommandFacts DEF Typed, IsHost
<1>11. ASSUME NEW m \in Nat, AreData(b, m), m > 0, m <= n
       PROVE  /\ \A i \in 1..(m - 1) : inEp'.bank[i].kind = DataKind
              /\ host'.moved = host.moved + Units(1)
              /\ host'.st = IF host.cmd.op = "read" THEN DataStage(host.cmd, host'.moved) ELSE "csw"
  <2>1. p.kind = DataKind
    BY <1>11 DEF AreData
  <2>2. ASSUME NEW i \in 1..(m - 1) PROVE inEp'.bank[i].kind = DataKind
    <3>1. i \in 1..(n - 1) /\ i + 1 \in 1..m
      BY <1>4, <1>11
    <3>2. inEp'.bank[i] = b[i + 1]
      BY <1>2, <1>4, <3>1
    <3> QED BY <1>11, <3>1, <3>2 DEF AreData
  <2>3. Units(1) = IF host.cmd.op = "read" THEN 2 ELSE 1
    BY DEF Units
  <2> QED BY <1>6, <2>1, <2>2, <2>3 DEF DataKind
<1>12. DataKind' = DataKind /\ Len(inEp'.bank) = n - 1
  BY <1>2, <1>4, <1>6 DEF DataKind
<1>13. ASSUME AreData(b, n)
       PROVE  /\ AreData(inEp.bank, Len(inEp.bank))'
              /\ host'.moved = host.moved + Units(1)
              /\ host'.st = IF host.cmd.op = "read" THEN DataStage(host.cmd, host'.moved) ELSE "csw"
  <2>1. /\ \A i \in 1..(n - 1) : inEp'.bank[i].kind = DataKind
        /\ host'.moved = host.moved + Units(1)
        /\ host'.st = IF host.cmd.op = "read" THEN DataStage(host.cmd, host'.moved) ELSE "csw"
    BY <1>4, <1>11, <1>13
  <2> QED BY <1>12, <2>1 DEF AreData
<1>14. CASE Held /\ Moving
  <2>1. Moves(inEp, outEp) /\ host.cmd.op = "read"
    BY <1>1, <1>8, <1>14, CommandFacts DEF Moving, InPipeline
  <2>2. AreData(b, n)
    BY <2>1 DEF Moves
  <2>3. /\ AreData(inEp.bank, Len(inEp.bank))' /\ host'.moved = host.moved + 2
        /\ host'.st = DataStage(host.cmd, host'.moved)
    BY <1>13, <2>1, <2>2 DEF Units
  <2>4. InPipeline'
    BY <1>1, <1>6, <1>14
    DEF Moving, InPipeline, Counted, UsbPart, CardPart, IsTransfer, Validate, flagVars
  <2>5. csw.residue \in Int
    BY DEF Typed, IsCsw
  <2>6. host'.moved + 2 * Len(inEp'.bank)
          = host.cmd.len - csw.residue + (IF task.pc = "ack" /\ ackTrans THEN 2 ELSE 0)
    <3>1. host.moved + 2 * n
            = host.cmd.len - csw.residue + (IF task.pc = "ack" /\ ackTrans THEN 2 ELSE 0)
      BY <2>1 DEF Moves
    <3>2. host'.moved + 2 * Len(inEp'.bank) = host.moved + 2 * n
      BY <1>4, <1>10, <1>12, <2>3
    <3> QED BY <3>1, <3>2
  <2>7. Moves(inEp, outEp)'
    BY <1>1, <1>2, <1>6, <2>1, <2>3, <2>6 DEF Moves, flagVars
  <2>8. ~host.retried
    BY <1>14 DEF Moving
  <2>9. Moving' /\ Held'
    BY <1>1, <1>6, <1>14, <2>3, <2>4, <2>7, <2>8 DEF Moving, Held, DataStage
  <2> QED BY <1>9, <2>9, HostKeeps
<1>15. CASE Held /\ (Ending \/ SendsCsw)
  <2>1. PICK m, r : m = n /\ r = csw.residue
    OBVIOUS
  <2>2. AreData(b, n) /\ DataOver(m, r) /\ m \in Nat /\ m > 0
    BY <1>4, <1>15, <2>1 DEF Ending, SendsCsw
  <2>3. DataOver(m - 1, r)'
    BY <1>1, <1>2, <1>6, <1>8, <1>13, <2>2, DataOverRead
  <2>4. Len(inEp'.bank) = m - 1 /\ csw'.residue = r
    BY <1>1, <1>12, <2>1
  <2>5. DataOver(Len(inEp.bank), csw.residue)'
    BY <2>3, <2>4 DEF DataOver, Units
  <2>6. AreData(inEp.bank, Len(inEp.bank))'
    BY <1>13, <2>2
  <2>7. (Ending \/ SendsCsw)' /\ Held'
    BY <1>1, <1>2, <1>6, <1>15, <2>5, <2>6 DEF Ending, SendsCsw, Held, Halted, flagVars
  <2> QED BY <1>9, <2>7, HostKeeps
<1>16. CASE CswLoaded
  <2>1. PICK m, r : m = n - 1 /\ r = b[m + 1].residue
    OBVIOUS
  <2>2. m \in Nat /\ m + 1 = n
    BY <1>4, <2>1
  <2>3. /\ AreData(b, m) /\ DataOver(m, r) /\ inEp.halt = "no" /\ inEp.job = "none"
        /\ b[n].kind = "csw" /\ b[n].tag = host.tag /\ b[n].residue = r
    BY <1>16, <2>1, <2>2 DEF CswLoaded
  <2>4. m > 0
    <3>1. CASE m = 0
      <4>1. r = 0
        BY <1>1, <2>3 DEF DataOver, Unstalled
      <4>2. Units(m) = 0
        BY <3>1 DEF Units
      <4>3. host.moved + Units(m) + r = host.cmd.len
        BY <2>3 DEF DataOver
      <4>4. host.st = DataStage(host.cmd, host.moved)
        BY <2>3, <4>1 DEF DataOver
      <4> QED BY <1>1, <1>10, <4>1, <4>2, <4>3, <4>4 DEF DataStage
    <3> QED BY <2>2, <3>1
  <2>5. /\ \A i \in 1..(m - 1) : inEp'.bank[i].kind = DataKind
        /\ host'.moved = host.moved + Units(1)
        /\ host'.st = IF host.cmd.op = "read" THEN DataStage(host.cmd, host'.moved) ELSE "csw"
    BY <1>4, <1>11, <2>2, <2>3, <2>4
  <2>6. DataOver(m - 1, r)'
    BY <1>1, <1>2, <1>6, <1>8, <2>2, <2>3, <2>4, <2>5, DataOverRead
  <2>7. inEp'.bank[m] = b[n] /\ inEp'.bank # <<>> /\ Len(inEp'.bank) = m
    BY <1>2, <1>4, <1>5, <2>2, <2>4
  <2>8. AreData(inEp.bank, Len(inEp.bank) - 1)'
    BY <1>12, <2>5, <2>7 DEF AreData
  <2>9. DataOver(Len(inEp.bank) - 1, inEp.bank[Len(inEp.bank)].residue)'
    BY <2>3, <2>6, <2>7 DEF DataOver, Units
  <2>10. Len(inEp'.bank) - 1 + 1 = Len(inEp'.bank)
    BY <2>2, <2>7
  <2>11. CswLoaded'
    BY <1>1, <1>2, <1>6, <1>16, <2>3, <2>7, <2>8, <2>9, <2>10 DEF CswLoaded, Halted, flagVars
  <2> QED BY <1>9, <2>11, HostKeeps
<1>17. CASE Requested \/ SendsData
  BY <1>1, <1>17, Fields DEF Requested, SendsData
<1> QED BY <1>8, <1>14, <1>15, <1>16, <1>17 DEF Answering

LEMMA StepTakes ==
  ASSUME Typed, Transport, HostTakes
  PROVE  Transport'
<1>1. /\ host'.st = "idle" /\ host'.moved = host.moved /\ host'.retried = host.retried
      /\ host.st = "done"
  BY DEF HostTakes, Typed, IsHost
<1>2. UNCHANGED <<inEp, outEp, task, flagVars>>
  BY DEF HostTakes, mscVars, taskVars
<1>3. Ready /\ host.moved = 0 /\ ~host.retried
  BY <1>1 DEF Transport
<1> QED BY <1>1, <1>2, <1>3 DEF Transport, FlagsAgree, Ready, flagVars

\* The command that the host sends, and the ways in which it is answered.
LEMMA CommandSent ==
  ASSUME Typed, Transport, HostCommand
  PROVE  \E c \in Commands, t \in Tags :
           /\ CbwReceived(c, t)
           /\ host'.st = DataStage(c, 0) /\ host'.cmd = c /\ host'.tag = t
           /\ host'.moved = 0 /\ host'.retried = FALSE
           /\ cbw'.c = c /\ cbw'.tag = t
<1>1. PICK c \in Commands, t \in Tags :
        /\ CbwReceived(c, t)
        /\ host' = [host EXCEPT !.st = DataStage(c, 0), !.cmd = c, !.tag = t]
  BY DEF HostCommand
<1>2. host.st = "idle" /\ host.moved = 0 /\ host.retried = FALSE
  BY DEF HostCommand, Transport, Typed, IsHost
<1>3. /\ host'.st = DataStage(c, 0) /\ host'.cmd = c /\ host'.tag = t
      /\ host'.moved = 0 /\ host'.retried = FALSE
  BY <1>1, <1>2 DEF Typed, IsHost
<1>4. cbw'.c = c /\ cbw'.tag = t
  BY <1>1 DEF CbwReceived
<1> QED BY <1>1, <1>3, <1>4

LEMMA CommandWays ==
  ASSUME NEW c, NEW t, CbwReceived(c, t), CanRun(inEp)
  PROVE  \/ InvalidCbw(c)
         \/ c.op # "bad" /\ \E s : Finish(c, t, s)
         \/ c.op \in {"sense", "info", "capacity"} /\ Validate(c, 1, TRUE) /\ DataSend(c, t)
         \/ /\ c.op \in {"read", "write"} /\ Validate(c, 2 * c.n, c.op = "read")
            /\ transReq' = TRUE /\ csw' = [csw EXCEPT !.residue = c.len]
            /\ outEp' = Done(outEp)
            /\ UNCHANGED <<sense, cbwInvalid, ackTrans, abortTrans, resetTrans, enabled, inEp>>
<1>1. UnitReady(c, t) => c.op # "bad" /\ \E s : Finish(c, t, s)
  BY DEF UnitReady
<1>2. StartStop(c, t) => c.op # "bad" /\ \E s : Finish(c, t, s)
  BY DEF StartStop
<1>3. NoData(c, t) => c.op # "bad" /\ \E s : Finish(c, t, s)
  BY DEF NoData
<1>4. Information(c, t) =>
        \/ c.op # "bad" /\ \E s : Finish(c, t, s)
        \/ c.op \in {"sense", "info", "capacity"} /\ Validate(c, 1, TRUE) /\ DataSend(c, t)
  BY DEF Information
<1>5. ReadCapacity(c, t) =>
        \/ c.op # "bad" /\ \E s : Finish(c, t, s)
        \/ c.op \in {"sense", "info", "capacity"} /\ Validate(c, 1, TRUE) /\ DataSend(c, t)
  BY DEF ReadCapacity
<1> QED BY <1>1, <1>2, <1>3, <1>4, <1>5 DEF CbwReceived, Transfer

LEMMA StepCommand ==
  ASSUME Typed, Transport, HostCommand
  PROVE  Transport'
<1>1. PICK c \in Commands, t \in Tags :
        /\ CbwReceived(c, t)
        /\ host'.st = DataStage(c, 0) /\ host'.cmd = c /\ host'.tag = t
        /\ host'.moved = 0 /\ host'.retried = FALSE
        /\ cbw'.c = c /\ cbw'.tag = t
  BY CommandSent
<1>2. host.st = "idle" /\ Ready /\ enabled
  BY DEF HostCommand, Transport, FlagsAgree
<1>3. inEp = Opened /\ outEp = Run(Opened, "cbw") /\ Done(outEp) = Opened /\ CanRun(inEp)
  BY <1>2, AtRest, Fields DEF Ready, CanRun
<1>4. /\ c.len \in Nat /\ c.in \in BOOLEAN /\ c.n \in Nat
      /\ c.op \in {"read", "write"} => c.n > 0
  BY CommandsAssumption
<1>5. host'.st \in {"data", "csw"} /\ (c.len > 0 => host'.st = "data")
  BY <1>1, <1>4 DEF DataStage
<1>6. task' = Idle /\ task'.pc = "idle" /\ ~transReq /\ ~cbwInvalid /\ ackTrans
  BY <1>1, <1>2, IdleFields DEF CbwReceived, taskVars, Ready, Transport, FlagsAgree
<1>7. CASE InvalidCbw(c)
  <2>1. /\ cbwInvalid' /\ outEp' = Waits("wait_invalid") /\ inEp' = Waits("wait_invalid")
        /\ c.op = "bad"
        /\ UNCHANGED <<transReq, ackTrans, abortTrans, resetTrans, enabled>>
    BY <1>3, <1>7, AtRest DEF InvalidCbw
  <2>2. FlagsAgree'
    BY <1>2, <1>5, <1>6, <2>1 DEF FlagsAgree
  <2>3. Invalid'
    BY <1>1, <1>6, <2>1 DEF Invalid
  <2> QED BY <1>1, <1>5, <2>2, <2>3 DEF Transport
<1>8. CASE c.op # "bad" /\ \E s : Finish(c, t, s)
  <2>1. /\ csw'.tag = t /\ csw'.residue = c.len /\ UNCHANGED flagVars
        /\ inEp' = CswSend(StallIn(Opened, c, c.len))
        /\ outEp' = StallOut(Opened, c, c.len)
    BY <1>3, <1>8 DEF Finish
  <2>2. FlagsAgree' /\ InCommand' /\ Held'
    BY <1>1, <1>2, <1>5, <1>6, <1>8, <2>1
    DEF FlagsAgree, InCommand, Held, flagVars
  <2>3. /\ c.in /\ c.len # 0 => inEp' = Waits("wait_csw") /\ outEp' = Opened
        /\ ~c.in /\ c.len # 0 => inEp' = Run(Opened, "csw") /\ outEp' = Waits("none")
        /\ c.len = 0 => inEp' = Run(Opened, "csw") /\ outEp' = Opened
    BY <1>4, <2>1, AtRest DEF StallIn, StallOut, CswSend
  <2>4. /\ inEp'.bank = <<>> /\ outEp'.bank = <<>> /\ outEp'.job = "none"
        /\ inEp'.job = (IF Halted(inEp') THEN "wait_csw" ELSE "csw")
    BY <1>4, <2>3, Fields DEF Halted
  <2>5. DataOver(0, csw.residue)'
    BY <1>1, <1>4, <1>5, <2>1, <2>3, <2>4, Fields DEF DataOver, Units, Unstalled, Halted
  <2>6. SendsCsw'
    BY <1>1, <1>6, <2>1, <2>4, <2>5, EmptyBank DEF SendsCsw, AreData, Halted, flagVars
  <2> QED BY <2>2, <2>6, HostKeeps
<1>9. CASE /\ c.op \in {"sense", "info", "capacity"} /\ Validate(c, 1, TRUE)
           /\ DataSend(c, t)
  <2>1. /\ csw'.residue = c.len /\ UNCHANGED flagVars
        /\ inEp' = Run(Opened, "data") /\ outEp' = Opened
    BY <1>3, <1>9 DEF DataSend, Typed, IsCsw
  <2>2. FlagsAgree' /\ InCommand' /\ Held'
    BY <1>1, <1>2, <1>5, <1>6, <1>9, <2>1
    DEF FlagsAgree, InCommand, Held, flagVars
  <2>3. c.in /\ c.len > 0
    BY <1>4, <1>9 DEF Validate
  <2>4. SendsData'
    BY <1>1, <1>5, <1>6, <1>9, <2>1, <2>3 DEF SendsData, flagVars
  <2> QED BY <2>2, <2>4, HostKeeps
<1>10. CASE /\ c.op \in {"read", "write"} /\ Validate(c, 2 * c.n, c.op = "read")
            /\ transReq' = TRUE /\ csw' = [csw EXCEPT !.residue = c.len]
            /\ outEp' = Done(outEp)
            /\ UNCHANGED <<sense, cbwInvalid, ackTrans, abortTrans, resetTrans, enabled, inEp>>
  <2>1. csw'.residue = c.len /\ outEp' = Opened /\ inEp' = Opened
    BY <1>3, <1>10 DEF Typed, IsCsw
  <2>2. FlagsAgree' /\ InCommand' /\ Held'
    BY <1>1, <1>2, <1>5, <1>6, <1>10 DEF FlagsAgree, InCommand, Held
  <2>3. IsTransfer(c) /\ c.len > 0
    BY <1>4, <1>10 DEF IsTransfer, Validate
  <2>4. Requested'
    BY <1>1, <1>5, <1>6, <1>10, <2>1, <2>3 DEF Requested, IsTransfer, Validate
  <2> QED BY <2>2, <2>4, HostKeeps
<1> QED BY <1>1, <1>3, <1>7, <1>8, <1>9, <1>10, CommandWays

LEMMA StepWritesBlock ==
  ASSUME Typed, Transport, HostWritesBlock
  PROVE  Transport'
<1>1. /\ host.st = "data" /\ outEp.job = "block" /\ ackTrans' /\ ~abortTrans'
      /\ outEp' = Done(outEp) /\ inEp' = inEp /\ task' = task /\ csw' = csw /\ cbw' = cbw
      /\ UNCHANGED <<cbwInvalid, transReq, resetTrans, enabled>>
  BY DEF HostWritesBlock, BlockReceived
<1>2. enabled
  BY <1>1 DEF Transport, FlagsAgree
<1>3. InCommand /\ Held /\ Moving /\ ~host.cmd.in
  BY <1>1, <1>2, AtJob
<1>4. Moves(outEp, inEp) /\ outEp.bank = <<>> /\ ~ackTrans /\ task.pc = "ack"
  BY <1>1, <1>2, <1>3 DEF Moving, Moves, Transport, FlagsAgree
<1>5. outEp'.job = "none" /\ outEp'.halt = outEp.halt /\ outEp'.bank = <<>>
  BY <1>1, <1>4 DEF Done, Typed, IsEndpoint
<1>6. /\ host'.st = DataStage(host.cmd, host'.moved) /\ host'.cmd = host.cmd
      /\ host'.tag = host.tag /\ host'.moved = host.moved + 2
      /\ host'.retried = host.retried
  BY BlockWritten DEF Typed
<1>7. Moves(outEp, inEp)'
  <2>1. csw.residue \in Int /\ host.cmd.len \in Nat /\ host.moved \in Nat
    BY <1>3, CommandFacts DEF Typed, IsCsw, IsHost
  <2>2. host.moved = host.cmd.len - csw.residue
    BY <1>4, <2>1, EmptyBank DEF Moves
  <2> QED
    BY <1>1, <1>4, <1>5, <1>6, <2>1, <2>2, EmptyBank DEF Moves, AreData
<1>8. InPipeline'
  BY <1>1, <1>3, <1>6
  DEF Moving, InPipeline, Counted, UsbPart, CardPart, IsTransfer, Validate
<1>9. Moving' /\ Held'
  BY <1>1, <1>3, <1>5, <1>6, <1>7, <1>8 DEF Moving, Held, DataStage
<1>10. host'.st \in {"data", "csw"}
  BY <1>6 DEF DataStage
<1>11. FlagsAgree' /\ InCommand'
  BY <1>1, <1>2, <1>3, <1>4, <1>6, <1>10 DEF Transport, FlagsAgree, InCommand
<1> QED BY <1>9, <1>11, HostKeeps

\* A stall that the host clears, with and without packets in the banks.
LEMMA ClearedFields ==
  /\ \A e : e.job = "none" /\ Halted(e) => HaltCleared(e) = Unhalted(e)
  /\ \A e : e.job = "wait_csw" /\ Halted(e) => HaltCleared(e) = CswSend(Unhalted(e))
  /\ HaltCleared(Opened) = Opened /\ HaltCleared(Waits("none")) = Opened
  /\ HaltCleared(Run(Opened, "cbw")) = Run(Opened, "cbw")
  /\ HaltCleared(Waits("wait_cbw")) = Run(Opened, "cbw")
  /\ cbwInvalid => HaltCleared(Waits("wait_invalid")) = Waits("wait_invalid")
<1>1. \A e : e.job = "none" /\ Halted(e) => HaltCleared(e) = Unhalted(e)
  BY DEF HaltCleared
<1>2. \A e : e.job = "wait_csw" /\ Halted(e) => HaltCleared(e) = CswSend(Unhalted(e))
  BY DEF HaltCleared
<1>3. /\ ~Halted(Opened) /\ ~Halted(Run(Opened, "cbw"))
      /\ \A j : Halted(Waits(j)) /\ Waits(j).job = j
  BY Fields DEF Halted
<1>4. \A e : ~Halted(e) => HaltCleared(e) = e
  BY DEF HaltCleared
<1>5. HaltCleared(Waits("none")) = Opened
  BY <1>1, <1>3, AtRest
<1>6. HaltCleared(Waits("wait_cbw")) = Run(Opened, "cbw")
  BY <1>3, AtRest DEF HaltCleared, CbwWait
<1>7. cbwInvalid => HaltCleared(Waits("wait_invalid")) = Waits("wait_invalid")
  BY <1>3, AtRest DEF HaltCleared
<1> QED BY <1>1, <1>2, <1>3, <1>4, <1>5, <1>6, <1>7

\* The stall of an IN endpoint that has told the host of a residue.
LEMMA ClearsStall ==
  ASSUME Typed, InCommand, enabled, Ending \/ SendsCsw, inEp.halt = "yes",
         ClearHaltIn, FlagsAgree', Held, host.st \in {"data", "csw"},
         host'.st = "csw", host'.cmd = host.cmd, host'.tag = host.tag,
         host'.moved = host.moved
  PROVE  Transport'
<1>1. /\ inEp' = HaltCleared(inEp) /\ outEp' = outEp /\ task' = task /\ csw' = csw
      /\ cbw' = cbw /\ UNCHANGED flagVars
  BY DEF ClearHaltIn, taskVars
<1>2. inEp.bank = <<>> /\ Len(inEp.bank) = 0 /\ Halted(inEp)
  <2>1. IsBank(inEp.bank)
    BY DEF Typed, IsEndpoint
  <2>2. Len(inEp.bank) = 0
    BY DEF Ending, SendsCsw, DataOver
  <2> QED BY <2>1, <2>2, BankLen DEF Halted
<1>3. Unhalted(inEp) = Opened
  <2>1. Unhalted(inEp) \in [job : {"none"}, halt : {"no"}, bank : {<<>>}]
    BY <1>2 DEF Unhalted, Typed, IsEndpoint
  <2> QED BY <2>1 DEF Opened
<1>4. /\ Ending => inEp' = Opened
      /\ SendsCsw => inEp' = Run(Opened, "csw")
  BY <1>1, <1>2, <1>3, ClearedFields, AtRest DEF Ending, SendsCsw, CswSend
<1>5. DataOver(0, csw.residue)'
  <2>1. DataOver(0, csw.residue) /\ inEp'.halt = "no" /\ csw.residue # 0 /\ outEp.halt = "no"
    BY <1>2, <1>4, Fields DEF Ending, SendsCsw, DataOver, Halted
  <2> QED BY <1>1, <2>1 DEF DataOver, Units, Halted
<1>6. inEp'.bank = <<>> /\ inEp'.halt = "no"
  BY <1>4, Fields
<1>7. (Ending \/ SendsCsw)' /\ Held'
  BY <1>1, <1>4, <1>5, <1>6, EmptyBank, Fields
  DEF Ending, SendsCsw, AreData, Halted, Held, flagVars
<1>8. InCommand'
  BY <1>1 DEF InCommand, flagVars
<1> QED BY <1>7, <1>8, HostKeeps

LEMMA StepDataStalled ==
  ASSUME Typed, Transport, HostDataStalled
  PROVE  Transport'
<1>1. /\ host.st = "data" /\ host'.st = "csw" /\ host'.cmd = host.cmd /\ host'.tag = host.tag
      /\ host'.moved = host.moved /\ host'.retried = host.retried
  BY GotoFields DEF HostDataStalled, HostStates, Typed
<1>2. enabled
  BY <1>1 DEF Transport, FlagsAgree
<1>3. csw' = csw /\ cbw' = cbw /\ UNCHANGED flagVars /\ task' = task
  BY DEF HostDataStalled, ClearHaltIn, ClearHaltOut, taskVars
<1>4. FlagsAgree'
  BY <1>1, <1>2, <1>3 DEF Transport, FlagsAgree, flagVars
<1>5. CASE Invalid
  <2>1. inEp' = inEp /\ outEp' = outEp
    BY <1>5, ClearedFields DEF HostDataStalled, ClearHaltIn, ClearHaltOut, Invalid
  <2>2. Invalid' /\ host'.cmd \in Commands
    BY <1>1, <1>3, <1>5, <2>1 DEF Invalid, flagVars, Transport
  <2> QED BY <1>1, <1>4, <2>2 DEF Transport
<1>6. CASE InCommand /\ (Answering \/ CswLoaded)
  <2>1. CASE host.cmd.in
    <3>1. inEp.halt = "yes" /\ ClearHaltIn
      BY <2>1 DEF HostDataStalled, DataStalled
    <3>2. Held /\ (Ending \/ SendsCsw)
      BY <1>6, <2>1, <3>1, Fields
      DEF Answering, Requested, Moving, Moves, SendsData, CswLoaded
    <3> QED BY <1>1, <1>2, <1>4, <1>6, <3>1, <3>2, ClearsStall
  <2>2. CASE ~host.cmd.in
    <3>1. outEp.halt = "yes" /\ outEp' = HaltCleared(outEp) /\ inEp' = inEp
      BY <2>2 DEF HostDataStalled, DataStalled, ClearHaltOut
    <3>2. (Held /\ (Ending \/ SendsCsw)) \/ CswLoaded
      BY <1>6, <2>2, <3>1, Fields
      DEF Answering, Requested, Moving, Moves, SendsData
    <3>3. outEp.bank = <<>> /\ Halted(outEp)
      BY <3>1, <3>2 DEF Ending, SendsCsw, CswLoaded, DataOver, Halted
    <3>4. Unhalted(outEp) = Opened
      <4>1. Unhalted(outEp) \in [job : {"none"}, halt : {"no"}, bank : {<<>>}]
        BY <3>3 DEF Unhalted, Typed, IsEndpoint
      <4> QED BY <4>1 DEF Opened
    <3>5. /\ outEp.job = "none" => outEp' = Opened
          /\ outEp.job = "wait_cbw" => outEp' = Run(Opened, "cbw")
      <4>1. outEp.job = "wait_cbw" => outEp = Waits("wait_cbw")
        BY <3>1, <3>3, SameEndpoint DEF Typed
      <4> QED BY <3>1, <3>3, <3>4, <4>1, ClearedFields
    <3>6. outEp.job \in {"none", "wait_cbw"} /\ outEp'.halt = "no" /\ outEp'.bank = <<>>
      BY <3>2, <3>3, <3>5, Fields DEF Ending, SendsCsw, CswLoaded
    <3>7. ASSUME NEW m, NEW r, DataOver(m, r) PROVE m = 0 /\ DataOver(m, r)'
      <4>1. m = 0 /\ r # 0 /\ inEp.halt = "no" /\ host.cmd.len \in Nat
        BY <1>6, <2>2, <3>1, <3>7, CommandFacts DEF DataOver
      <4> QED BY <1>1, <2>2, <3>1, <3>6, <3>7, <4>1 DEF DataOver, Units, Unstalled
    <3>8. /\ UNCHANGED <<Len(inEp.bank), csw.residue>>
          /\ UNCHANGED <<Len(inEp.bank) - 1, inEp.bank[Len(inEp.bank) - 1 + 1].residue>>
      BY <1>3, <3>1
    <3>9. (Held /\ (Ending \/ SendsCsw))' \/ CswLoaded'
      <4>1. CASE Held /\ (Ending \/ SendsCsw)
        <5>1. PICK m, r : m = Len(inEp.bank) /\ r = csw.residue
          OBVIOUS
        <5>2. DataOver(m, r)'
          BY <3>7, <4>1, <5>1 DEF Ending, SendsCsw
        <5>3. DataOver(Len(inEp.bank), csw.residue)'
          BY <3>8, <5>1, <5>2 DEF DataOver, Units
        <5> QED
          BY <1>1, <1>3, <3>1, <3>5, <4>1, <5>3, Fields
          DEF Ending, SendsCsw, AreData, DataKind, Halted, Held, flagVars
      <4>2. CASE CswLoaded
        <5>1. PICK m, r : m = Len(inEp.bank) - 1 /\ r = inEp.bank[m + 1].residue
          OBVIOUS
        <5>2. DataOver(m, r)'
          BY <3>7, <4>2, <5>1 DEF CswLoaded
        <5>3. DataOver(Len(inEp.bank) - 1, inEp.bank[Len(inEp.bank) - 1 + 1].residue)'
          BY <3>8, <5>1, <5>2 DEF DataOver, Units
        <5>4. outEp.job = "wait_cbw" /\ outEp'.job = "cbw" /\ ~Halted(outEp')
          BY <3>3, <3>5, <3>6, <4>2, Fields DEF CswLoaded, Halted
        <5> QED
          BY <1>1, <1>3, <3>1, <4>2, <5>3, <5>4
          DEF CswLoaded, AreData, DataKind, flagVars
      <4> QED BY <3>2, <4>1, <4>2
    <3>10. InCommand'
      BY <1>1, <1>3, <1>6 DEF InCommand, flagVars
    <3> QED BY <1>4, <3>9, <3>10, HostKeeps
  <2> QED BY <2>1, <2>2
<1> QED BY <1>1, <1>2, <1>5, <1>6, Stage

\* Of a status in the banks only the status is left, once the host asks for it.
LEMMA StatusLeft ==
  ASSUME Typed, Transport, enabled, host.st = "csw", InPacket
  PROVE  /\ InCommand /\ CswLoaded /\ Len(inEp.bank) = 1
         /\ Head(inEp.bank) = inEp.bank[1] /\ Tail(inEp.bank) = <<>>
         /\ inEp.bank[1].kind = "csw" /\ inEp.bank[1].tag = host.tag
         /\ inEp.bank[1].residue \in Nat
         /\ host.moved + inEp.bank[1].residue = host.cmd.len
         /\ outEp = Run(Opened, "cbw")
<1> DEFINE b == inEp.bank
           n == Len(b)
<1>1. /\ n \in Nat /\ n > 0 /\ Head(b) = b[1] /\ Len(Tail(b)) = n - 1
      /\ Tail(b) = <<>> <=> Len(Tail(b)) = 0
  <2>1. IsBank(b) /\ b # <<>>
    BY DEF Typed, IsEndpoint, InPacket
  <2>2. IsBank(Tail(b))
    BY <2>1, BankTail
  <2> QED BY <2>1, <2>2, BankTail, BankLen
<1>2. \/ Invalid
      \/ InCommand /\ (Answering \/ CswLoaded)
  BY Stage DEF Ready, Recovering
<1>3. ~Invalid
  BY Fields DEF Invalid, InPacket
<1>4. InCommand => ~Requested /\ ~SendsData
  BY DEF Requested, SendsData
<1>5. InCommand => ~Ending /\ ~SendsCsw
  BY <1>1 DEF Ending, SendsCsw, DataOver
<1>6. InCommand => ~Moving
  <2> SUFFICES ASSUME InCommand, Moving PROVE FALSE
    OBVIOUS
  <2>1. /\ task.n \in Nat /\ host.moved \in Nat /\ csw.residue \in Int
        /\ host.cmd.len \in Nat /\ host.cmd.n \in Nat /\ task.n = host.cmd.n
        /\ host.cmd.len >= 2 * host.cmd.n /\ host.cmd.in \in BOOLEAN
        /\ host.cmd.len - csw.residue <= 2 * task.n
        /\ task.pc = "ack" => host.cmd.len - csw.residue <= 2 * (task.n - 1)
    BY CountedBound, CommandFacts DEF Moving, InPipeline, Typed, IsHost
  <2>2. host.moved >= host.cmd.len
    BY <2>1 DEF Moving, DataStage
  <2>3. CASE host.cmd.in
    <3>1. host.moved + 2 * n
            = host.cmd.len - csw.residue + (IF task.pc = "ack" /\ ackTrans THEN 2 ELSE 0)
      BY <2>3 DEF Moving, Moves
    <3>2. host.moved + 2 * n <= 2 * task.n
      BY <1>1, <2>1, <3>1
    <3> QED BY <1>1, <2>1, <2>2, <3>2
  <2>4. CASE ~host.cmd.in
    BY <2>4, Fields DEF Moving, Moves, InPacket
  <2> QED BY <2>1, <2>3, <2>4
<1>7. InCommand /\ CswLoaded
  BY <1>2, <1>3, <1>4, <1>5, <1>6 DEF Answering
<1>8. PICK m, r : m = n - 1 /\ r = b[m + 1].residue
  OBVIOUS
<1>9. /\ DataOver(m, r) /\ b[m + 1].kind = "csw" /\ b[m + 1].tag = host.tag
      /\ outEp.job = IF Halted(outEp) THEN "wait_cbw" ELSE "cbw"
  BY <1>7, <1>8 DEF CswLoaded
<1>10. m = 0
  BY <1>9 DEF DataOver
<1>11. n = 1 /\ b[m + 1] = b[1]
  BY <1>1, <1>8, <1>10
<1>12. host.moved + r = host.cmd.len /\ r \in Nat
  <2>1. Units(m) = 0 /\ host.moved \in Nat
    BY <1>10 DEF Units, Typed, IsHost
  <2> QED BY <1>9, <2>1 DEF DataOver
<1>13. outEp = Run(Opened, "cbw")
  <2>1. outEp.halt = "no" /\ outEp.bank = <<>>
    BY <1>9 DEF DataOver
  <2>2. outEp.job = "cbw"
    BY <1>9, <2>1 DEF Halted
  <2> QED BY <2>1, <2>2, SameEndpoint DEF Typed
<1> QED BY <1>1, <1>7, <1>8, <1>9, <1>11, <1>12, <1>13

LEMMA StepReadsCsw ==
  ASSUME Typed, Transport, HostReadsCsw
  PROVE  Transport'
<1>1. host.st = "csw" /\ InPacket /\ UNCHANGED <<csw, cbw, sense, flagVars, outEp, task>>
  BY DEF HostReadsCsw, taskVars
<1>2. enabled
  BY <1>1 DEF Transport, FlagsAgree
<1>3. /\ InCommand /\ CswLoaded
      /\ Head(inEp.bank) = inEp.bank[1] /\ Tail(inEp.bank) = <<>>
      /\ inEp.bank[1].kind = "csw" /\ inEp.bank[1].tag = host.tag
      /\ outEp = Run(Opened, "cbw")
  BY <1>1, <1>2, StatusLeft
<1>4. inEp' = Opened
  <2>1. inEp.halt = "no" /\ inEp.job = "none"
    BY <1>3 DEF CswLoaded
  <2>2. inEp' = [inEp EXCEPT !.bank = <<>>]
    BY <1>3 DEF HostReadsCsw, TakeIn
  <2> QED BY <2>1, <2>2 DEF Typed, IsEndpoint, Opened
<1>5. \E pass : Conclude(pass, "done")
  BY <1>3 DEF HostReadsCsw
<1>6. host'.st = "done" /\ host'.moved = 0 /\ host'.retried = FALSE
  BY <1>5, Concluded DEF HostStates, Typed
<1>7. Ready'
  BY <1>1, <1>3, <1>4 DEF Ready, CswLoaded, InCommand, flagVars
<1>8. FlagsAgree'
  BY <1>1, <1>2, <1>6 DEF Transport, FlagsAgree, flagVars
<1> QED BY <1>6, <1>7, <1>8 DEF Transport

LEMMA StepCswStalled ==
  ASSUME Typed, Transport, HostCswStalled
  PROVE  Transport'
<1>1. /\ host.st = "csw" /\ inEp.halt = "yes" /\ ClearHaltIn /\ host'.st = "csw"
      /\ host'.cmd = host.cmd /\ host'.tag = host.tag /\ host'.moved = host.moved
  BY DEF HostCswStalled, Typed, IsHost
<1>2. enabled
  BY <1>1 DEF Transport, FlagsAgree
<1>3. cbw' = cbw /\ UNCHANGED flagVars /\ task' = task /\ outEp' = outEp
  BY <1>1 DEF ClearHaltIn, taskVars
<1>4. FlagsAgree'
  BY <1>1, <1>2, <1>3 DEF Transport, FlagsAgree, flagVars
<1>5. CASE Invalid
  <2>1. inEp' = inEp
    BY <1>1, <1>5, ClearedFields DEF ClearHaltIn, Invalid
  <2>2. Invalid' /\ host'.cmd \in Commands
    BY <1>1, <1>3, <1>5, <2>1 DEF Invalid, flagVars, Transport
  <2> QED BY <1>1, <1>4, <2>2 DEF Transport
<1>6. CASE InCommand /\ (Answering \/ CswLoaded)
  <2>1. Held /\ (Ending \/ SendsCsw)
    <3>1. ~Moving
      BY <1>1, <1>6, CommandFacts, Fields DEF Moving, Moves
    <3> QED BY <1>1, <1>6, <3>1, Fields DEF Answering, Requested, SendsData, CswLoaded
  <2> QED BY <1>1, <1>2, <1>4, <1>6, <2>1, ClearsStall
<1> QED BY <1>1, <1>2, <1>5, <1>6, Stage

LEMMA StepCswRefused ==
  ASSUME Typed, Transport, HostCswRefused
  PROVE  Transport'
<1>1. /\ host.st = "csw" /\ inEp.halt = "yes" /\ host.retried
      /\ host'.st = "recover" /\ host'.cmd = host.cmd /\ UNCHANGED mscVars
  BY GotoFields DEF HostCswRefused, HostStates, Typed
<1>2. enabled
  BY <1>1 DEF Transport, FlagsAgree
<1>3. ~(InCommand /\ (Answering \/ CswLoaded))
  <2> SUFFICES ASSUME InCommand, Answering \/ CswLoaded PROVE FALSE
    OBVIOUS
  <2>1. ~Moving
    BY <1>1 DEF Moving
  <2>2. ~Ending /\ ~SendsCsw
    BY <1>1 DEF Ending, SendsCsw, DataOver
  <2>3. ~CswLoaded
    BY <1>1 DEF CswLoaded
  <2>4. ~Requested /\ ~SendsData
    BY <1>1 DEF Requested, SendsData
  <2> QED BY <2>1, <2>2, <2>3, <2>4 DEF Answering
<1>4. Invalid
  BY <1>1, <1>2, <1>3, Stage
<1>5. Invalid' /\ FlagsAgree' /\ host'.cmd \in Commands
  BY <1>1, <1>2, <1>4 DEF Invalid, FlagsAgree, Transport, mscVars, flagVars, taskVars
<1> QED BY <1>1, <1>5 DEF Transport

LEMMA StepResets ==
  ASSUME Typed, Transport, HostResets
  PROVE  Transport'
<1>1. host.st \in {"recover", "idle"} /\ host'.st = "clearIn" /\ enabled
  BY GotoFields DEF HostResets, HostStates, Typed, Transport, FlagsAgree
<1>2. Ready \/ Invalid
  BY <1>1 DEF Transport
<1>3. /\ inEp.job \in {"none", "wait_invalid"} /\ outEp.job \in {"cbw", "wait_invalid"}
  BY <1>2, Fields DEF Ready, Invalid
<1>4. /\ ~cbwInvalid' /\ ~transReq' /\ UNCHANGED <<resetTrans, enabled, task>>
      /\ (ackTrans' <=> ackTrans) /\ (abortTrans' <=> abortTrans)
      /\ inEp' = Aborted(inEp) /\ outEp' = CbwWait(Aborted(outEp))
  BY <1>3 DEF HostResets, BulkReset, AbortEp, taskVars
<1>5. /\ Ready => inEp' = Opened /\ outEp' = Run(Opened, "cbw")
      /\ Invalid => inEp' = Waits("none") /\ outEp' = Waits("wait_cbw")
  BY <1>4, AtRest DEF Ready, Invalid, CbwWait
<1>6. task' = Idle
  BY <1>2, <1>4 DEF Ready, Invalid
<1>7. Recovering'
  BY <1>1, <1>2, <1>4, <1>5, <1>6 DEF Recovering
<1>8. FlagsAgree'
  BY <1>1, <1>4, <1>6, IdleFields DEF Transport, FlagsAgree
<1> QED BY <1>1, <1>7, <1>8 DEF Transport

LEMMA StepClearsIn ==
  ASSUME Typed, Transport, HostClearsIn
  PROVE  Transport'
<1>1. /\ host.st = "clearIn" /\ host'.st = "clearOut" /\ inEp' = HaltCleared(inEp)
      /\ UNCHANGED <<flagVars, outEp, task>>
  BY GotoFields DEF HostClearsIn, ClearHaltIn, HostStates, Typed, taskVars
<1>2. Recovering /\ inEp \in {Opened, Waits("none")}
  BY <1>1 DEF Transport, Recovering
<1>3. inEp' = Opened
  BY <1>1, <1>2, ClearedFields
<1>4. Recovering' /\ FlagsAgree'
  BY <1>1, <1>2, <1>3 DEF Recovering, Transport, FlagsAgree, flagVars
<1> QED BY <1>1, <1>4 DEF Transport

LEMMA StepClearsOut ==
  ASSUME Typed, Transport, HostClearsOut
  PROVE  Transport'
<1>1. /\ host.st = "clearOut" /\ outEp' = HaltCleared(outEp)
      /\ UNCHANGED <<flagVars, inEp, task>>
  BY DEF HostClearsOut, ClearHaltOut, taskVars
<1>2. Recovering /\ inEp = Opened
  BY <1>1 DEF Transport, Recovering
<1>3. outEp' = Run(Opened, "cbw")
  BY <1>1, <1>2, ClearedFields DEF Recovering
<1>4. host'.st = "idle" /\ host'.moved = 0 /\ host'.retried = FALSE
  BY Concluded DEF HostClearsOut, HostStates, Typed
<1>5. Ready' /\ FlagsAgree'
  BY <1>1, <1>2, <1>3, <1>4 DEF Ready, Recovering, Transport, FlagsAgree, flagVars
<1> QED BY <1>4, <1>5 DEF Transport

-----------------------------------------------------------------------------
\* The bus and the card.

LEMMA StepOff ==
  ASSUME Typed, Transport, HostOff
  PROVE  Transport'
<1>1. /\ host'.st = "off" /\ ~enabled' /\ inEp' = Closed /\ outEp' = Closed /\ ~transReq'
      /\ task' = task
  BY DEF HostOff, BusReset, Typed, IsHost, taskVars
<1> QED BY <1>1 DEF Transport, FlagsAgree

LEMMA StepConfigures ==
  ASSUME Typed, Transport, HostConfigures
  PROVE  Transport'
<1>1. host'.st = "idle" /\ host'.moved = 0 /\ host'.retried = FALSE
  BY Concluded DEF HostConfigures, HostStates, Typed
<1>2. /\ enabled' /\ ackTrans' /\ ~transReq' /\ ~cbwInvalid'
      /\ inEp' = Opened /\ outEp' = CbwWait(Opened) /\ task' = task /\ task.pc = "idle"
  BY DEF HostConfigures, Configure, taskVars
<1>3. outEp' = Run(Opened, "cbw")
  BY <1>2, AtRest DEF CbwWait
<1>4. Ready' /\ FlagsAgree'
  BY <1>1, <1>2, <1>3, IdleFields DEF Ready, Transport, FlagsAgree
<1> QED BY <1>1, <1>4 DEF Transport

LEMMA StepCard ==
  ASSUME Transport, CardMoves \/ UNCHANGED vars
  PROVE  Transport'
<1>1. UNCHANGED <<csw, cbw, flagVars, inEp, outEp, task, host>>
  BY DEF CardMoves, vars, mscVars, taskVars
<1> USE <1>1 DEF flagVars
<1>2. FlagsAgree' = FlagsAgree
  BY DEF FlagsAgree
<1>3. Ready' = Ready /\ Invalid' = Invalid /\ Recovering' = Recovering /\ Held' = Held
  BY DEF Ready, Invalid, Recovering, Held
<1>4. Requested' = Requested /\ SendsData' = SendsData
  BY DEF Requested, SendsData, IsTransfer, Validate
<1>5. Counted' = Counted
  BY DEF Counted, UsbPart
<1>6. InPipeline' = InPipeline
  BY <1>5 DEF InPipeline, UsbPart, CardPart, IsTransfer, Validate
<1>7. Moving' = Moving
  BY <1>6 DEF Moving, Moves, AreData, DataKind, DataStage
<1>8. Ending' = Ending /\ SendsCsw' = SendsCsw
  BY DEF Ending, SendsCsw, AreData, DataKind, DataOver, Units, Unstalled, DataStage
<1>9. CswLoaded' = CswLoaded
  BY DEF CswLoaded, AreData, DataKind, DataOver, Units, Unstalled, DataStage
<1> QED BY <1>2, <1>3, <1>4, <1>7, <1>8, <1>9 DEF Transport, Answering

-----------------------------------------------------------------------------
\* Every step.

LEMMA InitTransport == Init => Transport
  BY IdleFields, Fields
  DEF Init, MscInit, HostInit, Transport, FlagsAgree

LEMMA StepTransport == Typed /\ Transport /\ [Next]_vars => Transport'
<1> SUFFICES ASSUME Typed, Transport, [Next]_vars PROVE Transport'
  OBVIOUS
<1>1. CASE Interrupt /\ host' = host
  BY <1>1, StepBlockSent, StepDataSent, StepCswSent, StepStall DEF Interrupt
<1>2. CASE MainLoop /\ host' = host
  BY <1>2, StepSeen, StepBegin, StepOpen, StepCardStarts, StepCardEnds, StepBlockStarts,
     StepBlockFails, StepBlockAcked, StepReset, StepStatus, StepSend
  DEF MainLoop
<1>3. CASE Device
  BY <1>1, <1>2, <1>3 DEF Device
<1>4. CASE HostProceeds
  BY <1>4, StepReadsData, StepWritesBlock, StepDataStalled, StepReadsCsw, StepCswStalled,
     StepCswRefused, StepClearsIn, StepClearsOut, StepResets
  DEF HostProceeds
<1>5. CASE HostTakes \/ HostCommand \/ HostResets \/ HostOff \/ HostConfigures
  BY <1>5, StepTakes, StepCommand, StepResets, StepOff, StepConfigures
<1>6. CASE CardMoves \/ UNCHANGED vars
  BY <1>6, StepCard
<1> QED BY <1>3, <1>4, <1>5, <1>6 DEF Next

LEMMA SpecInductive == Spec => [](Typed /\ Transport)
<1>1. Init => Typed /\ Transport
  BY InitTyped, InitTransport
<1>2. (Typed /\ Transport) /\ [Next]_vars => (Typed /\ Transport)'
  BY StepTyped, StepTransport
<1> QED BY <1>1, <1>2, PTL DEF Spec

\* Host and device agree, in every state, on where they are in the command of
\* the host, which parts of its data have passed, and which are counted in the
\* residue: the inductive invariant of the protocol (udi_msc.c).
THEOREM TransportCorrect == Spec => []Transport
  BY SpecInductive, PTL

\* When the host is done with a command the device is, too: nothing is left in
\* the banks, nothing stalled, and the next CBW is awaited, also after a reset
\* recovery and after every enumeration (udi_msc_cbw_wait).
THEOREM ReadyCorrect == Spec => []ReadyForNext
<1>1. Transport => ReadyForNext
  BY DEF Transport, Ready, ReadyForNext
<1> QED BY <1>1, TransportCorrect, PTL

\* An invalid CBW keeps both endpoints stalled until the reset of the class,
\* however often the host clears them (udi_msc_cbw_invalid,
\* udi_msc_csw_invalid).
THEOREM InvalidCorrect == Spec => []InvalidHolds
<1>1. Typed /\ Transport => InvalidHolds
  <2> SUFFICES ASSUME Typed, Transport, cbwInvalid, enabled PROVE InvalidHolds
    BY DEF InvalidHolds
  <2>1. Invalid
    BY Stage DEF Ready, Recovering, InCommand
  <2> QED BY <2>1, Fields DEF Invalid, InvalidHolds
<1> QED BY <1>1, SpecInductive, PTL

\* In its data phase the host finds no status at the head of the banks.
LEMMA NoStatusForData ==
  ASSUME Typed, Transport, enabled, host.st = "data", host.cmd.in, InPacket
  PROVE  Head(inEp.bank).kind # "csw"
<1> DEFINE b == inEp.bank
           n == Len(b)
<1>1. n \in Nat /\ n > 0 /\ Head(b) = b[1]
  BY BankTail, BankLen DEF Typed, IsEndpoint, InPacket
<1>2. InCommand /\ (Answering \/ CswLoaded)
  BY Stage, Fields DEF Ready, Recovering, Invalid, InPacket
<1>3. DataKind \in {"block", "data"}
  BY DEF DataKind
<1>4. CASE AreData(b, n)
  BY <1>1, <1>3, <1>4 DEF AreData
<1>5. CASE CswLoaded
  <2>1. PICK m, r : m = n - 1 /\ r = b[m + 1].residue
    OBVIOUS
  <2>2. AreData(b, m) /\ DataOver(m, r) /\ inEp.halt = "no"
    BY <1>5, <2>1 DEF CswLoaded
  <2>3. m # 0
    <3> SUFFICES ASSUME m = 0 PROVE FALSE
      OBVIOUS
    <3>1. r = 0 /\ Units(m) = 0 /\ host.moved \in Nat /\ host.cmd.len \in Nat
      BY <1>2, <2>2, CommandFacts DEF DataOver, Unstalled, Units, Typed, IsHost
    <3>2. host.moved = host.cmd.len /\ host.st = DataStage(host.cmd, host.moved)
      BY <2>2, <3>1 DEF DataOver
    <3> QED BY <3>1, <3>2 DEF DataStage
  <2>4. m \in Nat
    BY <1>1, <2>1
  <2>5. b[1].kind = DataKind
    <3>1. 1 \in 1..m
      BY <2>3, <2>4
    <3> QED BY <2>2, <3>1 DEF AreData
  <2> QED BY <1>1, <1>3, <2>5
<1>6. CASE Requested \/ SendsData
  BY <1>6, Fields DEF Requested, SendsData, InPacket
<1>7. CASE Moving \/ Ending \/ SendsCsw
  BY <1>4, <1>7 DEF Moving, Moves, Ending, SendsCsw
<1> QED BY <1>2, <1>5, <1>6, <1>7 DEF Answering

\* In the data phase of a write the device does not listen for a command.
LEMMA NoCommandInData ==
  ASSUME Typed, Transport, enabled, host.st = "data", ~host.cmd.in
  PROVE  ~(outEp.job = "cbw" /\ outEp.halt = "no")
<1>1. CASE Invalid
  BY <1>1, Fields DEF Invalid
<1>2. CASE InCommand /\ (Requested \/ Moving \/ Ending \/ SendsData \/ SendsCsw)
  BY <1>2, Fields DEF Requested, Moving, Moves, Ending, SendsData, SendsCsw
<1>3. CASE InCommand /\ CswLoaded
  <2>1. PICK m, r : m = Len(inEp.bank) - 1 /\ r = inEp.bank[m + 1].residue
    OBVIOUS
  <2>2. DataOver(m, r)
    BY <1>3, <2>1 DEF CswLoaded
  <2> SUFFICES ASSUME outEp.halt = "no" PROVE FALSE
    OBVIOUS
  <2>3. r = 0 /\ Units(m) = 0 /\ host.moved \in Nat /\ host.cmd.len \in Nat
    BY <1>3, <2>2, CommandFacts DEF DataOver, Unstalled, Units, Typed, IsHost
  <2>4. host.moved = host.cmd.len /\ host.st = DataStage(host.cmd, host.moved)
    BY <2>2, <2>3 DEF DataOver
  <2> QED BY <2>3, <2>4 DEF DataStage
<1> QED BY <1>1, <1>2, <1>3, Stage DEF Answering

\* The host takes no status for data, the device no sector for a command, and
\* a command that is well-formed never ends in a reset recovery
\* (udi_msc_cbw_validate, udi_msc_csw_process).
THEOREM PhasesCorrect == Spec => []PhasesAgree
<1>1. Typed /\ Transport => PhasesAgree
  <2> SUFFICES ASSUME Typed, Transport PROVE PhasesAgree
    OBVIOUS
  <2>1. host.st \in {"recover", "data"} => enabled
    BY DEF Transport, FlagsAgree
  <2>2. host.st = "recover" => host.cmd.op = "bad"
    BY DEF Transport, Invalid
  <2> QED BY <2>1, <2>2, NoStatusForData, NoCommandInData DEF PhasesAgree
<1> QED BY <1>1, SpecInductive, PTL

\* The residue of every status is exactly the data that the host asked for and
\* that was not moved on the bus (udi_msc_trans_block, udi_msc_data_sent).
THEOREM ResidueCorrect == Spec => ResidueExact
<1> DEFINE Exact == host.st = "csw" /\ host'.st = "done"
                      => Head(inEp.bank).residue = host.cmd.len - host.moved
<1>1. Typed /\ Transport /\ [Next]_vars => [Exact]_vars
  <2> SUFFICES ASSUME Typed, Transport, Next, host.st = "csw", host'.st = "done"
               PROVE  Exact
    OBVIOUS
  <2>1. ~UNCHANGED host
    OBVIOUS
  <2>2. ~(HostTakes \/ HostCommand \/ HostResets \/ HostClearsIn \/ HostClearsOut
            \/ HostReadsData \/ HostWritesBlock \/ HostDataStalled)
    BY DEF HostTakes, HostCommand, HostResets, HostClearsIn, HostClearsOut, HostReadsData,
           HostWritesBlock, HostDataStalled
  <2>3. ~(HostCswStalled \/ HostCswRefused)
    BY DEF HostCswStalled, HostCswRefused, Goto, Typed, IsHost
  <2>4. ~(HostOff \/ HostConfigures)
    <3>1. HostConfigures => host'.st = "idle"
      BY Concluded DEF HostConfigures, HostStates, Typed
    <3> QED BY <3>1 DEF HostOff, Typed, IsHost
  <2>5. HostReadsCsw
    BY <2>1, <2>2, <2>3, <2>4 DEF Next, HostProceeds, Device, CardMoves
  <2>6. InPacket /\ enabled
    BY <2>5 DEF HostReadsCsw, Transport, FlagsAgree
  <2>7. /\ Head(inEp.bank) = inEp.bank[1] /\ InCommand
        /\ host.moved + inEp.bank[1].residue = host.cmd.len
        /\ inEp.bank[1].residue \in Nat
    BY <2>6, StatusLeft
  <2>8. host.moved \in Nat /\ host.cmd.len \in Nat
    BY <2>7, CommandFacts DEF Typed, IsHost
  <2> QED BY <2>7, <2>8
<1> QED BY <1>1, SpecInductive, PTL DEF Spec, ResidueExact

=============================================================================
