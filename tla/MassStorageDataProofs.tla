----------------------- MODULE MassStorageDataProofs -----------------------
(***************************************************************************)
(* The sectors of a transfer, for every set of commands, cards and blocks: *)
(* proofs about MassStorage on top of MassStorageProofs, which says where  *)
(* host and device are in a command.                                       *)
(*                                                                         *)
(* Kept is the inductive invariant: the buffers, the banks and the card    *)
(* hold exactly the sectors of the host's command.  From it the interface  *)
(* implements BlockDevice, and every variable keeps its type.              *)
(***************************************************************************)
EXTENDS MassStorageProofs

-----------------------------------------------------------------------------
\* Where the sectors are: the steps of the host, and what they leave.

Quiet == HostReadsData \/ HostWritesBlock \/ HostDataStalled \/ HostCswStalled
GivesUp == HostCswRefused \/ HostResets \/ HostClearsIn \/ HostOff
Renews == HostClearsOut \/ HostConfigures
Still == Device \/ CardMoves \/ UNCHANGED vars

LEMMA NextParts ==
  ASSUME [Next]_vars
  PROVE  Still \/ Quiet \/ GivesUp \/ Renews \/ HostTakes \/ HostCommand \/ HostReadsCsw
  BY DEF Next, HostProceeds, Still, Quiet, GivesUp, Renews

LEMMA StillHost ==
  ASSUME Still
  PROVE  host' = host /\ hostCard' = hostCard
  BY DEF Still, Device, CardMoves, vars

LEMMA QuietHost ==
  ASSUME Typed, Quiet
  PROVE  /\ host.st \in {"data", "csw"} /\ host'.st \in {"data", "csw"}
         /\ host'.cmd = host.cmd /\ host'.tag = host.tag /\ hostCard' = hostCard
<1>1. CASE HostReadsData
  BY <1>1, DataRead DEF HostReadsData, DataStage, Typed
<1>2. CASE HostWritesBlock
  BY <1>2, BlockWritten DEF HostWritesBlock, DataStage, Typed
<1>3. CASE HostDataStalled
  BY <1>3, GotoFields DEF HostDataStalled, HostStates, Typed
<1>4. CASE HostCswStalled
  BY <1>4 DEF HostCswStalled, Typed, IsHost
<1> QED BY <1>1, <1>2, <1>3, <1>4 DEF Quiet

LEMMA GivesUpHost ==
  ASSUME Typed, GivesUp
  PROVE  /\ host'.st \in {"recover", "clearIn", "clearOut", "off"}
         /\ host'.cmd = host.cmd /\ hostCard' = hostCard /\ host'.got = host.got
<1>1. CASE HostCswRefused \/ HostResets \/ HostClearsIn
  BY <1>1 DEF HostCswRefused, HostResets, HostClearsIn, Goto, Typed, IsHost
<1>2. CASE HostOff
  BY <1>2 DEF HostOff, Typed, IsHost
<1> QED BY <1>1, <1>2 DEF GivesUp

LEMMA ConcludedAll ==
  ASSUME IsHost, NEW pass, NEW s \in HostStates, Conclude(pass, s)
  PROVE  /\ host'.st = s /\ host'.cmd = NoCommand /\ host'.got = <<>>
         /\ host'.answer = [pass |-> pass, data |-> IF pass THEN host.got ELSE <<>>]
         /\ hostCard' = IF pass THEN hostCard ELSE live
<1> DEFINE a == [pass |-> pass, data |-> IF pass THEN host.got ELSE <<>>]
<1>1. /\ host' = [host EXCEPT !.st = s, !.cmd = NoCommand, !.tag = NoTag, !.moved = 0,
                              !.got = <<>>, !.retried = FALSE, !.answer = a]
      /\ hostCard' = IF pass THEN hostCard ELSE live
  BY DEF Conclude
<1> HIDE DEF a
<1>2. /\ host'.st = s /\ host'.cmd = NoCommand /\ host'.got = <<>> /\ host'.answer = a
  BY <1>1 DEF IsHost
<1> QED BY <1>1, <1>2 DEF a

LEMMA RenewsHost ==
  ASSUME Typed, Renews
  PROVE  /\ host'.st = "idle" /\ host'.cmd = NoCommand /\ host'.got = <<>>
         /\ host'.answer = NoAnswer /\ hostCard' = live
<1>1. Conclude(FALSE, "idle") /\ "idle" \in HostStates
  BY DEF Renews, HostClearsOut, HostConfigures, HostStates
<1> QED BY <1>1, ConcludedAll DEF Typed, NoAnswer

LEMMA TakesHost ==
  ASSUME Typed, HostTakes
  PROVE  /\ host.st = "done" /\ host'.st = "idle" /\ host'.cmd = host.cmd
         /\ host'.got = host.got /\ host'.answer = NoAnswer /\ hostCard' = hostCard
  BY DEF HostTakes, Typed, IsHost

\* The status that the host takes for its command.
LEMMA StatusTaken ==
  ASSUME Typed, Transport, HostReadsCsw
  PROVE  LET p == inEp.bank[1] IN
         /\ host.st = "csw" /\ InCommand /\ CswLoaded /\ Len(inEp.bank) = 1
         /\ inEp.bank # <<>> /\ enabled
         /\ p.kind = "csw" /\ p.residue \in Nat /\ host.moved + p.residue = host.cmd.len
         /\ Conclude(p.pass, "done")
<1>1. host.st = "csw" /\ InPacket /\ enabled
  BY DEF HostReadsCsw, Transport, FlagsAgree
<1>2. /\ InCommand /\ CswLoaded /\ Len(inEp.bank) = 1
      /\ Head(inEp.bank) = inEp.bank[1]
      /\ inEp.bank[1].kind = "csw" /\ inEp.bank[1].tag = host.tag
      /\ inEp.bank[1].residue \in Nat
      /\ host.moved + inEp.bank[1].residue = host.cmd.len
  BY <1>1, StatusLeft
<1>3. Conclude(inEp.bank[1].pass, "done")
  BY <1>2 DEF HostReadsCsw
<1> QED BY <1>1, <1>2, <1>3 DEF InPacket

LEMMA TakenHost ==
  ASSUME Typed, Transport, HostReadsCsw
  PROVE  /\ host'.st = "done" /\ host'.cmd = NoCommand /\ host'.got = <<>>
         /\ host'.answer = [pass |-> inEp.bank[1].pass,
                            data |-> IF inEp.bank[1].pass THEN host.got ELSE <<>>]
         /\ hostCard' = IF inEp.bank[1].pass THEN hostCard ELSE live
<1>1. "done" \in HostStates
  BY DEF HostStates
<1> QED BY <1>1, StatusTaken, ConcludedAll DEF Typed

-----------------------------------------------------------------------------
\* The host has no command when it rests, and one with a tag when it does not.

Commanded ==
    /\ host.st \in {"idle", "done"} => host.cmd = NoCommand /\ host.got = <<>>
    /\ host.st \in {"data", "csw"} => host.tag \in Tags
    /\ host.st = "off" => ackTrans

LEMMA CommandHost ==
  ASSUME Typed, Transport, Commanded, HostCommand
  PROVE  \E c \in Commands, t \in Tags :
           /\ CbwReceived(c, t)
           /\ host'.st = DataStage(c, 0) /\ host'.st \in {"data", "csw"}
           /\ host'.cmd = c /\ host'.tag = t
           /\ host'.moved = 0 /\ host'.got = <<>>
           /\ cbw'.c = c /\ cbw'.tag = t
<1>1. PICK c \in Commands, t \in Tags :
        /\ CbwReceived(c, t)
        /\ host' = [host EXCEPT !.st = DataStage(c, 0), !.cmd = c, !.tag = t]
  BY DEF HostCommand
<1>2. host.st = "idle" /\ host.moved = 0 /\ host.got = <<>>
  BY DEF HostCommand, Transport, Commanded
<1>3. /\ host'.st = DataStage(c, 0) /\ host'.cmd = c /\ host'.tag = t
      /\ host'.moved = 0 /\ host'.got = <<>>
  BY <1>1, <1>2 DEF Typed, IsHost
<1>4. cbw'.c = c /\ cbw'.tag = t
  BY <1>1 DEF CbwReceived
<1>5. DataStage(c, 0) \in {"data", "csw"}
  BY DEF DataStage
<1> QED BY <1>1, <1>3, <1>4, <1>5

LEMMA BlockStartsOn ==
  ASSUME Transport, BlockStarts PROVE enabled
<1>1. CASE ~enabled
  <2>1. inEp.halt = "off" /\ outEp.halt = "off"
    BY <1>1, Fields DEF Transport, FlagsAgree
  <2> QED BY <2>1 DEF BlockStarts, CanRun
<1> QED BY <1>1

\* While the bus is off nothing takes the acknowledge back.
LEMMA StillAcked ==
  ASSUME Transport, Still, host.st = "off", ackTrans
  PROVE  ackTrans'
<1>1. ~BlockStarts /\ ~Interrupt
  BY BlockStartsOn, InterruptOn DEF Transport, FlagsAgree
<1>2. CASE MainLoop
  BY <1>1, <1>2
  DEF MainLoop, TransSeen, TransBegin, TransOpen, CardStarts, CardEnds, BlockFails,
      BlockAcked, TransReset, TransStatus, TransSend, flagVars
<1>3. CASE CardMoves \/ UNCHANGED vars
  BY <1>3 DEF CardMoves, vars, mscVars, flagVars
<1> QED BY <1>1, <1>2, <1>3 DEF Still, Device

LEMMA StepCommanded ==
  ASSUME Typed, Transport, Commanded, [Next]_vars
  PROVE  Commanded'
<1>1. CASE Still
  BY <1>1, StillHost, StillAcked DEF Commanded
<1>2. CASE Quiet
  BY <1>2, QuietHost DEF Commanded
<1>3. CASE GivesUp
  <2>1. host'.st = "off" => ackTrans'
    <3>1. CASE HostOff
      BY <3>1 DEF HostOff, BusReset
    <3>2. CASE HostCswRefused \/ HostResets \/ HostClearsIn
      BY <3>2 DEF HostCswRefused, HostResets, HostClearsIn, Goto, Typed, IsHost
    <3> QED BY <1>3, <3>1, <3>2 DEF GivesUp
  <2> QED BY <1>3, <2>1, GivesUpHost DEF Commanded
<1>4. CASE Renews
  BY <1>4, RenewsHost DEF Commanded
<1>5. CASE HostTakes
  BY <1>5, TakesHost DEF Commanded
<1>6. CASE HostCommand
  BY <1>6, CommandHost DEF Commanded
<1>7. CASE HostReadsCsw
  BY <1>7, TakenHost DEF Commanded
<1> QED BY <1>1, <1>2, <1>3, <1>4, <1>5, <1>6, <1>7, NextParts
-----------------------------------------------------------------------------
\* The transfer of the main loop.

\* The main loop has nothing to do but for a command that is out, or a bus that was
\* reset under it.
LEMMA AtIdle ==
  ASSUME Transport
  PROVE  /\ host.st \in {"idle", "done", "recover", "clearIn", "clearOut"} =>
              task = Idle /\ task.pc = "idle" /\ ~transReq
         /\ task.pc = "idle" => task = Idle
  BY IdleFields DEF Transport, FlagsAgree, Ready, Invalid, Recovering

LEMMA WorkingSame ==
  ASSUME Working, task' = task, cbw' = cbw, csw' = csw, host'.cmd = host.cmd
  PROVE  Working'
<1>1. Counted' = Counted
  BY DEF Counted, UsbPart
<1> QED BY <1>1 DEF Working, UsbPart, CardPart, IsTransfer, Validate

LEMMA WorkingIdle ==
  ASSUME task'.pc = "idle"
  PROVE  Working'
  BY DEF Working

\* What is known of a transfer at work.
LEMMA WorkFacts ==
  ASSUME Typed, Working, task.pc \notin {"idle", "begin"}
  PROVE  /\ cbw.c = host.cmd /\ host.cmd \in Commands /\ IsTransfer(host.cmd)
         /\ task.n = host.cmd.n /\ task.a = host.cmd.a /\ task.read = host.cmd.in
         /\ task.n \in Nat /\ task.n > 0 /\ task.k \in 0..task.n /\ task.read \in BOOLEAN
         /\ csw.residue \in Int /\ host.cmd.len \in Nat /\ host.cmd.len >= 2 * task.n
         /\ host.cmd.in <=> host.cmd.op = "read"
         /\ host.cmd.op \in {"read", "write"}
         /\ host.cmd.len - csw.residue \in 0..2 * task.n
         /\ task.pc = "ack" => host.cmd.len - csw.residue \in 0..2 * (task.n - 1)
         /\ task.pc \in {"usb", "ack"} => UsbPart(task)
         /\ task.pc \in {"card", "wait"} => CardPart(task)
<1>1. /\ cbw.c = host.cmd /\ host.cmd \in Commands /\ IsTransfer(host.cmd)
      /\ task.read = host.cmd.in /\ task.k \in 0..task.n
      /\ task.n = host.cmd.n /\ task.a = host.cmd.a
      /\ task.pc \in {"usb", "ack"} => UsbPart(task)
      /\ task.pc \in {"card", "wait"} => CardPart(task)
      /\ Counted
  BY DEF Working
<1>2. /\ host.cmd.len \in Nat /\ host.cmd.n \in Nat /\ host.cmd.n > 0
      /\ host.cmd.len >= 2 * host.cmd.n /\ host.cmd.in \in BOOLEAN
      /\ host.cmd.in <=> host.cmd.op = "read"
      /\ host.cmd.op \in {"read", "write"}
  BY <1>1, CommandsAssumption DEF IsTransfer, Validate
<1>3. csw.residue \in Int /\ task.pc \in Places
  BY DEF Typed, IsCsw, IsTask, IsPlace
<1>4. /\ host.cmd.len - csw.residue \in 0..2 * task.n
      /\ task.pc = "ack" => host.cmd.len - csw.residue \in 0..2 * (task.n - 1)
  BY <1>1, <1>2, <1>3 DEF Counted, UsbPart, CardPart
<1> QED BY <1>1, <1>2, <1>3, <1>4

\* A step of the pipeline, or its end.
LEMMA WorkingStep ==
  ASSUME Working, task.pc \notin {"idle", "begin"}, cbw' = cbw, host'.cmd = host.cmd,
         task'.pc \notin {"idle", "begin"},
         task'.n = task.n, task'.read = task.read, task'.a = task.a, task'.k \in 0..task.n,
         task'.pc \in {"usb", "ack"} => UsbPart(task'),
         task'.pc \in {"card", "wait"} => CardPart(task'),
         Counted'
  PROVE  Working'
<1>1. /\ cbw.c = host.cmd /\ host.cmd \in Commands /\ IsTransfer(host.cmd)
      /\ task.read = host.cmd.in /\ task.n = host.cmd.n /\ task.a = host.cmd.a
  BY DEF Working
<1>2. IsTransfer(host.cmd)'
  BY <1>1 DEF IsTransfer, Validate
<1> QED BY <1>1, <1>2 DEF Working

\* The steps of the pipeline leave the address alone.
LEMMA SameAddress ==
  ASSUME NEW t, IsPlace(t)
  PROVE  /\ BeginStep(t).a = t.a /\ EndCard(t).a = t.a /\ EndStep(t).a = t.a
         /\ EndUsb(t).a = t.a /\ \A s : Failed(t, s).a = t.a
<1>1. /\ BeginStep(t).a = t.a /\ EndCard(t).a = t.a /\ \A s : Failed(t, s).a = t.a
      /\ [t EXCEPT !.pc = "wait"].a = t.a
  BY DEF IsPlace, BeginStep, EndCard, Failed
<1>2. EndStep(t).a = t.a
  <2> DEFINE u == [t EXCEPT !.k = @ - 1]
  <2>1. u.a = t.a /\ BeginStep(u).a = u.a /\ [t EXCEPT !.pc = "done", !.status = "good"].a = t.a
    BY DEF IsPlace, BeginStep
  <2> HIDE DEF u
  <2>2. EndStep(t) = IF t.k = 0 THEN [t EXCEPT !.pc = "done", !.status = "good"] ELSE BeginStep(u)
    BY DEF EndStep, u
  <2> QED BY <2>1, <2>2
<1> QED BY <1>1, <1>2 DEF EndUsb

LEMMA WorkingBegins ==
  ASSUME Typed, Transport, Working, TransSeen \/ TransBegin, host' = host
  PROVE  Working'
<1>1. CASE TransSeen
  <2>1. InCommand /\ Held /\ Requested
    BY <1>1, AtRequest DEF TransSeen
  <2>2. task'.pc = "begin" /\ cbw' = cbw /\ csw' = csw
    BY <1>1 DEF TransSeen, Typed, IsTask, IsPlace
  <2> QED
    BY <2>1, <2>2 DEF InCommand, Held, Requested, Working, IsTransfer, Validate
<1>2. CASE TransBegin
  <2>1. /\ cbw.c = host.cmd /\ host.cmd \in Commands /\ IsTransfer(host.cmd)
        /\ csw.residue = host.cmd.len /\ task.pc = "begin"
    BY <1>2 DEF TransBegin, Working
  <2>2. /\ task'.pc = "open" /\ task'.n = host.cmd.n /\ task'.k = host.cmd.n
        /\ task'.read = (host.cmd.op = "read") /\ task'.a = host.cmd.a
        /\ cbw' = cbw /\ csw' = csw
    BY <1>2, <2>1 DEF TransBegin, Typed, IsTask, IsPlace
  <2>3. /\ host.cmd.n \in Nat /\ host.cmd.in \in BOOLEAN
        /\ host.cmd.in = (host.cmd.op = "read")
    BY <2>1, CommandsAssumption DEF IsTransfer, Validate
  <2>4. Counted'
    BY <2>1, <2>2 DEF Counted
  <2>5. task'.k \in 0..task'.n
    BY <2>2, <2>3
  <2>6. IsTransfer(host.cmd)'
    BY <2>1 DEF IsTransfer, Validate
  <2> QED
    BY <2>1, <2>2, <2>3, <2>4, <2>5, <2>6 DEF Working
<1> QED BY <1>1, <1>2

LEMMA WorkingCard ==
  ASSUME Typed, Transport, Working, TransOpen \/ CardStarts \/ CardEnds, host' = host
  PROVE  Working'
<1> USE WorkFacts
<1>1. IsPlace(task) /\ cbw' = cbw /\ csw' = csw
  BY DEF TransOpen, CardStarts, CardEnds, Typed, IsTask
<1>2. CASE TransOpen
  <2>1. /\ task.pc = "open"
        /\ task' = BeginStep(task) \/ \E x : task' = Failed(task, x)
    BY <1>2 DEF TransOpen
  <2>2. /\ SamePart(task, task') /\ task'.a = task.a
        /\ task'.pc = "done" \/ task'.pc = (IF CardPart(task) THEN "card" ELSE "usb")
    BY <1>1, <2>1, BeginFields, FailedFields, SameAddress
  <2>3. task.k = task.n /\ csw.residue = host.cmd.len
    BY <2>1 DEF Working, Counted
  <2>4. Counted'
    BY <1>1, <2>1, <2>2, <2>3 DEF SamePart, Counted
  <2>5. ~CardPart(task) => UsbPart(task)
    BY <2>1, <2>3 DEF CardPart, UsbPart
  <2>6. /\ CardPart(task') <=> CardPart(task)
        /\ UsbPart(task') <=> UsbPart(task)
    BY <2>2 DEF SamePart, CardPart, UsbPart
  <2> QED BY <1>1, <2>1, <2>2, <2>4, <2>5, <2>6, WorkingStep DEF SamePart
<1>3. CASE CardStarts
  <2>1. /\ task.pc = "card"
        /\ task' = EndCard(task) \/ task' = Failed(task, "fail")
    BY <1>3 DEF CardStarts
  <2>2. /\ SamePart(task, task') /\ task'.a = task.a
        /\ task'.pc = "done" \/ task'.pc = (IF UsbPart(task) THEN "usb" ELSE "wait")
    BY <1>1, <2>1, CardFields, FailedFields, SameAddress
  <2>3. /\ CardPart(task') <=> CardPart(task)
        /\ UsbPart(task') <=> UsbPart(task)
    BY <2>2 DEF SamePart, CardPart, UsbPart
  <2>4. Counted'
    BY <1>1, <2>1, <2>2, <2>3 DEF Working, SamePart, Counted
  <2> QED BY <1>1, <2>1, <2>2, <2>3, <2>4, WorkingStep DEF SamePart
<1>4. CASE CardEnds
  <2>1. /\ task.pc = "wait"
        /\ task' = EndStep(task) \/ task' = Failed(task, "fail")
    BY <1>4 DEF CardEnds
  <2>2. /\ task'.n = task.n /\ task'.read = task.read /\ task'.k \in 0..task.n
        /\ task'.a = task.a
        /\ \/ task'.pc = "done"
           \/ /\ task'.k = task.k - 1
              /\ task'.pc = IF CardPart(task') THEN "card" ELSE "usb"
    BY <1>1, <2>1, EndFields, FailedFields, SameAddress DEF SamePart
  <2>3. Counted'
    <3>1. /\ CardPart(task) /\ task.n \in Nat /\ task.k \in 0..task.n
          /\ csw.residue \in Int /\ host.cmd.len \in Nat
          /\ host.cmd.len - csw.residue \in 0..2 * task.n
      BY <2>1
    <3>2. host.cmd.len - csw.residue
            = 2 * ((IF task.read /\ task.k # task.n THEN task.n - 1 - task.k
                    ELSE task.n - task.k) + (IF UsbPart(task) THEN 1 ELSE 0))
      BY <2>1 DEF Working, Counted
    <3>3. CASE task'.pc = "done"
      BY <1>1, <2>2, <3>1, <3>3 DEF Counted
    <3>4. CASE task'.pc # "done"
      <4>1. task'.k = task.k - 1 /\ task'.pc \in {"card", "usb"} /\ task.k # 0
        BY <2>2, <3>1, <3>4
      <4>2. host.cmd.len - csw.residue
              = 2 * (IF task.read THEN task.n - task.k ELSE task.n - task.k + 1)
        BY <3>1, <3>2, <4>1 DEF CardPart, UsbPart
      <4>3. (IF task'.read /\ task'.k # task'.n THEN task'.n - 1 - task'.k ELSE task'.n - task'.k)
              = IF task.read THEN task.n - task.k ELSE task.n - task.k + 1
        BY <2>2, <3>1, <4>1
      <4>4. PICK m : m = IF task.read THEN task.n - task.k ELSE task.n - task.k + 1
        OBVIOUS
      <4>5. host.cmd.len - csw.residue = 2 * (m + 0)
        BY <3>1, <4>2, <4>4
      <4> HIDE WorkFacts
      <4> QED BY <1>1, <4>1, <4>3, <4>4, <4>5 DEF Counted
    <3> QED BY <3>3, <3>4
  <2>4. /\ task'.pc = "usb" => UsbPart(task')
        /\ task'.pc = "card" => CardPart(task')
    BY <2>1, <2>2 DEF CardPart, UsbPart
  <2>5. task'.pc \in {"card", "usb", "done"}
    BY <2>2
  <2> QED BY <1>1, <2>1, <2>2, <2>3, <2>4, <2>5, WorkingStep
<1> QED BY <1>2, <1>3, <1>4

LEMMA WorkingBlock ==
  ASSUME Typed, Transport, Working, BlockStarts \/ BlockFails \/ BlockAcked, host' = host
  PROVE  Working'
<1> USE WorkFacts
<1>1. IsPlace(task) /\ cbw' = cbw
  BY DEF BlockStarts, BlockFails, BlockAcked, Typed, IsTask
<1>2. CASE BlockStarts
  <2>1. task.pc = "usb" /\ task' = [task EXCEPT !.pc = "ack"] /\ csw' = csw
    BY <1>2 DEF BlockStarts
  <2>2. SamePart(task, task') /\ task'.a = task.a /\ task'.pc = "ack"
    BY <1>1, <2>1 DEF SamePart, IsPlace
  <2>3. UsbPart(task')
    BY <2>1, <2>2 DEF SamePart, UsbPart
  <2>4. Counted'
    BY <2>1, <2>2 DEF Working, SamePart, Counted
  <2> QED BY <1>1, <2>1, <2>2, <2>3, <2>4, WorkingStep DEF SamePart
<1>3. CASE BlockFails
  <2>1. task.pc \in {"usb", "ack"} /\ task' = Failed(task, "fail") /\ csw' = csw
    BY <1>3 DEF BlockFails
  <2>2. SamePart(task, task') /\ task'.a = task.a /\ task'.pc = "done"
    BY <1>1, <2>1, FailedFields, SameAddress
  <2>3. Counted'
    BY <2>1, <2>2 DEF SamePart, Counted
  <2> QED BY <1>1, <2>1, <2>2, <2>3, WorkingStep DEF SamePart
<1>4. CASE BlockAcked
  <2>1. /\ task' = EndUsb(task) /\ task.pc = "ack"
        /\ csw' = [csw EXCEPT !.residue = @ - 2]
    BY <1>4 DEF BlockAcked
  <2>2. csw'.residue = csw.residue - 2
    BY <2>1 DEF Typed, IsCsw
  <2>3. /\ task'.n = task.n /\ task'.read = task.read /\ task'.k \in 0..task.n
        /\ task'.a = task.a
        /\ CASE CardPart(task) -> task'.pc = "wait" /\ task'.k = task.k
             [] ~CardPart(task) /\ task.k = 0 -> task'.pc = "done"
             [] OTHER -> task'.k = task.k - 1
                         /\ task'.pc = IF CardPart(task') THEN "card" ELSE "usb"
    BY <1>1, <2>1, EndFields, UsbFields, SameAddress DEF SamePart
  <2>4. host.cmd.len - csw.residue
          = 2 * (IF task.read /\ task.k # task.n THEN task.n - 1 - task.k ELSE task.n - task.k)
    BY <2>1 DEF Working, Counted
  <2>5. host.cmd.len - csw'.residue = (host.cmd.len - csw.residue) + 2
    BY <2>1, <2>2
  <2>6. Counted'
    <3>1. CASE CardPart(task)
      <4>1. task'.pc = "wait" /\ task'.k = task.k /\ UsbPart(task')
        BY <2>1, <2>3, <3>1 DEF UsbPart
      <4> QED BY <2>1, <2>3, <2>4, <2>5, <4>1 DEF Counted
    <3>2. CASE ~CardPart(task) /\ task.k = 0
      BY <2>1, <2>2, <2>3, <3>2 DEF Counted
    <3>3. CASE ~CardPart(task) /\ task.k # 0
      <4>1. ~task.read /\ task.k = task.n
        BY <2>1, <3>3 DEF CardPart
      <4>2. task'.k = task.n - 1 /\ task'.pc = IF CardPart(task') THEN "card" ELSE "usb"
        BY <2>3, <3>3, <4>1
      <4> QED BY <2>1, <2>3, <2>4, <2>5, <4>1, <4>2 DEF Counted
    <3> QED BY <3>1, <3>2, <3>3
  <2>7. /\ task'.pc = "usb" => UsbPart(task')
        /\ task'.pc \in {"card", "wait"} => CardPart(task')
    BY <2>1, <2>3 DEF CardPart, UsbPart
  <2>8. task'.pc \in {"card", "usb", "wait", "done"}
    BY <2>3
  <2> QED BY <1>1, <2>1, <2>3, <2>6, <2>7, <2>8, WorkingStep
<1> QED BY <1>2, <1>3, <1>4

LEMMA StepWorking ==
  ASSUME Typed, Transport, Working, [Next]_vars
  PROVE  Working'
<1>1. CASE MainLoop /\ host' = host
  <2>1. CASE TransStatus
    <3>1. /\ task.pc = "done" /\ task' = [task EXCEPT !.pc = "send"] /\ cbw' = cbw
          /\ csw'.residue = csw.residue
      BY <2>1 DEF TransStatus, Typed, IsCsw
    <3>2. SamePart(task, task') /\ task'.a = task.a /\ task'.pc = "send"
      BY <3>1 DEF SamePart, Typed, IsTask, IsPlace
    <3>3. Counted'
      BY <1>1, <3>1, <3>2, WorkFacts DEF SamePart, Counted
    <3> QED BY <1>1, <3>1, <3>2, <3>3, WorkFacts, WorkingStep DEF SamePart
  <2>2. CASE TransReset \/ TransSend
    BY <2>2, IdleFields, WorkingIdle DEF TransReset, TransSend
  <2> QED BY <1>1, <2>1, <2>2, WorkingBegins, WorkingCard, WorkingBlock DEF MainLoop
<1>2. CASE Interrupt /\ host' = host
  <2>1. enabled
    BY <1>2, InterruptOn
  <2>2. CASE BlockSent \/ StallWhenSent
    BY <1>2, <2>2, WorkingSame DEF BlockSent, StallWhenSent, taskVars
  <2>3. CASE DataSent \/ CswSent
    <3>1. task = Idle /\ task' = task
      BY <2>1, <2>3, AtJob DEF DataSent, CswSent, CanLoad, SendsData, SendsCsw, taskVars
    <3> QED BY <3>1, IdleFields, WorkingIdle
  <2> QED BY <1>2, <2>2, <2>3 DEF Interrupt
<1>3. CASE CardMoves \/ UNCHANGED vars
  BY <1>3, WorkingSame DEF CardMoves, vars, mscVars, taskVars
<1>4. CASE Quiet
  <2>1. task' = task /\ cbw' = cbw /\ csw' = csw
    BY <1>4 DEF Quiet, HostReadsData, HostWritesBlock, BlockReceived, HostDataStalled,
                HostCswStalled, ClearHaltIn, ClearHaltOut, taskVars
  <2> QED BY <1>4, <2>1, QuietHost, WorkingSame
<1>5. CASE GivesUp
  <2>1. task' = task /\ cbw' = cbw /\ csw' = csw
    BY <1>5 DEF GivesUp, HostCswRefused, HostResets, BulkReset, HostClearsIn, ClearHaltIn,
                HostOff, BusReset, mscVars, taskVars
  <2> QED BY <1>5, <2>1, GivesUpHost, WorkingSame
<1>6. CASE Renews \/ HostTakes \/ HostCommand \/ HostReadsCsw
  <2>1. task' = task
    BY <1>6 DEF Renews, HostClearsOut, ClearHaltOut, HostConfigures, Configure, HostTakes,
                HostCommand, CbwReceived, HostReadsCsw, mscVars, taskVars
  <2>2. task.pc = "idle"
    <3>1. HostReadsCsw => task = Idle
      BY StatusTaken DEF CswLoaded
    <3> QED
      BY <1>6, <3>1, AtIdle, IdleFields
      DEF Renews, HostClearsOut, HostConfigures, HostTakes, HostCommand
  <2> QED BY <2>1, <2>2, WorkingIdle
<1> QED BY <1>1, <1>2, <1>3, <1>4, <1>5, <1>6, NextParts DEF Still, Device

-----------------------------------------------------------------------------
\* The status that is on its way.

LEMMA BankKept ==
  ASSUME NEW e, IsEndpoint(e)
  PROVE  /\ \A j : Run(e, j).bank = e.bank
         /\ SetHalt(e).bank = e.bank /\ Unhalted(e).bank = e.bank
         /\ CswSend(e).bank = e.bank /\ HaltCleared(e).bank = e.bank
         /\ \A c, r : StallIn(e, c, r).bank = e.bank
<1>1. \A x : IsEndpoint(x) => \A j : Run(x, j).bank = x.bank /\ WaitClear(x, j).bank = x.bank
  BY DEF Run, WaitClear, IsEndpoint
<1>2. \A x : IsEndpoint(x) => \A j, w : RunOrWait(x, j, w).bank = x.bank
  BY <1>1 DEF RunOrWait
<1>3. \A x : IsEndpoint(x) => SetHalt(x).bank = x.bank /\ Unhalted(x).bank = x.bank
  BY DEF SetHalt, Unhalted, IsEndpoint
<1>4. \A x : IsEndpoint(x) => CswSend(x).bank = x.bank /\ CbwWait(x).bank = x.bank
  BY <1>2 DEF CswSend, CbwWait
<1>5. IsEndpoint(Unhalted(e)) /\ IsEndpoint(SetHalt(Unhalted(e)))
  <2>1. IsEndpoint(Unhalted(e))
    BY EndpointCalls
  <2> QED BY <2>1, EndpointCalls
<1>6. HaltCleared(e).bank = e.bank
  BY <1>1, <1>3, <1>4, <1>5 DEF HaltCleared
<1>7. \A c, r : StallIn(e, c, r).bank = e.bank
  BY <1>3 DEF StallIn
<1> QED BY <1>1, <1>3, <1>4, <1>6, <1>7

LEMMA DataOnly ==
  ASSUME IsEndpoint(inEp), AreData(inEp.bank, Len(inEp.bank))
  PROVE  ~CswInBank
<1>1. Len(inEp.bank) \in Nat /\ (inEp.bank = <<>> <=> Len(inEp.bank) = 0)
  BY BankLen DEF IsEndpoint
<1>2. DataKind # "csw"
  BY DEF DataKind
<1> QED BY <1>1, <1>2 DEF AreData, CswInBank

\* The status goes in one stage, and is in the banks in the next.
LEMMA Sending ==
  ASSUME Typed, Transport, enabled
  PROVE  /\ CswGoes => InCommand /\ (Ending \/ SendsCsw) /\ ~CswInBank
         /\ CswInBank => InCommand /\ CswLoaded /\ ~CswGoes
<1>1. Ending \/ SendsCsw => ~CswInBank
  BY DataOnly DEF Ending, SendsCsw, Typed
<1>2. InCommand /\ Moving => ~CswGoes /\ ~CswInBank
  <2> SUFFICES ASSUME InCommand, Moving PROVE ~CswGoes /\ ~CswInBank
    OBVIOUS
  <2>1. task.pc # "send" /\ inEp.job \in {"none", "block"}
    BY CommandFacts, Fields DEF Moving, InPipeline, Moves
  <2>2. ~CswInBank
    <3>1. CASE host.cmd.in
      BY <3>1, DataOnly DEF Moving, Moves, Typed
    <3>2. CASE ~host.cmd.in
      BY <3>2, CommandFacts, Fields DEF Moving, Moves, CswInBank
    <3> QED BY <3>1, <3>2, CommandFacts
  <2> QED BY <2>1, <2>2 DEF CswGoes
<1>3. \/ host.st \in {"idle", "done"} /\ Ready
      \/ host.st \in {"clearIn", "clearOut"} /\ Recovering
      \/ host.st \in {"data", "csw", "recover"} /\ Invalid
      \/ InCommand /\ (Answering \/ CswLoaded)
  BY Stage
<1>4. Ready \/ Recovering \/ Invalid \/ Requested \/ SendsData => ~CswGoes /\ ~CswInBank
  <2>1. Ready \/ Recovering \/ Invalid \/ Requested \/ SendsData =>
          /\ task \in {Idle, [Idle EXCEPT !.pc = "begin"]}
          /\ inEp \in {Opened, Waits("none"), Waits("wait_invalid"), Run(Opened, "data")}
    BY DEF Ready, Recovering, Invalid, Requested, SendsData
  <2>2. \A t \in {Idle, [Idle EXCEPT !.pc = "begin"]} : t.pc # "send"
    BY IdleFields
  <2>3. \A e \in {Opened, Waits("none"), Waits("wait_invalid"), Run(Opened, "data")} :
          e.job \notin {"csw", "wait_csw"} /\ e.bank = <<>>
    BY Fields
  <2> QED BY <2>1, <2>2, <2>3 DEF CswGoes, CswInBank
<1>5. CswLoaded => ~CswGoes
  BY IdleFields DEF CswLoaded, CswGoes
<1> QED BY <1>1, <1>2, <1>3, <1>4, <1>5 DEF Answering

LEMMA StatusSame ==
  ASSUME task'.pc = task.pc, sense' = sense, inEp'.bank = inEp.bank,
         inEp'.job \in {"csw", "wait_csw"} <=> inEp.job \in {"csw", "wait_csw"}
  PROVE  /\ CswInBank' = CswInBank /\ (Passes' <=> Passes) /\ (Fails' <=> Fails)
         /\ csw'.residue = csw.residue => LastResidue' = LastResidue
<1>1. (CswGoes' <=> CswGoes) /\ CswInBank' = CswInBank
  BY DEF CswGoes, CswInBank
<1> QED BY <1>1 DEF Passes, Fails, LastResidue

\* The host reads a packet of data from before it.
LEMMA StatusRead ==
  ASSUME Typed, task'.pc = task.pc, sense' = sense, csw' = csw, inEp'.job = inEp.job,
         InPacket, Head(inEp.bank).kind # "csw", inEp'.bank = Tail(inEp.bank)
  PROVE  (Passes' <=> Passes) /\ (Fails' <=> Fails) /\ LastResidue' = LastResidue
<1> DEFINE b == inEp.bank
           n == Len(b)
<1>1. /\ n \in Nat /\ n > 0 /\ Head(b) = b[1]
      /\ Len(inEp'.bank) = n - 1
      /\ \A i \in 1..(n - 1) : inEp'.bank[i] = b[i + 1]
      /\ inEp'.bank = <<>> <=> n - 1 = 0
  <2>1. IsBank(b) /\ b # <<>> /\ inEp'.bank = Tail(b)
    BY DEF Typed, IsEndpoint, InPacket
  <2> HIDE DEF b
  <2>2. /\ IsBank(Tail(b)) /\ n > 0 /\ Len(Tail(b)) = n - 1 /\ Head(b) = b[1]
        /\ \A i \in 1..(n - 1) : Tail(b)[i] = b[i + 1]
    BY <2>1, BankTail
  <2>3. n \in Nat /\ (Tail(b) = <<>> <=> Len(Tail(b)) = 0)
    BY <2>1, <2>2, BankLen
  <2> QED BY <2>1, <2>2, <2>3
<1>2. CswGoes' <=> CswGoes
  BY DEF CswGoes
<1>3. CASE n = 1
  <2>1. ~CswInBank /\ ~CswInBank'
    BY <1>1, <1>3 DEF CswInBank
  <2> QED BY <1>2, <2>1 DEF Passes, Fails, LastResidue
<1>4. CASE n # 1
  <2>1. inEp'.bank # <<>> /\ b # <<>> /\ inEp'.bank[Len(inEp'.bank)] = b[n]
    BY <1>1, <1>4
  <2>2. CswInBank' <=> CswInBank
    BY <2>1 DEF CswInBank
  <2> QED BY <1>2, <2>1, <2>2 DEF Passes, Fails, LastResidue
<1> QED BY <1>3, <1>4

\* The end of a stall starts the CSW that waited for it.
LEMMA ClearsIn ==
  ASSUME Typed, Transport, enabled, ClearHaltIn
  PROVE  /\ inEp'.bank = inEp.bank
         /\ inEp'.job \in {"csw", "wait_csw"} <=> inEp.job \in {"csw", "wait_csw"}
         /\ inEp'.job = "data" => inEp.job = "data"
<1>1. inEp' = HaltCleared(inEp) /\ inEp'.bank = inEp.bank
  BY BankKept DEF ClearHaltIn, Typed
<1>2. inEp.job = "csw" => ~Halted(inEp)
  BY AtJob DEF SendsCsw
<1>3. IsEndpoint(Unhalted(inEp)) /\ IsEndpoint(SetHalt(Unhalted(inEp)))
  <2>1. IsEndpoint(Unhalted(inEp))
    BY EndpointCalls DEF Typed
  <2> QED BY <2>1, EndpointCalls
<1>4. Halted(inEp) => Unhalted(inEp).halt = "no" /\ Unhalted(inEp).job = "none"
  BY DEF Unhalted, Typed, IsEndpoint
<1>5. CASE ~Halted(inEp)
  BY <1>1, <1>5 DEF HaltCleared
<1>6. CASE Halted(inEp) /\ inEp.job = "wait_csw"
  <2>1. inEp' = CswSend(Unhalted(inEp))
    BY <1>1, <1>6 DEF HaltCleared
  <2>2. CswSend(Unhalted(inEp)).job = "csw"
    BY <1>3, <1>4, <1>6, Sent DEF CswSend, Halted
  <2> QED BY <1>1, <1>6, <2>1, <2>2
<1>7. CASE Halted(inEp) /\ inEp.job = "wait_cbw"
  <2>1. inEp' = CbwWait(Unhalted(inEp))
    BY <1>1, <1>7 DEF HaltCleared
  <2>2. CbwWait(Unhalted(inEp)).job = "cbw"
    BY <1>3, <1>4, <1>7, Sent DEF CbwWait, Halted
  <2> QED BY <1>1, <1>7, <2>1, <2>2
<1>8. CASE Halted(inEp) /\ inEp.job \notin {"wait_csw", "wait_cbw"}
  <2>1. inEp' \in {Unhalted(inEp), WaitClear(SetHalt(Unhalted(inEp)), "wait_invalid")}
    BY <1>1, <1>8 DEF HaltCleared
  <2>2. WaitClear(SetHalt(Unhalted(inEp)), "wait_invalid").job \in {"none", "wait_invalid"}
    <3>1. SetHalt(Unhalted(inEp)).job = "none"
      BY <1>3, <1>4, <1>8, Stalled
    <3> QED BY <1>3, <3>1 DEF WaitClear, Run, IsEndpoint
  <2>3. inEp'.job \in {"none", "wait_invalid"}
    BY <1>4, <1>8, <2>1, <2>2
  <2> QED BY <1>1, <1>2, <1>8, <2>3
<1> QED BY <1>1, <1>5, <1>6, <1>7, <1>8

\* A command that ends in the interrupt has its status on the way.
LEMMA FinishGoes ==
  ASSUME NEW c, NEW t, NEW s, Finish(c, t, s), inEp = Opened
  PROVE  /\ inEp'.job \in {"csw", "wait_csw"} /\ inEp'.bank = <<>>
         /\ sense' = s /\ transReq' = transReq
<1>1. StallIn(inEp, c, c.len) \in {Opened, Waits("none")}
  BY AtRest DEF StallIn
<1>2. inEp' \in {Run(Opened, "csw"), Waits("wait_csw")}
  BY <1>1, AtRest DEF Finish, CswSend
<1> QED BY <1>2, Fields DEF Finish, flagVars

\* A packet of the data phase, as the host reads it.
LEMMA PacketRead ==
  ASSUME Typed, Transport, HostReadsData
  PROVE  /\ enabled /\ InCommand /\ host.st = "data" /\ InPacket
         /\ Head(inEp.bank).kind # "csw" /\ inEp'.bank = Tail(inEp.bank)
         /\ inEp'.job = inEp.job
         /\ UNCHANGED <<csw, cbw, sense, flagVars, outEp, taskVars, sdVars, hostCard>>
<1>1. /\ host.st = "data" /\ host.cmd.in /\ InPacket
      /\ inEp' = [inEp EXCEPT !.bank = Tail(@)]
      /\ UNCHANGED <<csw, cbw, sense, flagVars, outEp, taskVars, sdVars, hostCard>>
  BY DEF HostReadsData, TakeIn
<1>2. enabled
  BY <1>1 DEF Transport, FlagsAgree
<1>3. InCommand
  BY <1>1, <1>2, Stage, Fields DEF Invalid, InPacket
<1>4. inEp'.bank = Tail(inEp.bank) /\ inEp'.job = inEp.job
  BY <1>1 DEF Typed, IsEndpoint
<1> QED BY <1>1, <1>2, <1>3, <1>4, NoStatusForData

-----------------------------------------------------------------------------
\* The card that the host knows of.

\* A card becomes initialised in a command that fails.
LEMMA CommandLive ==
  ASSUME NEW c, NEW t, CbwReceived(c, t)
  PROVE  live' = live \/ Finish(c, t, "attention")
<1>1. SenseOf("busy") = "attention" /\ \A ok \in BOOLEAN : ok => UnitStatus("init", ok) = "busy"
  BY DEF SenseOf, UnitStatus
<1>2. ASSUME NEW s, NEW ok \in BOOLEAN, TestUnitReady(s, ok)
      PROVE  live' = live \/ UnitStatus(s, ok) = "busy"
  BY <1>1, <1>2 DEF TestUnitReady
<1>3. CASE UnitReady(c, t)
  BY <1>1, <1>2, <1>3 DEF UnitReady
<1>4. CASE ReadCapacity(c, t)
  <2>1. CASE ~Validate(c, 1, TRUE)
    BY <1>4, <2>1 DEF ReadCapacity, sdVars
  <2>2. CASE Validate(c, 1, TRUE)
    <3>1. PICK late \in BOOLEAN, later \in BOOLEAN, ok \in BOOLEAN :
            LET first == Selected(slot, late)
                s == Selected(first, later /\ first = slot)
            IN /\ TestUnitReady(s, ok)
               /\ IF UnitStatus(s, ok) = "good" THEN DataSend(c, t)
                  ELSE Finish(c, t, SenseOf(UnitStatus(s, ok)))
      BY <1>4, <2>2 DEF ReadCapacity
    <3>2. PICK s : s = Selected(Selected(slot, late), later /\ Selected(slot, late) = slot)
      OBVIOUS
    <3>3. /\ TestUnitReady(s, ok)
          /\ UnitStatus(s, ok) # "good" => Finish(c, t, SenseOf(UnitStatus(s, ok)))
      BY <3>1, <3>2
    <3> QED BY <1>1, <1>2, <3>3
  <2> QED BY <2>1, <2>2
<1>5. CASE InvalidCbw(c) \/ Information(c, t) \/ StartStop(c, t) \/ NoData(c, t) \/ Transfer(c, t)
  BY <1>5 DEF InvalidCbw, Information, StartStop, Unload, NoData, Transfer, sdVars
<1> QED BY <1>3, <1>4, <1>5 DEF CbwReceived

LEMMA KnownSame ==
  ASSUME KnownCard, live \in {NoCard, hostCard}, live' \in {NoCard, live}, hostCard' = hostCard
  PROVE  KnownCard'
  BY DEF KnownCard

\* The same command, and the same status of it.
LEMMA KnownFails ==
  ASSUME KnownCard, live' \in {NoCard, live}, hostCard' = hostCard, task'.pc = task.pc,
         (host.st \in {"data", "csw"} /\ host'.st \in {"data", "csw"}) \/ host'.st = host.st,
         (Fails => Fails') \/ host.st \notin {"data", "csw"},
         transReq' = transReq
  PROVE  KnownCard'
  BY DEF KnownCard

LEMMA KnownDevice ==
  ASSUME Typed, Transport, KnownCard, Device
  PROVE  KnownCard'
<1>1. host' = host /\ hostCard' = hostCard
  BY DEF Device
<1>2. CASE MainLoop
  <2>1. live' = live
    BY <1>2 DEF MainLoop, TransSeen, TransBegin, TransOpen, OpenBlocks, CardStarts, StartBlock,
                CardEnds, BlockStarts, BlockFails, BlockAcked, TransReset, TransStatus,
                TransSend, CloseBlocks, sdVars
  <2>2. TransSeen => InCommand /\ transReq
    BY AtRequest DEF TransSeen
  <2>3. ~TransSeen => task.pc # "idle"
    BY <1>2
    DEF MainLoop, TransBegin, TransOpen, CardStarts, CardEnds, BlockStarts, BlockFails,
        BlockAcked, TransReset, TransStatus, TransSend
  <2>4. live \in {NoCard, hostCard}
    BY <2>2, <2>3 DEF KnownCard, InCommand
  <2> QED BY <1>1, <2>1, <2>4, KnownSame
<1>3. CASE Interrupt
  <2>1. enabled
    BY <1>3, InterruptOn
  <2>2. live' = live /\ task' = task
    BY <1>3 DEF Interrupt, BlockSent, DataSent, CswSent, StallWhenSent, taskVars, sdVars
  <2>3. CASE BlockSent
    <3>1. task.pc # "idle"
      BY <2>1, <2>3, AtJob DEF BlockSent, CanLoad, Moving, InPipeline
    <3> QED BY <1>1, <2>2, <3>1, KnownSame DEF KnownCard
  <2>4. CASE DataSent
    <3>1. InCommand /\ SendsData /\ inEp.job = "data"
      BY <2>1, <2>4, AtJob DEF DataSent, CanLoad
    <3>2. ~CswGoes /\ ~CswInBank
      BY <2>1, <3>1, Sending, IdleFields, Fields DEF SendsData, CswInBank, CswGoes
    <3>3. live \in {NoCard, hostCard}
      BY <3>1, <3>2 DEF KnownCard, Fails, InCommand
    <3> QED BY <1>1, <2>2, <3>3, KnownSame
  <2>5. CASE CswSent
    <3>1. inEp.job = "csw" /\ CswGoes /\ ~CswInBank
      BY <2>1, <2>5, Sending DEF CswSent, CanLoad, CswGoes
    <3>2. sense # "none" => Fails'
      <4> DEFINE p == [kind |-> "csw", tag |-> csw.tag, residue |-> csw.residue,
                       pass |-> sense = "none"]
      <4>1. inEp'.bank = Append(inEp.bank, p) /\ p.kind = "csw" /\ (p.pass <=> sense = "none")
        BY <2>5, LoadedFields DEF CswSent, Typed
      <4> HIDE DEF p
      <4>2. inEp'.bank # <<>> /\ inEp'.bank[Len(inEp'.bank)] = p
        BY <4>1, BankAppend DEF Typed, IsEndpoint
      <4> QED BY <4>1, <4>2 DEF Fails, CswInBank
    <3>3. Fails => Fails'
      BY <3>1, <3>2 DEF Fails
    <3>4. transReq' = transReq
      BY <2>5 DEF CswSent, flagVars
    <3> QED BY <1>1, <2>2, <3>3, <3>4, KnownFails
  <2>6. CASE StallWhenSent
    <3>1. inEp'.bank = inEp.bank /\ inEp'.job = inEp.job /\ sense' = sense /\ transReq' = transReq
      BY <2>6 DEF StallWhenSent, flagVars, Typed, IsEndpoint
    <3> QED BY <1>1, <2>2, <3>1, StatusSame, KnownFails
  <2> QED BY <1>3, <2>3, <2>4, <2>5, <2>6 DEF Interrupt
<1> QED BY <1>2, <1>3 DEF Device

LEMMA KnownQuiet ==
  ASSUME Typed, Transport, KnownCard, Quiet
  PROVE  KnownCard'
<1>1. CASE HostReadsData
  <2>1. Fails' <=> Fails
    BY <1>1, PacketRead, StatusRead DEF taskVars
  <2>2. live' = live /\ task' = task /\ transReq' = transReq
    BY <1>1, PacketRead DEF taskVars, sdVars, flagVars
  <2> QED BY <1>1, <2>1, <2>2, QuietHost, KnownFails
<1>2. CASE HostWritesBlock
  <2>1. enabled /\ outEp.job = "block"
    BY <1>2 DEF HostWritesBlock, BlockReceived, Transport, FlagsAgree
  <2>2. task.pc # "idle"
    BY <2>1, AtJob DEF Moving, InPipeline
  <2>3. live' = live
    BY <1>2 DEF HostWritesBlock, BlockReceived, sdVars
  <2> QED BY <1>2, <2>2, <2>3, QuietHost, KnownSame DEF KnownCard
<1>3. CASE HostDataStalled \/ HostCswStalled
  <2>1. enabled /\ (ClearHaltIn \/ ClearHaltOut)
    BY <1>3 DEF HostDataStalled, HostCswStalled, Transport, FlagsAgree
  <2>2. live' = live /\ task' = task /\ transReq' = transReq /\ sense' = sense
    BY <2>1 DEF ClearHaltIn, ClearHaltOut, taskVars, sdVars, flagVars
  <2>3. Fails' <=> Fails
    <3>1. CASE ClearHaltIn
      BY <2>1, <2>2, <3>1, ClearsIn, StatusSame
    <3>2. CASE ClearHaltOut
      BY <2>2, <3>2, StatusSame DEF ClearHaltOut
    <3> QED BY <2>1, <3>1, <3>2
  <2> QED BY <1>3, <2>2, <2>3, QuietHost, KnownFails
<1> QED BY <1>1, <1>2, <1>3 DEF Quiet

LEMMA KnownCommand ==
  ASSUME Typed, Transport, KnownCard, HostCommand
  PROVE  KnownCard'
<1>1. PICK c \in Commands, t \in Tags :
        CbwReceived(c, t) /\ host'.st = DataStage(c, 0)
  BY CommandSent
<1>2. host.st = "idle" /\ Ready /\ hostCard' = hostCard
  BY DEF HostCommand, Transport
<1>3. live \in {NoCard, hostCard}
  BY <1>2 DEF KnownCard
<1>4. CASE live' = live
  BY <1>2, <1>3, <1>4, KnownSame
<1>5. CASE Finish(c, t, "attention")
  <2>1. inEp = Opened /\ ~transReq /\ task'.pc = "idle"
    BY <1>1, <1>2, IdleFields DEF Ready, CbwReceived, taskVars
  <2>2. Fails' /\ ~transReq'
    BY <1>5, <2>1, FinishGoes DEF Fails, CswGoes
  <2>3. host'.st \in {"data", "csw"}
    BY <1>1 DEF DataStage
  <2> QED BY <2>1, <2>2, <2>3 DEF KnownCard
<1> QED BY <1>1, <1>4, <1>5, CommandLive

LEMMA StepKnownCard ==
  ASSUME Typed, Transport, KnownCard, [Next]_vars
  PROVE  KnownCard'
<1>1. CASE CardMoves \/ UNCHANGED vars
  <2>1. /\ live' \in {NoCard, live} /\ hostCard' = hostCard /\ host' = host /\ task' = task
        /\ sense' = sense /\ inEp' = inEp /\ transReq' = transReq
    BY <1>1
    DEF CardMoves, InsertCard, RemoveCard, vars, mscVars, sdVars, taskVars, flagVars
  <2>2. Fails' <=> Fails
    BY <2>1, StatusSame
  <2> QED BY <2>1, <2>2, KnownFails
<1>2. CASE GivesUp
  <2>1. live' = live /\ task' = task
    BY <1>2 DEF GivesUp, HostCswRefused, HostResets, BulkReset, HostClearsIn, ClearHaltIn,
                HostOff, BusReset, mscVars, taskVars, sdVars
  <2> QED BY <1>2, <2>1, GivesUpHost DEF KnownCard
<1>3. CASE Renews
  <2>1. live' = live
    BY <1>3 DEF Renews, HostClearsOut, ClearHaltOut, HostConfigures, Configure, Unload, sdVars
  <2> QED BY <1>3, <2>1, RenewsHost DEF KnownCard
<1>4. CASE HostTakes
  <2>1. live' = live
    BY <1>4 DEF HostTakes, sdVars
  <2> QED BY <1>4, <2>1, TakesHost, KnownSame DEF KnownCard
<1>5. CASE HostReadsCsw
  <2>1. live' = live
    BY <1>5 DEF HostReadsCsw, sdVars
  <2>2. CASE inEp.bank[1].pass
    <3>1. hostCard' = hostCard
      BY <1>5, <2>2, TakenHost
    <3>2. ~CswGoes
      BY <1>5, StatusTaken, IdleFields DEF CswLoaded, CswGoes
    <3>3. ~Fails
      BY <1>5, <2>2, <3>2, StatusTaken DEF Fails
    <3>4. live \in {NoCard, hostCard}
      BY <1>5, <3>3, StatusTaken DEF KnownCard
    <3> QED BY <2>1, <3>1, <3>4, KnownSame
  <2>3. CASE ~inEp.bank[1].pass
    BY <1>5, <2>1, <2>3, TakenHost DEF KnownCard
  <2> QED BY <2>2, <2>3
<1> QED BY <1>1, <1>2, <1>3, <1>4, <1>5, KnownDevice, KnownQuiet, KnownCommand, NextParts DEF Still

-----------------------------------------------------------------------------
\* The sectors in the two buffers.

IsSectors == sectors \in [{0, 1} -> Data \cup {Junk}]

Kept ==
    /\ Typed /\ Transport /\ SdTypeOK /\ IsSectors /\ IsBank(host.got)
    /\ Commanded /\ Working /\ Buffered /\ Carried /\ Whole /\ KnownCard

LEMMA Buffers ==
  ASSUME NEW k \in Nat
  PROVE  /\ UsbBuffer(k) \in {0, 1} /\ CardBuffer(k) \in {0, 1} /\ UsbBuffer(k) # CardBuffer(k)
         /\ k # 0 => UsbBuffer(k - 1) = CardBuffer(k) /\ CardBuffer(k - 1) = UsbBuffer(k)
<1>1. k # 0 => (k % 2 = 0 <=> (k - 1) % 2 # 0)
  OBVIOUS
<1> QED BY <1>1 DEF UsbBuffer, CardBuffer

LEMMA SectorFacts ==
  ASSUME Typed, Working, task.pc \notin {"idle", "begin"}
  PROVE  /\ task.a \in Nat
         /\ \A i \in 1..task.n : /\ task.a + i - 1 \in Blocks
                                 /\ ~task.read => host.cmd.data[i] \in Data
<1>1. /\ host.cmd \in Commands /\ host.cmd.op \in {"read", "write"}
      /\ task.n = host.cmd.n /\ task.a = host.cmd.a
      /\ ~task.read => host.cmd.op = "write"
  BY WorkFacts
<1> QED BY <1>1, SectorsAssumption

\* The sector that the card has moved.
LEMMA CardBlock ==
  ASSUME Kept, task.pc = "wait", Reachable
  PROVE  /\ card = hostCard /\ hostCard \in Cards
         /\ LET i == IF task.read THEN task.n - task.k + 1 ELSE task.n - task.k
            IN i \in 1..task.n /\ Current = host.cmd.a + i - 1 /\ Current \in Blocks
<1>1. /\ task.n \in Nat /\ task.k \in 0..task.n /\ CardPart(task) /\ task.a = host.cmd.a
      /\ task.read \in BOOLEAN
  BY WorkFacts DEF Kept
<1>2. hostCard \in Cards /\ remaining = Unbegun
  BY DEF Kept, Buffered, InSteps
<1>3. card = hostCard
  BY <1>2, CardsAssumption DEF Kept, KnownCard, Reachable
<1>4. task.a \in Nat /\ \A i \in 1..task.n : task.a + i - 1 \in Blocks
  BY SectorFacts DEF Kept
<1>5. CASE task.read
  <2>1. task.k # 0 /\ remaining = task.k - 1
    BY <1>1, <1>2, <1>5 DEF CardPart, Unbegun
  <2> QED BY <1>1, <1>2, <1>3, <1>4, <1>5, <2>1 DEF Current
<1>6. CASE ~task.read
  <2>1. task.k # task.n /\ remaining = task.k
    BY <1>1, <1>2, <1>6 DEF CardPart, Unbegun
  <2> QED BY <1>1, <1>2, <1>3, <1>4, <1>6, <2>1 DEF Current
<1> QED BY <1>5, <1>6

LEMMA BufferedSame ==
  ASSUME Buffered, task' = task, hostCard' = hostCard, remaining' = remaining,
         sectors' = sectors, media' = media, host'.cmd = host.cmd,
         ackTrans' = ackTrans, abortTrans' = abortTrans
  PROVE  Buffered'
<1>1. Unbegun' = Unbegun /\ InSteps' = InSteps /\ \A i : OnCard(i)' = OnCard(i)
  BY DEF Unbegun, InSteps, OnCard
<1> QED BY <1>1 DEF Buffered, UsbPart, CardPart, UsbBuffer, CardBuffer

LEMMA BufferedEnds ==
  ASSUME task'.pc \notin {"card", "usb", "ack", "wait"}
  PROVE  Buffered'
  BY DEF Buffered, InSteps

\* The facts of a step of the transfer.
LEMMA StepFacts ==
  ASSUME Kept, InSteps
  PROVE  /\ task.n \in Nat /\ task.n > 0 /\ task.k \in 0..task.n /\ task.k \in Nat
         /\ task.read \in BOOLEAN /\ task.a = host.cmd.a /\ IsPlace(task)
         /\ task.pc \notin {"idle", "begin"}
         /\ hostCard \in Cards /\ remaining = Unbegun /\ remaining \in Nat
         /\ sectors \in [{0, 1} -> Data \cup {Junk}]
         /\ UsbBuffer(task.k) \in {0, 1} /\ CardBuffer(task.k) \in {0, 1}
         /\ UsbBuffer(task.k) # CardBuffer(task.k)
<1>1. task.pc \notin {"idle", "begin"}
  BY DEF InSteps
<1>2. /\ task.n \in Nat /\ task.n > 0 /\ task.k \in 0..task.n /\ task.read \in BOOLEAN
      /\ task.a = host.cmd.a
  BY <1>1, WorkFacts DEF Kept
<1>3. hostCard \in Cards /\ remaining = Unbegun
  BY DEF Kept, Buffered
<1>4. /\ UsbBuffer(task.k) \in {0, 1} /\ CardBuffer(task.k) \in {0, 1}
      /\ UsbBuffer(task.k) # CardBuffer(task.k)
  BY <1>2, Buffers
<1> QED BY <1>1, <1>2, <1>3, <1>4 DEF Kept, Typed, IsTask, SdTypeOK, IsSectors

LEMMA BufferedOpens ==
  ASSUME Kept, TransOpen, host' = host, hostCard' = hostCard
  PROVE  Buffered'
<1>1. task.pc = "open" /\ IsPlace(task)
  BY DEF TransOpen, Kept, Typed, IsTask
<1>2. PICK s : OpenBlocks(s, task.n) /\ task' = IF OpenStatus(s) = "good" THEN BeginStep(task)
                                               ELSE Failed(task, OpenStatus(s))
  BY DEF TransOpen
<1>3. CASE OpenStatus(s) # "good"
  BY <1>1, <1>2, <1>3, FailedFields, BufferedEnds
<1>4. CASE OpenStatus(s) = "good"
  <2>1. Reachable
    BY <1>4 DEF OpenStatus
  <2>2. hostCard \in Cards
    <3>1. live \in {NoCard, hostCard} /\ card # NoCard /\ card = live /\ card \in Cards \cup {NoCard}
      BY <1>1, <2>1 DEF Kept, KnownCard, Reachable, SdTypeOK
    <3> QED BY <3>1
  <2>3. /\ task.n \in Nat /\ task.n > 0 /\ task.k = task.n /\ task.read \in BOOLEAN
    BY <1>1, WorkFacts DEF Kept, Working, Counted
  <2>4. /\ SamePart(task, task')
        /\ task'.pc = IF CardPart(task) THEN "card" ELSE "usb"
        /\ remaining' = task.n
    BY <1>1, <1>2, <1>4, BeginFields DEF OpenBlocks
  <2>5. CASE task.read
    <3>1. task'.pc = "card" /\ ~UsbPart(task') /\ task'.read
      BY <2>3, <2>4, <2>5 DEF SamePart, CardPart, UsbPart
    <3>2. remaining' = Unbegun'
      BY <2>3, <2>4, <3>1 DEF Unbegun, SamePart
    <3> QED BY <2>2, <3>1, <3>2 DEF Buffered
  <2>6. CASE ~task.read
    <3>1. task'.pc = "usb" /\ ~CardPart(task') /\ ~task'.read
      BY <2>3, <2>4, <2>6 DEF SamePart, CardPart, UsbPart
    <3>2. remaining' = Unbegun'
      BY <2>3, <2>4, <3>1 DEF Unbegun, SamePart
    <3>3. 1..(task'.n - task'.k - 1) = {}
      BY <2>3, <2>4 DEF SamePart
    <3> QED BY <2>2, <3>1, <3>2, <3>3 DEF Buffered
  <2> QED BY <2>3, <2>5, <2>6
<1> QED BY <1>3, <1>4

LEMMA BufferedStarts ==
  ASSUME Kept, CardStarts, host' = host, hostCard' = hostCard
  PROVE  Buffered'
<1>1. /\ task.pc = "card" /\ InSteps
      /\ task' = IF Reachable THEN EndCard(task) ELSE Failed(task, "fail")
      /\ sectors' = IF Reachable /\ task.read THEN [sectors EXCEPT ![CardBuffer(task.k)] = Junk]
                    ELSE sectors
      /\ remaining' = IF Reachable THEN remaining - 1 ELSE 0
      /\ media' = media
  BY DEF CardStarts, StartBlock, InSteps
<1>2. CASE ~Reachable
  BY <1>1, <1>2, StepFacts, FailedFields, BufferedEnds
<1>3. CASE Reachable
  <2>1. CardPart(task)
    BY <1>1 DEF Kept, Working
  <2>2. SamePart(task, task') /\ task'.pc = IF UsbPart(task) THEN "usb" ELSE "wait"
    BY <1>1, <1>3, StepFacts, CardFields
  <2>3. /\ CardPart(task') <=> CardPart(task)
        /\ UsbPart(task') <=> UsbPart(task)
        /\ UsbBuffer(task'.k) = UsbBuffer(task.k) /\ CardBuffer(task'.k) = CardBuffer(task.k)
    BY <2>2 DEF SamePart, CardPart, UsbPart
  <2>4. \A i : OnCard(i)' = OnCard(i)
    BY <1>1 DEF OnCard
  <2>5. remaining' = Unbegun'
    <3>1. remaining = Unbegun /\ remaining' = remaining - 1 /\ task.k \in Nat
      BY <1>1, <1>3, StepFacts
    <3>2. /\ task'.read = task.read /\ task'.k = task.k /\ task'.pc # "card"
          /\ task.read => task.k # 0
      BY <2>1, <2>2 DEF SamePart, CardPart
    <3>3. Unbegun = IF task.read THEN task.k ELSE task.k + 1
      BY <1>1, <3>1, <3>2 DEF Unbegun
    <3>4. Unbegun' = IF task.read THEN task.k - 1 ELSE task.k
      BY <3>1, <3>2 DEF Unbegun
    <3> QED BY <3>1, <3>3, <3>4
  <2>6. sectors'[UsbBuffer(task.k)] = sectors[UsbBuffer(task.k)]
        /\ (~task.read => sectors' = sectors)
    BY <1>1, StepFacts
  <2>7. ~(UsbPart(task') /\ task'.pc \in {"ack", "wait"})
    BY <2>2, <2>3
  <2>8. hostCard \in Cards
    BY <1>1, StepFacts
  <2>9. CASE task.read
    <3>1. UsbPart(task) => sectors[UsbBuffer(task.k)] = OnCard(task.n - task.k)
      BY <1>1, <2>9 DEF Kept, Buffered
    <3>2. task'.read /\ task'.n = task.n /\ task'.k = task.k
      BY <2>2, <2>9 DEF SamePart
    <3>3. UsbPart(task)' => sectors'[UsbBuffer(task.k)'] = OnCard(task.n - task.k)'
      BY <2>3, <2>4, <2>6, <3>1, <3>2
    <3> QED BY <2>5, <2>8, <3>2, <3>3 DEF Buffered
  <2>10. CASE ~task.read
    <3>1. /\ \A i \in 1..(task.n - task.k - 1) : OnCard(i) = host.cmd.data[i]
          /\ CardPart(task) => sectors[CardBuffer(task.k)] = host.cmd.data[task.n - task.k]
      BY <1>1, <2>10 DEF Kept, Buffered
    <3>2. ~task'.read /\ task'.n = task.n /\ task'.k = task.k
      BY <2>2, <2>10 DEF SamePart
    <3>3. /\ \A i \in 1..(task'.n - task'.k - 1) : OnCard(i)' = host'.cmd.data[i]
          /\ CardPart(task') => sectors'[CardBuffer(task'.k)] = host'.cmd.data[task'.n - task'.k]
      BY <2>3, <2>4, <2>6, <2>10, <3>1, <3>2
    <3> QED BY <2>5, <2>7, <2>8, <3>2, <3>3 DEF Buffered
  <2> QED BY <2>9, <2>10
<1> QED BY <1>2, <1>3

LEMMA BufferedBlock ==
  ASSUME Kept, BlockStarts, host' = host, hostCard' = hostCard
  PROVE  Buffered'
<1>1. /\ task.pc = "usb" /\ InSteps /\ task' = [task EXCEPT !.pc = "ack"]
      /\ sectors' = IF task.read THEN sectors
                    ELSE [sectors EXCEPT ![UsbBuffer(task.k)] = Junk]
      /\ ~ackTrans' /\ remaining' = remaining /\ media' = media
  BY DEF BlockStarts, InSteps, sdVars
<1>2. SamePart(task, task') /\ task'.pc = "ack"
  BY <1>1, StepFacts DEF SamePart, IsPlace
<1>3. /\ CardPart(task') <=> CardPart(task)
      /\ UsbPart(task') <=> UsbPart(task)
      /\ UsbBuffer(task'.k) = UsbBuffer(task.k) /\ CardBuffer(task'.k) = CardBuffer(task.k)
      /\ task'.read = task.read /\ task'.n = task.n /\ task'.k = task.k
  BY <1>2 DEF SamePart, CardPart, UsbPart
<1>4. \A i : OnCard(i)' = OnCard(i)
  BY <1>1 DEF OnCard
<1>5. hostCard \in Cards /\ remaining' = Unbegun'
  <2>1. Unbegun' = Unbegun
    BY <1>1, <1>2, <1>3 DEF Unbegun
  <2> QED BY <1>1, <2>1, StepFacts
<1>6. CASE task.read
  <2>1. UsbPart(task) => sectors[UsbBuffer(task.k)] = OnCard(task.n - task.k)
    BY <1>1, <1>6 DEF Kept, Buffered
  <2>2. UsbPart(task') => sectors'[UsbBuffer(task'.k)] = OnCard(task.n - task.k)'
    BY <1>1, <1>3, <1>4, <1>6, <2>1
  <2> QED BY <1>3, <1>5, <1>6, <2>2 DEF Buffered
<1>7. CASE ~task.read
  <2>1. /\ \A i \in 1..(task.n - task.k - 1) : OnCard(i) = host.cmd.data[i]
        /\ CardPart(task) => sectors[CardBuffer(task.k)] = host.cmd.data[task.n - task.k]
    BY <1>1, <1>7 DEF Kept, Buffered
  <2>2. sectors'[CardBuffer(task.k)] = sectors[CardBuffer(task.k)]
    BY <1>1, <1>7, StepFacts
  <2>3. /\ \A i \in 1..(task'.n - task'.k - 1) : OnCard(i)' = host'.cmd.data[i]
        /\ CardPart(task') => sectors'[CardBuffer(task'.k)] = host'.cmd.data[task'.n - task'.k]
    BY <1>3, <1>4, <2>1, <2>2
  <2> QED BY <1>1, <1>3, <1>5, <1>7, <2>3 DEF Buffered
<1> QED BY <1>6, <1>7

LEMMA BufferedAcked ==
  ASSUME Kept, BlockAcked, host' = host, hostCard' = hostCard
  PROVE  Buffered'
<1>1. /\ task.pc = "ack" /\ InSteps /\ task' = EndUsb(task) /\ ackTrans /\ ~abortTrans
      /\ UNCHANGED <<sectors, remaining, media, ackTrans, abortTrans>>
  BY DEF BlockAcked, InSteps, sdVars, flagVars
<1>2. /\ UsbPart(task) /\ IsPlace(task) /\ task.n \in Nat /\ task.k \in 0..task.n
      /\ task.read \in BOOLEAN /\ hostCard \in Cards /\ remaining = Unbegun
  BY <1>1, StepFacts DEF Kept, Working
<1>3. \A i : OnCard(i)' = OnCard(i)
  BY <1>1 DEF OnCard
<1>4. ~task.read =>
        /\ \A i \in 1..(task.n - task.k - 1) : OnCard(i) = host.cmd.data[i]
        /\ CardPart(task) => sectors[CardBuffer(task.k)] = host.cmd.data[task.n - task.k]
        /\ sectors[UsbBuffer(task.k)] = host.cmd.data[task.n - task.k + 1]
  BY <1>1, <1>2 DEF Kept, Buffered
<1>5. CASE CardPart(task)
  <2>1. SamePart(task, task') /\ task'.pc = "wait"
    BY <1>1, <1>2, <1>5, UsbFields
  <2>2. /\ CardPart(task') <=> CardPart(task)
        /\ UsbPart(task') <=> UsbPart(task)
        /\ UsbBuffer(task'.k) = UsbBuffer(task.k) /\ CardBuffer(task'.k) = CardBuffer(task.k)
        /\ task'.read = task.read /\ task'.n = task.n /\ task'.k = task.k
    BY <2>1 DEF SamePart, CardPart, UsbPart
  <2>3. remaining' = Unbegun'
    BY <1>1, <1>2, <2>1, <2>2 DEF Unbegun
  <2>4. CASE task.read
    <3>1. sectors[UsbBuffer(task.k)] = OnCard(task.n - task.k)
      BY <1>1, <1>2, <2>4 DEF Kept, Buffered
    <3>2. sectors'[UsbBuffer(task'.k)] = OnCard(task.n - task.k)'
      BY <1>1, <1>3, <2>2, <3>1
    <3> QED BY <1>2, <2>2, <2>3, <2>4, <3>2 DEF Buffered
  <2>5. CASE ~task.read
    <3>1. /\ \A i \in 1..(task'.n - task'.k - 1) : OnCard(i)' = host'.cmd.data[i]
          /\ CardPart(task') => sectors'[CardBuffer(task'.k)] = host'.cmd.data[task'.n - task'.k]
          /\ sectors'[UsbBuffer(task'.k)] = host'.cmd.data[task'.n - task'.k + 1]
      BY <1>1, <1>3, <1>4, <2>2, <2>5
    <3> QED BY <1>2, <2>2, <2>3, <2>5, <3>1 DEF Buffered
  <2> QED BY <2>4, <2>5
<1>6. CASE ~CardPart(task)
  <2>1. task' = EndStep(task)
    BY <1>1, <1>2, <1>6, UsbFields
  <2>2. CASE task.k = 0
    BY <1>2, <2>1, <2>2, EndFields, BufferedEnds
  <2>3. CASE task.k # 0
    <3>1. ~task.read /\ task.k = task.n
      BY <1>2, <1>6, <2>3 DEF CardPart
    <3>2. /\ task'.n = task.n /\ task'.k = task.n - 1 /\ ~task'.read
          /\ task'.pc = IF CardPart(task') THEN "card" ELSE "usb"
      BY <1>2, <2>1, <2>3, <3>1, EndFields
    <3>3. CardPart(task') /\ task'.pc = "card"
      BY <1>2, <3>1, <3>2 DEF CardPart
    <3>4. remaining = task.k
      BY <1>1, <1>2, <3>1 DEF Unbegun
    <3>5. remaining' = Unbegun'
      BY <1>1, <1>2, <3>1, <3>2, <3>3, <3>4 DEF Unbegun
    <3>6. CardBuffer(task'.k) = UsbBuffer(task.k)
      BY <1>2, <2>3, <3>1, <3>2, Buffers
    <3>7. sectors'[CardBuffer(task'.k)] = host'.cmd.data[task'.n - task'.k]
      <4>1. task.n - task.k + 1 = 1 /\ task'.n - task'.k = 1
        BY <1>2, <3>1, <3>2
      <4> QED BY <1>1, <1>4, <3>1, <3>6, <4>1
    <3>8. 1..(task'.n - task'.k - 1) = {}
      BY <1>2, <3>2
    <3> QED BY <1>2, <3>2, <3>3, <3>5, <3>7, <3>8 DEF Buffered
  <2> QED BY <2>2, <2>3
<1> QED BY <1>5, <1>6

\* The main loop has the acknowledge of every block but the one it waits for.
LEMMA Acked ==
  ASSUME Transport, Commanded, task.pc # "ack" PROVE ackTrans
  BY DEF Transport, FlagsAgree, Commanded

\* What the card has stored.
LEMMA Stored ==
  ASSUME Kept, CardEnds, Reachable, ~task.read, hostCard' = hostCard, host'.cmd = host.cmd
  PROVE  LET j == task.n - task.k IN
         /\ j \in 1..task.n
         /\ \A i \in 1..task.n : OnCard(i)' = IF i = j THEN host.cmd.data[j] ELSE OnCard(i)
         /\ media' = [media EXCEPT ![hostCard][host.cmd.a + j - 1] = host.cmd.data[j]]
<1>1. /\ task.pc = "wait" /\ InSteps
      /\ media' = [media EXCEPT ![card][Current] = sectors[CardBuffer(task.k)]]
  BY DEF CardEnds, InSteps
<1>2. PICK j : j = task.n - task.k
  OBVIOUS
<1>3. /\ card = hostCard /\ hostCard \in Cards /\ j \in 1..task.n
      /\ Current = host.cmd.a + j - 1 /\ Current \in Blocks
  BY <1>1, <1>2, CardBlock
<1>4. CardPart(task)
  BY <1>1 DEF Kept, Working
<1>5. sectors[CardBuffer(task.k)] = host.cmd.data[j]
  BY <1>1, <1>2, <1>4 DEF Kept, Buffered
<1>6. media \in [Cards -> [Blocks -> Data]]
  BY DEF Kept, SdTypeOK
<1>7. media' = [media EXCEPT ![hostCard][host.cmd.a + j - 1] = host.cmd.data[j]]
  BY <1>1, <1>3, <1>5
<1>8. task.a \in Nat /\ task.a = host.cmd.a /\ \A i \in 1..task.n : task.a + i - 1 \in Blocks
  BY <1>1, StepFacts, SectorFacts DEF Kept
<1>9. \A i \in 1..task.n : OnCard(i)' = IF i = j THEN host.cmd.data[j] ELSE OnCard(i)
  <2> TAKE i \in 1..task.n
  <2>1. i \in Int /\ j \in Int /\ host.cmd.a \in Nat /\ host.cmd.a + i - 1 \in Blocks
    BY <1>3, <1>8, StepFacts, <1>1
  <2>2. host.cmd.a + i - 1 = host.cmd.a + j - 1 <=> i = j
    BY <2>1
  <2> QED BY <1>3, <1>6, <1>7, <2>1, <2>2 DEF OnCard
<1> QED BY <1>2, <1>3, <1>7, <1>9

LEMMA BufferedCard ==
  ASSUME Kept, CardEnds, host' = host, hostCard' = hostCard
  PROVE  Buffered'
<1>1. /\ task.pc = "wait" /\ InSteps
      /\ task' = IF Reachable THEN EndStep(task) ELSE Failed(task, "fail")
      /\ remaining' = remaining
  BY DEF CardEnds, InSteps, WaitEnd
<1>2. CASE ~Reachable
  BY <1>1, <1>2, StepFacts, FailedFields, BufferedEnds
<1>3. CASE Reachable /\ task.k = 0
  BY <1>1, <1>3, StepFacts, EndFields, BufferedEnds
<1>4. CASE Reachable /\ task.k # 0
  <2>1. /\ CardPart(task) /\ task.n \in Nat /\ task.k \in 1..task.n /\ task.read \in BOOLEAN
        /\ remaining = Unbegun /\ hostCard \in Cards
    BY <1>1, <1>4, StepFacts DEF Kept, Working
  <2>2. /\ task'.n = task.n /\ task'.k = task.k - 1 /\ task'.read = task.read
        /\ task'.pc = IF CardPart(task') THEN "card" ELSE "usb"
    BY <1>1, <1>4, StepFacts, EndFields
  <2>3. UsbBuffer(task'.k) = CardBuffer(task.k) /\ CardBuffer(task'.k) = UsbBuffer(task.k)
    BY <2>1, <2>2, Buffers
  <2>4. CASE task.read
    <3>1. /\ sectors' = [sectors EXCEPT ![CardBuffer(task.k)] = media[card][Current]]
          /\ media' = media
      BY <1>4, <2>4 DEF CardEnds
    <3>2. PICK j : j = task.n - task.k + 1
      OBVIOUS
    <3>3. card = hostCard /\ Current = host.cmd.a + j - 1
      BY <1>1, <1>4, <2>4, <3>2, CardBlock
    <3>4. sectors'[UsbBuffer(task'.k)] = OnCard(j)
      BY <1>1, <2>3, <3>1, <3>3, StepFacts DEF OnCard
    <3>5. OnCard(task.n - task.k)' = OnCard(j)
      <4>1. task'.n - task'.k = j
        BY <2>1, <2>2, <3>2
      <4> QED BY <3>1, <4>1 DEF OnCard
    <3>6. Unbegun' = remaining'
      <4>1. task.k # 0 /\ Unbegun = task.k - 1
        BY <1>1, <2>1, <2>4 DEF Unbegun
      <4>2. task'.read /\ (task'.pc = "card" <=> task'.k # 0)
        BY <2>2, <2>4 DEF CardPart
      <4>3. Unbegun' = task'.k
        BY <2>1, <2>2, <4>2 DEF Unbegun
      <4> QED BY <1>1, <2>1, <2>2, <4>1, <4>3
    <3> QED BY <2>1, <2>2, <2>4, <3>4, <3>5, <3>6 DEF Buffered
  <2>5. CASE ~task.read
    <3>1. sectors' = sectors
      BY <1>4, <2>5 DEF CardEnds
    <3>2. PICK j : j = task.n - task.k
      OBVIOUS
    <3>3. j \in 1..task.n /\ \A i \in 1..task.n : OnCard(i)' = IF i = j THEN host.cmd.data[j] ELSE OnCard(i)
      BY <1>4, <2>5, <3>2, Stored
    <3>4. /\ \A i \in 1..(task.n - task.k - 1) : OnCard(i) = host.cmd.data[i]
          /\ sectors[UsbBuffer(task.k)] = host.cmd.data[task.n - task.k + 1]
      <4>1. UsbPart(task) /\ ackTrans
        BY <1>1, <2>1, <2>5, Acked DEF UsbPart, Kept
      <4> QED BY <1>1, <2>5, <4>1 DEF Kept, Buffered
    <3>5. task'.n - task'.k - 1 = j /\ task'.n - task'.k = j + 1 /\ task.n - task.k + 1 = j + 1
      BY <2>1, <2>2, <3>2
    <3>6. \A i \in 1..j : OnCard(i)' = host'.cmd.data[i]
      BY <2>1, <3>2, <3>3, <3>4
    <3>7. sectors'[CardBuffer(task'.k)] = host'.cmd.data[task'.n - task'.k]
      BY <2>3, <3>1, <3>4, <3>5
    <3>8. CardPart(task') /\ task'.pc = "card"
      BY <2>1, <2>2, <2>5 DEF CardPart
    <3>9. Unbegun' = remaining'
      <4>1. Unbegun = task.k
        BY <1>1, <2>1, <2>5 DEF Unbegun
      <4>2. ~task'.read /\ task'.k + 1 - 0 = task.k
        BY <2>1, <2>2, <2>5
      <4>3. Unbegun' = task'.k + 1 - 0
        BY <3>8, <4>2 DEF Unbegun
      <4> QED BY <1>1, <2>1, <4>1, <4>2, <4>3
    <3> QED BY <2>1, <2>2, <2>5, <3>5, <3>6, <3>7, <3>8, <3>9 DEF Buffered
  <2> QED BY <2>1, <2>4, <2>5
<1> QED BY <1>2, <1>3, <1>4

\* A sector that the host has sent.
LEMMA WrittenBlock ==
  ASSUME Typed, Transport, Working, HostWritesBlock
  PROVE  /\ enabled /\ InCommand /\ ~host.cmd.in /\ host.cmd.op = "write"
         /\ task.pc = "ack" /\ ~ackTrans /\ UsbPart(task) /\ ~task.read
         /\ LET i == task.n - task.k + 1 IN
            /\ i \in 1..task.n
            /\ sectors' = [sectors EXCEPT ![UsbBuffer(task.k)] = host.cmd.data[i]]
         /\ UNCHANGED <<csw, cbw, sense, transReq, inEp, task, sdVars>>
<1>1. /\ enabled /\ outEp.job = "block"
      /\ sectors' = [sectors EXCEPT ![UsbBuffer(task.k)] = host.cmd.data[host.moved \div 2 + 1]]
      /\ UNCHANGED <<csw, cbw, sense, transReq, inEp, task, sdVars>>
  BY DEF HostWritesBlock, BlockReceived, Transport, FlagsAgree
<1>2. InCommand /\ Moving /\ ~host.cmd.in
  BY <1>1, AtJob
<1>3. Moves(outEp, inEp) /\ outEp.bank = <<>> /\ ~ackTrans /\ task.pc = "ack"
  BY <1>1, <1>2 DEF Moving, Moves, Transport, FlagsAgree
<1>4. /\ task.n \in Nat /\ task.k \in 0..task.n /\ UsbPart(task) /\ task.read = host.cmd.in
      /\ csw.residue \in Int /\ host.cmd.len \in Nat
      /\ host.cmd.in <=> host.cmd.op = "read"
      /\ host.cmd.op \in {"read", "write"}
  BY <1>3, WorkFacts
<1>5. task.k # 0
  BY <1>2, <1>4 DEF UsbPart
<1>6. host.cmd.len - csw.residue = 2 * (task.n - task.k)
  BY <1>2, <1>3, <1>4 DEF Working, Counted
<1>7. host.moved = 2 * (task.n - task.k)
  <2>1. host.moved + 2 * 0 = host.cmd.len - csw.residue + 0
    BY <1>3, EmptyBank DEF Moves
  <2>2. host.moved \in Nat
    BY DEF Typed, IsHost
  <2> QED BY <1>4, <1>6, <2>1, <2>2
<1>8. host.moved \div 2 + 1 = task.n - task.k + 1
  BY <1>4, <1>7
<1>9. task.n - task.k + 1 \in 1..task.n /\ host.cmd.op = "write" /\ ~task.read
  BY <1>2, <1>4, <1>5
<1>10. sectors' = [sectors EXCEPT ![UsbBuffer(task.k)] = host.cmd.data[task.n - task.k + 1]]
  BY <1>1, <1>8
<1> QED BY <1>1, <1>2, <1>3, <1>4, <1>9, <1>10

LEMMA BufferedWritten ==
  ASSUME Kept, HostWritesBlock
  PROVE  Buffered'
<1>1. /\ task.pc = "ack" /\ InSteps /\ UsbPart(task) /\ ~task.read /\ task' = task
      /\ sectors' = [sectors EXCEPT ![UsbBuffer(task.k)] = host.cmd.data[task.n - task.k + 1]]
      /\ media' = media /\ remaining' = remaining
      /\ host'.cmd = host.cmd /\ hostCard' = hostCard
  BY WrittenBlock, QuietHost DEF Kept, InSteps, sdVars, Quiet
<1>2. /\ hostCard \in Cards /\ remaining = Unbegun
      /\ \A i \in 1..(task.n - task.k - 1) : OnCard(i) = host.cmd.data[i]
      /\ CardPart(task) => sectors[CardBuffer(task.k)] = host.cmd.data[task.n - task.k]
  BY <1>1 DEF Kept, Buffered
<1>3. /\ sectors'[CardBuffer(task.k)] = sectors[CardBuffer(task.k)]
      /\ sectors'[UsbBuffer(task.k)] = host.cmd.data[task.n - task.k + 1]
  BY <1>1, StepFacts
<1>4. /\ \A i : OnCard(i)' = OnCard(i)
      /\ Unbegun' = Unbegun
      /\ CardPart(task)' <=> CardPart(task)
      /\ UsbBuffer(task.k)' = UsbBuffer(task.k) /\ CardBuffer(task.k)' = CardBuffer(task.k)
  BY <1>1 DEF OnCard, Unbegun, CardPart, UsbBuffer, CardBuffer
<1> QED BY <1>1, <1>2, <1>3, <1>4 DEF Buffered

\* What a reset of the bus aborts is not taken for acknowledged.
LEMMA BufferedOff ==
  ASSUME Kept, HostOff
  PROVE  Buffered'
<1>1. /\ enabled /\ host'.cmd = host.cmd /\ hostCard' = hostCard /\ task' = task
      /\ abortTrans' = (abortTrans \/ "block" \in {inEp.job, outEp.job})
      /\ UNCHANGED <<sectors, remaining, media>>
  BY GivesUpHost DEF Kept, HostOff, GivesUp, BusReset, sdVars, taskVars
<1>2. CASE ~InSteps
  BY <1>1, <1>2, BufferedEnds DEF InSteps
<1>3. CASE InSteps
  <2>1. InCommand /\ Moving
    BY <1>1, <1>3, AtMove DEF Kept, InSteps
  <2>2. /\ \A i : OnCard(i)' = OnCard(i)
        /\ Unbegun' = Unbegun
        /\ (CardPart(task)' <=> CardPart(task)) /\ (UsbPart(task)' <=> UsbPart(task))
        /\ UsbBuffer(task.k)' = UsbBuffer(task.k) /\ CardBuffer(task.k)' = CardBuffer(task.k)
    BY <1>1 DEF OnCard, Unbegun, CardPart, UsbPart, UsbBuffer, CardBuffer
  <2>3. /\ hostCard \in Cards /\ remaining = Unbegun
        /\ task.read /\ UsbPart(task) => sectors[UsbBuffer(task.k)] = OnCard(task.n - task.k)
        /\ ~task.read =>
             /\ \A i \in 1..(task.n - task.k - 1) : OnCard(i) = host.cmd.data[i]
             /\ CardPart(task) => sectors[CardBuffer(task.k)] = host.cmd.data[task.n - task.k]
    BY <1>3 DEF Kept, Buffered
  <2>4. ASSUME ~task.read, UsbPart(task), task.pc \in {"ack", "wait"},
               task.pc = "ack" => ~abortTrans'
        PROVE  sectors[UsbBuffer(task.k)] = host.cmd.data[task.n - task.k + 1]
    <3>1. ackTrans /\ (task.pc = "ack" => ~abortTrans)
      <4>1. CASE task.pc = "wait"
        BY <4>1, Acked DEF Kept
      <4>2. CASE task.pc = "ack"
        <5>1. ~abortTrans /\ outEp.job # "block"
          BY <1>1, <2>4, <4>2
        <5>2. ~host.cmd.in
          BY <1>3, <2>4, <4>2, WorkFacts DEF Kept
        <5> QED BY <2>1, <5>1, <5>2 DEF Moving, Moves
      <4> QED BY <2>4, <4>1, <4>2
    <3> QED BY <1>3, <2>4, <3>1 DEF Kept, Buffered
  <2> QED BY <1>1, <2>2, <2>3, <2>4 DEF Buffered
<1> QED BY <1>2, <1>3

LEMMA StepBuffered ==
  ASSUME Kept, [Next]_vars
  PROVE  Buffered'
<1>1. CASE MainLoop /\ host' = host /\ hostCard' = hostCard
  <2>1. CASE TransSeen \/ TransBegin \/ TransStatus \/ TransReset \/ TransSend \/ BlockFails
    <3>1. IsPlace(task)
      BY DEF Kept, Typed, IsTask
    <3>2. task'.pc \in {"begin", "open", "send", "idle", "done"}
      <4>1. CASE TransSeen \/ TransBegin \/ TransStatus
        BY <3>1, <4>1 DEF TransSeen, TransBegin, TransStatus, IsPlace
      <4>2. CASE TransReset \/ TransSend \/ BlockFails
        BY <3>1, <4>2, IdleFields, FailedFields DEF TransReset, TransSend, BlockFails
      <4> QED BY <2>1, <4>1, <4>2
    <3> QED BY <3>2, BufferedEnds
  <2> QED BY <1>1, <2>1, BufferedOpens, BufferedStarts, BufferedCard, BufferedBlock,
             BufferedAcked DEF MainLoop
<1>2. CASE Interrupt /\ host' = host /\ hostCard' = hostCard
  <2>1. enabled
    BY <1>2, InterruptOn DEF Kept
  <2>2. task' = task
    BY <1>2 DEF Interrupt, BlockSent, DataSent, CswSent, StallWhenSent, taskVars
  <2>3. CASE BlockSent
    <3>1. InCommand /\ Moving /\ host.cmd.in
      BY <2>1, <2>3, AtJob DEF BlockSent, CanLoad, Kept
    <3>2. task.read
      BY <3>1 DEF Moving, InPipeline
    <3>3. UNCHANGED <<sectors, remaining, media>>
      BY <2>3 DEF BlockSent, taskVars, sdVars
    <3>4. Unbegun' = Unbegun /\ InSteps' = InSteps /\ \A i : OnCard(i)' = OnCard(i)
      BY <1>2, <2>2, <3>3 DEF Unbegun, InSteps, OnCard
    <3>5. (UsbPart(task)' <=> UsbPart(task)) /\ UsbBuffer(task.k)' = UsbBuffer(task.k)
      BY <2>2 DEF UsbPart, UsbBuffer
    <3> QED BY <1>2, <2>2, <3>2, <3>3, <3>4, <3>5 DEF Kept, Buffered
  <2>4. CASE DataSent \/ CswSent
    <3>1. task = Idle
      BY <2>1, <2>4, AtJob DEF DataSent, CswSent, CanLoad, SendsData, SendsCsw, Kept
    <3> QED BY <2>2, <3>1, IdleFields, BufferedEnds
  <2>5. CASE StallWhenSent
    BY <1>2, <2>5, BufferedSame DEF StallWhenSent, taskVars, sdVars, flagVars, Kept
  <2> QED BY <1>2, <2>3, <2>4, <2>5 DEF Interrupt
<1>3. CASE CardMoves \/ UNCHANGED vars
  BY <1>3, BufferedSame
  DEF CardMoves, InsertCard, RemoveCard, vars, mscVars, taskVars, sdVars, flagVars, Kept
<1>4. CASE HostReadsData \/ HostDataStalled \/ HostCswStalled
  <2>1. UNCHANGED <<task, sectors, remaining, media, ackTrans, abortTrans>>
    BY <1>4 DEF HostReadsData, HostDataStalled, HostCswStalled, ClearHaltIn, ClearHaltOut,
                taskVars, sdVars, flagVars
  <2> QED BY <1>4, <2>1, QuietHost, BufferedSame DEF Quiet, Kept
<1>5. CASE HostCswRefused \/ HostClearsIn
  <2>1. UNCHANGED <<task, sectors, remaining, media, ackTrans, abortTrans>>
    BY <1>5 DEF HostCswRefused, HostClearsIn, ClearHaltIn, mscVars, taskVars, sdVars, flagVars
  <2> QED BY <1>5, <2>1, GivesUpHost, BufferedSame DEF GivesUp, Kept
<1>6. CASE HostResets \/ Renews \/ HostTakes \/ HostCommand \/ HostReadsCsw
  <2>1. task' = task
    BY <1>6 DEF HostResets, BulkReset, Renews, HostClearsOut, ClearHaltOut, HostConfigures,
                Configure, HostTakes, HostCommand, CbwReceived, HostReadsCsw, mscVars, taskVars
  <2>2. HostReadsCsw => task = Idle
    BY StatusTaken DEF CswLoaded, Kept
  <2>3. task.pc = "idle"
    BY <1>6, <2>2, AtIdle, IdleFields
    DEF HostResets, Renews, HostClearsOut, HostConfigures, HostTakes, HostCommand, Kept
  <2> QED BY <2>1, <2>3, BufferedEnds
<1> QED BY <1>1, <1>2, <1>3, <1>4, <1>5, <1>6, NextParts, BufferedWritten, BufferedOff
        DEF Still, Device, Quiet, GivesUp

-----------------------------------------------------------------------------
\* What the host has read, and what is in the banks for it.

LEMMA GotRead ==
  ASSUME IsHost, HostReadsData
  PROVE  LET p == Head(inEp.bank) IN
         host'.got = IF p.kind = "block" THEN Append(host.got, p.v) ELSE host.got
<1> DEFINE p == Head(inEp.bank)
           moved == host.moved + (IF p.kind = "block" THEN 2 ELSE 1)
           got == IF p.kind = "block" THEN Append(host.got, p.v) ELSE host.got
           st == IF p.kind = "block" THEN DataStage(host.cmd, moved) ELSE "csw"
<1>1. host' = [host EXCEPT !.moved = moved, !.got = got, !.st = st]
  BY DEF HostReadsData
<1> HIDE DEF moved, got, st
<1>2. host'.got = got
  BY <1>1 DEF IsHost
<1> QED BY <1>2 DEF got

LEMMA StepGot ==
  ASSUME Typed, Transport, Commanded, IsBank(host.got), [Next]_vars
  PROVE  IsBank(host'.got)
<1>1. CASE Still \/ GivesUp \/ HostTakes
  BY <1>1, StillHost, GivesUpHost, TakesHost
<1>2. CASE HostReadsData
  BY <1>2, GotRead, BankAppend DEF Typed
<1>3. CASE HostWritesBlock \/ HostDataStalled \/ HostCswStalled
  BY <1>3 DEF HostWritesBlock, HostDataStalled, HostCswStalled, Goto, Typed, IsHost
<1>4. CASE Renews \/ HostCommand \/ HostReadsCsw
  BY <1>4, RenewsHost, CommandHost, TakenHost, EmptyBank
<1> QED BY <1>1, <1>2, <1>3, <1>4, NextParts DEF Quiet

LEMMA CarriedSame ==
  ASSUME Carried, host'.st \in {"data", "csw"} => host.st \in {"data", "csw"},
         host'.cmd = host.cmd, host'.moved = host.moved, host'.got = host.got,
         host.cmd.op = "read" => inEp'.bank = inEp.bank /\ media' = media,
         hostCard' = hostCard
  PROVE  Carried'
<1>1. host.cmd.op = "read" => \A i : OnCard(i)' = OnCard(i)
  BY DEF OnCard
<1> QED BY <1>1 DEF Carried

\* A packet without a sector behind those that are there.
LEMMA CarriedMore ==
  ASSUME Kept, host' = host, hostCard' = hostCard, media' = media,
         NEW p, p.kind # "block", inEp'.bank = Append(inEp.bank, p)
  PROVE  Carried'
<1> DEFINE n == Len(inEp.bank)
<1>1. /\ n \in Nat /\ Len(inEp'.bank) = n + 1 /\ inEp'.bank[n + 1] = p
      /\ \A i \in 1..n : inEp'.bank[i] = inEp.bank[i]
  BY BankAppend, BankLen DEF Kept, Typed, IsEndpoint
<1>2. \A i : OnCard(i)' = OnCard(i)
  BY DEF OnCard
<1> QED BY <1>1, <1>2 DEF Kept, Carried

LEMMA CarriedSent ==
  ASSUME Kept, BlockSent, host' = host, hostCard' = hostCard
  PROVE  Carried'
<1> DEFINE n == Len(inEp.bank)
<1>1. enabled /\ inEp.job = "block"
  BY InterruptOn DEF Interrupt, BlockSent, CanLoad, Kept
<1>2. InCommand /\ Moving /\ host.cmd.in
  BY <1>1, AtJob DEF Kept
<1>3. Moves(inEp, outEp) /\ ~ackTrans /\ task.pc = "ack" /\ InSteps
  BY <1>1, <1>2 DEF Moving, Moves, Kept, Transport, FlagsAgree, InSteps
<1>4. PICK p : p = [kind |-> "block", v |-> sectors[UsbBuffer(task.k)]]
  OBVIOUS
<1>5. /\ inEp'.bank = Append(inEp.bank, p) /\ p.kind = "block" /\ media' = media
      /\ p.v = sectors[UsbBuffer(task.k)]
  BY <1>4, LoadedFields DEF BlockSent, Kept, Typed, sdVars
<1>6. /\ n \in Nat /\ Len(inEp'.bank) = n + 1 /\ inEp'.bank[n + 1] = p
      /\ \A i \in 1..n : inEp'.bank[i] = inEp.bank[i]
  BY <1>5, BankAppend, BankLen DEF Kept, Typed, IsEndpoint
<1>7. /\ task.n \in Nat /\ task.k \in 0..task.n /\ UsbPart(task) /\ task.read
      /\ csw.residue \in Int /\ host.cmd.len \in Nat
  BY <1>2, <1>3, WorkFacts DEF Kept
<1>8. p.v = OnCard(task.n - task.k)
  BY <1>3, <1>5, <1>7 DEF Kept, Buffered
<1>9. host.cmd.len - csw.residue = 2 * (task.n - 1 - task.k)
  BY <1>3, <1>7 DEF Kept, Working, Counted, UsbPart
<1>10. host.moved + 2 * n = host.cmd.len - csw.residue + 0
  BY <1>3 DEF Moves
<1>11. \A i : OnCard(i)' = OnCard(i)
  BY <1>5 DEF OnCard
<1>12. ASSUME host.st \in {"data", "csw"}, host.cmd.op = "read"
       PROVE  Len(host.got) + (n + 1) = task.n - task.k
  <2> DEFINE g == Len(host.got)
  <2>1. host.moved = 2 * g /\ g \in Nat
    BY <1>12, BankLen DEF Kept, Carried
  <2> HIDE DEF n, g
  <2>2. g + (n + 1) = task.n - task.k
    <3>1. n \in Nat
      BY <1>6
    <3> QED BY <1>7, <1>9, <1>10, <2>1, <3>1
  <2> QED BY <2>2 DEF g
<1>13. ASSUME host.st \in {"data", "csw"}, host.cmd.op = "read", NEW i \in 1..(n + 1),
              inEp'.bank[i].kind = "block"
       PROVE  inEp'.bank[i].v = OnCard(Len(host.got) + i)
  <2>1. CASE i = n + 1
    BY <1>6, <1>8, <1>12, <1>13, <2>1
  <2>2. CASE i # n + 1
    <3>1. n \in Nat /\ \A j \in 1..n : inEp'.bank[j] = inEp.bank[j]
      BY <1>6
    <3>2. i \in 1..n /\ inEp'.bank[i] = inEp.bank[i]
      BY <1>13, <2>2, <3>1
    <3>3. \A j \in 1..n : inEp.bank[j].kind = "block" => inEp.bank[j].v = OnCard(Len(host.got) + j)
      BY <1>13 DEF Kept, Carried
    <3> QED BY <1>13, <3>2, <3>3
  <2> QED BY <2>1, <2>2
<1> QED BY <1>6, <1>11, <1>13 DEF Kept, Carried

LEMMA CarriedRead ==
  ASSUME Kept, HostReadsData
  PROVE  Carried'
<1> DEFINE b == inEp.bank
           n == Len(b)
           g == Len(host.got)
<1>1. /\ enabled /\ InCommand /\ host.st = "data" /\ b # <<>> /\ Head(b).kind # "csw"
      /\ inEp'.bank = Tail(b) /\ media' = media
      /\ host'.cmd = host.cmd /\ hostCard' = hostCard
  BY PacketRead, QuietHost DEF Kept, InPacket, Quiet, sdVars
<1>2. CASE host.cmd.op # "read"
  BY <1>1, <1>2 DEF Carried
<1>3. CASE host.cmd.op = "read"
  <2>1. /\ n \in Nat /\ n > 0 /\ Head(b) = b[1] /\ Len(inEp'.bank) = n - 1
        /\ \A i \in 1..(n - 1) : inEp'.bank[i] = b[i + 1]
    BY <1>1, BankTail, BankLen DEF Kept, Typed, IsEndpoint
  <2>2. Head(b).kind = "block"
    <3>1. DataKind = "block"
      BY <1>3 DEF DataKind
    <3>2. CASE AreData(b, n)
      BY <2>1, <3>1, <3>2 DEF AreData
    <3>3. CASE CswLoaded
      <4>1. PICK m : m = n - 1
        OBVIOUS
      <4>2. b[m + 1].kind = "csw" /\ AreData(b, m)
        BY <3>3, <4>1 DEF CswLoaded
      <4>3. m # 0
        BY <1>1, <2>1, <4>2
      <4>4. 1 \in 1..m
        <5> HIDE DEF n
        <5> QED BY <2>1, <4>1, <4>3
      <4> QED BY <2>1, <3>1, <4>2, <4>4 DEF AreData
    <3>4. CASE Answering
      <4>1. ~Requested /\ ~SendsData
        BY <1>1, Fields DEF Requested, SendsData
      <4>2. Moving => Moves(inEp, outEp)
        <5>1. Moving => host.cmd.in
          BY <1>1, <1>3, CommandFacts DEF Moving, InPipeline
        <5> QED BY <5>1 DEF Moving
      <4>3. AreData(b, n)
        BY <3>4, <4>1, <4>2 DEF Answering, Moves, Ending, SendsCsw
      <4> QED BY <3>2, <4>3
    <3>5. Typed /\ Transport /\ host.cmd.op # "bad"
      BY <1>1 DEF Kept, InCommand
    <3>6. Answering \/ CswLoaded
      BY <1>1, <3>5, Stage DEF Invalid
    <3> QED BY <3>3, <3>4, <3>6
  <2>3. /\ host'.moved = host.moved + 2 /\ host'.got = Append(host.got, b[1].v)
    BY <2>1, <2>2, DataRead, GotRead DEF Kept, Typed
  <2>4. /\ g \in Nat /\ Len(host'.got) = g + 1 /\ host'.got[g + 1] = b[1].v
        /\ \A i \in 1..g : host'.got[i] = host.got[i]
    BY <2>3, BankAppend, BankLen DEF Kept
  <2>5. /\ host.moved = 2 * g
        /\ \A i \in 1..g : host.got[i] = OnCard(i)
        /\ \A i \in 1..n : b[i].kind = "block" => b[i].v = OnCard(g + i)
    BY <1>1, <1>3 DEF Kept, Carried
  <2>6. \A i : OnCard(i)' = OnCard(i)
    BY <1>1 DEF OnCard
  <2> HIDE DEF n, g, b
  <2>7. \A i \in 1..(g + 1) : host'.got[i] = OnCard(i)
    <3>1. 1 \in 1..n /\ g + 1 \in Int
      BY <2>1, <2>4
    <3>2. b[1].v = OnCard(g + 1)
      BY <2>1, <2>2, <2>5, <3>1
    <3> QED BY <2>4, <2>5, <3>1, <3>2
  <2>8. ASSUME NEW i \in 1..(n - 1), inEp'.bank[i].kind = "block"
        PROVE  inEp'.bank[i].v = OnCard((g + 1) + i)
    <3>1. i + 1 \in 1..n /\ g + (i + 1) = (g + 1) + i
      BY <2>1, <2>4
    <3>2. b[i + 1].v = OnCard(g + (i + 1))
      BY <2>1, <2>5, <2>8, <3>1
    <3> QED BY <2>1, <3>1, <3>2
  <2>9. host'.moved = 2 * (g + 1)
    <3>1. host.moved \in Nat
      BY DEF Kept, Typed, IsHost
    <3> QED BY <2>3, <2>4, <2>5, <3>1
  <2> QED BY <2>1, <2>4, <2>6, <2>7, <2>8, <2>9 DEF Carried
<1> QED BY <1>2, <1>3

\* The endpoint after a command.
LEMMA CommandBank ==
  ASSUME NEW c, NEW t, CbwReceived(c, t), inEp = Opened
  PROVE  /\ inEp'.bank = <<>>
         /\ inEp'.job = "data" => c.op \notin {"read", "write"}
<1>1. CanRun(inEp) /\ inEp.job = "none" /\ inEp.bank = <<>>
  BY Fields DEF CanRun
<1>2. CASE InvalidCbw(c)
  <2>1. inEp' = Waits("wait_invalid")
    BY <1>2, AtRest DEF InvalidCbw
  <2> QED BY <2>1, Fields
<1>3. CASE \E s : Finish(c, t, s)
  BY <1>3, FinishGoes
<1>4. CASE c.op \in {"sense", "info", "capacity"} /\ DataSend(c, t)
  <2>1. inEp' = Run(Opened, "data")
    BY <1>1, <1>4 DEF DataSend
  <2> QED BY <1>4, <2>1, Fields
<1>5. CASE inEp' = inEp
  BY <1>1, <1>5
<1> QED BY <1>1, <1>2, <1>3, <1>4, <1>5, CommandWays

\* What the steps of the device leave of the banks and of the cards.
LEMMA MainLoopKeeps ==
  ASSUME Typed, MainLoop
  PROVE  /\ inEp'.bank = inEp.bank
         /\ ~CardEnds \/ task.read => media' = media
<1>1. inEp'.bank = inEp.bank
  <2>1. CASE TransSeen \/ TransBegin \/ TransOpen \/ CardStarts \/ CardEnds \/ BlockFails
               \/ BlockAcked \/ TransReset
    BY <2>1 DEF TransSeen, TransBegin, TransOpen, CardStarts, CardEnds, BlockFails,
                BlockAcked, TransReset
  <2>2. CASE BlockStarts \/ TransStatus \/ TransSend
    <3>1. inEp' = inEp \/ inEp' = Run(inEp, "block") \/ inEp' = CswSend(inEp)
            \/ \E c, r : inEp' = StallIn(inEp, c, r)
      BY <2>2 DEF BlockStarts, TransStatus, TransSend
    <3> QED BY <3>1, BankKept DEF Typed
  <2> QED BY <2>1, <2>2 DEF MainLoop
<1>2. CardEnds /\ task.read => media' = media
  BY DEF CardEnds
<1>3. ~CardEnds => media' = media
  BY DEF MainLoop, TransSeen, TransBegin, TransOpen, OpenBlocks, CardStarts, StartBlock,
         BlockStarts, BlockFails, BlockAcked, TransReset, TransStatus, TransSend,
         CloseBlocks, sdVars
<1> QED BY <1>1, <1>2, <1>3

\* The answer of an information command in the banks.
LEMMA DataLoaded ==
  ASSUME Typed, DataSent
  PROVE  /\ \E v : inEp'.bank = Append(inEp.bank, [kind |-> "data", v |-> v])
         /\ inEp.halt = "no" /\ inEp'.job \in {"csw", "wait_csw"}
<1>1. PICK v : inEp' = CswSend(StallIn(Loaded(inEp, [kind |-> "data", v |-> v]), cbw.c,
                                       csw.residue - 1))
  BY DEF DataSent
<1>2. PICK e : e = Loaded(inEp, [kind |-> "data", v |-> v])
  OBVIOUS
<1>3. /\ IsEndpoint(e) /\ e.job = "none" /\ e.halt = "no"
      /\ e.bank = Append(inEp.bank, [kind |-> "data", v |-> v])
  BY <1>2, ClassCalls, LoadedFields DEF DataSent, CanLoad, Typed
<1>4. PICK f : f = StallIn(e, cbw.c, csw.residue - 1)
  OBVIOUS
<1>5. IsEndpoint(f) /\ f.bank = e.bank /\ f.job = "none" /\ f.halt # "off"
  <2>1. IsEndpoint(f) /\ f.bank = e.bank
    <3>1. IsEndpoint(e)
      BY <1>3
    <3>2. \A c, r : IsEndpoint(StallIn(e, c, r))
      BY <3>1, ClassCalls
    <3>3. \A c, r : StallIn(e, c, r).bank = e.bank
      BY <3>1, BankKept
    <3> QED BY <1>4, <3>2, <3>3
  <2>2. SetHalt(e).job = "none" /\ SetHalt(e).halt # "off"
    BY <1>3, Stalled
  <2>3. f \in {e, SetHalt(e)}
    BY <1>4 DEF StallIn
  <2> QED BY <1>3, <2>1, <2>2, <2>3
<1>6. inEp' = CswSend(f)
  BY <1>1, <1>2, <1>4
<1>7. CswSend(f).bank = f.bank /\ CswSend(f).job \in {"csw", "wait_csw"}
  BY <1>5, BankKept, Sent DEF CswSend
<1> QED BY <1>3, <1>5, <1>6, <1>7 DEF DataSent, CanLoad

\* The status in the banks.
LEMMA StatusLoaded ==
  ASSUME Typed, CswSent
  PROVE  \E p : /\ inEp'.bank = Append(inEp.bank, p) /\ p.kind = "csw"
                /\ p.residue = csw.residue /\ (p.pass <=> sense = "none")
                /\ inEp'.job = "none"
<1> DEFINE p == [kind |-> "csw", tag |-> csw.tag, residue |-> csw.residue,
                 pass |-> sense = "none"]
<1>1. /\ p.kind = "csw" /\ p.residue = csw.residue /\ (p.pass <=> sense = "none")
      /\ inEp'.bank = Append(inEp.bank, p) /\ inEp'.job = "none"
  <2>1. inEp' = Loaded(inEp, p) /\ IsEndpoint(inEp)
    BY DEF CswSent, Typed
  <2>2. inEp'.bank = Append(inEp.bank, p) /\ inEp'.job = "none"
    BY <2>1, LoadedFields
  <2>3. p.pass <=> sense = "none"
    BY Zenon
  <2> QED BY <2>2, <2>3
<1> QED BY <1>1

LEMMA StepCarried ==
  ASSUME Kept, [Next]_vars
  PROVE  Carried'
<1> USE DEF Kept
<1>1. CASE MainLoop /\ host' = host /\ hostCard' = hostCard
  <2>1. CardEnds /\ host.cmd.op = "read" => task.read
    <3>1. CardEnds => task.pc \notin {"idle", "begin"}
      BY DEF CardEnds
    <3> QED BY <3>1, WorkFacts
  <2> QED BY <1>1, <2>1, MainLoopKeeps, CarriedSame
<1>2. CASE Interrupt /\ host' = host /\ hostCard' = hostCard
  <2>1. CASE BlockSent
    BY <1>2, <2>1, CarriedSent
  <2>2. CASE DataSent
    <3>1. PICK v : inEp'.bank = Append(inEp.bank, [kind |-> "data", v |-> v])
      BY <2>2, DataLoaded
    <3>2. media' = media
      BY <2>2 DEF DataSent, sdVars
    <3> HIDE DEF Kept
    <3> QED BY <1>2, <3>1, <3>2, CarriedMore
  <2>3. CASE CswSent
    <3>1. PICK p : inEp'.bank = Append(inEp.bank, p) /\ p.kind = "csw"
      BY <2>3, StatusLoaded
    <3>2. media' = media
      BY <2>3 DEF CswSent, sdVars
    <3> HIDE DEF Kept
    <3> QED BY <1>2, <3>1, <3>2, CarriedMore
  <2>4. CASE StallWhenSent
    <3>1. inEp'.bank = inEp.bank /\ media' = media
      BY <2>4 DEF StallWhenSent, sdVars, Typed, IsEndpoint
    <3> QED BY <1>2, <3>1, CarriedSame
  <2> QED BY <1>2, <2>1, <2>2, <2>3, <2>4 DEF Interrupt
<1>3. CASE CardMoves \/ UNCHANGED vars
  BY <1>3, CarriedSame DEF CardMoves, InsertCard, RemoveCard, vars, mscVars, sdVars
<1>4. CASE HostWritesBlock
  BY <1>4, WrittenBlock, QuietHost DEF Carried, Quiet
<1>5. CASE HostDataStalled \/ HostCswStalled
  <2>1. inEp'.bank = inEp.bank /\ media' = media
    BY <1>5, BankKept DEF HostDataStalled, HostCswStalled, ClearHaltIn, ClearHaltOut, sdVars, Typed
  <2>2. host'.moved = host.moved /\ host'.got = host.got
    BY <1>5 DEF HostDataStalled, HostCswStalled, Goto, Typed, IsHost
  <2> QED BY <1>5, <2>1, <2>2, QuietHost, CarriedSame DEF Quiet
<1>6. CASE HostCommand
  <2>1. PICK c \in Commands, t \in Tags :
          CbwReceived(c, t) /\ host'.moved = 0 /\ host'.got = <<>>
    BY <1>6, CommandHost
  <2>2. inEp'.bank = <<>>
    BY <1>6, <2>1, CommandBank DEF HostCommand, Transport, Ready
  <2> QED BY <2>1, <2>2, EmptyBank DEF Carried
<1>7. CASE GivesUp \/ Renews \/ HostTakes \/ HostReadsCsw
  BY <1>7, GivesUpHost, RenewsHost, TakesHost, TakenHost DEF Carried
<1> HIDE DEF Kept
<1> QED BY <1>1, <1>2, <1>3, <1>4, <1>5, <1>6, <1>7, NextParts, CarriedRead DEF Still, Device, Quiet

-----------------------------------------------------------------------------
\* A status that passes is that of a complete transfer.

LEMMA CompleteSame ==
  ASSUME host'.cmd = host.cmd, hostCard' = hostCard, media' = media
  PROVE  \A r : Complete(r)' <=> Complete(r)
<1>1. \A i : OnCard(i)' = OnCard(i)
  BY DEF OnCard
<1> QED BY <1>1 DEF Complete

LEMMA WholeSame ==
  ASSUME Whole, host'.st \in {"data", "csw"} => host.st \in {"data", "csw"},
         host'.cmd = host.cmd, hostCard' = hostCard, media' = media,
         inEp'.job = "data" => inEp.job = "data", task' = task, csw'.residue = csw.residue,
         Passes' => Passes /\ LastResidue' = LastResidue
  PROVE  Whole'
<1>1. \A r : Complete(r)' <=> Complete(r)
  BY CompleteSame
<1>2. Complete(csw.residue)' <=> Complete(csw.residue)
  BY CompleteSame DEF Complete, OnCard
<1>3. LastResidue' = LastResidue => (Complete(LastResidue)' <=> Complete(LastResidue))
  BY <1>1 DEF Complete, OnCard
<1> QED BY <1>2, <1>3 DEF Whole

\* No status goes while the main loop is at the transfer.
LEMMA NoStatusYet ==
  ASSUME Typed, Transport, enabled,
         transReq \/ task.pc \in {"begin", "open", "card", "usb", "ack", "wait", "done"}
  PROVE  ~CswGoes /\ ~CswInBank /\ inEp.job # "data"
<1>1. transReq \/ task # Idle
  BY IdleFields
<1>2. ~Ending /\ ~SendsCsw /\ ~CswLoaded /\ ~SendsData
  <2>1. ~Ending
    <3>1. Ending => task.pc = "send" /\ ~transReq
      BY DEF Ending
    <3> QED BY <3>1
  <2> QED BY <1>1, <2>1 DEF SendsCsw, CswLoaded, SendsData
<1> QED BY <1>2, Sending, AtJob

LEMMA WholeMoves ==
  ASSUME ~CswGoes, ~CswInBank, inEp.job # "data",
         inEp'.bank = inEp.bank, inEp'.job \in {inEp.job, "block"}, task'.pc # "send",
         task'.pc = "done" /\ task'.status = "good" => Complete(csw.residue)'
  PROVE  Whole'
<1>1. ~CswGoes' /\ ~CswInBank' /\ inEp'.job # "data"
  BY DEF CswGoes, CswInBank
<1> QED BY <1>1 DEF Whole, Passes

LEMMA FailedStatus ==
  ASSUME NEW t, IsPlace(t), NEW x
  PROVE  Failed(t, x).status = x
  BY DEF IsPlace, Failed

LEMMA WholeStored ==
  ASSUME Kept, CardEnds, host' = host, hostCard' = hostCard,
         task'.pc = "done", task'.status = "good"
  PROVE  Complete(csw.residue)'
<1>1. /\ task.pc = "wait" /\ InSteps
      /\ task' = IF Reachable THEN EndStep(task) ELSE Failed(task, "fail")
  BY DEF CardEnds, InSteps
<1>2. Reachable /\ task' = EndStep(task)
  BY <1>1, FailedStatus, StepFacts
<1>3. task.k = 0
  BY <1>1, <1>2, EndFields, StepFacts
<1>4. ~task.read /\ CardPart(task)
  BY <1>1, <1>3, StepFacts DEF Kept, Working, CardPart
<1>5. /\ host.cmd.op = "write" /\ task.n = host.cmd.n /\ task.n \in Nat /\ hostCard \in Cards
  BY <1>1, <1>4, WorkFacts, StepFacts DEF Kept
<1>6. \A i \in 1..task.n : OnCard(i)' = IF i = task.n THEN host.cmd.data[task.n] ELSE OnCard(i)
  <2>1. task.n - task.k = task.n
    BY <1>3, <1>5
  <2> QED BY <1>2, <1>4, <2>1, Stored
<1>7. \A i \in 1..(task.n - 1) : OnCard(i) = host.cmd.data[i]
  <2>1. task.n - task.k - 1 = task.n - 1
    BY <1>3, <1>5
  <2> QED BY <1>1, <1>4, <2>1 DEF Kept, Buffered
<1>8. \A i \in 1..host.cmd.n : OnCard(i)' = host.cmd.data[i]
  BY <1>5, <1>6, <1>7
<1> QED BY <1>5, <1>8 DEF Complete

LEMMA WholeAcked ==
  ASSUME Kept, BlockAcked, host' = host, hostCard' = hostCard, task'.pc = "done"
  PROVE  Complete(csw.residue)'
<1>1. /\ task.pc = "ack" /\ InSteps /\ task' = EndUsb(task)
      /\ csw' = [csw EXCEPT !.residue = @ - 2]
  BY DEF BlockAcked, InSteps
<1>2. csw'.residue = csw.residue - 2
  BY <1>1 DEF Kept, Typed, IsCsw
<1>3. UsbPart(task)
  BY <1>1 DEF Kept, Working
<1>4. ~CardPart(task) /\ task' = EndStep(task)
  BY <1>1, UsbFields, StepFacts
<1>5. task.k = 0
  BY <1>1, <1>4, EndFields, StepFacts
<1>6. task.read /\ task.k # task.n
  BY <1>3, <1>5 DEF UsbPart
<1>7. /\ host.cmd.op = "read" /\ task.n = host.cmd.n /\ task.n \in Nat /\ hostCard \in Cards
      /\ csw.residue \in Int /\ host.cmd.len \in Nat
  BY <1>1, <1>6, WorkFacts, StepFacts DEF Kept
<1>8. host.cmd.len - csw.residue = 2 * (task.n - 1)
  <2>1. host.cmd.len - csw.residue = 2 * (task.n - 1 - task.k + 0)
    BY <1>1, <1>6, <1>7 DEF Kept, Working, Counted
  <2> QED BY <1>5, <1>7, <2>1
<1>9. host.cmd.len - (csw.residue - 2) = 2 * host.cmd.n
  BY <1>7, <1>8
<1> QED BY <1>2, <1>7, <1>9 DEF Complete

LEMMA WholeMainLoop ==
  ASSUME Kept, MainLoop, host' = host, hostCard' = hostCard
  PROVE  Whole'
<1> USE DEF Kept
<1>1. CASE host.st \notin {"data", "csw"}
  BY <1>1 DEF Whole
<1>2. CASE host.st \in {"data", "csw"}
  <2>1. enabled
    BY <1>2 DEF Transport, FlagsAgree
  <2>2. inEp'.bank = inEp.bank
    BY MainLoopKeeps
  <2>3. IsPlace(task)
    BY DEF Typed, IsTask
  <2>4. CASE TransSeen \/ TransBegin \/ TransOpen \/ CardStarts \/ CardEnds \/ BlockStarts
               \/ BlockFails \/ BlockAcked
    <3>1. transReq \/ task.pc \in {"begin", "open", "card", "usb", "ack", "wait", "done"}
      BY <2>4 DEF TransSeen, TransBegin, TransOpen, CardStarts, CardEnds, BlockStarts,
                  BlockFails, BlockAcked
    <3>2. ~CswGoes /\ ~CswInBank /\ inEp.job # "data"
      BY <2>1, <3>1, NoStatusYet
    <3>3. inEp'.job \in {inEp.job, "block"}
      BY <2>4 DEF TransSeen, TransBegin, TransOpen, CardStarts, CardEnds, BlockStarts,
                  BlockFails, BlockAcked, Run, Typed, IsEndpoint
    <3>4. task'.pc # "send"
      <4>1. CASE TransSeen \/ TransBegin \/ BlockStarts
        BY <2>3, <4>1 DEF TransSeen, TransBegin, BlockStarts, IsPlace
      <4>2. CASE TransOpen
        BY <2>3, <4>2, BeginFields, FailedFields DEF TransOpen
      <4>3. CASE CardStarts \/ BlockFails
        BY <2>3, <4>3, CardFields, FailedFields DEF CardStarts, BlockFails
      <4>4. CASE CardEnds \/ BlockAcked
        BY <2>3, <4>4, EndFields, UsbFields, FailedFields DEF CardEnds, BlockAcked
      <4> QED BY <2>4, <4>1, <4>2, <4>3, <4>4
    <3>5. task'.pc = "done" /\ task'.status = "good" => CardEnds \/ BlockAcked
      <4>1. TransSeen \/ TransBegin \/ BlockStarts => task'.pc # "done"
        BY <2>3 DEF TransSeen, TransBegin, BlockStarts, IsPlace
      <4>2. TransOpen => task'.pc # "done" \/ task'.status # "good"
        BY <2>3, BeginFields, FailedStatus DEF TransOpen
      <4>3. CardStarts => task'.pc # "done" \/ task'.status # "good"
        <5>1. CardStarts => task' = EndCard(task) \/ task' = Failed(task, "fail")
          BY DEF CardStarts
        <5> HIDE DEF Kept
        <5> QED BY <2>3, <5>1, CardFields, FailedStatus
      <4>4. BlockFails => task'.status # "good"
        <5>1. BlockFails => task' = Failed(task, "fail")
          BY DEF BlockFails
        <5> HIDE DEF Kept
        <5> QED BY <2>3, <5>1, FailedStatus
      <4> QED BY <2>4, <4>1, <4>2, <4>3, <4>4, Zenon
    <3> HIDE DEF Kept
    <3> QED BY <2>2, <3>2, <3>3, <3>4, <3>5, WholeStored, WholeAcked, WholeMoves
  <2>5. ~TransReset
    BY <2>1 DEF TransReset, Transport, FlagsAgree
  <2>6. CASE TransStatus
    <3>1. /\ task.pc = "done" /\ sense' = SenseOf(task.status)
          /\ task' = [task EXCEPT !.pc = "send"]
          /\ inEp' = StallIn(inEp, cbw.c, csw.residue)
          /\ csw' = [csw EXCEPT !.tag = cbw.tag] /\ media' = media
      BY <2>6 DEF TransStatus, sdVars
    <3>2. ~CswGoes /\ ~CswInBank /\ inEp.job # "data"
      BY <2>1, <3>1, NoStatusYet
    <3>3. csw'.residue = csw.residue /\ task'.pc = "send"
      BY <2>3, <3>1 DEF Typed, IsCsw, IsPlace
    <3>4. inEp'.job = inEp.job
      BY <3>1 DEF StallIn, SetHalt, Typed, IsEndpoint
    <3>5. sense' = "none" => task.status = "good"
      BY <3>1 DEF SenseOf
    <3>6. ~CswInBank' /\ LastResidue' = csw'.residue
      BY <2>2, <3>2 DEF CswInBank, LastResidue
    <3>7. Passes' => task.status = "good"
      BY <3>5, <3>6 DEF Passes
    <3>8. Passes' => Complete(csw.residue)
      BY <1>2, <3>1, <3>7 DEF Whole
    <3>9. Complete(csw.residue)' <=> Complete(csw.residue)
      BY <3>1, <3>3 DEF Complete, OnCard
    <3>10. Complete(LastResidue)' <=> Complete(csw.residue)'
      BY <3>6 DEF Complete, OnCard
    <3> QED BY <3>2, <3>3, <3>4, <3>8, <3>9, <3>10 DEF Whole
  <2>7. CASE TransSend
    <3>1. /\ task.pc = "send" /\ task' = Idle /\ task'.pc = "idle" /\ inEp' = CswSend(inEp)
          /\ UNCHANGED <<csw, sense, media>>
      BY <2>7, IdleFields DEF TransSend, CloseBlocks
    <3>2. CswGoes /\ ~CswInBank /\ InCommand /\ Ending
      BY <2>1, <3>1, AtSend, Sending DEF CswGoes
    <3>3. inEp'.job \in {"csw", "wait_csw"}
      <4>1. inEp.job = "none" /\ inEp.halt # "off"
        BY <3>2 DEF Ending, DataOver, Halted
      <4> QED BY <3>1, <4>1, Sent DEF CswSend, Typed
    <3>4. CswGoes' /\ ~CswInBank' /\ LastResidue' = csw.residue /\ LastResidue = csw.residue
      BY <2>2, <3>1, <3>2, <3>3 DEF CswGoes, CswInBank, LastResidue
    <3>5. Passes' => Passes
      BY <3>1, <3>2, <3>4 DEF Passes
    <3>6. Complete(LastResidue)' <=> Complete(LastResidue)
      BY <3>1, <3>4 DEF Complete, OnCard
    <3> QED BY <3>1, <3>3, <3>5, <3>6 DEF Whole
  <2> QED BY <2>4, <2>5, <2>6, <2>7 DEF MainLoop
<1> QED BY <1>1, <1>2

LEMMA WholeInterrupt ==
  ASSUME Kept, Interrupt, host' = host, hostCard' = hostCard
  PROVE  Whole'
<1> USE DEF Kept
<1>1. enabled
  BY InterruptOn
<1>2. task' = task /\ media' = media
  BY DEF Interrupt, BlockSent, DataSent, CswSent, StallWhenSent, taskVars, sdVars
<1>3. CASE BlockSent
  <2>1. InCommand /\ Moving
    BY <1>1, <1>3, AtJob DEF BlockSent, CanLoad
  <2>2. task.pc \in {"open", "card", "usb", "ack", "wait", "done"}
    BY <2>1 DEF Moving, InPipeline
  <2>3. ~CswGoes /\ ~CswInBank
    BY <1>1, <2>2, NoStatusYet
  <2>4. PICK p : p = [kind |-> "block", v |-> sectors[UsbBuffer(task.k)]]
    OBVIOUS
  <2>5. inEp'.bank = Append(inEp.bank, p) /\ inEp'.job = "none" /\ p.kind = "block"
        /\ csw' = csw
    BY <1>3, <2>4, LoadedFields DEF BlockSent, Typed
  <2>6. inEp'.bank[Len(inEp'.bank)] = p
    BY <2>5, BankAppend DEF Typed, IsEndpoint
  <2>7. ~CswGoes' /\ ~CswInBank'
    BY <1>2, <2>3, <2>5, <2>6 DEF CswGoes, CswInBank
  <2>8. Complete(csw.residue)' <=> Complete(csw.residue)
    BY <1>2, <2>5 DEF Complete, OnCard
  <2> QED BY <1>2, <2>5, <2>7, <2>8 DEF Whole, Passes
<1>4. CASE DataSent
  <2>1. InCommand /\ SendsData /\ inEp.job = "data"
    BY <1>1, <1>4, AtJob DEF DataSent, CanLoad
  <2>2. host.cmd.op \notin {"read", "write"}
    BY <2>1 DEF InCommand, Whole
  <2>3. task.pc # "done"
    BY <2>1, IdleFields DEF SendsData
  <2> QED BY <1>2, <2>2, <2>3 DEF Whole
<1>5. CASE CswSent
  <2>1. PICK p : /\ inEp'.bank = Append(inEp.bank, p) /\ p.kind = "csw"
                 /\ p.residue = csw.residue /\ (p.pass <=> sense = "none")
                 /\ inEp'.job = "none"
    BY <1>5, StatusLoaded
  <2>2. inEp'.bank # <<>> /\ inEp'.bank[Len(inEp'.bank)] = p
    BY <2>1, BankAppend DEF Typed, IsEndpoint
  <2>3. CswGoes /\ ~CswInBank /\ InCommand /\ task.pc = "idle"
    <3>1. CswGoes /\ inEp.job = "csw"
      BY <1>5 DEF CswSent, CanLoad, CswGoes
    <3>2. task = Idle
      BY <1>1, <3>1, AtJob DEF SendsCsw
    <3> QED BY <1>1, <3>1, <3>2, Sending, IdleFields
  <2>4. CswInBank' /\ ~CswGoes' /\ LastResidue' = csw.residue /\ LastResidue = csw.residue
    BY <1>2, <2>1, <2>2, <2>3 DEF CswInBank, CswGoes, LastResidue
  <2>5. Passes' => Passes
    BY <2>1, <2>2, <2>3, <2>4 DEF Passes
  <2>6. Complete(LastResidue)' <=> Complete(LastResidue)
    BY <1>2, <2>4 DEF Complete, OnCard
  <2> QED BY <1>2, <2>1, <2>3, <2>5, <2>6 DEF Whole
<1>6. CASE StallWhenSent
  <2>1. inEp'.bank = inEp.bank /\ inEp'.job = inEp.job /\ sense' = sense /\ csw' = csw
    BY <1>6 DEF StallWhenSent, Typed, IsEndpoint
  <2> QED BY <1>2, <2>1, StatusSame, WholeSame
<1> QED BY <1>3, <1>4, <1>5, <1>6 DEF Interrupt

LEMMA StepWhole ==
  ASSUME Kept, [Next]_vars
  PROVE  Whole'
<1> USE DEF Kept
<1>1. CASE CardMoves \/ UNCHANGED vars
  <2>1. /\ host' = host /\ hostCard' = hostCard /\ media' = media /\ task' = task
        /\ inEp' = inEp /\ sense' = sense /\ csw' = csw
    BY <1>1 DEF CardMoves, InsertCard, RemoveCard, vars, mscVars, sdVars, taskVars
  <2> QED BY <2>1, StatusSame, WholeSame
<1>2. CASE HostReadsData
  <2>1. /\ task' = task /\ csw' = csw /\ media' = media /\ inEp'.job = inEp.job
        /\ Passes' => Passes
        /\ LastResidue' = LastResidue
    BY <1>2, PacketRead, StatusRead DEF taskVars, sdVars
  <2> QED BY <1>2, <2>1, QuietHost, WholeSame DEF Quiet
<1>3. CASE HostWritesBlock
  <2>1. /\ task' = task /\ csw' = csw /\ media' = media /\ inEp' = inEp /\ sense' = sense
    BY <1>3, WrittenBlock DEF sdVars
  <2> QED BY <1>3, <2>1, StatusSame, QuietHost, WholeSame DEF Quiet
<1>4. CASE HostDataStalled \/ HostCswStalled
  <2>1. enabled /\ (ClearHaltIn \/ ClearHaltOut)
    BY <1>4 DEF HostDataStalled, HostCswStalled, Transport, FlagsAgree
  <2>2. task' = task /\ csw' = csw /\ media' = media /\ sense' = sense
    BY <2>1 DEF ClearHaltIn, ClearHaltOut, taskVars, sdVars
  <2>3. /\ inEp'.bank = inEp.bank
        /\ inEp'.job \in {"csw", "wait_csw"} <=> inEp.job \in {"csw", "wait_csw"}
        /\ inEp'.job = "data" => inEp.job = "data"
    <3>1. CASE ClearHaltIn
      BY <2>1, <3>1, ClearsIn
    <3>2. CASE ClearHaltOut
      BY <3>2 DEF ClearHaltOut
    <3> QED BY <2>1, <3>1, <3>2
  <2> QED BY <1>4, <2>2, <2>3, StatusSame, QuietHost, WholeSame DEF Quiet
<1>5. CASE HostCommand
  <2>1. PICK c \in Commands, t \in Tags : CbwReceived(c, t) /\ host'.cmd = c
    BY <1>5, CommandHost
  <2>2. inEp = Opened /\ task' = task /\ task.pc = "idle"
    BY <1>5, <2>1, IdleFields DEF HostCommand, Transport, Ready, CbwReceived, taskVars
  <2>3. inEp'.bank = <<>> /\ (inEp'.job = "data" => c.op \notin {"read", "write"})
    BY <2>1, <2>2, CommandBank
  <2>4. c.op \in {"read", "write"} => ~Passes'
    <3> SUFFICES ASSUME c.op \in {"read", "write"} PROVE ~Passes'
      OBVIOUS
    <3>1. Transfer(c, t)
      BY <2>1 DEF CbwReceived, InvalidCbw, UnitReady, Information, ReadCapacity, StartStop, NoData
    <3>2. sense' = "cdb" \/ inEp' = inEp
      BY <3>1 DEF Transfer, Finish
    <3>3. ~CswInBank'
      BY <2>3 DEF CswInBank
    <3>4. inEp' = inEp => ~CswGoes'
      BY <2>2, Fields DEF CswGoes
    <3> QED BY <3>2, <3>3, <3>4 DEF Passes
  <2> QED BY <2>1, <2>2, <2>3, <2>4 DEF Whole
<1>6. CASE GivesUp \/ Renews \/ HostTakes \/ HostReadsCsw
  BY <1>6, GivesUpHost, RenewsHost, TakesHost, TakenHost DEF Whole
<1> HIDE DEF Kept
<1> QED BY <1>1, <1>2, <1>3, <1>4, <1>5, <1>6, WholeMainLoop, WholeInterrupt, NextParts
        DEF Still, Device, Quiet

-----------------------------------------------------------------------------
\* The card and the buffers.

LEMMA SelectedSlot ==
  ASSUME NEW s \in SlotStates, NEW late, NEW ok
  PROVE  Selected(s, late) \in SlotStates /\ Checked(s, ok) \in SlotStates
  BY DEF SlotStates, Selected, Checked

LEMMA SdUnit ==
  ASSUME SdTypeOK, NEW s \in SlotStates, NEW ok \in BOOLEAN, TestUnitReady(s, ok)
  PROVE  SdTypeOK'
<1>1. slot' \in SlotStates /\ live' \in Cards \cup {NoCard} /\ ejected' \in BOOLEAN
  BY SelectedSlot DEF TestUnitReady, SdTypeOK
<1> QED BY <1>1 DEF TestUnitReady, SdTypeOK

LEMMA SdCommand ==
  ASSUME SdTypeOK, NEW c, NEW t, CbwReceived(c, t)
  PROVE  SdTypeOK'
<1>1. slot \in SlotStates
  BY DEF SdTypeOK
<1>2. CASE UnitReady(c, t)
  <2>1. PICK late \in BOOLEAN, ok \in BOOLEAN : TestUnitReady(Selected(slot, late), ok)
    BY <1>2 DEF UnitReady
  <2> QED BY <1>1, <2>1, SelectedSlot, SdUnit
<1>3. CASE ReadCapacity(c, t)
  <2>1. CASE ~Validate(c, 1, TRUE)
    BY <1>3, <2>1 DEF ReadCapacity, SdTypeOK, sdVars
  <2>2. CASE Validate(c, 1, TRUE)
    <3>1. PICK late \in BOOLEAN, later \in BOOLEAN, ok \in BOOLEAN :
            TestUnitReady(Selected(Selected(slot, late), later /\ Selected(slot, late) = slot), ok)
      BY <1>3, <2>2 DEF ReadCapacity
    <3>2. Selected(slot, late) \in SlotStates
      BY <1>1, SelectedSlot
    <3>3. Selected(Selected(slot, late), later /\ Selected(slot, late) = slot) \in SlotStates
      BY <3>2, SelectedSlot
    <3> QED BY <3>1, <3>3, SdUnit
  <2> QED BY <2>1, <2>2
<1>4. CASE StartStop(c, t)
  BY <1>4 DEF StartStop, Unload, SdTypeOK
<1>5. CASE InvalidCbw(c) \/ Information(c, t) \/ NoData(c, t) \/ Transfer(c, t)
  BY <1>5 DEF InvalidCbw, Information, NoData, Transfer, SdTypeOK, sdVars
<1> QED BY <1>2, <1>3, <1>4, <1>5 DEF CbwReceived

LEMMA SdMainLoop ==
  ASSUME Kept, MainLoop
  PROVE  SdTypeOK'
<1>0. SdTypeOK
  BY DEF Kept
<1>1. CASE TransSeen \/ TransBegin \/ BlockStarts \/ BlockAcked \/ TransStatus
  BY <1>0, <1>1 DEF TransSeen, TransBegin, BlockStarts, BlockAcked, TransStatus, sdVars, SdTypeOK
<1>2. CASE TransReset \/ TransSend
  BY <1>0, <1>2 DEF TransReset, TransSend, CloseBlocks, SdTypeOK
<1>3. CASE TransOpen
  <2>1. PICK late \in BOOLEAN : OpenBlocks(Selected(slot, late), task.n)
    BY <1>3 DEF TransOpen
  <2>2. task.n \in Nat
    BY <1>3, WorkFacts DEF TransOpen, Kept
  <2>3. Selected(slot, late) \in SlotStates
    BY <1>0, SelectedSlot DEF SdTypeOK
  <2> QED BY <1>0, <2>1, <2>2, <2>3 DEF OpenBlocks, SdTypeOK
<1>4. CASE CardStarts
  <2>1. task.pc = "card" /\ InSteps /\ StartBlock /\ media' = media
    BY <1>4 DEF CardStarts, StartBlock, InSteps
  <2>2. remaining - 1 \in Nat
    <3>1. remaining = Unbegun /\ CardPart(task) /\ task.k \in Nat /\ task.read \in BOOLEAN
      BY <2>1, StepFacts DEF Kept, Working
    <3>2. remaining = IF task.read THEN task.k ELSE task.k + 1
      BY <2>1, <3>1 DEF Unbegun, CardPart
    <3>3. task.read => task.k # 0
      BY <3>1 DEF CardPart
    <3> QED BY <3>1, <3>2, <3>3
  <2> QED BY <1>0, <2>1, <2>2 DEF StartBlock, SdTypeOK
<1>5. CASE CardEnds
  <2>1. /\ task.pc = "wait" /\ remaining' = remaining
        /\ UNCHANGED <<card, slot, live, ejected>>
    BY <1>5 DEF CardEnds, WaitEnd
  <2>2. CASE Reachable /\ ~task.read
    <3>1. media' = [media EXCEPT ![card][Current] = sectors[CardBuffer(task.k)]]
      BY <1>5, <2>2 DEF CardEnds
    <3>2. /\ task.n - task.k \in 1..task.n
          /\ sectors[CardBuffer(task.k)] = host.cmd.data[task.n - task.k]
      BY <2>1, <2>2, CardBlock DEF Kept, Buffered, InSteps, Working
    <3>3. sectors[CardBuffer(task.k)] \in Data
      BY <2>1, <2>2, <3>2, SectorFacts DEF Kept
    <3>4. media' \in [Cards -> [Blocks -> Data]]
      BY <1>0, <3>1, <3>3 DEF SdTypeOK
    <3> QED BY <1>0, <2>1, <3>4 DEF SdTypeOK
  <2>3. CASE ~(Reachable /\ ~task.read)
    BY <1>0, <1>5, <2>1, <2>3 DEF CardEnds, SdTypeOK
  <2> QED BY <2>2, <2>3
<1>6. CASE BlockFails
  BY <1>0, <1>6 DEF BlockFails, WaitEnd, SdTypeOK
<1> QED BY <1>1, <1>2, <1>3, <1>4, <1>5, <1>6 DEF MainLoop

LEMMA StepSd ==
  ASSUME Kept, [Next]_vars
  PROVE  SdTypeOK'
<1>0. SdTypeOK
  BY DEF Kept
<1>1. CASE Interrupt
  BY <1>0, <1>1 DEF Interrupt, BlockSent, DataSent, CswSent, StallWhenSent, sdVars, SdTypeOK
<1>2. CASE CardMoves \/ UNCHANGED vars
  BY <1>0, <1>2 DEF CardMoves, InsertCard, RemoveCard, vars, sdVars, SdTypeOK
<1>3. CASE Quiet
  BY <1>0, <1>3 DEF Quiet, HostReadsData, HostWritesBlock, BlockReceived, HostDataStalled,
                    HostCswStalled, ClearHaltIn, ClearHaltOut, sdVars, SdTypeOK
<1>4. CASE GivesUp \/ HostTakes \/ HostReadsCsw
  BY <1>0, <1>4 DEF GivesUp, HostCswRefused, HostResets, BulkReset, HostClearsIn, ClearHaltIn,
                    HostOff, BusReset, HostTakes, HostReadsCsw, sdVars, SdTypeOK
<1>5. CASE Renews
  BY <1>0, <1>5 DEF Renews, HostClearsOut, ClearHaltOut, HostConfigures, Configure, Unload,
                    sdVars, SdTypeOK
<1>6. CASE HostCommand
  BY <1>0, <1>6, SdCommand DEF HostCommand
<1> QED BY <1>1, <1>2, <1>3, <1>4, <1>5, <1>6, SdMainLoop, NextParts DEF Still, Device

LEMMA StepSectors ==
  ASSUME Kept, [Next]_vars
  PROVE  IsSectors'
<1>0. IsSectors
  BY DEF Kept
<1>1. CASE sectors' = sectors
  BY <1>0, <1>1 DEF IsSectors
<1>2. CASE TransReset \/ TransSend
  BY <1>2 DEF TransReset, TransSend, Unread, IsSectors
<1>3. CASE CardStarts \/ BlockStarts
  <2>1. sectors' = sectors \/ \E i : sectors' = [sectors EXCEPT ![i] = Junk]
    BY <1>3 DEF CardStarts, BlockStarts
  <2> QED BY <1>0, <2>1 DEF IsSectors
<1>4. CASE CardEnds
  <2>1. CASE Reachable /\ task.read
    <3>1. task.pc = "wait" /\ sectors' = [sectors EXCEPT ![CardBuffer(task.k)] = media[card][Current]]
      BY <1>4, <2>1 DEF CardEnds
    <3>2. card \in Cards /\ Current \in Blocks
      BY <2>1, <3>1, CardBlock
    <3>3. media[card][Current] \in Data
      BY <3>2 DEF Kept, SdTypeOK
    <3> QED BY <1>0, <3>1, <3>3 DEF IsSectors
  <2>2. CASE ~(Reachable /\ task.read)
    BY <1>1, <1>4, <2>2 DEF CardEnds
  <2> QED BY <2>1, <2>2
<1>5. CASE HostWritesBlock
  <2>1. /\ task.pc = "ack" /\ ~task.read
        /\ \E i \in 1..task.n :
             sectors' = [sectors EXCEPT ![UsbBuffer(task.k)] = host.cmd.data[i]]
    BY <1>5, WrittenBlock DEF Kept
  <2>2. \A i \in 1..task.n : host.cmd.data[i] \in Data
    BY <2>1, SectorFacts DEF Kept
  <2> QED BY <1>0, <2>1, <2>2 DEF IsSectors
<1>6. TransSeen \/ TransBegin \/ TransOpen \/ BlockFails \/ BlockAcked \/ TransStatus
        => sectors' = sectors
  BY DEF TransSeen, TransBegin, TransOpen, BlockFails, BlockAcked, TransStatus
<1>7. Interrupt \/ CardMoves \/ UNCHANGED vars => sectors' = sectors
  BY DEF Interrupt, BlockSent, DataSent, CswSent, StallWhenSent, CardMoves, vars, mscVars, taskVars
<1>8. HostReadsData \/ HostDataStalled \/ HostCswStalled \/ GivesUp \/ Renews => sectors' = sectors
  BY DEF HostReadsData, HostDataStalled, HostCswStalled, ClearHaltIn, ClearHaltOut, GivesUp,
         HostCswRefused, HostResets, BulkReset, HostClearsIn, HostOff, BusReset, Renews,
         HostClearsOut, HostConfigures, Configure, mscVars, taskVars
<1>9. HostTakes \/ HostCommand \/ HostReadsCsw => sectors' = sectors
  BY DEF HostTakes, HostCommand, CbwReceived, HostReadsCsw, mscVars, taskVars
<1> QED BY <1>1, <1>2, <1>3, <1>4, <1>5, <1>6, <1>7, <1>8, <1>9, NextParts
        DEF Still, Device, MainLoop, Quiet

LEMMA InitKept == Init => Kept
<1> SUFFICES ASSUME Init PROVE Kept
  OBVIOUS
<1>1. /\ host.st = "off" /\ host.got = <<>> /\ host.cmd = NoCommand
      /\ task = Idle /\ task.pc = "idle" /\ ackTrans = TRUE /\ live = NoCard
      /\ sectors = Unread
  BY IdleFields DEF Init, HostInit, MscInit, SdInit
<1>2. SdTypeOK
  BY CardsAssumption DEF Init, SdInit, SdTypeOK, SlotStates
<1>3. IsSectors
  BY <1>1 DEF IsSectors, Unread
<1>4. Commanded /\ Working /\ Buffered /\ Carried /\ Whole /\ KnownCard
  BY <1>1 DEF Commanded, Working, Buffered, InSteps, Carried, Whole, KnownCard
<1> QED BY <1>1, <1>2, <1>3, <1>4, InitTyped, InitTransport, EmptyBank DEF Kept

LEMMA SpecKept == Spec => []Kept
<1>1. Kept /\ [Next]_vars => Kept'
  <2> SUFFICES ASSUME Kept, [Next]_vars PROVE Kept'
    OBVIOUS
  <2>1. Typed /\ Transport /\ Working /\ Commanded /\ KnownCard /\ IsBank(host.got)
    BY DEF Kept
  <2>2. Typed' /\ Transport' /\ Commanded' /\ Working' /\ KnownCard'
    BY <2>1, StepTyped, StepTransport, StepCommanded, StepWorking, StepKnownCard
  <2>3. SdTypeOK' /\ IsSectors' /\ Buffered' /\ Carried' /\ Whole'
    BY StepSd, StepSectors, StepBuffered, StepCarried, StepWhole
  <2>4. IsBank(host.got)'
    BY <2>1, StepGot DEF IsBank
  <2> QED BY <2>2, <2>3, <2>4 DEF Kept
<1> QED BY <1>1, InitKept, PTL DEF Spec

\* What a transfer has moved is what the host asked for, on the card that it
\* knows of: in every place of the pipeline the two buffers, the banks and the
\* card hold exactly the sectors of the command, and no status passes before
\* all of them have moved (sd_mmc_usb_read_10, sd_mmc_usb_write_10,
\* udi_msc_csw_process).
THEOREM CustodyCorrect == Spec => []InCustody
<1>1. Kept => InCustody
  BY DEF Kept, Commanded, InCustody
<1> QED BY <1>1, SpecKept, PTL

-----------------------------------------------------------------------------
\* The promise of a block device.

LEMMA AnswerKept ==
  ASSUME Typed, Quiet \/ HostCswRefused \/ HostResets \/ HostClearsIn
  PROVE  host'.answer = host.answer
<1>1. CASE Quiet
  BY <1>1 DEF Quiet, HostReadsData, HostWritesBlock, HostDataStalled, HostCswStalled, Goto,
              Typed, IsHost
<1>2. CASE HostCswRefused \/ HostResets \/ HostClearsIn
  BY <1>2 DEF HostCswRefused, HostResets, HostClearsIn, Goto, Typed, IsHost
<1> QED BY <1>1, <1>2

\* What the host has got when it has moved all sectors of a read.
LEMMA GotAll ==
  ASSUME Kept, host.st = "csw", host.cmd \in Commands, host.cmd.op = "read",
         host.moved = 2 * host.cmd.n
  PROVE  host.got = [i \in 1..host.cmd.n |-> OnCard(i)]
<1>1. /\ host.moved = 2 * Len(host.got)
      /\ \A i \in 1..Len(host.got) : host.got[i] = OnCard(i)
  BY DEF Kept, Carried
<1>2. /\ Len(host.got) \in Nat /\ DOMAIN host.got = 1..Len(host.got)
      /\ host.got = [i \in DOMAIN host.got |-> host.got[i]]
  BY DEF Kept, IsBank
<1>3. host.cmd.n \in Nat
  BY CommandsAssumption
<1>4. Len(host.got) = host.cmd.n
  <2> HIDE DEF Kept
  <2> QED BY <1>1, <1>2, <1>3
<1> QED BY <1>1, <1>2, <1>4

\* An answer that passes is true.
LEMMA AnswerHonest ==
  ASSUME Kept, HostReadsCsw
  PROVE  Disk!Answer
<1> DEFINE p == inEp.bank[1]
<1>1. /\ host.st = "csw" /\ Len(inEp.bank) = 1 /\ inEp.bank # <<>>
      /\ p.kind = "csw" /\ p.residue \in Nat /\ host.moved + p.residue = host.cmd.len
  BY StatusTaken DEF Kept
<1>2. /\ host'.cmd = NoCommand
      /\ host'.answer = [pass |-> p.pass, data |-> IF p.pass THEN host.got ELSE <<>>]
      /\ hostCard' = IF p.pass THEN hostCard ELSE live
  BY TakenHost DEF Kept
<1>3. host.cmd \in Commands /\ host.cmd # NoCommand
  BY <1>1, CommandsAssumption DEF Kept, Transport
<1>4. host.cmd.len \in Nat /\ host.cmd.n \in Nat /\ host.moved \in Nat
  BY <1>3, CommandsAssumption DEF Kept, Typed, IsHost
<1>5. UNCHANGED media
  BY DEF HostReadsCsw, sdVars
<1>6. ASSUME p.pass, host.cmd.op \in {"read", "write"} PROVE Complete(p.residue)
  <2>1. CswInBank /\ LastResidue = p.residue /\ Passes
    BY <1>1, <1>6 DEF CswInBank, LastResidue, Passes
  <2> QED BY <1>1, <1>6, <2>1 DEF Kept, Whole
<1> HIDE DEF p
<1>7. ASSUME p.pass, host.cmd.op = "read"
      PROVE  hostCard \in Cards /\ host.got = [i \in 1..host.cmd.n |-> OnCard(i)]
  <2>1. hostCard \in Cards /\ host.cmd.len - p.residue = 2 * host.cmd.n
    BY <1>6, <1>7 DEF Complete
  <2>2. host.moved = 2 * host.cmd.n
    BY <1>1, <1>4, <2>1
  <2> QED BY <1>1, <1>3, <1>7, <2>1, <2>2, GotAll
<1>8. ASSUME p.pass, host.cmd.op = "write"
      PROVE  /\ hostCard \in Cards
             /\ \A i \in 1..host.cmd.n : OnCard(i) = host.cmd.data[i]
  BY <1>6, <1>8 DEF Complete
<1>9. host'.answer.pass = p.pass /\ (p.pass => host'.answer.data = host.got)
  BY <1>2
<1>10. Disk!Honest(host'.answer)
  BY <1>7, <1>8, <1>9 DEF Disk!Honest, OnCard
<1> QED BY <1>2, <1>3, <1>5, <1>9, <1>10 DEF Disk!Answer

\* A block that the card takes is one of the write that is out.
LEMMA BlockStored ==
  ASSUME Kept, CardEnds, ~task.read, Reachable, hostCard' = hostCard, host' = host
  PROVE  Disk!Store
<1> DEFINE j == task.n - task.k
<1>1. /\ j \in 1..task.n
      /\ media' = [media EXCEPT ![hostCard][host.cmd.a + j - 1] = host.cmd.data[j]]
  BY Stored
<1>2. task.pc = "wait"
  BY DEF CardEnds
<1>3. /\ host.cmd \in Commands /\ task.n = host.cmd.n /\ task.read = host.cmd.in
      /\ host.cmd.in <=> host.cmd.op = "read"
      /\ host.cmd.op \in {"read", "write"}
  BY <1>2, WorkFacts DEF Kept
<1>4. hostCard \in Cards
  BY <1>2, CardBlock
<1>5. host.cmd # NoCommand /\ host.cmd.op = "write"
  BY <1>3, CommandsAssumption
<1> HIDE DEF j
<1> QED BY <1>1, <1>3, <1>4, <1>5 DEF Disk!Store

LEMMA StillStores ==
  ASSUME Kept, Still
  PROVE  [Disk!Next]_Disk!bdVars
<1>1. host' = host /\ hostCard' = hostCard
  BY StillHost
<1>2. CASE media' = media
  BY <1>1, <1>2 DEF Disk!bdVars
<1>3. CASE media' # media
  <2>1. ~Interrupt /\ ~CardMoves /\ ~UNCHANGED vars
    BY <1>3 DEF Interrupt, BlockSent, DataSent, CswSent, StallWhenSent, CardMoves, InsertCard,
                RemoveCard, vars, sdVars
  <2>2. MainLoop
    BY <2>1 DEF Still, Device
  <2>3. CardEnds /\ ~task.read
    BY <1>3, <2>2, MainLoopKeeps DEF Kept
  <2>4. Reachable
    BY <1>3, <2>3 DEF CardEnds
  <2> QED BY <1>1, <2>3, <2>4, BlockStored DEF Disk!Next
<1> QED BY <1>2, <1>3

\* Every step of the device, its card and its host is one of the block device.
LEMMA StepDisk ==
  ASSUME Kept, [Next]_vars
  PROVE  [Disk!Next]_Disk!bdVars
<1>1. CASE Still
  BY <1>1, StillStores
<1>2. CASE Quiet
  <2>1. media' = media
    BY <1>2 DEF Quiet, HostReadsData, HostWritesBlock, BlockReceived, HostDataStalled,
                HostCswStalled, ClearHaltIn, ClearHaltOut, sdVars
  <2> QED BY <1>2, <2>1, QuietHost, AnswerKept DEF Kept, Disk!bdVars
<1>3. CASE GivesUp
  <2>1. media' = media
    BY <1>3 DEF GivesUp, HostCswRefused, HostResets, BulkReset, HostClearsIn, ClearHaltIn,
                HostOff, BusReset, sdVars
  <2>2. host'.cmd = host.cmd /\ hostCard' = hostCard
    BY <1>3, GivesUpHost DEF Kept
  <2>3. CASE HostOff
    <3>1. host'.answer = NoAnswer
      BY <2>3 DEF HostOff, Kept, Typed, IsHost
    <3> QED BY <2>1, <2>2, <3>1 DEF Disk!Take, Disk!Next, NoAnswer, Disk!NoAnswer
  <2>4. CASE HostCswRefused \/ HostResets \/ HostClearsIn
    BY <2>1, <2>2, <2>4, AnswerKept DEF Kept, Disk!bdVars
  <2> QED BY <1>3, <2>3, <2>4 DEF GivesUp
<1>4. CASE Renews
  <2>1. media' = media
    BY <1>4 DEF Renews, HostClearsOut, ClearHaltOut, HostConfigures, Configure, Unload, sdVars
  <2>2. /\ host'.cmd = NoCommand /\ host'.answer = NoAnswer /\ hostCard' = live
        /\ live \in Cards \cup {NoCard}
    BY <1>4, RenewsHost DEF Kept, SdTypeOK
  <2> QED BY <2>1, <2>2 DEF Disk!Forget, Disk!Next, NoAnswer, Disk!NoAnswer
<1>5. CASE HostTakes
  <2>1. media' = media
    BY <1>5 DEF HostTakes, sdVars
  <2>2. host'.cmd = host.cmd /\ host'.answer = NoAnswer /\ hostCard' = hostCard
    BY <1>5, TakesHost DEF Kept
  <2> QED BY <2>1, <2>2 DEF Disk!Take, Disk!Next, NoAnswer, Disk!NoAnswer
<1>6. CASE HostCommand
  <2>1. PICK c \in Commands, t \in Tags :
          /\ CbwReceived(c, t)
          /\ host' = [host EXCEPT !.st = DataStage(c, 0), !.cmd = c, !.tag = t]
    BY <1>6 DEF HostCommand
  <2>2. host.cmd = NoCommand /\ hostCard' = hostCard
    BY <1>6 DEF HostCommand, Kept, Commanded
  <2>3. host'.cmd = c /\ host'.answer = host.answer
    BY <2>1 DEF Kept, Typed, IsHost
  <2>4. media' = media
    BY <2>1 DEF CbwReceived, InvalidCbw, UnitReady, Information, ReadCapacity, StartStop,
                NoData, Transfer, TestUnitReady, Unload, sdVars
  <2> QED BY <2>2, <2>3, <2>4 DEF Disk!Submit, Disk!Next
<1>7. CASE HostReadsCsw
  BY <1>7, AnswerHonest DEF Disk!Next
<1> QED BY <1>1, <1>2, <1>3, <1>4, <1>5, <1>6, <1>7, NextParts

LEMMA InitDisk == Init => Disk!Init
  BY CardsAssumption DEF Init, SdInit, HostInit, Disk!Init, NoAnswer, Disk!NoAnswer

\* The interface is the block device that it promises to be: a read that passes
\* carries the sectors of the card that the host knows of, a write that passes has
\* stored all of them there, nothing else is ever written, and another card is
\* told by a failed command before anything passes on it, whatever is done to the
\* bus and the slot (udi_msc_sbc_trans, sd_mmc_usb_read_10, sd_mmc_usb_write_10).
THEOREM BlockDeviceCorrect == Spec => IsBlockDevice
<1>1. Kept /\ [Next]_vars => [Disk!Next]_Disk!bdVars
  BY StepDisk
<1> QED BY <1>1, SpecKept, InitDisk, PTL DEF Spec, IsBlockDevice, Disk!Spec

-----------------------------------------------------------------------------
\* Types.

Jobs == Transfers \cup Waiting \cup {"none"}

\* What fits in the banks of an endpoint.
Fills(P, n) == UNION {[1..m -> P] : m \in 0..n}

\* The endpoints whose banks hold a member of B.
Pipes(B) == [job : Jobs, halt : Halts, bank : B]

LEMMA MaxLenBounds == MaxLen \in Nat /\ \A c \in Commands : c.len <= MaxLen
<1> DEFINE L == {c.len : c \in Commands}
<1>1. \E m \in L : \A c \in Commands : c.len <= m
  BY SectorsAssumption
<1>2. L \subseteq Nat
  BY CommandsAssumption
<1>3. MaxLen \in L /\ \A c \in Commands : c.len <= MaxLen
  <2> HIDE DEF L
  <2>1. MaxLen = CHOOSE m \in L : \A c \in Commands : c.len <= m
    BY DEF MaxLen, L
  <2> QED BY <1>1, <2>1
<1> QED BY <1>2, <1>3

LEMMA FillsEmpty ==
  ASSUME NEW P, NEW n \in Nat PROVE <<>> \in Fills(P, n)
<1>1. <<>> \in [1..0 -> P] /\ 0 \in 0..n
  OBVIOUS
<1> QED BY <1>1 DEF Fills

LEMMA FillsSequence ==
  ASSUME NEW P, NEW n \in Nat, NEW s \in Seq(P), Len(s) \in 0..n
  PROVE  s \in Fills(P, n)
<1>1. s \in [1..Len(s) -> P]
  OBVIOUS
<1> QED BY <1>1 DEF Fills

LEMMA FillsAppend ==
  ASSUME NEW P, NEW n \in Nat, NEW b \in Fills(P, n), Len(b) < n, NEW p \in P
  PROVE  Append(b, p) \in Fills(P, n)
<1>1. PICK m \in 0..n : b \in [1..m -> P]
  BY DEF Fills
<1>2. b \in Seq(P) /\ Len(b) = m
  BY <1>1
<1>3. Append(b, p) \in Seq(P) /\ Len(Append(b, p)) = m + 1
  BY <1>2
<1>4. m + 1 \in 0..n
  BY <1>2
<1> QED BY <1>3, <1>4, FillsSequence

LEMMA FillsTail ==
  ASSUME NEW P, NEW n \in Nat, NEW b \in Fills(P, n), b # <<>>
  PROVE  Tail(b) \in Fills(P, n)
<1>1. PICK m \in 0..n : b \in [1..m -> P]
  BY DEF Fills
<1>2. b \in Seq(P) /\ Len(b) = m /\ m > 0
  BY <1>1
<1>3. Tail(b) \in Seq(P) /\ Len(Tail(b)) = m - 1
  BY <1>2
<1>4. m - 1 \in 0..n
  BY <1>2
<1> QED BY <1>3, <1>4, FillsSequence

\* The functions of the driver and of the class keep an endpoint one.
LEMMA PipeCalls ==
  ASSUME NEW B, <<>> \in B, NEW e \in Pipes(B)
  PROVE  /\ Closed \in Pipes(B) /\ Opened \in Pipes(B)
         /\ \A j \in Jobs : Run(e, j) \in Pipes(B) /\ WaitClear(e, j) \in Pipes(B)
         /\ Done(e) \in Pipes(B) /\ SetHalt(e) \in Pipes(B)
         /\ Unhalted(e) \in Pipes(B) /\ AbortEp(e) \in Pipes(B)
         /\ [e EXCEPT !.halt = "yes"] \in Pipes(B)
         /\ \A b \in B : [Done(e) EXCEPT !.bank = b] \in Pipes(B)
         /\ \A b \in B : [e EXCEPT !.bank = b] \in Pipes(B)
<1>1. "none" \in Jobs
  BY DEF Jobs
<1>2. Closed \in Pipes(B) /\ Opened \in Pipes(B)
  BY <1>1 DEF Pipes, Closed, Opened, Halts
<1>3. \A j \in Jobs : Run(e, j) \in Pipes(B) /\ WaitClear(e, j) \in Pipes(B)
  BY DEF Pipes, Run, WaitClear
<1>4. Done(e) \in Pipes(B) /\ SetHalt(e) \in Pipes(B) /\ Unhalted(e) \in Pipes(B)
  BY <1>1 DEF Pipes, Done, SetHalt, Unhalted, Halts
<1>5. AbortEp(e) \in Pipes(B)
  BY <1>1 DEF Pipes, AbortEp, Aborted
<1>6. [e EXCEPT !.halt = "yes"] \in Pipes(B)
  BY DEF Pipes, Halts
<1>7. \A b \in B : [Done(e) EXCEPT !.bank = b] \in Pipes(B)
  BY <1>1 DEF Pipes, Done
<1>8. \A b \in B : [e EXCEPT !.bank = b] \in Pipes(B)
  BY DEF Pipes
<1> QED BY <1>2, <1>3, <1>4, <1>5, <1>6, <1>7, <1>8

LEMMA PipeClass ==
  ASSUME NEW B, <<>> \in B, NEW e \in Pipes(B)
  PROVE  /\ CbwWait(e) \in Pipes(B) /\ CswSend(e) \in Pipes(B)
         /\ \A c, r : StallIn(e, c, r) \in Pipes(B) /\ StallOut(e, c, r) \in Pipes(B)
         /\ HaltCleared(e) \in Pipes(B)
<1>1. {"cbw", "csw", "wait_cbw", "wait_csw", "wait_invalid"} \subseteq Jobs
  BY JobNamesAssumption DEF Jobs
<1>2. \A x \in Pipes(B) : CbwWait(x) \in Pipes(B) /\ CswSend(x) \in Pipes(B)
  BY <1>1, PipeCalls DEF CbwWait, CswSend, RunOrWait
<1>3. \A c, r : StallIn(e, c, r) \in Pipes(B) /\ StallOut(e, c, r) \in Pipes(B)
  BY PipeCalls DEF StallIn, StallOut
<1>4. Unhalted(e) \in Pipes(B)
  BY PipeCalls
<1>5. SetHalt(Unhalted(e)) \in Pipes(B)
  BY <1>4, PipeCalls
<1>6. WaitClear(SetHalt(Unhalted(e)), "wait_invalid") \in Pipes(B)
  BY <1>1, <1>5, PipeCalls
<1>7. HaltCleared(e) \in Pipes(B)
  BY <1>2, <1>4, <1>6 DEF HaltCleared
<1> QED BY <1>2, <1>3, <1>7

\* The wrappers and the sense, the flags, the place in the pipeline, the endpoints.
Wrapped ==
    /\ csw \in [tag : Tags \cup {NoTag}, residue : 0..MaxLen]
    /\ cbw \in [c : Commands \cup {NoCommand}, tag : Tags \cup {NoTag}]
    /\ sense \in Senses

Flags == {cbwInvalid, transReq, ackTrans, abortTrans, resetTrans, enabled} \subseteq BOOLEAN

InPackets == Fills(Packets(MaxLen), Banks)
OutPackets == Fills({}, 0)

Piped == inEp \in Pipes(InPackets) /\ outEp \in Pipes(OutPackets)

LEMMA SenseIsOne == \A s : SenseOf(s) \in Senses
  BY DEF SenseOf, Senses

LEMMA WrappedFinish ==
  ASSUME Wrapped, NEW c \in Commands, NEW t \in Tags, NEW s \in Senses,
         Finish(c, t, s), cbw' = [c |-> c, tag |-> t]
  PROVE  Wrapped'
<1>1. c.len \in 0..MaxLen
  BY MaxLenBounds, CommandsAssumption
<1> QED BY <1>1 DEF Finish, Wrapped

LEMMA WrappedCommand ==
  ASSUME Wrapped, NEW c \in Commands, NEW t \in Tags, CbwReceived(c, t)
  PROVE  Wrapped'
<1>1. c.len \in 0..MaxLen /\ cbw' = [c |-> c, tag |-> t]
  BY MaxLenBounds, CommandsAssumption DEF CbwReceived
<1>2. [csw EXCEPT !.residue = c.len] \in [tag : Tags \cup {NoTag}, residue : 0..MaxLen]
  BY <1>1 DEF Wrapped
<1>3. \A s \in Senses : Finish(c, t, s) => Wrapped'
  BY <1>1, WrappedFinish
<1>4. {"none", "cdb", "command", "hardware"} \subseteq Senses
  BY DEF Senses
<1>5. DataSend(c, t) => Wrapped'
  BY <1>1, <1>2, <1>3, <1>4 DEF DataSend, Wrapped
<1>6. CASE InvalidCbw(c) \/ Transfer(c, t)
  BY <1>1, <1>2, <1>3, <1>4, <1>6 DEF InvalidCbw, Transfer, Wrapped
<1>7. CASE UnitReady(c, t)
  BY <1>3, <1>7, SenseIsOne DEF UnitReady
<1>8. CASE ReadCapacity(c, t)
  <2>1. DataSend(c, t) \/ Finish(c, t, "cdb") \/ \E x : Finish(c, t, SenseOf(x))
    BY <1>8 DEF ReadCapacity
  <2> QED BY <2>1, <1>3, <1>4, <1>5, SenseIsOne
<1>9. CASE Information(c, t) \/ StartStop(c, t) \/ NoData(c, t)
  BY <1>3, <1>4, <1>5, <1>9 DEF Information, StartStop, NoData
<1> QED BY <1>6, <1>7, <1>8, <1>9 DEF CbwReceived

\* The length of a command bounds its residue, which is not counted below zero.
LEMMA ResidueLeft ==
  ASSUME Kept, Wrapped
  PROVE  /\ DataSent => csw.residue - 1 \in 0..MaxLen
         /\ BlockAcked => csw.residue - 2 \in 0..MaxLen
<1>1. csw.residue \in 0..MaxLen /\ MaxLen \in Nat
  BY MaxLenBounds DEF Wrapped
<1>2. ASSUME DataSent PROVE csw.residue > 0
  <2>1. enabled /\ inEp.job = "data"
    BY <1>2, InterruptOn DEF Interrupt, DataSent, CanLoad, Kept
  <2>2. SendsData
    BY <2>1, AtJob DEF Kept
  <2> QED BY <2>2 DEF SendsData
<1>3. ASSUME BlockAcked PROVE csw.residue - 2 >= 0
  <2>1. /\ host.cmd.len - csw.residue \in 0..2 * (task.n - 1)
        /\ host.cmd.len \in Nat /\ host.cmd.len >= 2 * task.n /\ task.n \in Nat
    BY <1>3, WorkFacts DEF BlockAcked, Kept
  <2> HIDE DEF Kept
  <2> QED BY <1>1, <2>1
<1> QED BY <1>1, <1>2, <1>3

LEMMA StepWrapped ==
  ASSUME Kept, Wrapped, [Next]_vars
  PROVE  Wrapped'
<1>1. CASE UNCHANGED <<csw, cbw, sense>>
  BY <1>1 DEF Wrapped
<1>2. 0 \in 0..MaxLen /\ "none" \in Senses
  BY MaxLenBounds DEF Senses
<1>3. CASE HostCommand
  BY <1>3, WrappedCommand DEF HostCommand
<1>4. CASE DataSent
  BY <1>2, <1>4, ResidueLeft DEF DataSent, Wrapped
<1>5. CASE CswSent \/ HostConfigures
  <2>1. cbw' = NoCbw /\ csw' = NoCsw /\ sense' = sense
    BY <1>5 DEF CswSent, HostConfigures, Configure
  <2> QED BY <1>2, <2>1 DEF NoCsw, NoCbw, Wrapped
<1>6. CASE BlockAcked
  BY <1>6, ResidueLeft DEF BlockAcked, Wrapped
<1>7. CASE TransStatus
  <2>1. sense' \in Senses /\ cbw' = cbw /\ csw' = [csw EXCEPT !.tag = cbw.tag]
    BY <1>7, SenseIsOne DEF TransStatus
  <2> QED BY <2>1 DEF Wrapped
<1>8. BlockSent \/ StallWhenSent \/ TransSeen \/ TransBegin \/ TransOpen \/ CardStarts
        \/ CardEnds \/ BlockStarts \/ BlockFails \/ TransReset \/ TransSend
        => UNCHANGED <<csw, cbw, sense>>
  BY DEF BlockSent, StallWhenSent, TransSeen, TransBegin, TransOpen, CardStarts, CardEnds,
         BlockStarts, BlockFails, TransReset, TransSend
<1>9. CardMoves \/ Quiet \/ HostTakes \/ HostReadsCsw \/ UNCHANGED vars
        => UNCHANGED <<csw, cbw, sense>>
  BY DEF CardMoves, Quiet, HostReadsData, HostWritesBlock, BlockReceived, HostDataStalled,
         HostCswStalled, ClearHaltIn, ClearHaltOut, HostTakes, HostReadsCsw, vars, mscVars
<1>10. GivesUp \/ HostClearsOut => UNCHANGED <<csw, cbw, sense>>
  BY DEF GivesUp, HostCswRefused, HostResets, BulkReset, HostClearsIn, HostOff, BusReset,
         HostClearsOut, ClearHaltIn, ClearHaltOut, mscVars
<1> QED
  BY <1>1, <1>3, <1>4, <1>5, <1>6, <1>7, <1>8, <1>9, <1>10, NextParts
  DEF Still, Device, Interrupt, MainLoop, Renews

LEMMA StepFlags ==
  ASSUME Flags, [Next]_vars
  PROVE  Flags'
<1>1. CASE UNCHANGED flagVars
  BY <1>1 DEF Flags, flagVars
<1>2. CASE HostCommand
  <2>1. PICK c \in Commands, t \in Tags : CbwReceived(c, t)
    BY <1>2 DEF HostCommand
  <2>2. CASE InvalidCbw(c)
    BY <2>2 DEF InvalidCbw, Flags
  <2>3. \A s : Finish(c, t, s) => UNCHANGED flagVars
    BY DEF Finish
  <2>4. DataSend(c, t) => UNCHANGED flagVars
    BY <2>3 DEF DataSend, flagVars
  <2>5. CASE Transfer(c, t)
    BY <1>1, <2>3, <2>5 DEF Transfer, Flags
  <2>6. UnitReady(c, t) \/ Information(c, t) \/ ReadCapacity(c, t) \/ StartStop(c, t)
          \/ NoData(c, t) => UNCHANGED flagVars
    BY <2>3, <2>4 DEF UnitReady, Information, ReadCapacity, StartStop, NoData
  <2> QED BY <1>1, <2>1, <2>2, <2>5, <2>6 DEF CbwReceived
<1>3. CASE HostResets \/ HostOff \/ HostConfigures
  BY <1>3 DEF HostResets, BulkReset, HostOff, BusReset, HostConfigures, Configure, Flags
<1>4. CASE BlockSent \/ HostWritesBlock
  BY <1>4 DEF BlockSent, HostWritesBlock, BlockReceived, Flags
<1>5. CASE TransBegin \/ BlockStarts \/ TransReset
  BY <1>5 DEF TransBegin, BlockStarts, TransReset, Flags
<1>6. DataSent \/ CswSent \/ StallWhenSent \/ TransSeen \/ TransOpen \/ CardStarts \/ CardEnds
        \/ BlockFails \/ BlockAcked \/ TransStatus \/ TransSend => UNCHANGED flagVars
  BY DEF DataSent, CswSent, StallWhenSent, TransSeen, TransOpen, CardStarts, CardEnds,
         BlockFails, BlockAcked, TransStatus, TransSend
<1>7. CardMoves \/ HostTakes \/ HostReadsCsw \/ HostReadsData \/ HostDataStalled
        \/ HostCswStalled \/ UNCHANGED vars => UNCHANGED flagVars
  BY DEF CardMoves, HostTakes, HostReadsCsw, HostReadsData, HostDataStalled, HostCswStalled,
         ClearHaltIn, ClearHaltOut, vars, mscVars
<1>8. HostCswRefused \/ HostClearsIn \/ HostClearsOut => UNCHANGED flagVars
  BY DEF HostCswRefused, HostClearsIn, HostClearsOut, ClearHaltIn, ClearHaltOut, mscVars
<1> QED
  BY <1>1, <1>2, <1>3, <1>4, <1>5, <1>6, <1>7, <1>8, NextParts
  DEF Still, Device, Interrupt, MainLoop, Renews, GivesUp, Quiet

\* The main loop is at the beginning of a transfer only when it has just seen it.
LEMMA BeginsOnce ==
  ASSUME Typed, MainLoop, ~TransSeen
  PROVE  task'.pc # "begin"
<1>1. IsPlace(task)
  BY DEF Typed, IsTask
<1>2. \A t : IsPlace(t) => /\ BeginStep(t).pc # "begin" /\ EndCard(t).pc # "begin"
                           /\ \A s : Failed(t, s).pc # "begin"
                           /\ [t EXCEPT !.pc = "done", !.status = "good"].pc = "done"
                           /\ [t EXCEPT !.pc = "wait"].pc = "wait"
                           /\ IsPlace([t EXCEPT !.k = @ - 1])
  BY DEF IsPlace, BeginStep, EndCard, Failed
<1>3. EndStep(task).pc # "begin"
  BY <1>1, <1>2 DEF EndStep
<1>4. EndUsb(task).pc # "begin"
  BY <1>1, <1>2, <1>3 DEF EndUsb
<1>5. CASE TransOpen \/ CardStarts \/ CardEnds \/ BlockFails \/ BlockAcked
  <2>1. \/ task' \in {BeginStep(task), EndCard(task), EndStep(task), EndUsb(task)}
        \/ \E s : task' = Failed(task, s)
    BY <1>5 DEF TransOpen, CardStarts, CardEnds, BlockFails, BlockAcked
  <2>2. BeginStep(task).pc # "begin" /\ EndCard(task).pc # "begin"
    BY <1>1, <1>2
  <2>3. \A s : Failed(task, s).pc # "begin"
    BY <1>1, <1>2
  <2> QED BY <1>3, <1>4, <2>1, <2>2, <2>3, Zenon
<1>6. CASE TransBegin
  <2>1. task' = [task EXCEPT !.pc = "open", !.read = cbw.c.op = "read", !.a = cbw.c.a,
                             !.n = cbw.c.n, !.k = cbw.c.n]
    BY <1>6 DEF TransBegin
  <2>2. task'.pc = "open"
    BY <1>1, <2>1, Zenon DEF IsPlace
  <2> QED BY <2>2
<1>8. CASE BlockStarts \/ TransStatus
  BY <1>1, <1>8 DEF BlockStarts, TransStatus, IsPlace
<1>7. CASE TransReset \/ TransSend
  BY <1>7 DEF TransReset, TransSend, Idle
<1> QED BY <1>5, <1>6, <1>7, <1>8 DEF MainLoop

LEMMA StepPlace ==
  ASSUME Kept, Transport', Working', task.k \in 0..task.n, [Next]_vars
  PROVE  task'.k \in 0..task'.n
<1>1. CASE task' = task
  BY <1>1
<1>2. CASE task'.pc = "idle"
  <2>1. task' = Idle
    BY <1>2 DEF Transport, FlagsAgree
  <2> QED BY <2>1 DEF Idle
<1>3. CASE task'.pc \notin {"idle", "begin"}
  BY <1>3 DEF Working
<1>4. CASE TransSeen
  <2>1. task' = [task EXCEPT !.pc = "begin"] /\ IsPlace(task)
    BY <1>4 DEF TransSeen, Kept, Typed, IsTask
  <2>2. task'.k = task.k /\ task'.n = task.n
    BY <2>1 DEF IsPlace
  <2> QED BY <2>2
<1>5. CASE MainLoop /\ ~TransSeen
  <2>1. task'.pc # "begin"
    BY <1>5, BeginsOnce DEF Kept
  <2> QED BY <1>2, <1>3, <2>1
<1>6. Interrupt \/ CardMoves \/ Quiet \/ HostTakes \/ HostCommand \/ HostReadsCsw
        \/ UNCHANGED vars => task' = task
  BY DEF Interrupt, BlockSent, DataSent, CswSent, StallWhenSent, CardMoves, Quiet,
         HostReadsData, HostWritesBlock, BlockReceived, HostDataStalled, HostCswStalled,
         ClearHaltIn, ClearHaltOut, HostTakes, HostCommand, CbwReceived, HostReadsCsw, vars,
         mscVars, taskVars
<1>7. GivesUp \/ Renews => task' = task
  BY DEF GivesUp, HostCswRefused, HostResets, BulkReset, HostClearsIn, HostOff, BusReset,
         Renews, HostClearsOut, HostConfigures, Configure, ClearHaltIn, ClearHaltOut, mscVars,
         taskVars
<1> QED BY <1>1, <1>4, <1>5, <1>6, <1>7, NextParts DEF Still, Device

\* The packets that the DMA puts in the banks.
LEMMA PipedLoads ==
  ASSUME Kept, Wrapped, Piped, NEW p \in Packets(MaxLen), Len(inEp.bank) < Banks
  PROVE  Loaded(inEp, p) \in Pipes(InPackets)
<1>1. inEp.bank \in InPackets /\ Banks \in Nat
  BY DEF Piped, Pipes, Banks
<1>2. Append(inEp.bank, p) \in InPackets
  BY <1>1, FillsAppend DEF InPackets
<1>3. <<>> \in InPackets
  BY <1>1, FillsEmpty DEF InPackets
<1>4. [Done(inEp) EXCEPT !.bank = Append(inEp.bank, p)] \in Pipes(InPackets)
  BY <1>2, <1>3, PipeCalls DEF Piped
<1>5. Done(inEp).bank = inEp.bank
  BY DEF Piped, Pipes, Done
<1> QED BY <1>4, <1>5 DEF Loaded

LEMMA StepInPipe ==
  ASSUME Kept, Wrapped, Piped, [Next]_vars
  PROVE  inEp' \in Pipes(InPackets)
<1> DEFINE B == InPackets
<1>1. <<>> \in B /\ inEp \in Pipes(B)
  BY FillsEmpty DEF Piped, InPackets, Banks
<1>2. {"none", "cbw", "block", "data", "csw", "wait_cbw", "wait_csw", "wait_invalid"} \subseteq Jobs
  BY JobNamesAssumption DEF Jobs
<1> HIDE DEF B
<1>3. /\ Opened \in Pipes(B) /\ Closed \in Pipes(B) /\ AbortEp(inEp) \in Pipes(B)
      /\ SetHalt(inEp) \in Pipes(B) /\ [inEp EXCEPT !.halt = "yes"] \in Pipes(B)
      /\ \A j \in Jobs : Run(inEp, j) \in Pipes(B)
      /\ \A b \in B : [inEp EXCEPT !.bank = b] \in Pipes(B)
  BY <1>1, PipeCalls
<1>4. HaltCleared(inEp) \in Pipes(B) /\ CswSend(inEp) \in Pipes(B)
  BY <1>1, PipeClass
<1>5. \A c, r : StallIn(inEp, c, r) \in Pipes(B)
  BY <1>1, PipeClass
<1>6. \A c, r : CswSend(StallIn(inEp, c, r)) \in Pipes(B)
  BY <1>1, <1>5, PipeClass
<1>7. CASE inEp' = inEp
  BY <1>1, <1>7 DEF B
<1>8. CASE HostCommand
  <2>1. PICK c \in Commands, t \in Tags : CbwReceived(c, t)
    BY <1>8 DEF HostCommand
  <2>2. \A s : Finish(c, t, s) => inEp' \in Pipes(B)
    BY <1>6 DEF Finish
  <2>3. DataSend(c, t) => inEp' \in Pipes(B)
    BY <1>2, <1>3, <2>2 DEF DataSend
  <2>4. Transfer(c, t) => inEp' \in Pipes(B)
    BY <1>1, <2>2 DEF Transfer
  <2>5. WaitClear(SetHalt(inEp), "wait_invalid") \in Pipes(B)
    BY <1>1, <1>2, <1>3, PipeCalls
  <2>6. InvalidCbw(c) => inEp' \in Pipes(B)
    BY <2>5 DEF InvalidCbw
  <2>7. inEp' \in Pipes(B)
    BY <2>1, <2>2, <2>3, <2>4, <2>6
    DEF CbwReceived, UnitReady, Information, ReadCapacity, StartStop, NoData
  <2> QED BY <2>7 DEF B
<1>9. CASE BlockSent \/ DataSent \/ CswSent
  <2>1. \E p \in Packets(MaxLen) :
          /\ Len(inEp.bank) < Banks
          /\ \/ inEp' = Loaded(inEp, p)
             \/ \E c, r : inEp' = CswSend(StallIn(Loaded(inEp, p), c, r))
    <3>1. CASE BlockSent
      <4>1. sectors[UsbBuffer(task.k)] \in Data \cup {Junk}
        <5>1. sectors \in [{0, 1} -> Data \cup {Junk}] /\ UsbBuffer(task.k) \in {0, 1}
          BY DEF Kept, IsSectors, UsbBuffer
        <5> QED BY <5>1
      <4>2. [kind |-> "block", v |-> sectors[UsbBuffer(task.k)]] \in Packets(MaxLen)
        BY <4>1 DEF Packets
      <4> QED BY <3>1, <4>2 DEF BlockSent, CanLoad
    <3>2. CASE DataSent
      <4>1. \A v \in Senses \cup {"info"} : [kind |-> "data", v |-> v] \in Packets(MaxLen)
        BY DEF Packets
      <4> QED BY <3>2, <4>1 DEF DataSent, CanLoad, Wrapped
    <3>3. CASE CswSent
      <4>1. enabled /\ inEp.job = "csw"
        BY <3>3, InterruptOn DEF Interrupt, CswSent, CanLoad, Kept
      <4>2. csw.tag = host.tag /\ host.tag \in Tags
        BY <4>1, AtJob DEF Kept, Commanded, InCommand, SendsCsw
      <4>3. [kind |-> "csw", tag |-> csw.tag, residue |-> csw.residue, pass |-> sense = "none"]
              \in Packets(MaxLen)
        BY <4>2 DEF Packets, Wrapped
      <4> QED BY <3>3, <4>3 DEF CswSent, CanLoad
    <3> QED BY <1>9, <3>1, <3>2, <3>3
  <2>2. PICK p \in Packets(MaxLen) :
          /\ Len(inEp.bank) < Banks
          /\ \/ inEp' = Loaded(inEp, p)
             \/ \E c, r : inEp' = CswSend(StallIn(Loaded(inEp, p), c, r))
    BY <2>1
  <2>3. Loaded(inEp, p) \in Pipes(B)
    BY <2>2, PipedLoads DEF B
  <2>4. \A c, r : StallIn(Loaded(inEp, p), c, r) \in Pipes(B)
    BY <1>1, <2>3, PipeClass
  <2>5. \A c, r : CswSend(StallIn(Loaded(inEp, p), c, r)) \in Pipes(B)
    BY <1>1, <2>4, PipeClass
  <2> QED BY <2>2, <2>3, <2>5 DEF B
<1>10. CASE HostReadsData \/ HostReadsCsw
  <2>1. inEp.bank # <<>> /\ inEp' = [inEp EXCEPT !.bank = Tail(inEp.bank)]
    BY <1>10 DEF HostReadsData, HostReadsCsw, TakeIn, InPacket
  <2>2. inEp.bank \in B
    BY <1>1 DEF Pipes
  <2>3. Tail(inEp.bank) \in B
    BY <2>1, <2>2, FillsTail DEF B, InPackets, Banks
  <2> QED BY <1>3, <2>1, <2>3 DEF B
<1>11. CASE HostDataStalled \/ HostCswStalled \/ HostClearsIn \/ HostClearsOut
  <2>1. inEp' = inEp \/ inEp' = HaltCleared(inEp)
    BY <1>11 DEF HostDataStalled, HostCswStalled, HostClearsIn, HostClearsOut, ClearHaltIn,
                 ClearHaltOut
  <2> QED BY <1>1, <1>4, <2>1 DEF B
<1>12. CASE HostResets \/ HostOff \/ HostConfigures
  <2>1. inEp' \in {AbortEp(inEp), Closed, Opened}
    BY <1>12 DEF HostResets, HostOff, HostConfigures, BulkReset, BusReset, Configure
  <2> QED BY <1>3, <2>1 DEF B
<1>13. CASE BlockStarts \/ TransStatus \/ TransSend \/ StallWhenSent
  <2>1. \/ inEp' \in {inEp, Run(inEp, "block"), CswSend(inEp), [inEp EXCEPT !.halt = "yes"]}
        \/ \E c, r : inEp' = StallIn(inEp, c, r)
    BY <1>13 DEF BlockStarts, TransStatus, TransSend, StallWhenSent
  <2> QED BY <1>1, <1>2, <1>3, <1>4, <1>5, <2>1 DEF B
<1>14. TransSeen \/ TransBegin \/ TransOpen \/ CardStarts \/ CardEnds \/ BlockFails
         \/ BlockAcked \/ TransReset => inEp' = inEp
  BY DEF TransSeen, TransBegin, TransOpen, CardStarts, CardEnds, BlockFails, BlockAcked,
         TransReset
<1>15. HostTakes \/ HostWritesBlock \/ HostCswRefused \/ CardMoves \/ UNCHANGED vars
         => inEp' = inEp
  BY DEF HostTakes, HostWritesBlock, HostCswRefused, CardMoves, BlockReceived, vars, mscVars
<1> QED
  BY <1>7, <1>8, <1>9, <1>10, <1>11, <1>12, <1>13, <1>14, <1>15
  DEF Next, Device, MainLoop, Interrupt, HostProceeds

LEMMA StepOutPipe ==
  ASSUME Piped, [Next]_vars
  PROVE  outEp' \in Pipes(OutPackets)
<1> DEFINE B == OutPackets
<1>1. <<>> \in B /\ outEp \in Pipes(B)
  BY FillsEmpty DEF Piped, OutPackets
<1>2. {"none", "cbw", "block", "data", "csw", "wait_cbw", "wait_csw", "wait_invalid"} \subseteq Jobs
  BY JobNamesAssumption DEF Jobs
<1> HIDE DEF B
<1>3. /\ Opened \in Pipes(B) /\ Closed \in Pipes(B) /\ AbortEp(outEp) \in Pipes(B)
      /\ Done(outEp) \in Pipes(B) /\ \A j \in Jobs : Run(outEp, j) \in Pipes(B)
  BY <1>1, PipeCalls
<1>4. /\ HaltCleared(outEp) \in Pipes(B) /\ CbwWait(outEp) \in Pipes(B)
      /\ \A c, r : StallOut(outEp, c, r) \in Pipes(B)
  BY <1>1, PipeClass
<1>5. CASE outEp' = outEp
  BY <1>1, <1>5 DEF B
<1>6. CASE HostCommand
  <2>1. PICK c \in Commands, t \in Tags : CbwReceived(c, t)
    BY <1>6 DEF HostCommand
  <2>2. \A s : Finish(c, t, s) => outEp' \in Pipes(B)
    BY <1>1, <1>3, PipeClass DEF Finish
  <2>3. DataSend(c, t) => outEp' \in Pipes(B)
    BY <1>3, <2>2 DEF DataSend
  <2>4. Transfer(c, t) => outEp' \in Pipes(B)
    BY <1>3, <2>2 DEF Transfer
  <2>5. SetHalt(Done(outEp)) \in Pipes(B)
    BY <1>1, <1>3, PipeCalls
  <2>6. InvalidCbw(c) => outEp' \in Pipes(B)
    BY <1>1, <1>2, <2>5, PipeCalls DEF InvalidCbw
  <2>7. outEp' \in Pipes(B)
    BY <2>1, <2>2, <2>3, <2>4, <2>6
    DEF CbwReceived, UnitReady, Information, ReadCapacity, StartStop, NoData
  <2> QED BY <2>7 DEF B
<1>7. CASE DataSent \/ CswSent \/ HostWritesBlock \/ BlockStarts \/ TransStatus
  <2>1. \/ outEp' \in {outEp, Done(outEp), CbwWait(outEp), Run(outEp, "block")}
        \/ \E c, r : outEp' = StallOut(outEp, c, r)
    BY <1>7 DEF DataSent, CswSent, HostWritesBlock, BlockReceived, BlockStarts, TransStatus
  <2> QED BY <1>1, <1>2, <1>3, <1>4, <2>1 DEF B
<1>8. CASE HostDataStalled \/ HostCswStalled \/ HostClearsIn \/ HostClearsOut
  <2>1. outEp' = outEp \/ outEp' = HaltCleared(outEp)
    BY <1>8 DEF HostDataStalled, HostCswStalled, HostClearsIn, HostClearsOut, ClearHaltIn,
                ClearHaltOut
  <2> QED BY <1>1, <1>4, <2>1 DEF B
<1>9. CASE HostResets \/ HostOff \/ HostConfigures
  <2>1. CbwWait(AbortEp(outEp)) \in Pipes(B) /\ CbwWait(Opened) \in Pipes(B)
    BY <1>1, <1>3, PipeClass
  <2> QED BY <1>3, <1>9, <2>1 DEF HostResets, HostOff, HostConfigures, BulkReset, BusReset,
                                  Configure, B
<1>10. TransSeen \/ TransBegin \/ TransOpen \/ CardStarts \/ CardEnds \/ BlockFails
         \/ BlockAcked \/ TransReset \/ TransSend \/ BlockSent \/ StallWhenSent
         => outEp' = outEp
  BY DEF TransSeen, TransBegin, TransOpen, CardStarts, CardEnds, BlockFails, BlockAcked,
         TransReset, TransSend, BlockSent, StallWhenSent
<1>11. HostTakes \/ HostReadsData \/ HostReadsCsw \/ HostCswRefused \/ CardMoves
         \/ UNCHANGED vars => outEp' = outEp
  BY DEF HostTakes, HostReadsData, HostReadsCsw, HostCswRefused, CardMoves, vars, mscVars
<1> QED
  BY <1>5, <1>6, <1>7, <1>8, <1>9, <1>10, <1>11
  DEF Next, Device, MainLoop, Interrupt, HostProceeds

TypedAll ==
    /\ Kept /\ Wrapped /\ Flags /\ Piped
    /\ task.k \in 0..task.n /\ hostCard \in Cards \cup {NoCard}

LEMMA InitTypedAll == Init => TypedAll
<1> SUFFICES ASSUME Init PROVE TypedAll
  OBVIOUS
<1>1. Wrapped
  BY MaxLenBounds DEF Init, MscInit, NoCsw, NoCbw, Wrapped, Senses
<1>2. Flags
  BY DEF Init, MscInit, Flags
<1>3. Piped
  <2>1. <<>> \in InPackets /\ <<>> \in OutPackets
    BY FillsEmpty DEF InPackets, OutPackets, Banks
  <2> QED BY <2>1 DEF Init, MscInit, Piped, Pipes, Jobs, Closed, Halts
<1>4. task.k \in 0..task.n /\ hostCard \in Cards \cup {NoCard}
  BY DEF Init, MscInit, HostInit, Idle
<1> QED BY <1>1, <1>2, <1>3, <1>4, InitKept DEF TypedAll

LEMMA StepTypedAll == TypedAll /\ Kept' /\ [Next]_vars => TypedAll'
<1> SUFFICES ASSUME TypedAll, Kept', [Next]_vars PROVE TypedAll'
  OBVIOUS
<1>1. Kept /\ Wrapped /\ Flags /\ Piped
  BY DEF TypedAll
<1>2. Wrapped' /\ Flags'
  BY <1>1, StepWrapped, StepFlags
<1>3. Piped'
  BY <1>1, StepInPipe, StepOutPipe DEF Piped
<1>4. task'.k \in 0..task'.n
  BY <1>1, StepPlace DEF TypedAll, Kept
<1>5. hostCard' \in Cards \cup {NoCard}
  <2>1. hostCard' \in {hostCard, live}
    <3>1. HostCommand => hostCard' = hostCard
      BY DEF HostCommand
    <3> QED BY <1>1, <3>1, NextParts, StillHost, QuietHost, GivesUpHost, RenewsHost, TakesHost,
               TakenHost DEF Kept
  <2> QED BY <2>1 DEF TypedAll, Kept, SdTypeOK
<1> QED BY <1>2, <1>3, <1>4, <1>5 DEF TypedAll

\* Every variable keeps its type: the residue never goes below zero or above the
\* longest command, an endpoint never has more packets than banks, and a packet or a
\* wrapper never holds anything but what the class writes there.
THEOREM TypeCorrect == Spec => []TypeOK
<1>1. TypedAll => TypeOK
  <2> SUFFICES ASSUME TypedAll PROVE TypeOK
    OBVIOUS
  <2>1. Wrapped /\ Flags /\ task.k \in 0..task.n /\ hostCard \in Cards \cup {NoCard}
    BY DEF TypedAll
  <2>2. /\ SdTypeOK /\ sectors \in [{0, 1} -> Data \cup {Junk}]
        /\ host.st \in HostStates /\ host.cmd \in Commands \cup {NoCommand}
    BY DEF TypedAll, Kept, IsSectors, Typed, IsHost
  <2>3. /\ inEp \in Endpoints(Packets(MaxLen), Banks)
        /\ outEp \in Endpoints({}, 0)
    BY DEF TypedAll, Piped, Pipes, InPackets, OutPackets, Fills, Endpoints, Jobs
  <2> QED BY <2>1, <2>2, <2>3 DEF Wrapped, Flags, TypeOK
<1> QED BY <1>1, SpecKept, InitTypedAll, StepTypedAll, PTL DEF Spec
=============================================================================
