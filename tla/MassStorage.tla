---------------------------- MODULE MassStorage ----------------------------
(***************************************************************************)
(* The mass storage interface with a host that follows the bulk-only       *)
(* transport: a command, its data until the length is reached, a short     *)
(* packet or a stall ends it, then the status; the stall of a data phase   *)
(* is cleared, the status is asked for a second time after a stall, and    *)
(* whatever else goes wrong is answered by a reset recovery.               *)
(*                                                                         *)
(* The bus may be reset and a card be removed or inserted at any moment.   *)
(* EnumerationIsSlow: the host needs longer to configure the device than   *)
(* the main loop to notice that its transfer is over.                      *)
(***************************************************************************)
EXTENDS UdiMsc

\* A command block has an operation, a direction, the length the host expects
\* and the sectors the device is to move, at least one of them in a transfer.
ASSUME CommandsAssumption ==
    /\ NoCommand \notin Commands
    /\ \A c \in Commands :
         /\ c.in \in BOOLEAN /\ c.len \in Nat /\ c.n \in Nat
         /\ c.op \in {"read", "write"} => c.n > 0

\* A length has 32 bits, so one command asks for the most.  A host asks for
\* sectors that the card has, and a block of a write has contents.
ASSUME SectorsAssumption ==
    /\ \E c \in Commands : \A d \in Commands : d.len <= c.len
    /\ \A c \in Commands : c.op \in {"read", "write"} =>
         /\ c.a \in Nat
         /\ \A i \in 1..c.n :
              /\ c.a + i - 1 \in Blocks
              /\ c.op = "write" => c.data[i] \in Data

VARIABLES
    host,     \* the host's side of the transport
    hostCard  \* the card that the host knows of

vars == <<sdVars, mscVars, host, hostCard>>

\* Stages of a command as the host sees it.
HostStates == {"off", "done", "idle", "data", "csw", "recover", "clearIn", "clearOut"}

NoAnswer == [pass |-> FALSE, data |-> <<>>]

\* cmd is the command that is out, with its tag; moved counts the units of its
\* data phase and got keeps the sectors that were read.
HostInit ==
    /\ host = [st |-> "off", cmd |-> NoCommand, tag |-> NoTag,
               moved |-> 0, got |-> <<>>, retried |-> FALSE, answer |-> NoAnswer]
    /\ hostCard = NoCard

Goto(s) == host' = [host EXCEPT !.st = s]

\* The command is over: its sense will tell the host which card there is.
Conclude(pass, s) ==
    /\ host' = [host EXCEPT !.st = s, !.cmd = NoCommand, !.tag = NoTag, !.moved = 0,
                            !.got = <<>>, !.retried = FALSE,
                            !.answer = [pass |-> pass, data |-> IF pass THEN host.got ELSE <<>>]]
    /\ hostCard' = IF pass THEN hostCard ELSE live

-----------------------------------------------------------------------------
\* The caller takes the answer, and may give the next command.
HostTakes ==
    /\ host.st = "done"
    /\ host' = [host EXCEPT !.st = "idle", !.answer = NoAnswer]
    /\ UNCHANGED <<sdVars, mscVars, hostCard>>

\* What follows when the data phase has moved so much.
DataStage(c, moved) == IF moved < c.len THEN "data" ELSE "csw"

HostCommand ==
    /\ host.st = "idle"
    /\ \E c \in Commands, t \in Tags :
         /\ CbwReceived(c, t)
         /\ host' = [host EXCEPT !.st = DataStage(c, 0), !.cmd = c, !.tag = t]
    /\ UNCHANGED hostCard

InPacket == inEp.bank # <<>>

\* A packet of the data phase; the status would be taken for data.
HostReadsData ==
    /\ host.st = "data" /\ host.cmd.in /\ InPacket
    /\ TakeIn
    /\ LET p == Head(inEp.bank)
           moved == host.moved + (IF p.kind = "block" THEN 2 ELSE 1)
       IN host' = [host EXCEPT
                     !.moved = moved,
                     !.got = IF p.kind = "block" THEN Append(@, p.v) ELSE @,
                     !.st = IF p.kind = "block" THEN DataStage(host.cmd, moved)
                            ELSE "csw"]
    /\ UNCHANGED <<csw, cbw, sense, flagVars, outEp, taskVars, sdVars, hostCard>>

HostWritesBlock ==
    /\ host.st = "data" /\ ~host.cmd.in
    /\ BlockReceived(host.cmd.data[host.moved \div 2 + 1])
    /\ host' = [host EXCEPT !.moved = @ + 2,
                            !.st = DataStage(host.cmd, host.moved + 2)]
    /\ UNCHANGED hostCard

DataStalled == IF host.cmd.in THEN inEp.halt = "yes" ELSE outEp.halt = "yes"

\* A stall ends the data phase, and the host clears it.
HostDataStalled ==
    /\ host.st = "data" /\ DataStalled
    /\ IF host.cmd.in THEN ClearHaltIn ELSE ClearHaltOut
    /\ Goto("csw")
    /\ UNCHANGED hostCard

\* The status is meaningful when it is a CSW with the tag of the command.
HostReadsCsw ==
    /\ host.st = "csw" /\ InPacket
    /\ TakeIn
    /\ LET p == Head(inEp.bank) IN
       IF p.kind = "csw" /\ p.tag = host.tag
       THEN Conclude(p.pass, "done")
       ELSE Goto("recover") /\ UNCHANGED hostCard
    /\ UNCHANGED <<csw, cbw, sense, flagVars, outEp, taskVars, sdVars>>

\* The first stall is cleared and the status asked for again, not the second.
HostCswStalled ==
    /\ host.st = "csw" /\ inEp.halt = "yes" /\ ~host.retried
    /\ ClearHaltIn
    /\ host' = [host EXCEPT !.retried = TRUE]
    /\ UNCHANGED hostCard

HostCswRefused ==
    /\ host.st = "csw" /\ inEp.halt = "yes" /\ host.retried
    /\ Goto("recover")
    /\ UNCHANGED <<sdVars, mscVars, hostCard>>

\* Reset recovery: the class request, then both stalls are cleared.  A host
\* also does so before its first command.
HostResets ==
    /\ host.st \in {"recover", "idle"}
    /\ BulkReset
    /\ Goto("clearIn")
    /\ UNCHANGED hostCard

HostClearsIn ==
    /\ host.st = "clearIn"
    /\ ClearHaltIn
    /\ Goto("clearOut")
    /\ UNCHANGED hostCard

HostClearsOut ==
    /\ host.st = "clearOut"
    /\ ClearHaltOut
    /\ Conclude(FALSE, "idle")

-----------------------------------------------------------------------------
HostOff ==
    /\ BusReset
    /\ host' = [host EXCEPT !.st = "off", !.answer = NoAnswer]
    /\ UNCHANGED hostCard

HostConfigures ==
    /\ task.pc = "idle"  \* EnumerationIsSlow
    /\ Configure
    /\ Conclude(FALSE, "idle")

CardMoves ==
    /\ InsertCard \/ RemoveCard
    /\ UNCHANGED <<mscVars, host, hostCard>>

Device == (Interrupt \/ MainLoop) /\ UNCHANGED <<host, hostCard>>

HostProceeds ==
    \/ HostReadsData \/ HostWritesBlock \/ HostDataStalled
    \/ HostReadsCsw \/ HostCswStalled \/ HostCswRefused
    \/ HostClearsIn \/ HostClearsOut \/ (host.st = "recover" /\ HostResets)

Init == SdInit /\ MscInit /\ HostInit

Next ==
    \/ HostTakes \/ HostCommand \/ HostProceeds \/ HostResets
    \/ HostOff \/ HostConfigures \/ CardMoves
    \/ Device

\* The DMA and the interrupts run, the main loop polls, and a host that has
\* begun a command goes on with it.
Fairness ==
    /\ WF_vars(Interrupt /\ UNCHANGED <<host, hostCard>>)
    /\ WF_vars(MainLoop /\ UNCHANGED <<host, hostCard>>)
    /\ WF_vars(HostProceeds)

Spec == Init /\ [][Next]_vars /\ Fairness

-----------------------------------------------------------------------------
MaxLen == CHOOSE m \in {c.len : c \in Commands} : \A c \in Commands : c.len <= m

\* Types of the device, its card and the host; the flags are Boolean.
TypeOK ==
    /\ SdTypeOK
    /\ csw \in [tag : Tags \cup {NoTag}, residue : 0..MaxLen]
    /\ cbw \in [c : Commands \cup {NoCommand}, tag : Tags \cup {NoTag}]
    /\ sense \in Senses
    /\ {cbwInvalid, transReq, ackTrans, abortTrans, resetTrans, enabled} \subseteq BOOLEAN
    /\ inEp \in Endpoints(Packets(MaxLen), Banks)
    /\ outEp \in Endpoints({}, 0)
    /\ sectors \in [{0, 1} -> Data \cup {Junk}]
    /\ task.k \in 0..task.n
    /\ host.st \in HostStates
    /\ host.cmd \in Commands \cup {NoCommand}
    /\ hostCard \in Cards \cup {NoCard}

\* The phases of host and device agree: the host takes no status for data, the
\* device no sector for a command, and a well-formed command never ends in a
\* reset recovery, whatever direction and length the host asked for and
\* whatever became of the card (udi_msc_cbw_validate, udi_msc_csw_process).
PhasesAgree ==
    /\ host.st = "recover" => host.cmd.op = "bad"
    /\ host.st = "data" /\ host.cmd.in /\ InPacket => Head(inEp.bank).kind # "csw"
    /\ host.st = "data" /\ ~host.cmd.in => ~(outEp.job = "cbw" /\ outEp.halt = "no")

\* After an invalid CBW both endpoints answer nothing but stalls, however often
\* the host clears them, until the reset of the class (udi_msc_cbw_invalid,
\* udi_msc_csw_invalid).
InvalidHolds ==
    cbwInvalid /\ enabled =>
        /\ inEp.job = "wait_invalid" /\ inEp.halt = "yes" /\ inEp.bank = <<>>
        /\ outEp.job = "wait_invalid" /\ outEp.halt = "yes"

\* When the host is done with a command, the device is: nothing is left on the
\* IN endpoint, no stall, no request, and the OUT endpoint waits for a CBW.
ReadyForNext ==
    host.st \in {"done", "idle"} =>
        /\ inEp = Opened
        /\ outEp = Run(Opened, "cbw")
        /\ task = Idle /\ ~transReq /\ ~cbwInvalid

\* The residue of every status is the data that the host asked for and that
\* was not moved on the bus, also when a transfer broke off in the middle
\* (udi_msc_trans_block, udi_msc_data_sent).
ResidueExact ==
    [][host.st = "csw" /\ host'.st = "done"
         => Head(inEp.bank).residue = host.cmd.len - host.moved]_vars

\* What the interface promises as a block device: a read that passes carries
\* the sectors of the card that the host knows of, a write that passes has
\* stored all of them there, nothing else is ever written, and a change of
\* card is told by a failed command before anything passes on the new one.
Disk == INSTANCE BlockDevice WITH
    Media <- Cards, NoMedium <- NoCard, Requests <- Commands,
    NoRequest <- NoCommand, disk <- media, known <- hostCard,
    req <- host.cmd, answer <- host.answer

IsBlockDevice == Disk!Spec

\* Every command is answered: with a status, or the host resets the device.
Answered == host.cmd # NoCommand /\ host.st # "off" ~> host.cmd = NoCommand \/ host.st = "off"

-----------------------------------------------------------------------------
\* Why the phases agree: where the device is in the host's command.

Waits(job) == [job |-> job, halt |-> "yes", bank |-> <<>>]

Ready == /\ inEp = Opened /\ outEp = Run(Opened, "cbw")
         /\ task = Idle /\ ~transReq /\ ~cbwInvalid

\* After an invalid CBW.
Invalid ==
    /\ host.cmd.op = "bad" /\ cbwInvalid
    /\ inEp = Waits("wait_invalid") /\ outEp = Waits("wait_invalid")
    /\ task = Idle /\ ~transReq

\* In a reset recovery; the first one may come before any command.
Recovering ==
    /\ inEp \in IF host.st = "clearIn" THEN {Opened, Waits("none")} ELSE {Opened}
    /\ outEp \in {Run(Opened, "cbw"), Waits("wait_cbw")}
    /\ task = Idle /\ ~transReq /\ ~cbwInvalid

IsTransfer(c) ==
    /\ c.op \in {"read", "write"}
    /\ Validate(c, 2 * c.n, c.op = "read")

\* The units of m packets of a data phase, and the packets themselves.
Units(m) == IF host.cmd.op = "read" THEN 2 * m ELSE m

DataKind == IF host.cmd.op = "read" THEN "block" ELSE "data"

AreData(b, m) == \A i \in 1..m : b[i].kind = DataKind

\* The CBW is the host's command, and its transfer is requested.
Held == cbw.c = host.cmd /\ cbw.tag = host.tag

Requested ==
    /\ transReq /\ task \in {Idle, [Idle EXCEPT !.pc = "begin"]}
    /\ inEp = Opened /\ outEp = Opened
    /\ IsTransfer(host.cmd) /\ csw.residue = host.cmd.len
    /\ host.moved = 0 /\ host.st = "data" /\ ~host.retried

\* The sectors whose acknowledge the main loop has counted, from its place in
\* the pipeline.
Counted ==
    CASE task.pc \in {"done", "send"} -> host.cmd.len - csw.residue \in 0..2 * task.n
      [] task.pc = "open" -> csw.residue = host.cmd.len /\ task.k = task.n
      [] OTHER ->
           LET before == IF task.read /\ task.k # task.n THEN task.n - 1 - task.k
                         ELSE task.n - task.k
               now == IF task.pc = "wait" /\ UsbPart(task) THEN 1 ELSE 0
           IN host.cmd.len - csw.residue = 2 * (before + now)

InPipeline ==
    /\ task.pc \in {"open", "card", "usb", "ack", "wait", "done"} /\ ~transReq
    /\ IsTransfer(host.cmd)
    /\ task.read = host.cmd.in /\ task.n = host.cmd.n /\ task.k \in 0..task.n
    /\ task.pc \in {"usb", "ack"} => UsbPart(task)
    /\ task.pc \in {"card", "wait"} => CardPart(task)
    /\ Counted

\* What the main loop has counted is in the banks of the endpoint e or at its
\* other end, with one sector more between the interrupt and its acknowledge.
Moves(e, other) ==
    /\ other = Opened
    /\ e.halt = "no" /\ e.job = (IF ackTrans THEN "none" ELSE "block")
    /\ AreData(e.bank, Len(e.bank))
    /\ host.moved + 2 * Len(e.bank)
         = host.cmd.len - csw.residue + (IF task.pc = "ack" /\ ackTrans THEN 2 ELSE 0)

Moving ==
    /\ InPipeline
    /\ host.cmd.in => Moves(inEp, outEp)
    /\ ~host.cmd.in => Moves(outEp, inEp) /\ outEp.bank = <<>>
    /\ host.st = DataStage(host.cmd, host.moved) /\ ~host.retried

\* The data phase is over on the side of the device, which has m packets of it
\* left in the banks and the residue r: a residue has stalled the endpoint, and
\* the host has cleared that, or not yet.
Unstalled == IF host.cmd.in THEN inEp.halt = "no" ELSE outEp.halt = "no"

DataOver(m, r) ==
    /\ r \in Nat /\ host.moved + Units(m) + r = host.cmd.len
    /\ host.cmd.op # "read" => m <= 1
    /\ inEp.halt = "no" \/ (Halted(inEp) /\ host.cmd.in /\ ~host.retried /\ r # 0)
    /\ inEp.halt = "yes" => m = 0
    /\ outEp.halt = "no" \/ (~host.cmd.in /\ r # 0 /\ host.st = "data" /\ outEp.halt = "yes")
    /\ outEp.bank = <<>>
    /\ ~host.cmd.in => m = 0
    /\ r = 0 => host.st = DataStage(host.cmd, host.moved)
    /\ r # 0 /\ Unstalled => host.st = "csw" /\ m = 0
    /\ host.st = "csw" => m = 0
    /\ host.st = "data" => ~host.retried

\* The main loop between the stall and the CSW; then the CSW goes, or waits.
Ending ==
    /\ task.pc = "send" /\ ~transReq
    /\ csw.tag = host.tag
    /\ AreData(inEp.bank, Len(inEp.bank)) /\ DataOver(Len(inEp.bank), csw.residue)
    /\ inEp.job = "none" /\ outEp.job = "none"

SendsCsw ==
    /\ task = Idle /\ ~transReq
    /\ csw.tag = host.tag
    /\ AreData(inEp.bank, Len(inEp.bank)) /\ DataOver(Len(inEp.bank), csw.residue)
    /\ inEp.job = (IF Halted(inEp) THEN "wait_csw" ELSE "csw") /\ outEp.job = "none"

\* The answer of an information command goes.
SendsData ==
    /\ task = Idle /\ ~transReq
    /\ inEp = Run(Opened, "data") /\ outEp = Opened
    /\ host.cmd.op # "read" /\ host.cmd.in
    /\ host.cmd.len > 0 /\ csw.residue = host.cmd.len
    /\ host.moved = 0 /\ host.st = "data" /\ ~host.retried

\* The CSW is in the banks, behind the data.
CswLoaded ==
    LET b == inEp.bank
        m == Len(b) - 1
    IN /\ task = Idle /\ ~transReq
       /\ b # <<>> /\ b[m + 1].kind = "csw" /\ b[m + 1].tag = host.tag
       /\ AreData(b, m) /\ DataOver(m, b[m + 1].residue)
       /\ inEp.job = "none" /\ inEp.halt = "no"
       /\ outEp.job = IF Halted(outEp) THEN "wait_cbw" ELSE "cbw"

Answering == Held /\ (Requested \/ Moving \/ Ending \/ SendsData \/ SendsCsw)

\* The flags by which the interrupt and the main loop pass a sector on.
FlagsAgree ==
    /\ enabled <=> host.st # "off"
    /\ task.pc = "idle" => task = Idle
    /\ enabled =>
         /\ ~ackTrans => task.pc = "ack"
         /\ task.pc = "ack" /\ ackTrans => ~abortTrans
         /\ task.pc \notin {"idle", "begin"} => ~resetTrans

\* In every stage of the host's command the device is in the matching one, with
\* exactly the packets, the stall and the residue that the host has yet to see
\* (udi_msc_cbw_received, udi_msc_process_trans, udi_msc_csw_process).
Transport ==
    /\ FlagsAgree
    /\ host.st = "off" => inEp = Closed /\ outEp = Closed /\ ~transReq
    /\ host.st \in {"idle", "done"} => Ready /\ host.moved = 0 /\ ~host.retried
    /\ host.st \in {"data", "csw", "recover"} => host.cmd \in Commands
    /\ host.st = "recover" => Invalid
    /\ host.st \in {"clearIn", "clearOut"} => Recovering
    /\ host.st \in {"data", "csw"} =>
         \/ Invalid
         \/ host.cmd.op # "bad" /\ ~cbwInvalid /\ (Answering \/ CswLoaded)

-----------------------------------------------------------------------------
\* Why it is a block device: where the sectors of the host's command are.

\* The sectors of the command on the card that the host knows of.
OnCard(i) == media[hostCard][host.cmd.a + i - 1]

\* The transfer of the main loop is that of the host's command, also after a
\* reset of the bus, when the host has left it.
Working ==
    task.pc # "idle" =>
      /\ cbw.c = host.cmd /\ host.cmd \in Commands /\ IsTransfer(host.cmd)
      /\ task.pc = "begin" => csw.residue = host.cmd.len
      /\ task.pc # "begin" =>
           /\ task.read = host.cmd.in /\ task.k \in 0..task.n
           /\ task.n = host.cmd.n /\ task.a = host.cmd.a
           /\ task.pc \in {"usb", "ack"} => UsbPart(task)
           /\ task.pc \in {"card", "wait"} => CardPart(task)
           /\ Counted

InSteps == task.pc \in {"card", "usb", "ack", "wait"}

\* The blocks that the card has not begun, from the place in the pipeline.
Unbegun ==
    LET begun == IF task.pc = "card" THEN 0 ELSE 1
    IN IF task.read THEN (IF task.k = 0 THEN 0 ELSE task.k - begun)
                    ELSE task.k + 1 - begun

\* The sectors in the two buffers.  A write has stored what is not in them.
Buffered ==
    InSteps =>
      /\ hostCard \in Cards /\ remaining = Unbegun
      /\ task.read /\ UsbPart(task) =>
           sectors[UsbBuffer(task.k)] = OnCard(task.n - task.k)
      /\ ~task.read =>
           /\ \A i \in 1..(task.n - task.k - 1) : OnCard(i) = host.cmd.data[i]
           /\ CardPart(task) =>
                sectors[CardBuffer(task.k)] = host.cmd.data[task.n - task.k]
           /\ UsbPart(task) /\ task.pc \in {"ack", "wait"} /\ ackTrans
                /\ (task.pc = "ack" => ~abortTrans) =>
                sectors[UsbBuffer(task.k)] = host.cmd.data[task.n - task.k + 1]

\* What the host has and what is in the banks is the beginning of what it reads.
Carried ==
    host.st \in {"data", "csw"} /\ host.cmd.op = "read" =>
      /\ host.moved = 2 * Len(host.got)
      /\ \A i \in 1..Len(host.got) : host.got[i] = OnCard(i)
      /\ \A i \in 1..Len(inEp.bank) : inEp.bank[i].kind = "block" =>
           inEp.bank[i].v = OnCard(Len(host.got) + i)

\* A transfer that leaves the residue r is complete.
Complete(r) ==
    /\ hostCard \in Cards
    /\ host.cmd.op = "read" => host.cmd.len - r = 2 * host.cmd.n
    /\ host.cmd.op = "write" =>
         \A i \in 1..host.cmd.n : OnCard(i) = host.cmd.data[i]

\* The CSW is in the banks, or on its way there; it says what the sense says.
CswGoes == task.pc = "send" \/ inEp.job \in {"csw", "wait_csw"}
CswInBank == inEp.bank # <<>> /\ inEp.bank[Len(inEp.bank)].kind = "csw"
Passes ==
    \/ CswGoes /\ sense = "none"
    \/ CswInBank /\ inEp.bank[Len(inEp.bank)].pass
Fails ==
    \/ CswGoes /\ sense # "none"
    \/ CswInBank /\ ~inEp.bank[Len(inEp.bank)].pass

LastResidue == IF CswInBank THEN inEp.bank[Len(inEp.bank)].residue ELSE csw.residue

Whole ==
    host.st \in {"data", "csw"} =>
      /\ inEp.job = "data" => host.cmd.op \notin {"read", "write"}
      /\ task.pc = "done" /\ task.status = "good" => Complete(csw.residue)
      /\ host.cmd.op \in {"read", "write"} /\ Passes => Complete(LastResidue)

\* The stack takes no other card for initialised than the one the host knows of,
\* unless the command under way fails, or the host has given up.
KnownCard ==
    live \in {NoCard, hostCard} \/
      /\ task.pc = "idle"
      /\ host.st \in {"data", "csw"} => Fails /\ ~transReq
      /\ host.st \notin {"idle", "done"}

\* What a transfer has moved is what the host asked for, on the card that it
\* knows of (sd_mmc_usb_read_10, sd_mmc_usb_write_10, udi_msc_csw_process).
InCustody ==
    /\ host.st \in {"idle", "done"} => host.cmd = NoCommand /\ host.got = <<>>
    /\ host.st \in {"data", "csw"} => host.tag \in Tags
    /\ host.st = "off" => ackTrans
    /\ Working /\ Buffered /\ Carried /\ Whole /\ KnownCard
=============================================================================
