------------------------------- MODULE UdiMsc -------------------------------
(***************************************************************************)
(* The mass storage interface (udi_msc.c) on its two bulk endpoints, with  *)
(* the transfer of sectors between the card and the bus (sd_mmc_mem.c).    *)
(*                                                                         *)
(* Commands arrive in the USB interrupt: a CBW that needs no sector is     *)
(* answered there.  READ(10) and WRITE(10) only leave a request, which the *)
(* main loop (task) executes, and which then sends the CSW from outside    *)
(* the interrupt.  Main loop and interrupt share csw, sense, the flags and *)
(* the endpoints.                                                          *)
(*                                                                         *)
(* Lengths are counted in units: a sector, which is one full packet, is 2, *)
(* and the data of an information command, a short packet, is 1.  The      *)
(* status byte of the CSW is written by the functions that write the sense *)
(* data and is "pass" exactly when the sense is "none".                    *)
(***************************************************************************)
EXTENDS SdMmc, UddEndpoint

CONSTANTS Commands, NoCommand,  \* the command blocks a host may send
          Tags, NoTag,          \* tags of a command block wrapper
          Junk                  \* contents of a buffer that is not to be read

ASSUME JobNamesAssumption ==
    /\ Transfers = {"cbw", "block", "data", "csw"}
    /\ Waiting = {"wait_cbw", "wait_csw", "wait_invalid"}

VARIABLES
    csw,         \* udi_msc_csw: tag and residue
    cbw,         \* udi_msc_cbw with its tag
    sense,       \* udi_msc_sense, and the status of udi_msc_csw
    cbwInvalid,  \* udi_msc_b_cbw_invalid
    transReq,    \* udi_msc_b_trans_req
    ackTrans,    \* udi_msc_b_ack_trans
    abortTrans,  \* udi_msc_b_abort_trans
    resetTrans,  \* udi_msc_b_reset_trans
    enabled,     \* main_b_msc_enable
    inEp, outEp, \* UDI_MSC_EP_IN, UDI_MSC_EP_OUT
    task,        \* the main loop in udi_msc_process_trans and below
    sectors      \* sector_buf_0, sector_buf_1

flagVars == <<cbwInvalid, transReq, ackTrans, abortTrans, resetTrans, enabled>>
taskVars == <<task, sectors>>
mscVars == <<csw, cbw, sense, flagVars, inEp, outEp, taskVars>>

Senses == {"none", "cdb", "command", "attention", "notPresent", "hardware"}

Banks == 2  \* of a bulk endpoint

Packets(maxLen) ==
    [kind : {"block"}, v : Data \cup {Junk}]
      \cup [kind : {"data"}, v : Senses \cup {"info"}]
      \cup [kind : {"csw"}, tag : Tags, residue : 0..maxLen, pass : BOOLEAN]

Idle == [pc |-> "idle", read |-> FALSE, a |-> 0, n |-> 0, k |-> 0,
         status |-> "good"]

\* Between two commands nobody reads the wrappers, nor the sector buffers
\* between two transfers: what they still hold is left out of the state.
NoCbw == [c |-> NoCommand, tag |-> NoTag]
NoCsw == [tag |-> NoTag, residue |-> 0]
Unread == [i \in {0, 1} |-> Junk]

MscInit ==
    /\ cbw = NoCbw /\ csw = NoCsw
    /\ sense = "none"
    /\ cbwInvalid = FALSE /\ transReq = FALSE
    /\ ackTrans = TRUE /\ abortTrans = FALSE /\ resetTrans = TRUE
    /\ enabled = FALSE
    /\ inEp = Closed /\ outEp = Closed
    /\ task = Idle
    /\ sectors = Unread

-----------------------------------------------------------------------------
\* Parts that the interrupt and the main loop share.

\* Mutants: a CBW or a CSW that is not left to the end of a stall; a residue
\* that stalls nothing.
CbwRun(e) == IF CanRun(e) THEN Run(e, "cbw") ELSE e
CswRun(e) == IF CanRun(e) THEN Run(e, "csw") ELSE e
NoStall(e, c, residue) == e

\* udi_msc_cbw_wait and udi_msc_csw_send
CbwWait(e) == RunOrWait(e, "cbw", "wait_cbw")
CswSend(e) == RunOrWait(e, "csw", "wait_csw")

\* udi_msc_csw_process stalls the data endpoint of a command that leaves a
\* residue.
StallIn(e, c, residue) == IF residue # 0 /\ c.in THEN SetHalt(e) ELSE e
StallOut(e, c, residue) == IF residue # 0 /\ ~c.in THEN SetHalt(e) ELSE e

\* Mutant: the length is not compared.
ValidateFlag(c, need, in) == c.in = in

\* udi_msc_cbw_validate
Validate(c, need, in) == c.in = in /\ c.len >= need

\* A command ends in the interrupt: sense and status, then udi_msc_csw_process.
Finish(c, t, s) ==
    /\ sense' = s
    /\ csw' = [tag |-> t, residue |-> c.len]
    /\ inEp' = CswSend(StallIn(inEp, c, c.len))
    /\ outEp' = StallOut(Done(outEp), c, c.len)
    /\ UNCHANGED flagVars

\* udi_msc_data_send, the short answer of an information command.
DataSend(c, t) ==
    IF CanRun(inEp)
    THEN /\ inEp' = Run(inEp, "data")
         /\ outEp' = Done(outEp)
         /\ csw' = [csw EXCEPT !.residue = c.len]
         /\ UNCHANGED <<sense, flagVars>>
    ELSE Finish(c, t, "hardware")

-----------------------------------------------------------------------------
\* udi_msc_cbw_received: one operator per command, each in the interrupt that
\* ends the transfer of the CBW.

\* A packet that is no CBW stalls both endpoints until a reset.
InvalidCbw(c) ==
    /\ c.op = "bad"
    /\ cbwInvalid' = TRUE
    /\ outEp' = WaitClear(SetHalt(Done(outEp)), "wait_invalid")
    /\ inEp' = WaitClear(SetHalt(inEp), "wait_invalid")
    /\ UNCHANGED <<csw, sense, transReq, ackTrans, abortTrans, resetTrans,
                   enabled, sdVars>>

SenseOf(status) ==
    CASE status = "good"       -> "none"
      [] status = "busy"       -> "attention"
      [] status = "notPresent" -> "notPresent"
      [] OTHER                 -> "hardware"

UnitReady(c, t) ==
    /\ c.op = "testUnit"
    /\ \E late, ok \in BOOLEAN :
         LET s == Selected(slot, late) IN
         /\ TestUnitReady(s, ok)
         /\ Finish(c, t, SenseOf(UnitStatus(s, ok)))

\* REQUEST SENSE, INQUIRY, MODE SENSE
Information(c, t) ==
    /\ c.op \in {"sense", "info"}
    /\ IF Validate(c, 1, TRUE) THEN DataSend(c, t) ELSE Finish(c, t, "cdb")
    /\ UNCHANGED sdVars

\* sd_mmc_read_capacity selects the slot for the capacity, then tests the unit.
ReadCapacity(c, t) ==
    /\ c.op = "capacity"
    /\ IF ~Validate(c, 1, TRUE) THEN Finish(c, t, "cdb") /\ UNCHANGED sdVars
       ELSE \E late, later, ok \in BOOLEAN :
              LET first == Selected(slot, late)
                  s == Selected(first, later /\ first = slot)
              IN /\ TestUnitReady(s, ok)
                 /\ IF UnitStatus(s, ok) = "good" THEN DataSend(c, t)
                    ELSE Finish(c, t, SenseOf(UnitStatus(s, ok)))

\* START STOP UNIT with the eject bit
StartStop(c, t) ==
    /\ c.op \in {"load", "eject"}
    /\ Unload(c.op = "eject")
    /\ Finish(c, t, "none")

\* VERIFY, PREVENT ALLOW MEDIUM REMOVAL, and what is not supported: another
\* page of INQUIRY with enough room for it, an unknown operation.
NoData(c, t) ==
    /\ c.op \in {"verify", "prevent", "page", "unknown"}
    /\ Finish(c, t, CASE c.op = "verify"  -> "none"
                      [] c.op = "unknown" -> "command"
                      [] OTHER            -> "cdb")
    /\ UNCHANGED sdVars

\* udi_msc_sbc_trans: the transfer is left to the main loop.
Transfer(c, t) ==
    /\ c.op \in {"read", "write"}
    /\ IF Validate(c, 2 * c.n, c.op = "read")
       THEN /\ transReq' = TRUE
            /\ csw' = [csw EXCEPT !.residue = c.len]
            /\ outEp' = Done(outEp)
            /\ UNCHANGED <<sense, cbwInvalid, ackTrans, abortTrans,
                           resetTrans, enabled, inEp>>
       ELSE Finish(c, t, "cdb")
    /\ UNCHANGED sdVars

CbwReceived(c, t) ==
    /\ outEp.job = "cbw" /\ outEp.halt = "no"
    /\ cbw' = [c |-> c, tag |-> t]
    /\ \/ InvalidCbw(c)
       \/ UnitReady(c, t)
       \/ Information(c, t)
       \/ ReadCapacity(c, t)
       \/ StartStop(c, t)
       \/ NoData(c, t)
       \/ Transfer(c, t)
    /\ UNCHANGED taskVars

-----------------------------------------------------------------------------
\* The other end-of-transfer callbacks.

\* The DMA has put a packet into a free bank of the IN endpoint.
Loaded(e, p) == [Done(e) EXCEPT !.bank = Append(@, p)]
CanLoad(job) == inEp.job = job /\ inEp.halt = "no" /\ Len(inEp.bank) < Banks

\* Mutant: the bus takes the buffer that the card works on.
SharedBuffer(k) == IF k % 2 = 0 THEN 0 ELSE 1

\* The buffer of the USB transfer of a step of the pipeline, and of the card's.
UsbBuffer(k) == IF k % 2 = 0 THEN 1 ELSE 0
CardBuffer(k) == IF k % 2 = 0 THEN 0 ELSE 1

\* udi_msc_trans_ack
BlockSent ==
    /\ CanLoad("block")
    /\ inEp' = Loaded(inEp, [kind |-> "block", v |-> sectors[UsbBuffer(task.k)]])
    /\ ackTrans' = TRUE
    /\ abortTrans' = FALSE
    /\ UNCHANGED <<csw, cbw, sense, cbwInvalid, transReq, resetTrans, enabled,
                   outEp, taskVars, sdVars>>

BlockReceived(v) ==
    /\ outEp.job = "block" /\ outEp.halt = "no"
    /\ outEp' = Done(outEp)
    /\ sectors' = [sectors EXCEPT ![UsbBuffer(task.k)] = v]
    /\ ackTrans' = TRUE
    /\ abortTrans' = FALSE
    /\ UNCHANGED <<csw, cbw, sense, cbwInvalid, transReq, resetTrans, enabled,
                   inEp, task, sdVars>>

\* udi_msc_data_sent: the sense is cleared, the CSW follows.
DataSent ==
    /\ CanLoad("data")
    /\ LET v == IF cbw.c.op = "sense" THEN sense ELSE "info"
           residue == csw.residue - 1
           sent == Loaded(inEp, [kind |-> "data", v |-> v])
       IN /\ csw' = [tag |-> cbw.tag, residue |-> residue]
          /\ inEp' = CswSend(StallIn(sent, cbw.c, residue))
          /\ outEp' = StallOut(outEp, cbw.c, residue)
    /\ sense' = "none"
    /\ UNCHANGED <<cbw, flagVars, taskVars, sdVars>>

\* udi_msc_csw_sent
CswSent ==
    /\ CanLoad("csw")
    /\ inEp' = Loaded(inEp, [kind |-> "csw", tag |-> csw.tag,
                             residue |-> csw.residue, pass |-> sense = "none"])
    /\ outEp' = CbwWait(outEp)
    /\ csw' = NoCsw /\ cbw' = NoCbw
    /\ UNCHANGED <<sense, flagVars, taskVars, sdVars>>

\* udd_ep_interrupt: a stall was requested and the last bank is sent.
StallWhenSent ==
    /\ inEp.halt = "requested" /\ inEp.bank = <<>>
    /\ inEp' = [inEp EXCEPT !.halt = "yes"]
    /\ UNCHANGED <<csw, cbw, sense, flagVars, outEp, taskVars, sdVars>>

\* The host takes a packet from the IN endpoint.
TakeIn == inEp' = [inEp EXCEPT !.bank = Tail(@)]

-----------------------------------------------------------------------------
\* Requests on the control endpoint.

\* Mutant: an invalid CBW is stalled once.
HaltClearedOnce(e) ==
    CASE e.job = "wait_csw" -> CswSend(Unhalted(e))
      [] e.job = "wait_cbw" -> CbwWait(Unhalted(e))
      [] OTHER              -> Unhalted(e)

\* The callback of a stall that is cleared: udi_msc_csw_send,
\* udi_msc_cbw_wait, udi_msc_csw_invalid or udi_msc_cbw_invalid.
HaltCleared(e) ==
    LET free == Unhalted(e) IN
    IF ~Halted(e) THEN e
    ELSE CASE e.job = "wait_csw" -> CswSend(free)
           [] e.job = "wait_cbw" -> CbwWait(free)
           [] e.job = "wait_invalid" /\ cbwInvalid ->
                                   WaitClear(SetHalt(free), "wait_invalid")
           [] OTHER              -> free

ClearHaltIn ==
    /\ inEp' = HaltCleared(inEp)
    /\ UNCHANGED <<csw, cbw, sense, flagVars, outEp, taskVars, sdVars>>

ClearHaltOut ==
    /\ outEp' = HaltCleared(outEp)
    /\ UNCHANGED <<csw, cbw, sense, flagVars, inEp, taskVars, sdVars>>

\* udd_ep_abort calls the callback of the job, also of one that waits for the
\* end of a stall: on the endpoint that stays halted it waits again.
AbortEp(e) ==
    IF e.job \in {"wait_cbw", "wait_csw"} THEN [e EXCEPT !.bank = <<>>]
    ELSE Aborted(e)

\* udi_msc_setup, USB_REQ_MSC_BULK_RESET
BulkReset ==
    /\ cbwInvalid' = FALSE
    /\ transReq' = FALSE
    /\ LET block == "block" \in {inEp.job, outEp.job} IN
         /\ ackTrans' = (ackTrans \/ block)
         /\ abortTrans' = (abortTrans \/ block)
    /\ inEp' = AbortEp(inEp)
    /\ outEp' = CbwWait(AbortEp(outEp))
    /\ UNCHANGED <<csw, cbw, sense, resetTrans, enabled, taskVars, sdVars>>

\* A bus reset, or the cable: udi_msc_disable, and the endpoints are freed.
BusReset ==
    /\ enabled
    /\ transReq' = FALSE
    /\ abortTrans' = (abortTrans \/ "block" \in {inEp.job, outEp.job})
    /\ ackTrans' = TRUE
    /\ resetTrans' = TRUE
    /\ enabled' = FALSE
    /\ inEp' = Closed
    /\ outEp' = Closed
    /\ UNCHANGED <<csw, cbw, sense, cbwInvalid, taskVars, sdVars>>

\* SET_CONFIGURATION: udi_msc_enable
Configure ==
    /\ ~enabled
    /\ transReq' = FALSE
    /\ cbwInvalid' = FALSE
    /\ ackTrans' = TRUE
    /\ resetTrans' = TRUE
    /\ enabled' = TRUE
    /\ Unload(FALSE)
    /\ inEp' = Opened
    /\ outEp' = CbwWait(Opened)
    /\ csw' = NoCsw /\ cbw' = NoCbw
    /\ UNCHANGED <<sense, abortTrans, taskVars>>

-----------------------------------------------------------------------------
\* The main loop: udi_msc_process_trans and the two pipelines of sd_mmc_mem.c.
\* Step k of n, n-1, ..., 0 moves a sector between the card and one buffer
\* while the sector of the other buffer moves on the bus.

CardPart(t) == IF t.read THEN t.k # 0 ELSE t.k # t.n
UsbPart(t) == IF t.read THEN t.k # t.n ELSE t.k # 0

BeginStep(t) == [t EXCEPT !.pc = IF CardPart(t) THEN "card" ELSE "usb"]

EndStep(t) ==
    IF t.k = 0 THEN [t EXCEPT !.pc = "done", !.status = "good"]
    ELSE BeginStep([t EXCEPT !.k = @ - 1])

EndUsb(t) == IF CardPart(t) THEN [t EXCEPT !.pc = "wait"] ELSE EndStep(t)

EndCard(t) == IF UsbPart(t) THEN [t EXCEPT !.pc = "usb"] ELSE [t EXCEPT !.pc = "wait"]

Failed(t, s) == [t EXCEPT !.pc = "done", !.status = s]

\* The test of udi_msc_b_trans_req; the interrupt may come before the next line.
TransSeen ==
    /\ task.pc = "idle" /\ enabled /\ transReq
    /\ task' = [task EXCEPT !.pc = "begin"]
    /\ UNCHANGED <<csw, cbw, sense, flagVars, inEp, outEp, sectors, sdVars>>

\* Between the two assignments of flags only a reset of the bus can come, as no
\* CBW is awaited.  It clears the first flag again and sets the second, which is
\* then cleared: as a reset before both.
TransBegin ==
    /\ task.pc = "begin"
    /\ transReq' = FALSE
    /\ resetTrans' = FALSE
    /\ task' = [task EXCEPT !.pc = "open", !.read = cbw.c.op = "read",
                            !.a = cbw.c.a, !.n = cbw.c.n, !.k = cbw.c.n]
    /\ UNCHANGED <<csw, cbw, sense, cbwInvalid, ackTrans, abortTrans, enabled,
                   inEp, outEp, sectors, sdVars>>

TransOpen ==
    /\ task.pc = "open"
    /\ \E late \in BOOLEAN :
         LET s == Selected(slot, late) IN
         /\ OpenBlocks(s, task.n)
         /\ task' = IF OpenStatus(s) = "good" THEN BeginStep(task)
                    ELSE Failed(task, OpenStatus(s))
    /\ UNCHANGED <<csw, cbw, sense, flagVars, inEp, outEp, sectors>>

\* The sector buffer is the card's until CardEnds.
CardStarts ==
    /\ task.pc = "card"
    /\ StartBlock
    /\ task' = IF Reachable THEN EndCard(task) ELSE Failed(task, "fail")
    /\ sectors' = IF Reachable /\ task.read
                  THEN [sectors EXCEPT ![CardBuffer(task.k)] = Junk]
                  ELSE sectors
    /\ UNCHANGED <<csw, cbw, sense, flagVars, inEp, outEp>>

\* The block that the card moves: the transfer runs on from its first address.
Current == task.a + (task.n - remaining) - 1

CardEnds ==
    /\ task.pc = "wait"
    /\ task' = IF Reachable THEN EndStep(task) ELSE Failed(task, "fail")
    /\ sectors' = IF Reachable /\ task.read
                  THEN [sectors EXCEPT ![CardBuffer(task.k)] = media[card][Current]]
                  ELSE sectors
    /\ media' = IF Reachable /\ ~task.read
                THEN [media EXCEPT ![card][Current] = sectors[CardBuffer(task.k)]]
                ELSE media
    /\ WaitEnd(FALSE)
    /\ UNCHANGED <<csw, cbw, sense, flagVars, inEp, outEp, card, slot, live,
                   ejected>>

\* udi_msc_trans_block: accepted, the main loop waits for the acknowledge.
BlockStarts ==
    /\ task.pc = "usb"
    /\ ackTrans
    /\ CanRun(IF task.read THEN inEp ELSE outEp)
    /\ ackTrans' = FALSE
    /\ task' = [task EXCEPT !.pc = "ack"]
    /\ IF task.read
       THEN inEp' = Run(inEp, "block") /\ UNCHANGED <<outEp, sectors>>
       ELSE /\ outEp' = Run(outEp, "block")
            /\ sectors' = [sectors EXCEPT ![UsbBuffer(task.k)] = Junk]
            /\ UNCHANGED inEp
    /\ UNCHANGED <<csw, cbw, sense, cbwInvalid, transReq, abortTrans,
                   resetTrans, enabled, sdVars>>

\* A refused or aborted block ends the card's transfer, but for the first step
\* of a write.
BlockFails ==
    /\ \/ task.pc = "usb" /\ ~(ackTrans /\ CanRun(IF task.read THEN inEp ELSE outEp))
       \/ task.pc = "ack" /\ ackTrans /\ abortTrans
    /\ task' = Failed(task, "fail")
    /\ IF task.k # task.n THEN WaitEnd(TRUE) ELSE UNCHANGED remaining
    /\ UNCHANGED <<csw, cbw, sense, flagVars, inEp, outEp, sectors, card, media,
                   slot, live, ejected>>

\* Mutant: the residue is not counted down.
BlockUncounted ==
    /\ task.pc = "ack" /\ ackTrans /\ ~abortTrans
    /\ task' = EndUsb(task)
    /\ UNCHANGED <<csw, cbw, sense, flagVars, inEp, outEp, sectors, sdVars>>

BlockAcked ==
    /\ task.pc = "ack" /\ ackTrans /\ ~abortTrans
    /\ csw' = [csw EXCEPT !.residue = @ - 2]
    /\ task' = EndUsb(task)
    /\ UNCHANGED <<cbw, sense, flagVars, inEp, outEp, sectors, sdVars>>

\* The end of udi_msc_process_trans after a reset: no status is sent.
TransReset ==
    /\ task.pc = "done" /\ resetTrans
    /\ resetTrans' = FALSE
    /\ task' = Idle /\ sectors' = Unread /\ CloseBlocks
    /\ UNCHANGED <<csw, cbw, sense, cbwInvalid, transReq, ackTrans, abortTrans,
                   enabled, inEp, outEp>>

\* udi_msc_csw_process in the main loop: the stall first, then the CSW; the
\* host may see the stall, and clear it, in between.  A reset of the bus between
\* the test of the flag and the stall leaves what it leaves after the stall:
\* disabled endpoints, which keep no stall until they are configured again.
TransStatus ==
    /\ task.pc = "done" /\ ~resetTrans
    /\ sense' = SenseOf(task.status)
    /\ csw' = [csw EXCEPT !.tag = cbw.tag]
    /\ inEp' = StallIn(inEp, cbw.c, csw.residue)
    /\ outEp' = StallOut(outEp, cbw.c, csw.residue)
    /\ task' = [task EXCEPT !.pc = "send"]
    /\ UNCHANGED <<cbw, flagVars, sectors, sdVars>>

TransSend ==
    /\ task.pc = "send"
    /\ inEp' = CswSend(inEp)
    /\ task' = Idle /\ sectors' = Unread /\ CloseBlocks
    /\ UNCHANGED <<csw, cbw, sense, flagVars, outEp>>

Interrupt == BlockSent \/ DataSent \/ CswSent \/ StallWhenSent

MainLoop ==
    \/ TransSeen \/ TransBegin \/ TransOpen \/ CardStarts \/ CardEnds
    \/ BlockStarts \/ BlockFails \/ BlockAcked
    \/ TransReset \/ TransStatus \/ TransSend
=============================================================================
