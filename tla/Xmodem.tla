------------------------------- MODULE Xmodem -------------------------------
(***************************************************************************)
(* A file sent with XMODEM into flash: xmodemReceive of                    *)
(* FLASH_PROGRAM_EXAMPLE1, xmodemTransmit as DEVICE_EXAMPLE1 compiles it,  *)
(* and the serial line between them, which may lose or damage whatever is  *)
(* sent on it and may be slow: a time-out can pass while the answer is on  *)
(* its way.                                                                *)
(*                                                                         *)
(* Both copies of xmodem.c have the same sender; DEVICE_EXAMPLE1 compiles  *)
(* its own with packets of 1024 bytes behind STX and the copy of the file  *)
(* into the packet commented out, FLASH_PROGRAM_EXAMPLE1 has it for 128    *)
(* bytes behind SOH, as its receiver takes them, with that copy, compiled  *)
(* out: its peer is a terminal program.  The sender here is that text,     *)
(* with packets of the receiver's size; what it waits for, and how it      *)
(* writes, is DEVICE_EXAMPLE1's.                                           *)
(*                                                                         *)
(* The unit of data is the block of one packet; half a flash page.  Blocks *)
(* are named by their place in the file.                                   *)
(***************************************************************************)
EXTENDS Integers, Sequences

CONSTANTS
    Packets,    \* packets of the file, the one the sender fills with CTRLZ included
    DestBlocks, \* destsz in blocks
    NumMod,     \* range of the 8-bit packet number
    Cap,        \* messages on the line in one direction; what exceeds it is lost
    Retries,    \* the 16 (32) of the outer loops
    MaxRetrans, \* MAXRETRANS
    EotRetries, \* the 10 of the EOT loop
    MaxFaults   \* bound: flash writes that fail

ASSUME XmodemAssumption ==
    /\ Packets \in Nat \ {0} /\ DestBlocks \in Nat
    /\ NumMod \in Nat /\ NumMod > 1
    /\ Cap \in Nat \ {0}
    /\ Retries \in Nat \ {0} /\ MaxRetrans \in Nat \ {0} /\ EotRetries \in Nat \ {0}
    /\ MaxFaults \in Nat

Blocks == 0 .. (Packets - 1)
Before == -1                    \* whatever was there before
Pages == 0 .. (DestBlocks \div 2)
Halves == {0, 1}

\* A message is a packet ("data"), a packet with a character lost or changed
\* after the first ("bad"), what is left of one without its first character
\* ("headless"), a burst of CAN, or a character.
Kinds == {"data", "bad", "headless", "EOT", "CAN", "ACK", "NAK", "C", "junk"}
Char(kind) == [kind |-> kind, no |-> 0, block |-> 0, crc |-> FALSE]
Msg == [kind : Kinds, no : 0 .. (NumMod - 1), block : Blocks, crc : BOOLEAN]

VARIABLES
    toR, toS,     \* the line, in both directions
    \* xmodemReceive
    r_pc, trychar, crc, retry, packetno, retrans, len,
    page_buf,
    said,         \* its last answer to a packet
    flash,        \* [Pages -> [Halves -> block]]
    failed, faults, \* pages whose last write failed, unnoticed
    \* xmodemTransmit
    s_pc, s_crc, s_retry, s_packetno,
    s_len         \* blocks it takes for received

line == <<toR, toS>>
store == <<len, page_buf, flash, failed, faults>>
receiver == <<r_pc, trychar, crc, retry, packetno, retrans, said, store>>
sender == <<s_pc, s_crc, s_retry, s_packetno, s_len>>
vars == <<line, receiver, sender>>

Init ==
    /\ toR = <<>> /\ toS = <<>>
    /\ r_pc = "try" /\ trychar = "C" /\ crc = FALSE /\ retry = 0
    /\ packetno = 1 % NumMod /\ retrans = MaxRetrans
    /\ len = 0 /\ page_buf = [h \in Halves |-> Before] /\ said = "none"
    /\ flash = [p \in Pages |-> [h \in Halves |-> Before]]
    /\ failed = {} /\ faults = 0
    /\ s_pc = "off" /\ s_crc = FALSE /\ s_retry = 0
    /\ s_packetno = 1 % NumMod /\ s_len = 0

-----------------------------------------------------------------------------
\* A packet that is not whole has the length of its kind.
Bad(with_crc) == [Char("bad") EXCEPT !.crc = with_crc]

\* What the line can make of a message that is sent on it.
Damaged(m) ==
    IF m.kind = "data" THEN {Bad(m.crc), Char("headless")} ELSE {Char("junk")}

After(ln, m) ==
    {ln} \union (IF Len(ln) < Cap
                 THEN {Append(ln, d) : d \in {m} \union Damaged(m)} ELSE {})

\* The line without its next character.  A packet is left without its SOH, a
\* burst of three CAN is still two.
Eaten(ln) ==
    IF Head(ln).kind \in {"data", "bad", "headless"}
    THEN <<Char("headless")>> \o Tail(ln)
    ELSE IF Head(ln).kind = "CAN" THEN ln ELSE Tail(ln)

\* flushinput eats one character if one has arrived.  (xmodemTransmit calls it
\* only when it returns, and nobody reads that line any more.)
Flush(ln) == {ln} \union (IF ln = <<>> THEN {} ELSE {Eaten(ln)})

-----------------------------------------------------------------------------
\* xmodemReceive: the loop that waits for the start of a packet.
RTry ==
    /\ r_pc = "try" /\ retry < Retries
    /\ toS' \in IF trychar = "none" THEN {toS} ELSE After(toS, Char(trychar))
    /\ r_pc' = "inbyte"
    /\ UNCHANGED <<toR, trychar, crc, retry, packetno, retrans, said, store, sender>>

\* The tries are used up: once more with NAK, or give up.
RTryNak ==
    /\ r_pc = "try" /\ retry = Retries /\ trychar = "C"
    /\ trychar' = "NAK" /\ retry' = 0
    /\ UNCHANGED <<line, r_pc, crc, packetno, retrans, said, store, sender>>

RGiveUp ==
    /\ r_pc = "try" /\ retry = Retries /\ trychar # "C"
    /\ toR' \in Flush(toR) /\ toS' \in After(toS, Char("CAN"))
    /\ r_pc' = "failed"
    /\ UNCHANGED <<trychar, crc, retry, packetno, retrans, said, store, sender>>

\* Mutant: a try is not counted.
RetriedNever == retry

Retried == retry + 1

RTimeout ==
    /\ r_pc = "inbyte"
    /\ r_pc' = "try" /\ retry' = Retried
    /\ UNCHANGED <<line, trychar, crc, packetno, retrans, said, store, sender>>

\* A character of a packet without its SOH can be any; more may follow it.
Arrives(kind) ==
    /\ r_pc = "inbyte" /\ toR # <<>>
    /\ Head(toR).kind \in {kind, "headless"}

Rest == IF Head(toR).kind = "headless" THEN {toR, Tail(toR)} ELSE {Tail(toR)}

RIgnore ==
    /\ \E kind \in {"junk", "ACK"} : Arrives(kind)
    /\ toR' \in Rest
    /\ r_pc' = "try" /\ retry' = Retried
    /\ UNCHANGED <<toS, trychar, crc, packetno, retrans, said, store, sender>>

RCancel ==
    /\ Arrives("CAN")
    /\ toR' \in UNION {Flush(ln) : ln \in Rest}
    /\ toS' \in After(toS, Char("ACK"))
    /\ r_pc' = "failed"
    /\ UNCHANGED <<trychar, crc, retry, packetno, retrans, said, store, sender>>

\* EOT is acknowledged before the half page that is left is written.
REot ==
    /\ Arrives("EOT")
    /\ toR' \in UNION {Flush(ln) : ln \in Rest}
    /\ toS' \in After(toS, Char("ACK"))
    /\ r_pc' = "final"
    /\ UNCHANGED <<trychar, crc, retry, packetno, retrans, said, store, sender>>

\* memcpy_toflash of a page, whose result nobody looks at.
WritePage(p, buf) ==
    \/ /\ flash' = [flash EXCEPT ![p] = buf]
       /\ failed' = failed \ {p} /\ UNCHANGED faults
    \/ /\ faults < MaxFaults /\ faults' = faults + 1
       /\ failed' = failed \union {p} /\ UNCHANGED flash

RFinal ==
    /\ r_pc = "final"
    /\ IF len % 2 = 1 THEN WritePage(len \div 2, page_buf)
                      ELSE UNCHANGED <<flash, failed, faults>>
    /\ r_pc' = "done"
    /\ UNCHANGED <<line, trychar, crc, retry, packetno, retrans, said, len, page_buf,
                   sender>>

-----------------------------------------------------------------------------
\* A packet.  The first one settles the kind of checksum, and with it the
\* length.
Crc == crc \/ trychar = "C"

\* Mutants: any number will do; a repeated packet is not recognised; one block
\* too many.
AnyNumber(m) == TRUE
NoPrevious(m) == FALSE
RoomForOneMore == len <= DestBlocks

IsNext(m) == m.no = packetno

\* packetno - 1 is an int: after the number has wrapped to 0 it is -1.
IsPrevious(m) == m.no = packetno - 1

Room == len < DestBlocks

Good(m) == m.kind = "data" /\ m.crc = Crc /\ (IsNext(m) \/ IsPrevious(m))

StartRecv ==
    /\ r_pc = "inbyte" /\ toR # <<>>
    /\ Head(toR).kind \in {"data", "bad", "headless"}
    /\ crc' = Crc /\ trychar' = "none" /\ retry' = 0

\* The next block is stored, two of them make a page; beyond destsz it is not.
RTake ==
    /\ StartRecv /\ Good(Head(toR)) /\ IsNext(Head(toR))
    /\ IF Room
       THEN /\ page_buf' = [page_buf EXCEPT ![len % 2] = Head(toR).block]
            /\ len' = len + 1
            /\ IF len % 2 = 1 THEN WritePage(len \div 2, page_buf')
                              ELSE UNCHANGED <<flash, failed, faults>>
       ELSE UNCHANGED store
    /\ packetno' = (packetno + 1) % NumMod
    /\ retrans' = MaxRetrans
    /\ said' = "ACK" /\ toS' \in After(toS, Char("ACK"))
    /\ toR' = Tail(toR)
    /\ r_pc' = "try"
    /\ UNCHANGED sender

\* The one before it again: acknowledged and dropped, MaxRetrans - 1 times.
RRepeated ==
    /\ StartRecv /\ Good(Head(toR)) /\ ~IsNext(Head(toR))
    /\ retrans' = retrans - 1
    /\ IF retrans' <= 0
       THEN /\ toR' \in Flush(Tail(toR))
            /\ said' = "CAN" /\ r_pc' = "failed"
       ELSE /\ toR' = Tail(toR)
            /\ said' = "ACK" /\ r_pc' = "try"
    /\ toS' \in After(toS, Char(said'))
    /\ UNCHANGED <<packetno, store, sender>>

\* Anything else: a packet that comes short takes a character of what follows;
\* one with a CRC, read for a checksum, leaves its last character, which can be
\* any, unless flushinput finds it.
Longer == Head(toR).crc /\ ~Crc

Refused ==
    (UNION {Flush(ln) : ln \in Flush(Tail(toR))})
      \union (IF Longer THEN {<<Char("headless")>> \o Tail(toR)} ELSE {})

RReject ==
    /\ StartRecv /\ ~Good(Head(toR))
    /\ toR' \in Refused
    /\ said' = "NAK" /\ toS' \in After(toS, Char("NAK"))
    /\ r_pc' = "try"
    /\ UNCHANGED <<packetno, retrans, store, sender>>

RSteps ==
    \/ RTry \/ RTryNak \/ RGiveUp \/ RTimeout \/ RIgnore \/ RCancel \/ REot \/ RFinal
    \/ RTake \/ RRepeated \/ RReject

-----------------------------------------------------------------------------
\* xmodemTransmit.  It may be called at any time.
SStart ==
    /\ s_pc = "off"
    /\ s_pc' = "await"
    /\ UNCHANGED <<line, receiver, s_crc, s_retry, s_packetno, s_len>>

Got(kinds) == toS # <<>> /\ Head(toS).kind \in kinds /\ toS' = Tail(toS)

\* The receiver starts the transfer.
SBegin ==
    /\ s_pc = "await"
    /\ Got({"C", "NAK"})
    /\ s_crc' = (Head(toS).kind = "C")
    /\ s_pc' = "send" /\ s_retry' = 0
    /\ UNCHANGED <<toR, receiver, s_packetno, s_len>>

\* Nothing, or not the answer it waits for: one more try, to go on with at pc
\* again, or CAN to end it.
STryAgain(tries, again) ==
    /\ s_retry' = s_retry + 1
    /\ s_pc' = IF s_retry' < tries THEN again ELSE "cancel"

SAwaitMore ==
    /\ s_pc = "await"
    /\ Got({"ACK", "junk"}) \/ UNCHANGED toS
    /\ STryAgain(Retries, "await")
    /\ UNCHANGED <<toR, receiver, s_crc, s_packetno, s_len>>

SCancel ==
    /\ s_pc \in {"await", "reply"}
    /\ Got({"CAN"})
    /\ s_pc' = "confirm"
    /\ UNCHANGED <<toR, receiver, s_crc, s_retry, s_packetno, s_len>>

\* Everything the sender writes goes through port_outbyte, which waits without
\* limit until the host has read what is before it: a write need never end.
Writes(m, then) ==
    /\ toR' \in After(toR, m)
    /\ s_pc' = then
    /\ UNCHANGED <<toS, receiver, s_crc, s_retry, s_packetno, s_len>>

SSend ==
    /\ s_pc = "send"
    /\ Writes([kind |-> "data", no |-> s_packetno, block |-> s_len, crc |-> s_crc],
              "reply")

\* The host stops in the middle of a packet, for so long that the receiver does
\* not wait for the rest.
SBreak == s_pc = "send" /\ Writes(Bad(s_crc), "rest")
SRest == s_pc = "rest" /\ Writes(Char("headless"), "reply")

SConfirm == s_pc = "confirm" /\ Writes(Char("ACK"), "failed")
SGiveUp == s_pc = "cancel" /\ Writes(Char("CAN"), "failed")
SEot == s_pc = "eot" /\ Writes(Char("EOT"), "eotReply")

SAcked ==
    /\ s_pc = "reply"
    /\ Got({"ACK"})
    /\ s_packetno' = (s_packetno + 1) % NumMod
    /\ s_len' = s_len + 1
    /\ s_retry' = 0
    /\ s_pc' = IF s_len' < Packets THEN "send" ELSE "eot"
    /\ UNCHANGED <<toR, receiver, s_crc>>

SResend ==
    /\ s_pc = "reply"
    /\ Got({"NAK", "C", "junk"}) \/ UNCHANGED toS
    /\ STryAgain(MaxRetrans, "send")
    /\ UNCHANGED <<toR, receiver, s_crc, s_packetno, s_len>>

\* last_error is not looked at here: after a time-out c is whatever the
\* uninitialised ch of port_inbyte held, an ACK for one.
SDone ==
    /\ s_pc = "eotReply"
    /\ Got({"ACK"}) \/ UNCHANGED toS
    /\ s_pc' = "ok"
    /\ UNCHANGED <<toR, receiver, s_crc, s_retry, s_packetno, s_len>>

SEotAgain ==
    /\ s_pc = "eotReply"
    /\ Got({"NAK", "C", "junk", "CAN"}) \/ UNCHANGED toS
    /\ s_retry' = s_retry + 1
    /\ s_pc' = IF s_retry' < EotRetries THEN "eot" ELSE "failed"
    /\ UNCHANGED <<toR, receiver, s_crc, s_packetno, s_len>>

SWaits == SBegin \/ SAwaitMore \/ SCancel \/ SAcked \/ SResend \/ SDone \/ SEotAgain

SWrites == SSend \/ SBreak \/ SRest \/ SConfirm \/ SGiveUp \/ SEot

Next == SStart \/ RSteps \/ SWaits \/ SWrites

\* Every wait of port_inbyte ends, and so does every write of the receiver, whose
\* port_outbyte is a UART's.  Nothing is assumed of the sender's writes.
Spec == Init /\ [][Next]_vars /\ WF_vars(RSteps) /\ WF_vars(SWaits)

-----------------------------------------------------------------------------
LinesOK ==
    /\ toR \in Seq(Msg) /\ Len(toR) <= Cap
    /\ toS \in Seq(Msg) /\ Len(toS) <= Cap

ReceiverOK ==
    /\ r_pc \in {"try", "inbyte", "final", "done", "failed"}
    /\ trychar \in {"C", "NAK", "none"}
    /\ crc \in BOOLEAN
    /\ retry \in 0 .. Retries
    /\ packetno \in 0 .. (NumMod - 1)
    /\ retrans \in 0 .. MaxRetrans
    /\ said \in {"none", "ACK", "NAK", "CAN"}
    /\ r_pc = "inbyte" => retry < Retries
    /\ r_pc \in {"try", "inbyte"} => retrans > 0

StoreOK ==
    /\ len \in 0 .. DestBlocks
    /\ page_buf \in [Halves -> Blocks \union {Before}]
    /\ flash \in [Pages -> [Halves -> Blocks \union {Before}]]
    /\ failed \subseteq Pages
    /\ faults \in 0 .. MaxFaults

Writing == {"send", "rest", "confirm", "cancel", "eot"}

SenderOK ==
    /\ s_pc \in {"off", "await", "reply", "eotReply", "ok", "failed"} \union Writing
    /\ s_crc \in BOOLEAN
    /\ s_pc \in {"off", "await"} => ~s_crc
    /\ s_retry \in Nat
    /\ s_packetno \in 0 .. (NumMod - 1)
    /\ s_len \in 0 .. Packets
    /\ s_pc \in {"off", "await", "send", "rest", "reply"} => s_len < Packets

TypeOK == LinesOK /\ ReceiverOK /\ StoreOK /\ SenderOK

\* The flash holds the beginning of the file, block by block, in the pages
\* written and then in the page buffer, however packets are repeated, answers
\* late and acknowledgements duplicated (xmodemReceive, xmodem.c:174-195).
FlashIsPrefix ==
    /\ \A p \in Pages \ failed : 2 * p + 1 < len => flash[p] = [h \in Halves |-> 2 * p + h]
    /\ len % 2 = 1 => page_buf[0] = len - 1
    /\ r_pc = "done" /\ len % 2 = 1 /\ len \div 2 \notin failed =>
           flash[len \div 2][0] = len - 1

\* A packet with the number of the one before is acknowledged, or ends the
\* transfer; it is not refused (xmodem/readme.txt:39).
Duplicate ==
    /\ r_pc = "inbyte" /\ toR # <<>>
    /\ Head(toR).kind = "data" /\ Head(toR).crc = Crc
    /\ Head(toR).no = (packetno + NumMod - 1) % NumMod

DuplicateAcked == [][StartRecv /\ Duplicate /\ r_pc' # r_pc => said' # "NAK"]_vars

\* The code keeps to that but for the packet before number 0.
DuplicateAckedUnlessWrapped ==
    [][StartRecv /\ Duplicate /\ r_pc' # r_pc /\ packetno # 0 => said' # "NAK"]_vars

\* When xmodemTransmit reports success every block has been received
\* (xmodem/readme.txt:32: the ACK says that the packet was received).
SuccessMeansReceived == s_pc = "ok" => len >= Packets \/ len = DestBlocks

\* Whatever the line and the sender do, xmodemReceive returns; xmodemTransmit
\* returns, or the host leaves it in a write for ever (port_outbyte,
\* DEVICE_EXAMPLE1 xmodem.c:43-58).
Terminates ==
    /\ <>(r_pc \in {"done", "failed"})
    /\ s_pc # "off" ~> (s_pc \in {"ok", "failed"} \/ [](s_pc \in Writing))

-----------------------------------------------------------------------------
(***************************************************************************)
(* Both sides in step: the inductive invariant behind FlashIsPrefix.       *)
(***************************************************************************)

\* The number of a block.
NumberOf(b) == (b + 1) % NumMod

\* A receiver that has not begun has acknowledged nothing.
NotBegun ==
    trychar # "none" =>
      len = 0 /\ s_len = 0 /\ \A j \in 1 .. Len(toS) : toS[j].kind # "ACK"

\* The packets on the line are in order, none older than the last one taken, and
\* none newer than the sender's block.
InOrder ==
    \A i \in 1 .. Len(toR) : toR[i].kind = "data" =>
      /\ toR[i].no = NumberOf(toR[i].block)
      /\ len - 1 <= toR[i].block /\ toR[i].block <= s_len
      /\ \A j \in i .. Len(toR) :
           toR[j].kind = "data" => toR[i].block <= toR[j].block

\* A sender that was asked for a CRC sends it, and no other does.
Modes ==
    \A i \in 1 .. Len(toR) :
      /\ toR[i].crc => s_crc
      /\ toR[i].kind = "data" => toR[i].crc = s_crc /\ s_pc \notin {"off", "await"}

\* How far the sender can be ahead of a packet on the line when the packet is
\* read: one block for each answer on the line, and one for each answer to
\* what is in front of the packet.  (A receiver that reads a CRC as a
\* checksum takes no packet at all.)
Ahead ==
    (s_crc => Crc) => \A i \in 1 .. Len(toR) : toR[i].kind = "data" =>
      s_len + Len(toS) + i <= toR[i].block + 2 * Cap

\* How far an acknowledge on the line can take it ahead of the receiver.
Credit ==
    /\ len - 1 <= s_len /\ s_len < len + 2 * Cap
    /\ \A j \in 1 .. Len(toS) : toS[j].kind = "ACK" => s_len + j < len + 2 * Cap

\* While the receiver still takes blocks, the two are in step.
InStep ==
    /\ s_packetno = NumberOf(s_len)
    /\ r_pc \in {"try", "inbyte"} /\ Room =>
         packetno = NumberOf(len) /\ NotBegun /\ InOrder /\ Modes /\ Ahead /\ Credit
=============================================================================
