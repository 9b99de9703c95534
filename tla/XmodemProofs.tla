---------------------------- MODULE XmodemProofs ----------------------------
(***************************************************************************)
(* Proofs about Xmodem, for files, packet numbers, lines and retry counts  *)
(* of every size.  Type correctness: what a send, a flush or a read can    *)
(* make of a line is settled by lemmas first; after that the actions only  *)
(* touch a few variables each.  Then the answers to repeated packets, and  *)
(* the contents of the flash: InStep is inductive if there are more packet *)
(* numbers than twice the messages a line holds, and what is stored        *)
(* follows from it.                                                        *)
(***************************************************************************)
EXTENDS Xmodem, SequenceTheorems, TLAPS

Line == {ln \in Seq(Msg) : Len(ln) <= Cap}

\* Characters are messages.
LEMMA CharType == ASSUME XmodemAssumption, NEW k \in Kinds PROVE Char(k) \in Msg
  BY DEF XmodemAssumption, Char, Msg, Blocks

LEMMA BadType ==
  ASSUME XmodemAssumption, NEW c \in BOOLEAN
  PROVE  Bad(c) \in Msg /\ Bad(c).kind = "bad"
  BY DEF XmodemAssumption, Bad, Char, Msg, Blocks, Kinds

LEMMA TailType ==
  ASSUME XmodemAssumption, NEW ln \in Line, ln # <<>>
  PROVE  Head(ln) \in Msg /\ Tail(ln) \in Line
  BY HeadTailProperties DEF Line, XmodemAssumption

LEMMA AfterType ==
  ASSUME XmodemAssumption, NEW ln \in Line, NEW m \in Msg, NEW r \in After(ln, m)
  PROVE  r \in Line
<1>1. \A d \in {m} \union Damaged(m) : d \in Msg
  <2>1. m.crc \in BOOLEAN
    BY DEF Msg
  <2> QED
    BY <2>1, CharType, BadType DEF Damaged, Kinds
<1>2. CASE r = ln
  BY <1>2
<1>3. CASE r # ln
  <2>1. Len(ln) < Cap /\ \E d \in {m} \union Damaged(m) : r = Append(ln, d)
    BY <1>3 DEF After
  <2>2. PICK d \in {m} \union Damaged(m) : r = Append(ln, d)
    BY <2>1
  <2>3. d \in Msg
    BY <1>1, <2>2
  <2>4. r \in Seq(Msg) /\ Len(r) = Len(ln) + 1
    BY <2>2, <2>3, AppendProperties DEF Line
  <2> QED
    BY <2>1, <2>4 DEF Line, XmodemAssumption
<1> QED
  BY <1>2, <1>3

LEMMA EatenType ==
  ASSUME XmodemAssumption, NEW ln \in Line, ln # <<>>
  PROVE  Eaten(ln) \in Line
<1>1. Tail(ln) \in Line /\ Tail(ln) \in Seq(Msg) /\ Len(Tail(ln)) = Len(ln) - 1
  BY HeadTailProperties, TailType DEF Line
<1>2. <<Char("headless")>> \in Seq(Msg) /\ Len(<<Char("headless")>>) = 1
  BY CharType DEF Kinds
<1>3. <<Char("headless")>> \o Tail(ln) \in Line
  <2>1. /\ <<Char("headless")>> \o Tail(ln) \in Seq(Msg)
        /\ Len(<<Char("headless")>> \o Tail(ln)) = 1 + Len(Tail(ln))
    BY <1>1, <1>2, ConcatProperties
  <2> QED
    BY <1>1, <2>1 DEF Line
<1> QED
  BY <1>1, <1>3 DEF Eaten

LEMMA FlushType ==
  ASSUME XmodemAssumption, NEW ln \in Line, NEW r \in Flush(ln)
  PROVE  r \in Line
  BY EatenType DEF Flush

\* What a refused packet leaves.
LEMMA RefusedIs ==
  ASSUME NEW r \in Refused
  PROVE  \/ r \in UNION {Flush(ln) : ln \in Flush(Tail(toR))}
         \/ Longer /\ r = <<Char("headless")>> \o Tail(toR)
  BY Zenon DEF Refused

LEMMA RefusedType ==
  ASSUME XmodemAssumption, toR \in Line, toR # <<>>,
         Head(toR).kind \in {"data", "bad", "headless"}, NEW r \in Refused
  PROVE  r \in Line /\ (r = Eaten(toR) \/ \E ln \in Flush(Tail(toR)) : r \in Flush(ln))
<1>1. Tail(toR) \in Line
  BY TailType
<1>2. CASE r \in UNION {Flush(ln) : ln \in Flush(Tail(toR))}
  <2>1. PICK ln \in Flush(Tail(toR)) : r \in Flush(ln)
    BY <1>2
  <2>2. ln \in Line
    BY <1>1, FlushType
  <2> QED
    BY <2>1, <2>2, FlushType
<1>3. CASE r = <<Char("headless")>> \o Tail(toR)
  <2>1. r = Eaten(toR)
    BY <1>3 DEF Eaten
  <2> QED
    BY <2>1, EatenType
<1>4. \/ r \in UNION {Flush(ln) : ln \in Flush(Tail(toR))}
      \/ r = <<Char("headless")>> \o Tail(toR)
  BY RefusedIs
<1> QED
  BY <1>2, <1>3, <1>4

-----------------------------------------------------------------------------
\* The lines stay lines.
LEMMA LinesStep ==
  ASSUME XmodemAssumption, TypeOK, [Next]_vars
  PROVE  LinesOK'
<1> DEFINE TR == toR' \in Line
           TS == toS' \in Line
<1>1. toR \in Line /\ toS \in Line
  BY DEF TypeOK, LinesOK, Line
<1>2. SUFFICES TR /\ TS
  BY DEF LinesOK, Line
<1>3. \A k \in Kinds : \A r \in After(toS, Char(k)) : r \in Line
  BY <1>1, CharType, AfterType
<1>4. \A k \in Kinds : \A r \in After(toR, Char(k)) : r \in Line
  BY <1>1, CharType, AfterType
<1>5. ASSUME toR # <<>> PROVE Tail(toR) \in Line /\ \A r \in Rest : r \in Line
  BY <1>1, <1>5, TailType DEF Rest
<1>6. \A ln \in Line : \A r \in Flush(ln) : r \in Line
  BY FlushType
<1>7. ASSUME NEW kinds, Got(kinds) PROVE TS
  BY <1>1, <1>7, TailType DEF Got
<1>8. ASSUME NEW m \in Msg, NEW then, Writes(m, then) PROVE TR /\ TS
  BY <1>1, <1>8, AfterType DEF Writes
<1>10. CASE SStart \/ SBegin \/ SAwaitMore \/ SResend \/ UNCHANGED vars
  BY <1>1, <1>7, <1>10 DEF SStart, SBegin, SAwaitMore, SResend, vars, line
<1>11. CASE RTry
  <2>1. TR
    BY <1>1, <1>11 DEF RTry
  <2>2. trychar # "none" => trychar \in Kinds
    BY DEF TypeOK, ReceiverOK, Kinds
  <2>3. TS
    BY <1>1, <1>3, <1>11, <2>2 DEF RTry
  <2> QED
    BY <2>1, <2>3
<1>12. CASE RTryNak \/ RTimeout \/ RFinal
  BY <1>1, <1>12 DEF RTryNak, RTimeout, RFinal, line
<1>13. CASE RGiveUp
  BY <1>1, <1>3, <1>6, <1>13 DEF RGiveUp, Kinds
<1>14. CASE RIgnore
  BY <1>1, <1>5, <1>14 DEF RIgnore, Arrives
<1>15. CASE RCancel
  BY <1>3, <1>5, <1>6, <1>15 DEF RCancel, Arrives, Kinds
<1>16. CASE REot
  BY <1>3, <1>5, <1>6, <1>16 DEF REot, Arrives, Kinds
<1>17. CASE RTake
  BY <1>3, <1>5, <1>17 DEF RTake, StartRecv, Kinds
<1>18. CASE RRepeated
  <2>1. said' \in Kinds /\ toS' \in After(toS, Char(said'))
    BY <1>18 DEF RRepeated, Kinds
  <2>2. TS
    BY <1>3, <2>1
  <2>3. TR
    BY <1>5, <1>6, <1>18 DEF RRepeated, StartRecv
  <2> QED
    BY <2>2, <2>3
<1>19. CASE RReject
  <2>1. TR
    BY <1>1, <1>19, RefusedType DEF RReject, StartRecv
  <2>2. TS
    BY <1>3, <1>19 DEF RReject, Kinds
  <2> QED
    BY <2>1, <2>2
<1>20. CASE SCancel
  BY <1>1, <1>7, <1>20 DEF SCancel
<1>21. CASE SSend
  <2>1. [kind |-> "data", no |-> s_packetno, block |-> s_len, crc |-> s_crc] \in Msg
    BY <1>21 DEF SSend, TypeOK, SenderOK, Msg, Kinds, Blocks, XmodemAssumption
  <2> QED
    BY <1>8, <1>21, <2>1 DEF SSend
<1>22. CASE SAcked
  BY <1>1, <1>7, <1>22 DEF SAcked
<1>23. CASE SBreak \/ SRest \/ SConfirm \/ SGiveUp \/ SEot
  <2>1. Bad(s_crc) \in Msg
    BY BadType DEF TypeOK, SenderOK
  <2>2. \A k \in Kinds : Char(k) \in Msg
    BY CharType
  <2> QED
    BY <1>8, <1>23, <2>1, <2>2 DEF SBreak, SRest, SConfirm, SGiveUp, SEot, Kinds
<1>24. CASE SDone \/ SEotAgain
  BY <1>1, <1>7, <1>24 DEF SDone, SEotAgain
<1> QED
  BY <1>10, <1>11, <1>12, <1>13, <1>14, <1>15, <1>16, <1>17, <1>18, <1>19, <1>20,
     <1>21, <1>22, <1>23, <1>24 DEF Next, RSteps, SWaits, SWrites

\* The sender's steps leave the receiver alone.
LEMMA SenderAlone == SStart \/ SWaits \/ SWrites => UNCHANGED receiver
  BY DEF SStart, SWaits, SWrites, SBegin, SAwaitMore, SCancel, SSend, SBreak, SRest,
         SConfirm, SGiveUp, SAcked, SResend, SEot, SDone, SEotAgain, Writes

\* The receiver's counters stay in their ranges.
LEMMA ReceiverStep ==
  ASSUME XmodemAssumption, TypeOK, [Next]_vars
  PROVE  ReceiverOK'
<1> USE DEF TypeOK, ReceiverOK, XmodemAssumption
<1>1. CASE RTry
  BY <1>1 DEF RTry
<1>2. CASE RTryNak
  BY <1>2 DEF RTryNak
<1>3. CASE RGiveUp
  BY <1>3 DEF RGiveUp
<1>4. CASE RTimeout
  BY <1>4 DEF RTimeout, Retried
<1>5. CASE RIgnore
  BY <1>5 DEF RIgnore, Retried, Arrives
<1>6. CASE RCancel
  BY <1>6 DEF RCancel
<1>7. CASE REot
  BY <1>7 DEF REot
<1>8. CASE RFinal
  BY <1>8 DEF RFinal
<1>9. CASE RTake
  BY <1>9 DEF RTake, StartRecv, Crc
<1>10. CASE RRepeated
  BY <1>10 DEF RRepeated, StartRecv, Crc
<1>11. CASE RReject
  BY <1>11 DEF RReject, StartRecv, Crc
<1>12. CASE UNCHANGED receiver
  BY <1>12 DEF receiver
<1> QED
  BY <1>1, <1>2, <1>3, <1>4, <1>5, <1>6, <1>7, <1>8, <1>9, <1>10, <1>11, <1>12, SenderAlone
     DEF Next, RSteps, vars

\* What is stored are blocks, in pages of the destination.
LEMMA StoreStep ==
  ASSUME XmodemAssumption, TypeOK, [Next]_vars
  PROVE  StoreOK'
<1> USE DEF TypeOK, StoreOK, XmodemAssumption
<1>1. ASSUME NEW p \in Pages, NEW buf \in [Halves -> Blocks \union {Before}],
             WritePage(p, buf)
      PROVE  /\ flash' \in [Pages -> [Halves -> Blocks \union {Before}]]
             /\ failed' \subseteq Pages /\ faults' \in 0 .. MaxFaults
  BY <1>1 DEF WritePage
<1>2. \A n \in 0 .. DestBlocks : n \div 2 \in Pages
  BY DEF Pages
<1>3. CASE RFinal
  BY <1>1, <1>2, <1>3 DEF RFinal
<1>4. CASE RTake
  <2>1. toR # <<>>
    BY <1>4 DEF RTake, StartRecv
  <2>2. Head(toR).block \in Blocks
    BY <2>1, TailType DEF LinesOK, Line, Msg
  <2>3. CASE Room
    <3>1. /\ page_buf' = [page_buf EXCEPT ![len % 2] = Head(toR).block]
          /\ len' = len + 1
          /\ \/ WritePage(len \div 2, page_buf')
             \/ UNCHANGED <<flash, failed, faults>>
      BY <1>4, <2>3 DEF RTake
    <3>2. page_buf' \in [Halves -> Blocks \union {Before}]
      BY <2>2, <3>1
    <3>3. len' \in 0 .. DestBlocks
      BY <2>3, <3>1 DEF Room
    <3>4. /\ flash' \in [Pages -> [Halves -> Blocks \union {Before}]]
          /\ failed' \subseteq Pages /\ faults' \in 0 .. MaxFaults
      BY <1>1, <1>2, <3>1, <3>2
    <3> QED
      BY <3>2, <3>3, <3>4
  <2>4. CASE ~Room
    BY <1>4, <2>4 DEF RTake, store
  <2> QED
    BY <2>3, <2>4
<1>5. CASE UNCHANGED store
  BY <1>5 DEF store
<1> QED
  BY <1>3, <1>4, <1>5, SenderAlone
     DEF Next, RSteps, RTry, RTryNak, RGiveUp, RTimeout, RIgnore, RCancel, REot,
         RRepeated, RReject, receiver, vars

\* The sender never counts more blocks than there are.
LEMMA SenderStep ==
  ASSUME XmodemAssumption, TypeOK, [Next]_vars
  PROVE  SenderOK'
<1> USE DEF TypeOK, SenderOK, XmodemAssumption, Writing
<1>1. CASE SStart
  BY <1>1 DEF SStart
<1>2. CASE SBegin
  BY <1>2 DEF SBegin
<1>3. CASE SAwaitMore
  BY <1>3 DEF SAwaitMore, STryAgain
<1>4. CASE SCancel
  BY <1>4 DEF SCancel
<1>5. CASE SWrites
  BY <1>5 DEF SWrites, SSend, SBreak, SRest, SConfirm, SGiveUp, SEot, Writes
<1>6. CASE SAcked
  BY <1>6 DEF SAcked
<1>7. CASE SResend
  BY <1>7 DEF SResend, STryAgain
<1>9. CASE SDone
  BY <1>9 DEF SDone
<1>10. CASE SEotAgain
  BY <1>10 DEF SEotAgain
<1>11. CASE UNCHANGED sender
  BY <1>11 DEF sender
<1> QED
  BY <1>1, <1>2, <1>3, <1>4, <1>5, <1>6, <1>7, <1>9, <1>10, <1>11
     DEF Next, RSteps, SWaits, RTry, RTryNak, RGiveUp, RTimeout, RIgnore, RCancel, REot,
         RFinal, RTake, RRepeated, RReject, vars

-----------------------------------------------------------------------------
\* xmodemReceive and xmodemTransmit keep every variable in its type: the retry
\* counters end their loops in time, the packet numbers wrap, no page outside
\* the destination is written, and nothing is read past the file.
THEOREM TypeCorrect == Spec => []TypeOK
<1>1. Init => TypeOK
  <2> SUFFICES ASSUME Init PROVE TypeOK
    OBVIOUS
  <2> USE XmodemAssumption DEF Init, XmodemAssumption
  <2>1. LinesOK
    BY DEF LinesOK
  <2>2. 1 % NumMod \in 0 .. (NumMod - 1)
    OBVIOUS
  <2>3. ReceiverOK
    <3>1. retry < Retries /\ retry \in 0 .. Retries /\ retrans > 0
      OBVIOUS
    <3>2. crc \in BOOLEAN
      OBVIOUS
    <3> QED
      BY <2>2, <3>1, <3>2 DEF ReceiverOK
  <2>4. StoreOK
    <3>1. len \in 0 .. DestBlocks /\ faults \in 0 .. MaxFaults
      OBVIOUS
    <3>2. page_buf \in [Halves -> Blocks \union {Before}]
      OBVIOUS
    <3>3. flash \in [Pages -> [Halves -> Blocks \union {Before}]]
      OBVIOUS
    <3> QED
      BY <3>1, <3>2, <3>3 DEF StoreOK
  <2>5. SenderOK
    <3>1. s_len < Packets /\ s_len \in 0 .. Packets
      OBVIOUS
    <3>2. s_crc \in BOOLEAN
      OBVIOUS
    <3> QED
      BY <2>2, <3>1, <3>2 DEF SenderOK
  <2> QED
    BY <2>1, <2>3, <2>4, <2>5 DEF TypeOK
<1>2. TypeOK /\ [Next]_vars => TypeOK'
  BY XmodemAssumption, LinesStep, ReceiverStep, StoreStep, SenderStep DEF TypeOK
<1> QED
  BY <1>1, <1>2, PTL DEF Spec

-----------------------------------------------------------------------------
\* Arithmetic of the packet numbers.
LEMMA Division ==
  ASSUME NEW a \in Nat, NEW n \in Nat, n > 1
  PROVE  a \div n \in Nat /\ a % n \in 0 .. (n - 1) /\ a = n * (a \div n) + (a % n)
  BY Z3T(30)

\* A multiple of n between -n and n is 0.
LEMMA Multiple ==
  ASSUME NEW n \in Nat, NEW q \in Int, n > 1, -n < n * q, n * q < n
  PROVE  q = 0
<1>1. CASE q >= 1
  <2>1. n * q >= n * 1
    BY <1>1
  <2> QED
    BY <2>1
<1>2. CASE q <= -1
  <2>1. n * q <= n * (-1)
    BY <1>2
  <2> QED
    BY <2>1
<1> QED
  BY <1>1, <1>2

LEMMA ModIs ==
  ASSUME NEW n \in Nat, NEW q \in Nat, NEW r \in 0 .. (n - 1), n > 1
  PROVE  (n * q + r) % n = r
<1>1. PICK c \in Nat : c = n * q + r
  OBVIOUS
<1>2. PICK d \in Nat : d = c \div n
  BY <1>1, Division
<1>3. PICK s \in 0 .. (n - 1) : s = c % n
  BY <1>1, Division
<1>4. c = n * d + s
  BY <1>1, <1>2, <1>3, Division
<1>5. n * (q - d) = s - r
  BY <1>1, <1>4
<1>6. q - d = 0
  BY <1>5, Multiple
<1> QED
  BY <1>1, <1>3, <1>5, <1>6

LEMMA ModSucc ==
  ASSUME NEW a \in Nat, NEW n \in Nat, n > 1
  PROVE  ((a % n) + 1) % n = (a + 1) % n
<1>1. PICK q \in Nat, r \in 0 .. (n - 1) : r = a % n /\ a = n * q + r
  BY Division
<1>2. CASE r + 1 < n
  <2>1. a + 1 = n * q + (r + 1)
    BY <1>1
  <2>2. (n * q + (r + 1)) % n = r + 1
    BY <1>2, ModIs
  <2>3. (r + 1) % n = r + 1
    BY <1>2
  <2> QED
    BY <1>1, <2>1, <2>2, <2>3
<1>3. CASE r + 1 = n
  <2>1. a + 1 = n * (q + 1) + 0
    BY <1>1, <1>3
  <2>2. (n * (q + 1) + 0) % n = 0
    BY ModIs
  <2>3. n = n * 1 + 0 /\ (n * 1 + 0) % n = 0
    BY ModIs
  <2> QED
    BY <1>1, <1>3, <2>1, <2>2, <2>3
<1> QED
  BY <1>1, <1>2, <1>3

\* Less than n apart, equal numbers are equal.
LEMMA ModEqual ==
  ASSUME NEW a \in Nat, NEW b \in Nat, NEW n \in Nat, n > 1,
         a % n = b % n, a <= b, b < a + n
  PROVE  a = b
<1>1. PICK q \in Nat, r \in 0 .. (n - 1) : r = a % n /\ a = n * q + r
  BY Division
<1>2. PICK d \in Nat, s \in 0 .. (n - 1) : s = b % n /\ b = n * d + s
  BY Division
<1>3. n * (d - q) = b - a
  BY <1>1, <1>2
<1>4. d - q = 0
  BY <1>3, Multiple
<1> QED
  BY <1>3, <1>4

LEMMA NumberType ==
  ASSUME XmodemAssumption, NEW b \in Nat
  PROVE  NumberOf(b) \in 0 .. (NumMod - 1)
  BY Division DEF NumberOf, XmodemAssumption

LEMMA NextNumber ==
  ASSUME XmodemAssumption, NEW b \in Nat
  PROVE  (NumberOf(b) + 1) % NumMod = NumberOf(b + 1)
<1>1. (b + 1) + 1 = (b + 1) + 1 /\ (b + 1) \in Nat
  OBVIOUS
<1>2. (((b + 1) % NumMod) + 1) % NumMod = ((b + 1) + 1) % NumMod
  BY <1>1, ModSucc DEF XmodemAssumption
<1> QED
  BY <1>2 DEF NumberOf

\* Blocks less than NumMod apart have different numbers.
LEMMA SameNumber ==
  ASSUME XmodemAssumption, NEW a \in Nat, NEW b \in Nat,
         NumberOf(a) = NumberOf(b), a <= b, b < a + NumMod
  PROVE  a = b
<1>1. a + 1 \in Nat /\ b + 1 \in Nat /\ a + 1 <= b + 1 /\ b + 1 < (a + 1) + NumMod
  BY DEF XmodemAssumption
<1>2. a + 1 = b + 1
  BY <1>1, ModEqual DEF XmodemAssumption, NumberOf
<1> QED
  BY <1>2

\* The number that IsPrevious looks for is that of the block before.
LEMMA NumberBefore ==
  ASSUME XmodemAssumption, NEW a \in Nat, NEW b \in Nat,
         NumberOf(a) = NumberOf(b) - 1
  PROVE  NumberOf(a + 1) = NumberOf(b)
<1>1. NumberOf(a) + 1 = NumberOf(b) /\ NumberOf(b) \in 0 .. (NumMod - 1)
  BY NumberType
<1>2. (NumberOf(a) + 1) % NumMod = NumberOf(a) + 1
  BY <1>1, NumberType DEF XmodemAssumption
<1> QED
  BY <1>1, <1>2, NextNumber

-----------------------------------------------------------------------------
\* A packet with the number before the expected one, which is not 0, is not
\* refused.
LEMMA DuplicateStep ==
  ASSUME XmodemAssumption, TypeOK, Next, StartRecv, Duplicate, r_pc' # r_pc, packetno # 0
  PROVE  said' # "NAK"
<1>1. Head(toR).kind = "data" /\ r_pc = "inbyte" /\ retry' = 0 /\ retry \in Nat
  BY DEF StartRecv, Duplicate, TypeOK, ReceiverOK
<1>2. Good(Head(toR))
  <2>1. packetno \in 1 .. (NumMod - 1) /\ NumMod \in Nat /\ NumMod > 1
    BY DEF TypeOK, ReceiverOK, XmodemAssumption
  <2>2. PICK r \in 0 .. (NumMod - 1) : r = packetno - 1
    BY <2>1
  <2>3. (NumMod * 1 + r) % NumMod = r
    BY <2>1, <2>2, ModIs
  <2>4. packetno + NumMod - 1 = NumMod * 1 + r
    BY <2>1, <2>2
  <2>5. Head(toR).no = packetno - 1
    BY <2>2, <2>3, <2>4 DEF Duplicate
  <2> QED
    BY <2>5 DEF Good, IsPrevious, Duplicate
<1>3. CASE RTry \/ RTryNak \/ RGiveUp \/ RFinal
  BY <1>1, <1>3 DEF RTry, RTryNak, RGiveUp, RFinal
<1>4. CASE RTimeout \/ RIgnore
  BY <1>1, <1>4 DEF RTimeout, RIgnore, Retried
<1>5. CASE RCancel \/ REot
  BY <1>1, <1>5 DEF RCancel, REot, Arrives
<1>6. CASE RTake
  BY <1>6 DEF RTake
<1>7. CASE RRepeated
  BY <1>7 DEF RRepeated
<1>8. CASE RReject
  BY <1>2, <1>8 DEF RReject
<1>9. CASE UNCHANGED receiver
  BY <1>9 DEF receiver
<1> QED
  BY <1>3, <1>4, <1>5, <1>6, <1>7, <1>8, <1>9, SenderAlone DEF Next, RSteps

\* A repeated packet is acknowledged, or ends the transfer, unless the number
\* has just wrapped.
THEOREM DuplicateAcknowledged == Spec => DuplicateAckedUnlessWrapped
<1>1. TypeOK /\ [Next]_vars =>
        [StartRecv /\ Duplicate /\ r_pc' # r_pc /\ packetno # 0 => said' # "NAK"]_vars
  BY XmodemAssumption, DuplicateStep
<1> QED
  BY <1>1, TypeCorrect, PTL DEF Spec, DuplicateAckedUnlessWrapped

-----------------------------------------------------------------------------
\* What happens to the packets on a line that is read: a message of the new
\* line that is a packet, or has the length of one with a CRC, was k places
\* further back.
Packet(m) == m.kind = "data" \/ m.crc

Cut(new, old, k) ==
  \A i \in 1 .. Len(new) :
    Packet(new[i]) => i + k \in 1 .. Len(old) /\ new[i] = old[i + k]

LEMMA CutTail ==
  ASSUME NEW ln \in Line, ln # <<>>
  PROVE  /\ Cut(Tail(ln), ln, 1) /\ Len(ln) \in Nat /\ Len(ln) >= 1
         /\ Len(Tail(ln)) = Len(ln) - 1 /\ Head(ln) = ln[1]
         /\ \A i \in 1 .. Len(Tail(ln)) : Tail(ln)[i] = ln[i + 1]
<1>1. ln \in Seq(Msg)
  BY DEF Line
<1>2. /\ Len(Tail(ln)) = Len(ln) - 1 /\ Len(ln) \in Nat /\ Len(ln) >= 1
      /\ \A i \in 1 .. Len(Tail(ln)) : Tail(ln)[i] = ln[i + 1]
  BY <1>1, HeadTailProperties, EmptySeq, LenProperties
<1> QED
  BY <1>1, <1>2 DEF Cut

LEMMA CutTwice ==
  ASSUME NEW a \in Line, NEW b \in Line, NEW c \in Line, NEW k \in Nat, NEW l \in Nat,
         Cut(a, b, k), Cut(b, c, l)
  PROVE  Cut(a, c, k + l)
<1> SUFFICES ASSUME NEW i \in 1 .. Len(a), Packet(a[i])
             PROVE  i + (k + l) \in 1 .. Len(c) /\ a[i] = c[i + (k + l)]
  BY DEF Cut
<1>1. i \in Nat
  BY DEF Line
<1>2. i + k \in 1 .. Len(b) /\ a[i] = b[i + k]
  BY DEF Cut
<1>3. (i + k) + l \in 1 .. Len(c) /\ b[i + k] = c[(i + k) + l]
  BY <1>2 DEF Cut
<1>4. (i + k) + l = i + (k + l)
  BY <1>1
<1> QED
  BY <1>2, <1>3, <1>4

\* A character is not a packet.
LEMMA CutEaten ==
  ASSUME XmodemAssumption, NEW ln \in Line, ln # <<>>
  PROVE  \E k \in Nat : Cut(Eaten(ln), ln, k)
<1>1. CASE Eaten(ln) = Tail(ln)
  BY <1>1, CutTail
<1>2. CASE Eaten(ln) = ln
  <2>1. Len(ln) \in Nat
    BY CutTail
  <2>2. Cut(ln, ln, 0)
    BY <2>1 DEF Cut
  <2> QED
    BY <1>2, <2>2
<1>3. CASE Eaten(ln) = <<Char("headless")>> \o Tail(ln)
  <2>1. Tail(ln) \in Seq(Msg) /\ <<Char("headless")>> \in Seq(Msg)
    BY CharType, TailType DEF Kinds, Line
  <2>2. PICK new : new = <<Char("headless")>> \o Tail(ln)
    OBVIOUS
  <2>3. /\ Len(new) = Len(ln) /\ new[1] = Char("headless")
        /\ \A i \in 1 .. Len(new) : i > 1 => new[i] = Tail(ln)[i - 1]
    <3>1. /\ Len(new) = 1 + Len(Tail(ln))
          /\ \A i \in 1 .. Len(new) :
               new[i] = IF i <= 1 THEN <<Char("headless")>>[i] ELSE Tail(ln)[i - 1]
      BY <2>1, <2>2, ConcatProperties
    <3> QED
      BY <3>1, CutTail
  <2>4. \A i \in 1 .. Len(new) : i > 1 => new[i] = ln[i]
    <3> SUFFICES ASSUME NEW i \in 1 .. Len(new), i > 1 PROVE new[i] = ln[i]
      OBVIOUS
    <3>1. i - 1 \in 1 .. Len(Tail(ln)) /\ (i - 1) + 1 = i
      BY <2>3, CutTail
    <3>2. Tail(ln)[i - 1] = ln[(i - 1) + 1]
      BY <3>1, CutTail
    <3> QED
      BY <2>3, <3>1, <3>2
  <2>5. Cut(new, ln, 0)
    <3> SUFFICES ASSUME NEW i \in 1 .. Len(new), Packet(new[i])
                 PROVE  i + 0 \in 1 .. Len(ln) /\ new[i] = ln[i + 0]
      BY DEF Cut
    <3>1. i # 1
      BY <2>3 DEF Char, Packet
    <3> QED
      BY <2>3, <2>4, <3>1, CutTail
  <2> QED
    BY <1>3, <2>2, <2>5
<1> QED
  BY <1>1, <1>2, <1>3 DEF Eaten

LEMMA CutFlush ==
  ASSUME XmodemAssumption, NEW ln \in Line, NEW r \in Flush(ln)
  PROVE  \E k \in Nat : Cut(r, ln, k)
<1>1. CASE r = ln
  <2>1. Len(ln) \in Nat
    BY DEF Line
  <2>2. Cut(ln, ln, 0)
    BY <2>1 DEF Cut
  <2> QED
    BY <1>1, <2>2
<1>2. CASE ln # <<>> /\ r = Eaten(ln)
  BY <1>2, CutEaten
<1> QED
  BY <1>1, <1>2 DEF Flush

\* What a message that is sent does to a line.
LEMMA AfterIs ==
  ASSUME XmodemAssumption, NEW ln \in Line, NEW m \in Msg, NEW new \in After(ln, m)
  PROVE  /\ new \in Line /\ Len(new) <= Len(ln) + 1 /\ Len(ln) <= Len(new)
         /\ \A i \in 1 .. Len(new) :
              \/ i \in 1 .. Len(ln) /\ new[i] = ln[i]
              \/ i = Len(ln) + 1 /\ new[i] \in {m} \union Damaged(m)
<1>1. new \in Line
  BY AfterType
<1>2. CASE new = ln
  <2>1. Len(ln) \in Nat
    BY DEF Line
  <2> QED
    BY <1>1, <1>2, <2>1
<1>3. CASE new # ln
  <2>1. PICK d \in {m} \union Damaged(m) : new = Append(ln, d)
    BY <1>3 DEF After
  <2>2. d \in Msg
    <3>1. m.crc \in BOOLEAN
      BY DEF Msg
    <3> QED
      BY <2>1, <3>1, CharType, BadType DEF Damaged, Kinds
  <2>3. /\ Len(new) = Len(ln) + 1 /\ Len(ln) \in Nat
        /\ \A i \in 1 .. Len(ln) : new[i] = ln[i]
        /\ new[Len(ln) + 1] = d
    BY <2>1, <2>2, AppendProperties, LenProperties DEF Line
  <2>4. ASSUME NEW i \in 1 .. Len(new)
        PROVE  \/ i \in 1 .. Len(ln) /\ new[i] = ln[i]
               \/ i = Len(ln) + 1 /\ new[i] \in {m} \union Damaged(m)
    <3>1. i \in 1 .. Len(ln) \/ i = Len(ln) + 1
      BY <2>3
    <3> QED
      BY <2>1, <2>3, <3>1
  <2> QED
    BY <1>1, <2>3, <2>4
<1> QED
  BY <1>2, <1>3

\* An answer of the kind given, as the line brings it.
Answered(new, ln, kind) ==
  /\ Len(new) <= Len(ln) + 1
  /\ \A j \in 1 .. Len(new) : new[j].kind = "ACK" =>
       \/ j \in 1 .. Len(ln) /\ new[j] = ln[j]
       \/ j = Len(ln) + 1 /\ kind = "ACK"

LEMMA AfterAnswer ==
  ASSUME XmodemAssumption, NEW ln \in Line, NEW kind \in Kinds, kind # "data",
         NEW new \in After(ln, Char(kind))
  PROVE  Answered(new, ln, kind)
<1>1. Char(kind) \in Msg
  BY CharType
<1>2. {Char(kind)} \union Damaged(Char(kind)) = {Char(kind), Char("junk")}
  BY DEF Damaged, Char
<1>3. \A c \in {Char(kind), Char("junk")} : c.kind = "ACK" => kind = "ACK"
  BY DEF Char
<1> QED
  BY <1>1, <1>2, <1>3, AfterIs DEF Answered

\* What the sender puts on the line: its packet or none.
SenderLine ==
  \A i \in 1 .. Len(toR') :
    /\ Packet(toR'[i]) =>
         \/ i \in 1 .. Len(toR) /\ toR'[i] = toR[i]
         \/ i = Len(toR) + 1 /\ (toR'[i].crc => s_crc)
    /\ toR'[i].kind = "data" =>
         \/ i \in 1 .. Len(toR) /\ toR'[i] = toR[i]
         \/ /\ i = Len(toR) + 1 /\ s_pc = "send" /\ toR'[i].crc = s_crc
            /\ toR'[i].no = s_packetno /\ toR'[i].block = s_len

LEMMA SenderChar ==
  ASSUME XmodemAssumption, toR \in Line, NEW kind \in Kinds, kind # "data",
         toR' \in After(toR, Char(kind))
  PROVE  SenderLine
<1>1. Char(kind) \in Msg
  BY CharType
<1>2. {Char(kind)} \union Damaged(Char(kind)) = {Char(kind), Char("junk")}
  BY DEF Damaged, Char
<1>3. \A c \in {Char(kind), Char("junk")} : c.kind # "data" /\ ~c.crc
  BY DEF Char
<1> QED
  BY <1>1, <1>2, <1>3, AfterIs DEF SenderLine

\* Half a packet has the length of the sender's.
LEMMA SenderHalf ==
  ASSUME XmodemAssumption, TypeOK, SBreak
  PROVE  SenderLine
<1>1. PICK m : m = Bad(s_crc)
  OBVIOUS
<1>2. m \in Msg /\ m.kind = "bad" /\ m.crc = s_crc
  <2>1. s_crc \in BOOLEAN
    BY DEF TypeOK, SenderOK
  <2>2. m.crc = s_crc
    BY <1>1 DEF Bad, Char
  <2> QED
    BY <1>1, <2>1, <2>2, BadType
<1>3. toR \in Line /\ toR' \in After(toR, m)
  BY <1>1 DEF SBreak, Writes, TypeOK, LinesOK, Line
<1>4. \A c \in {m} \union Damaged(m) : c.kind # "data" /\ (c.crc => s_crc)
  BY <1>2 DEF Damaged, Char
<1> QED
  BY <1>2, <1>3, <1>4, AfterIs DEF SenderLine

LEMMA SenderPacket ==
  ASSUME XmodemAssumption, TypeOK, SSend
  PROVE  SenderLine
<1>1. PICK m : m = [kind |-> "data", no |-> s_packetno, block |-> s_len, crc |-> s_crc]
  OBVIOUS
<1>2. m \in Msg
  BY <1>1 DEF SSend, TypeOK, SenderOK, Msg, Kinds, Blocks, XmodemAssumption
<1>3. toR \in Line /\ toR' \in After(toR, m)
  BY <1>1 DEF SSend, Writes, TypeOK, LinesOK, Line
<1>4. \A c \in {m} \union Damaged(m) :
        /\ c.kind = "data" => c.no = s_packetno /\ c.block = s_len /\ c.crc = s_crc
        /\ c.crc => s_crc
  <2>1. Bad(m.crc).kind = "bad" /\ Bad(m.crc).crc = m.crc /\ m.crc = s_crc
    BY <1>1 DEF Bad, Char
  <2>2. m.no = s_packetno /\ m.block = s_len
    BY <1>1
  <2>3. Damaged(m) = {Bad(m.crc), Char("headless")}
    BY <1>1 DEF Damaged
  <2>4. Char("headless").kind = "headless" /\ ~Char("headless").crc
    BY DEF Char
  <2> QED
    BY <2>1, <2>2, <2>3, <2>4
<1>5. s_pc = "send"
  BY DEF SSend
<1> QED
  BY <1>2, <1>3, <1>4, <1>5, AfterIs DEF SenderLine

\* The numbers in a state.
LEMMA Numbers ==
  ASSUME XmodemAssumption, TypeOK
  PROVE  /\ toR \in Line /\ toS \in Line
         /\ Len(toR) \in Nat /\ Len(toR) <= Cap /\ Len(toS) \in Nat /\ Len(toS) <= Cap
         /\ len \in Nat /\ s_len \in Nat /\ Cap \in Nat /\ Cap >= 1 /\ DestBlocks \in Nat
         /\ \A i \in 1 .. Len(toR) : toR[i].block \in Nat /\ toR[i] \in Msg
<1>1. \A i \in 1 .. Len(toR) : toR[i] \in Msg
  BY ElementOfSeq DEF TypeOK, LinesOK
<1>2. \A m \in Msg : m.block \in Nat
  BY DEF Msg, Blocks, XmodemAssumption
<1> QED
  BY <1>1, <1>2 DEF XmodemAssumption, TypeOK, LinesOK, StoreOK, SenderOK, Line

-----------------------------------------------------------------------------
\* Reading leaves the packets in order.
LEMMA ReadInOrder ==
  ASSUME XmodemAssumption, TypeOK, TypeOK', InOrder, NEW k \in Nat, Cut(toR', toR, k),
         UNCHANGED <<len, s_len>>
  PROVE  InOrder'
<1>1. Len(toR) \in Nat /\ Len(toR') \in Nat
  BY Numbers
<1> SUFFICES ASSUME NEW i \in 1 .. Len(toR'), toR'[i].kind = "data"
             PROVE  /\ toR'[i].no = NumberOf(toR'[i].block)
                    /\ len - 1 <= toR'[i].block /\ toR'[i].block <= s_len
                    /\ \A j \in i .. Len(toR') :
                         toR'[j].kind = "data" => toR'[i].block <= toR'[j].block
  BY DEF InOrder
<1>2. i \in Nat /\ i + k \in 1 .. Len(toR) /\ toR'[i] = toR[i + k]
  BY DEF Cut, Packet
<1>3. ASSUME NEW j \in i .. Len(toR'), toR'[j].kind = "data"
      PROVE  toR'[i].block <= toR'[j].block
  <2>1. j \in 1 .. Len(toR') /\ j \in Nat /\ j >= i
    BY <1>1, <1>2
  <2>2. j + k \in 1 .. Len(toR) /\ toR'[j] = toR[j + k]
    BY <1>3, <2>1 DEF Cut, Packet
  <2>3. j + k \in (i + k) .. Len(toR)
    BY <1>1, <1>2, <2>1, <2>2
  <2> QED
    BY <1>2, <1>3, <2>2, <2>3 DEF InOrder
<1> QED
  BY <1>2, <1>3 DEF InOrder

LEMMA ReadModes ==
  ASSUME Modes, NEW k \in Nat, Cut(toR', toR, k), UNCHANGED <<s_crc, s_pc>>
  PROVE  Modes'
  BY DEF Modes, Cut, Packet

\* A receiver that does not take CRCs begins with none.
ModeKept == (s_crc' => Crc') => (s_crc => Crc)

\* Whoever is read and answered is no further ahead.
LEMMA ReadAhead ==
  ASSUME XmodemAssumption, TypeOK, TypeOK', Ahead, NEW k \in Nat, Cut(toR', toR, k),
         ModeKept, (s_crc' => Crc') => Len(toS') <= Len(toS) + k, s_len' = s_len
  PROVE  Ahead'
<1>1. Len(toR) \in Nat /\ Len(toS) \in Nat /\ Len(toS') \in Nat /\ s_len \in Nat /\ Cap \in Nat
  BY Numbers
<1> SUFFICES ASSUME s_crc' => Crc', NEW i \in 1 .. Len(toR'), toR'[i].kind = "data"
             PROVE  s_len + Len(toS') + i <= toR'[i].block + 2 * Cap
  BY DEF Ahead
<1>2. i \in Nat /\ i + k \in 1 .. Len(toR) /\ toR'[i] = toR[i + k]
  BY DEF Cut, Packet
<1>3. s_len + Len(toS) + (i + k) <= toR[i + k].block + 2 * Cap
  BY <1>2 DEF Ahead, ModeKept
<1>4. toR[i + k].block \in Nat
  BY <1>2, Numbers
<1> QED
  BY <1>1, <1>2, <1>3, <1>4

\* The packet read, if it is the expected one or the one before, is what it says.
LEMMA ReadBlock ==
  ASSUME XmodemAssumption, TypeOK, InStep, NumMod > 2 * Cap, r_pc = "inbyte", Room,
         toR # <<>>, Head(toR).kind = "data", Head(toR).crc = Crc
  PROVE  /\ Head(toR).block \in Nat /\ s_len + Len(toS) + 1 <= Head(toR).block + 2 * Cap
         /\ Head(toR).block <= s_len
         /\ \A i \in 1 .. Len(toR) :
              toR[i].kind = "data" => Head(toR).block <= toR[i].block
         /\ IsNext(Head(toR)) => Head(toR).block = len
         /\ IsPrevious(Head(toR)) => Head(toR).block + 1 = len
<1>1. packetno = NumberOf(len) /\ InOrder /\ Modes /\ Ahead /\ Credit
  BY DEF InStep
<1>2. 1 \in 1 .. Len(toR) /\ Head(toR) = toR[1] /\ (s_crc => Crc)
  <2>1. 1 \in 1 .. Len(toR) /\ Head(toR) = toR[1]
    BY CutTail, Numbers
  <2>2. toR[1].crc = s_crc
    BY <1>1, <2>1 DEF Modes
  <2> QED
    BY <2>1, <2>2
<1>3. PICK b \in Nat : b = Head(toR).block
  BY <1>2, Numbers
<1>4. /\ Head(toR).no = NumberOf(b) /\ len - 1 <= b /\ b <= s_len
      /\ s_len + Len(toS) + 1 <= b + 2 * Cap
      /\ \A i \in 1 .. Len(toR) : toR[i].kind = "data" => b <= toR[i].block
  BY <1>1, <1>2, <1>3 DEF InOrder, Ahead
<1>5. /\ NumMod \in Nat /\ NumMod > 1 /\ len \in Nat /\ s_len \in Nat /\ Cap \in Nat
      /\ s_len < len + 2 * Cap
  BY <1>1, Numbers DEF Credit, XmodemAssumption
<1>6. ASSUME IsNext(Head(toR)) PROVE b = len
  <2>1. NumberOf(b) = NumberOf(len)
    BY <1>1, <1>4, <1>6 DEF IsNext
  <2>2. CASE b >= len
    <3>1. b < len + NumMod
      BY <1>4, <1>5
    <3> QED
      BY <1>5, <2>1, <2>2, <3>1, SameNumber
  <2>3. CASE b < len
    <3>1. b <= len /\ len < b + NumMod
      BY <1>4, <1>5, <2>3
    <3>2. b = len
      BY <1>5, <2>1, <3>1, SameNumber
    <3> QED
      BY <3>2
  <2> QED
    BY <1>5, <2>2, <2>3
<1>7. ASSUME IsPrevious(Head(toR)) PROVE b + 1 = len
  <2>1. NumberOf(b) = NumberOf(len) - 1
    BY <1>1, <1>4, <1>7 DEF IsPrevious
  <2>2. NumberOf(b + 1) = NumberOf(len)
    BY <1>5, <2>1, NumberBefore
  <2>3. len <= b + 1 /\ b + 1 < len + NumMod /\ b + 1 \in Nat
    BY <1>4, <1>5
  <2> QED
    BY <1>5, <2>2, <2>3, SameNumber
<1> QED
  BY <1>3, <1>4, <1>6, <1>7

\* The receiver that does not take a packet: it reads, and may answer.
LEMMA ReadKeeps ==
  ASSUME XmodemAssumption, TypeOK, TypeOK', InStep, NEW k \in Nat, Cut(toR', toR, k),
         NEW kind, Answered(toS', toS, kind),
         ModeKept, (s_crc' => Crc') => Len(toS') <= Len(toS) + k,
         kind = "ACK" => s_len + Len(toS) + 1 < len + 2 * Cap,
         r_pc \in {"try", "inbyte"}, NotBegun',
         UNCHANGED <<len, s_len, s_packetno, packetno, s_crc, s_pc>>
  PROVE  InStep'
<1> SUFFICES ASSUME Room
             PROVE  packetno = NumberOf(len) /\ InOrder' /\ Modes' /\ Ahead' /\ Credit'
  BY DEF InStep, Room
<1>1. packetno = NumberOf(len) /\ InOrder /\ Modes /\ Ahead /\ Credit
  BY DEF InStep
<1>2. InOrder' /\ Modes' /\ Ahead'
  BY <1>1, ReadInOrder, ReadModes, ReadAhead
<1>3. ASSUME NEW j \in 1 .. Len(toS'), toS'[j].kind = "ACK" PROVE s_len + j < len + 2 * Cap
  <2>1. CASE j \in 1 .. Len(toS) /\ toS'[j] = toS[j]
    BY <1>1, <1>3, <2>1 DEF Credit
  <2>2. CASE j = Len(toS) + 1 /\ kind = "ACK"
    <3>1. s_len + j = s_len + Len(toS) + 1
      BY <2>2, Numbers
    <3> QED
      BY <2>2, <3>1
  <2> QED
    BY <1>3, <2>1, <2>2 DEF Answered
<1>4. Credit'
  BY <1>1, <1>3 DEF Credit
<1> QED
  BY <1>1, <1>2, <1>4

LEMMA CutSelf == ASSUME NEW ln \in Line PROVE Cut(ln, ln, 0)
  BY DEF Cut, Line

\* A receiver that has ended, or taken all there is room for, has nothing to be
\* in step with.
LEMMA EndKeeps ==
  ASSUME InStep, UNCHANGED <<s_len, s_packetno>>,
         r_pc' \notin {"try", "inbyte"} \/ ~Room'
  PROVE  InStep'
  BY DEF InStep

LEMMA TryKeeps ==
  ASSUME XmodemAssumption, TypeOK, TypeOK', InStep, RTry
  PROVE  InStep'
<1>1. /\ UNCHANGED <<toR, trychar, packetno, len, s_len, s_packetno, s_crc, s_pc>>
      /\ r_pc = "try" /\ r_pc' = "inbyte" /\ ModeKept
  BY DEF RTry, store, sender, ModeKept, Crc
<1>2. toR \in Line /\ toS \in Line /\ Cut(toR', toR, 0)
  BY <1>1, CutSelf, Numbers
<1>3. CASE trychar = "none"
  <2>1. toS' = toS
    BY <1>3 DEF RTry
  <2>2. Answered(toS', toS, "none") /\ Len(toS') <= Len(toS) + 0
    BY <2>1, Numbers DEF Answered
  <2>3. NotBegun'
    BY <1>1, <1>3 DEF NotBegun
  <2> QED
    BY <1>1, <1>2, <2>2, <2>3, ReadKeeps
<1>4. CASE trychar # "none"
  <2> SUFFICES ASSUME Room
               PROVE  /\ packetno = NumberOf(len) /\ NotBegun' /\ InOrder' /\ Modes'
                      /\ Ahead' /\ Credit'
    BY <1>1 DEF InStep, Room
  <2>1. packetno = NumberOf(len) /\ NotBegun /\ InOrder /\ Modes /\ Credit
    BY <1>1 DEF InStep
  <2>2. trychar \in Kinds /\ trychar \notin {"data", "ACK"} /\ toS' \in After(toS, Char(trychar))
    BY <1>4 DEF RTry, TypeOK, ReceiverOK, Kinds
  <2>3. Answered(toS', toS, trychar)
    BY <1>2, <2>2, AfterAnswer
  <2>4. len = 0 /\ s_len = 0 /\ \A j \in 1 .. Len(toS') : toS'[j].kind # "ACK"
    BY <1>4, <2>1, <2>2, <2>3 DEF NotBegun, Answered
  <2>5. InOrder' /\ Modes'
    BY <1>1, <1>2, <2>1, ReadInOrder, ReadModes
  <2>6. Ahead'
    <3> SUFFICES ASSUME NEW i \in 1 .. Len(toR) PROVE 0 + Len(toS') + i <= toR[i].block + 2 * Cap
      BY <1>1, <2>4 DEF Ahead
    <3>1. toR[i].block \in Nat /\ Len(toR) \in Nat /\ Len(toR) <= Cap /\ Cap \in Nat
      BY Numbers
    <3>2. Len(toS') \in Nat /\ Len(toS') <= Cap
      BY DEF TypeOK, LinesOK
    <3> QED
      BY <3>1, <3>2
  <2>7. NotBegun' /\ Credit'
    BY <1>1, <2>1, <2>4 DEF NotBegun, Credit
  <2> QED
    BY <2>1, <2>5, <2>6, <2>7
<1> QED
  BY <1>3, <1>4

\* The receiver reads a character, or waits in vain.
LEMMA WaitKeeps ==
  ASSUME XmodemAssumption, TypeOK, TypeOK', InStep, RTryNak \/ RTimeout \/ RIgnore
  PROVE  InStep'
<1>1. /\ UNCHANGED <<toS, packetno, len, s_len, s_packetno, s_crc, s_pc>>
      /\ r_pc \in {"try", "inbyte"} /\ (r_pc' = "try" \/ RTryNak)
      /\ trychar' # "none" => trychar # "none"
      /\ toR' = toR \/ (toR # <<>> /\ toR' \in Rest)
  BY DEF RTryNak, RTimeout, RIgnore, Arrives, store, sender, line
<1>0. ModeKept
  <2>1. crc' = crc /\ (trychar' = "C" => trychar = "C") /\ s_crc' = s_crc
    BY DEF RTryNak, RTimeout, RIgnore, store, sender
  <2> QED
    BY <2>1 DEF ModeKept, Crc
<1>2. toR \in Line /\ toS \in Line
  BY Numbers
<1>3. PICK k \in Nat : Cut(toR', toR, k)
  BY <1>1, <1>2, CutSelf, CutTail DEF Rest
<1>4. Answered(toS', toS, "none") /\ Len(toS') <= Len(toS) + k
  BY <1>1, Numbers DEF Answered
<1>5. r_pc \in {"try", "inbyte"}
  BY DEF RTryNak, RTimeout, RIgnore, Arrives
<1>6. CASE Room
  <2>1. NotBegun'
    BY <1>1, <1>5, <1>6 DEF InStep, NotBegun
  <2> QED
    BY <1>0, <1>1, <1>3, <1>4, <1>5, <2>1, ReadKeeps
<1>7. CASE ~Room
  BY <1>1, <1>7, EndKeeps DEF Room
<1> QED
  BY <1>6, <1>7

\* A packet is answered, and not taken.
LEMMA RejectKeeps ==
  ASSUME XmodemAssumption, TypeOK, TypeOK', InStep, RReject
  PROVE  InStep'
<1>1. /\ UNCHANGED <<packetno, len, s_len, s_packetno, s_crc, s_pc>>
      /\ r_pc = "inbyte" /\ trychar' = "none" /\ toR # <<>>
      /\ Head(toR).kind \in {"data", "bad", "headless"}
      /\ toR' \in Refused /\ toS' \in After(toS, Char("NAK"))
  BY DEF RReject, StartRecv, store, sender
<1>2. toR \in Line /\ toS \in Line /\ toR' \in Line /\ Tail(toR) \in Line
  <2>1. toR' \in Line
    BY DEF TypeOK, LinesOK, Line
  <2> QED
    BY <1>1, <2>1, Numbers, TailType
<1>3. crc' = Crc /\ Crc' = Crc /\ ModeKept
  <2>1. crc' = Crc
    BY DEF RReject, StartRecv
  <2>2. Crc' = Crc
    BY <1>1, <2>1 DEF Crc
  <2> QED
    BY <1>1, <2>1, <2>2 DEF ModeKept
<1>4. Answered(toS', toS, "NAK")
  BY <1>1, <1>2, AfterAnswer DEF Kinds
<1>5. NotBegun'
  BY <1>1 DEF NotBegun
<1>6. CASE ~Room
  BY <1>1, <1>6, EndKeeps DEF Room
<1>7. CASE Room /\ toR' \in UNION {Flush(ln) : ln \in Flush(Tail(toR))}
  <2>1. PICK ln \in Flush(Tail(toR)) : toR' \in Flush(ln)
    BY <1>7
  <2>2. ln \in Line
    BY <1>2, <2>1, FlushType
  <2>3. PICK k \in Nat : Cut(ln, Tail(toR), k)
    BY <1>2, <2>1, CutFlush
  <2>4. PICK l \in Nat : Cut(toR', ln, l)
    BY <2>1, <2>2, CutFlush
  <2>5. Cut(toR', Tail(toR), l + k) /\ l + k \in Nat
    BY <1>2, <2>2, <2>3, <2>4, CutTwice
  <2>6. Cut(Tail(toR), toR, 1)
    BY <1>1, <1>2, CutTail
  <2>7. PICK n \in Nat : n = (l + k) + 1
    BY <2>5
  <2>8. Cut(toR', toR, n) /\ n >= 1
    BY <1>2, <2>5, <2>6, <2>7, CutTwice
  <2>9. Len(toS') <= Len(toS) + n
    <3>1. Len(toS') \in Nat /\ Len(toS) \in Nat
      BY Numbers
    <3>2. Len(toS') <= Len(toS) + 1
      BY <1>4 DEF Answered
    <3> QED
      BY <2>8, <3>1, <3>2
  <2> QED
    BY <1>1, <1>3, <1>4, <1>5, <2>8, <2>9, ReadKeeps
<1>8. CASE Room /\ Longer /\ toR' = <<Char("headless")>> \o Tail(toR)
  <2>1. toR' = Eaten(toR)
    BY <1>1, <1>8 DEF Eaten
  <2>2. PICK k \in Nat : Cut(toR', toR, k)
    BY <1>1, <1>2, <2>1, CutEaten
  <2>3. ~(s_crc' => Crc')
    <3>1. 1 \in 1 .. Len(toR) /\ Head(toR) = toR[1]
      BY <1>1, <1>2, CutTail
    <3>2. s_crc
      BY <1>1, <1>8, <3>1 DEF InStep, Modes, Longer
    <3> QED
      BY <1>1, <1>3, <1>8, <3>2 DEF Longer
  <2> QED
    BY <1>1, <1>3, <1>4, <1>5, <2>2, <2>3, ReadKeeps
<1>9. \/ toR' \in UNION {Flush(ln) : ln \in Flush(Tail(toR))}
      \/ Longer /\ toR' = <<Char("headless")>> \o Tail(toR)
  BY <1>1, RefusedIs
<1> QED
  BY <1>6, <1>7, <1>8, <1>9

LEMMA RepeatedKeeps ==
  ASSUME XmodemAssumption, TypeOK, TypeOK', InStep, NumMod > 2 * Cap, RRepeated
  PROVE  InStep'
<1>1. /\ UNCHANGED <<packetno, len, s_len, s_packetno, s_crc, s_pc>>
      /\ r_pc = "inbyte" /\ trychar' = "none" /\ toR # <<>>
      /\ Head(toR).kind = "data" /\ Head(toR).crc = Crc /\ IsPrevious(Head(toR))
      /\ crc' = Crc
  BY DEF RRepeated, StartRecv, store, sender, Good
<1>0. ModeKept
  BY <1>1 DEF ModeKept, Crc
<1>2. CASE r_pc' = "failed"
  BY <1>1, <1>2, EndKeeps
<1>3. CASE ~Room
  BY <1>1, <1>3, EndKeeps DEF Room
<1>4. CASE r_pc' # "failed" /\ Room
  <2>1. toR' = Tail(toR) /\ toS' \in After(toS, Char("ACK"))
    BY <1>4 DEF RRepeated
  <2>2. toR \in Line /\ toS \in Line
    BY Numbers
  <2>3. Cut(toR', toR, 1) /\ Answered(toS', toS, "ACK") /\ Len(toS') <= Len(toS) + 1
    BY <1>1, <2>1, <2>2, CutTail, AfterAnswer DEF Kinds, Answered
  <2>4. s_len + Len(toS) + 1 < len + 2 * Cap
    <3>1. PICK b \in Nat : b = Head(toR).block
      BY <1>1, <1>4, ReadBlock
    <3>2. s_len + Len(toS) + 1 <= b + 2 * Cap /\ b + 1 = len
      BY <1>1, <1>4, <3>1, ReadBlock
    <3> QED
      BY <3>1, <3>2, Numbers
  <2>5. NotBegun'
    BY <1>1 DEF NotBegun
  <2> QED
    BY <1>0, <1>1, <2>3, <2>4, <2>5, ReadKeeps
<1> QED
  BY <1>2, <1>3, <1>4

\* The expected packet is taken.
LEMMA TakeKeeps ==
  ASSUME XmodemAssumption, TypeOK, TypeOK', InStep, NumMod > 2 * Cap, RTake
  PROVE  InStep'
<1>1. /\ UNCHANGED <<s_len, s_packetno, s_crc, s_pc>> /\ packetno' = (packetno + 1) % NumMod
      /\ r_pc = "inbyte" /\ trychar' = "none" /\ toR # <<>> /\ crc' = Crc
      /\ Head(toR).kind = "data" /\ Head(toR).crc = Crc /\ IsNext(Head(toR))
      /\ toR' = Tail(toR) /\ toS' \in After(toS, Char("ACK"))
  BY DEF RTake, StartRecv, sender, Good
<1>0. ModeKept
  BY <1>1 DEF ModeKept, Crc
<1>2. CASE ~Room
  <2>1. len' = len
    BY <1>2 DEF RTake, store
  <2> QED
    BY <1>1, <1>2, <2>1, EndKeeps DEF Room
<1>3. CASE Room
  <2>1. len' = len + 1
    BY <1>3 DEF RTake
  <2>2. packetno = NumberOf(len) /\ InOrder /\ Modes /\ Ahead /\ Credit
    BY <1>1, <1>3 DEF InStep
  <2>3. /\ toR \in Line /\ toS \in Line /\ Len(toR) \in Nat /\ Len(toS) \in Nat
        /\ len \in Nat /\ s_len \in Nat /\ Cap \in Nat
    BY Numbers
  <2>4. /\ len <= s_len /\ s_len + Len(toS) + 1 <= len + 2 * Cap
        /\ \A i \in 1 .. Len(toR) : toR[i].kind = "data" => len <= toR[i].block
    BY <1>1, <1>3, ReadBlock
  <2>5. packetno' = NumberOf(len')
    BY <1>1, <2>1, <2>2, <2>3, NextNumber
  <2>6. NotBegun'
    BY <1>1 DEF NotBegun
  <2>7. /\ Len(Tail(toR)) = Len(toR) - 1
        /\ \A i \in 1 .. Len(Tail(toR)) : Tail(toR)[i] = toR[i + 1]
    BY <1>1, <2>3, CutTail
  <2>8. InOrder'
    <3> SUFFICES ASSUME NEW i \in 1 .. Len(toR'), toR'[i].kind = "data"
                 PROVE  /\ toR'[i].no = NumberOf(toR'[i].block)
                        /\ len' - 1 <= toR'[i].block /\ toR'[i].block <= s_len
                        /\ \A j \in i .. Len(toR') :
                             toR'[j].kind = "data" => toR'[i].block <= toR'[j].block
      BY <1>1 DEF InOrder
    <3>1. i \in Nat /\ i + 1 \in 1 .. Len(toR) /\ toR'[i] = toR[i + 1]
      BY <1>1, <2>3, <2>7
    <3>2. ASSUME NEW j \in i .. Len(toR'), toR'[j].kind = "data"
          PROVE  toR'[i].block <= toR'[j].block
      <4>1. j \in Nat /\ j + 1 \in (i + 1) .. Len(toR) /\ toR'[j] = toR[j + 1]
        BY <1>1, <2>3, <2>7, <3>1
      <4> QED
        BY <2>2, <3>1, <3>2, <4>1 DEF InOrder
    <3>3. len' - 1 = len
      BY <2>1, <2>3
    <3> QED
      BY <2>2, <2>4, <3>1, <3>2, <3>3 DEF InOrder
  <2>9. Answered(toS', toS, "ACK")
    BY <1>1, <2>3, AfterAnswer DEF Kinds
  <2>10. Ahead' /\ Modes'
    <3>1. Cut(toR', toR, 1) /\ Len(toS') <= Len(toS) + 1
      BY <1>1, <2>3, <2>9, CutTail DEF Answered
    <3> QED
      BY <1>0, <1>1, <2>2, <3>1, ReadAhead, ReadModes
  <2>11. Credit'
    <3>1. ASSUME NEW j \in 1 .. Len(toS'), toS'[j].kind = "ACK"
          PROVE  s_len + j < (len + 1) + 2 * Cap
      <4>1. CASE j \in 1 .. Len(toS) /\ toS'[j] = toS[j]
        <5>1. s_len + j < len + 2 * Cap
          BY <2>2, <3>1, <4>1 DEF Credit
        <5> QED
          BY <2>3, <4>1, <5>1
      <4>2. CASE j = Len(toS) + 1
        BY <2>3, <2>4, <4>2
      <4> QED
        BY <2>9, <3>1, <4>1, <4>2 DEF Answered
    <3>2. len' - 1 <= s_len /\ s_len < len' + 2 * Cap
      BY <2>1, <2>2, <2>3, <2>4 DEF Credit
    <3> QED
      BY <1>1, <2>1, <3>1, <3>2 DEF Credit
  <2> QED
    BY <1>1, <2>2, <2>5, <2>6, <2>8, <2>10, <2>11 DEF InStep
<1> QED
  BY <1>2, <1>3

-----------------------------------------------------------------------------
\* The sender that does not go on to the next block.
LEMMA SendKeeps ==
  ASSUME XmodemAssumption, TypeOK, TypeOK', InStep, SenderLine,
         toS' = toS \/ (toS # <<>> /\ toS' = Tail(toS)),
         s_crc' = s_crc \/ s_pc = "await", s_pc' \notin {"off", "await"} \/ s_pc \in {"off", "await"},
         UNCHANGED <<receiver, s_len, s_packetno>>
  PROVE  InStep'
<1> SUFFICES ASSUME r_pc \in {"try", "inbyte"}, Room
             PROVE  NotBegun' /\ InOrder' /\ Modes' /\ Ahead' /\ Credit'
  BY DEF InStep, receiver, store, Room
<1>1. UNCHANGED <<trychar, crc, len, s_len>>
  BY DEF receiver, store
<1>2. NotBegun /\ InOrder /\ Modes /\ Ahead /\ Credit /\ s_packetno = NumberOf(s_len)
  BY DEF InStep
<1>0. (s_crc => s_crc') /\ Crc' = Crc
  <2>1. s_pc = "await" => ~s_crc
    BY DEF TypeOK, SenderOK
  <2> QED
    BY <1>1, <2>1 DEF Crc
<1>12. Modes'
  <2> SUFFICES ASSUME NEW i \in 1 .. Len(toR')
               PROVE  /\ toR'[i].crc => s_crc'
                      /\ toR'[i].kind = "data" =>
                           toR'[i].crc = s_crc' /\ s_pc' \notin {"off", "await"}
    BY DEF Modes
  <2>1. ASSUME toR'[i].crc PROVE s_crc'
    BY <1>0, <1>2, <2>1 DEF SenderLine, Packet, Modes
  <2>2. ASSUME toR'[i].kind = "data"
        PROVE  toR'[i].crc = s_crc' /\ s_pc' \notin {"off", "await"}
    <3>1. toR'[i].crc = s_crc /\ s_pc \notin {"off", "await"}
      BY <1>2, <2>2 DEF SenderLine, Modes
    <3> QED
      BY <3>1
  <2> QED
    BY <2>1, <2>2
<1>3. /\ toR \in Line /\ toS \in Line /\ Len(toR) \in Nat /\ Len(toS) \in Nat
      /\ len \in Nat /\ s_len \in Nat /\ Cap \in Nat /\ Len(toS) <= Cap
      /\ \A i \in 1 .. Len(toR) : toR[i].block \in Nat
  BY Numbers
<1>4. Len(toR') \in Nat /\ Len(toR') <= Cap /\ Len(toS') \in Nat /\ Len(toS') <= Len(toS)
  <2>1. toS # <<>> => Len(Tail(toS)) = Len(toS) - 1
    BY <1>3, CutTail
  <2>2. Len(toR') \in Nat /\ Len(toR') <= Cap
    BY DEF TypeOK, LinesOK
  <2> QED
    BY <1>3, <2>1, <2>2
<1>5. \A j \in 1 .. Len(toS') : \E k \in 1 .. Len(toS) : k >= j /\ toS'[j] = toS[k]
  <2>1. CASE toS' = toS
    BY <1>3, <2>1
  <2>2. CASE toS # <<>> /\ toS' = Tail(toS)
    <3>1. /\ Len(toS') = Len(toS) - 1
          /\ \A i \in 1 .. Len(toS') : toS'[i] = toS[i + 1]
      BY <1>3, <2>2, CutTail
    <3> SUFFICES ASSUME NEW j \in 1 .. Len(toS')
                 PROVE  \E k \in 1 .. Len(toS) : k >= j /\ toS'[j] = toS[k]
      OBVIOUS
    <3>2. j + 1 \in 1 .. Len(toS) /\ j + 1 >= j /\ toS'[j] = toS[j + 1]
      BY <1>3, <3>1
    <3> QED
      BY <3>2
  <2> QED
    BY <2>1, <2>2
<1>6. NotBegun'
  BY <1>1, <1>2, <1>5 DEF NotBegun
<1>7. Credit'
  <2> SUFFICES ASSUME NEW j \in 1 .. Len(toS'), toS'[j].kind = "ACK"
               PROVE  s_len + j < len + 2 * Cap
    BY <1>1, <1>2 DEF Credit
  <2>1. PICK k \in 1 .. Len(toS) : k >= j /\ toS'[j] = toS[k]
    BY <1>5
  <2>2. s_len + k < len + 2 * Cap
    BY <1>2, <2>1 DEF Credit
  <2> QED
    BY <1>3, <1>4, <2>1, <2>2
<1>8. ASSUME NEW i \in 1 .. Len(toR'), toR'[i].kind = "data"
      PROVE  /\ toR'[i].no = NumberOf(toR'[i].block)
             /\ len - 1 <= toR'[i].block /\ toR'[i].block <= s_len
             /\ (s_crc => Crc) => s_len + Len(toS') + i <= toR'[i].block + 2 * Cap
  <2>1. CASE i \in 1 .. Len(toR) /\ toR'[i] = toR[i]
    <3>2. ASSUME s_crc => Crc PROVE s_len + Len(toS') + i <= toR[i].block + 2 * Cap
      <4>1. s_len + Len(toS) + i <= toR[i].block + 2 * Cap
        BY <1>2, <1>8, <2>1, <3>2 DEF Ahead
      <4> QED
        BY <1>3, <1>4, <2>1, <4>1
    <3> QED
      BY <1>2, <1>8, <2>1, <3>2 DEF InOrder
  <2>2. CASE i = Len(toR) + 1 /\ toR'[i].no = s_packetno /\ toR'[i].block = s_len
    <3>1. s_len + Len(toS') + i <= s_len + 2 * Cap
      BY <1>3, <1>4
    <3> QED
      BY <1>2, <2>2, <3>1, <1>3 DEF Credit
  <2> QED
    BY <1>8, <2>1, <2>2 DEF SenderLine
<1>9. Ahead'
  BY <1>0, <1>1, <1>8 DEF Ahead
<1>10. InOrder'
  <2> SUFFICES ASSUME NEW i \in 1 .. Len(toR'), toR'[i].kind = "data",
                      NEW j \in i .. Len(toR'), toR'[j].kind = "data"
               PROVE  toR'[i].block <= toR'[j].block
    BY <1>1, <1>8 DEF InOrder
  <2>1. j \in 1 .. Len(toR') /\ i <= j
    BY <1>4
  <2>2. CASE j \in 1 .. Len(toR) /\ toR'[j] = toR[j]
    <3>1. i \in 1 .. Len(toR) /\ j \in i .. Len(toR) /\ i # Len(toR) + 1
      BY <1>3, <2>1, <2>2
    <3>2. toR'[i] = toR[i]
      BY <3>1 DEF SenderLine
    <3> QED
      BY <1>2, <2>2, <3>1, <3>2 DEF InOrder
  <2>3. CASE toR'[j].block = s_len
    BY <1>8, <2>3
  <2> QED
    BY <2>1, <2>2, <2>3 DEF SenderLine
<1> QED
  BY <1>6, <1>7, <1>9, <1>10, <1>12

\* The sender takes an ACK for that of its block.
LEMMA AckedKeeps ==
  ASSUME XmodemAssumption, TypeOK, TypeOK', InStep, SAcked
  PROVE  InStep'
<1>1. /\ UNCHANGED <<toR, r_pc, trychar, crc, packetno, len, s_crc>>
      /\ s_pc' \notin {"off", "await"}
      /\ s_len' = s_len + 1 /\ s_packetno' = (s_packetno + 1) % NumMod
      /\ toS # <<>> /\ Head(toS).kind = "ACK" /\ toS' = Tail(toS)
  BY DEF SAcked, Got, receiver, store
<1>2. /\ toR \in Line /\ toS \in Line /\ Len(toR) \in Nat /\ Len(toS) \in Nat
      /\ len \in Nat /\ s_len \in Nat /\ Cap \in Nat
      /\ \A i \in 1 .. Len(toR) : toR[i].block \in Nat
  BY Numbers
<1>3. /\ Len(toS') = Len(toS) - 1 /\ 1 \in 1 .. Len(toS) /\ toS[1].kind = "ACK"
      /\ \A i \in 1 .. Len(toS') : toS'[i] = toS[i + 1]
  BY <1>1, <1>2, CutTail
<1>4. s_packetno' = NumberOf(s_len')
  BY <1>1, <1>2, NextNumber DEF InStep
<1> SUFFICES ASSUME r_pc \in {"try", "inbyte"}, Room
             PROVE  NotBegun' /\ InOrder' /\ Modes' /\ Ahead' /\ Credit'
  BY <1>1, <1>4 DEF InStep, Room
<1>5. NotBegun /\ InOrder /\ Modes /\ Ahead /\ Credit
  BY DEF InStep
<1>10. Modes'
  BY <1>1, <1>5 DEF Modes
<1>6. NotBegun'
  BY <1>1, <1>3, <1>5 DEF NotBegun
<1>7. InOrder'
  <2>1. \A i \in 1 .. Len(toR) : toR[i].kind = "data" => toR[i].block <= s_len'
    BY <1>1, <1>2, <1>5 DEF InOrder
  <2> QED
    BY <1>1, <1>5, <2>1 DEF InOrder
<1>8. Ahead'
  <2> SUFFICES ASSUME s_crc => Crc, NEW i \in 1 .. Len(toR), toR[i].kind = "data"
               PROVE  s_len' + Len(toS') + i <= toR[i].block + 2 * Cap
    BY <1>1 DEF Ahead, Crc
  <2>1. s_len + Len(toS) + i <= toR[i].block + 2 * Cap
    BY <1>5 DEF Ahead
  <2> QED
    BY <1>1, <1>2, <1>3, <2>1
<1>9. Credit'
  <2>1. s_len + 1 < len + 2 * Cap /\ len - 1 <= s_len
    BY <1>3, <1>5 DEF Credit
  <2>2. ASSUME NEW j \in 1 .. Len(toS'), toS'[j].kind = "ACK"
        PROVE  s_len' + j < len + 2 * Cap
    <3>1. j + 1 \in 1 .. Len(toS) /\ toS[j + 1].kind = "ACK"
      BY <1>2, <1>3, <2>2
    <3>2. s_len + (j + 1) < len + 2 * Cap
      BY <1>5, <3>1 DEF Credit
    <3> QED
      BY <1>1, <1>2, <3>2
  <2> QED
    BY <1>1, <1>2, <2>1, <2>2 DEF Credit
<1> QED
  BY <1>6, <1>7, <1>8, <1>9, <1>10

\* The sender's other steps put a character or its packet on the line, and read at
\* most one answer.
LEMMA SenderKeeps ==
  ASSUME XmodemAssumption, TypeOK, TypeOK', InStep, SStart \/ SWaits \/ SWrites
  PROVE  InStep'
<1>1. toR \in Line /\ toS \in Line
  BY Numbers
<1>2. ASSUME toR' = toR PROVE SenderLine
  BY <1>1, <1>2 DEF SenderLine, Line
<1>3. CASE SAcked
  BY <1>3, AckedKeeps
<1>4. CASE SStart \/ (SWaits /\ ~SAcked)
  <2>1. /\ toR' = toR /\ (toS' = toS \/ (toS # <<>> /\ toS' = Tail(toS)))
        /\ UNCHANGED <<receiver, s_len, s_packetno>>
    BY <1>4 DEF SStart, SWaits, SBegin, SAwaitMore, SCancel, SResend, SDone, SEotAgain,
                Got, line
  <2>2. /\ s_crc' = s_crc \/ s_pc = "await"
        /\ s_pc' \notin {"off", "await"} \/ s_pc \in {"off", "await"}
    BY <1>4 DEF SStart, SWaits, SBegin, SAwaitMore, SCancel, SResend, SDone, SEotAgain,
                STryAgain
  <2> QED
    BY <1>2, <2>1, <2>2, SendKeeps
<1>5. CASE SWrites
  <2>1. UNCHANGED <<toS, receiver, s_len, s_packetno, s_crc>> /\ s_pc' \notin {"off", "await"}
    BY <1>5 DEF SWrites, SSend, SBreak, SRest, SConfirm, SGiveUp, SEot, Writes
  <2>2. SenderLine
    <3>1. ASSUME NEW kind \in Kinds \ {"data"}, NEW then, Writes(Char(kind), then)
          PROVE  SenderLine
      BY <1>1, <3>1, SenderChar DEF Writes
    <3>2. CASE SRest \/ SConfirm \/ SGiveUp \/ SEot
      BY <3>1, <3>2 DEF SRest, SConfirm, SGiveUp, SEot, Kinds
    <3> QED
      BY <1>5, <3>2, SenderPacket, SenderHalf DEF SWrites
  <2> QED
    BY <2>1, <2>2, SendKeeps
<1> QED
  BY <1>3, <1>4, <1>5

LEMMA InStepStep ==
  ASSUME XmodemAssumption, NumMod > 2 * Cap, TypeOK, TypeOK', InStep, [Next]_vars
  PROVE  InStep'
<1>1. CASE RTry
  BY <1>1, TryKeeps
<1>2. CASE RTryNak \/ RTimeout \/ RIgnore
  BY <1>2, WaitKeeps
<1>3. CASE RGiveUp \/ RCancel \/ REot \/ RFinal
  BY <1>3, EndKeeps DEF RGiveUp, RCancel, REot, RFinal, sender
<1>4. CASE RTake
  BY <1>4, TakeKeeps
<1>5. CASE RRepeated
  BY <1>5, RepeatedKeeps
<1>6. CASE RReject
  BY <1>6, RejectKeeps
<1>7. CASE SStart \/ SWaits \/ SWrites
  BY <1>7, SenderKeeps
<1>8. CASE UNCHANGED vars
  <2>1. /\ UNCHANGED <<toR, toS, r_pc, trychar, packetno, len, s_len, s_packetno>>
        /\ UNCHANGED <<crc, s_crc, s_pc>>
    BY <1>8 DEF vars, line, receiver, sender, store
  <2> QED
    BY <2>1 DEF InStep, Room, NotBegun, InOrder, Modes, Ahead, Credit, Crc
<1> QED
  BY <1>1, <1>2, <1>3, <1>4, <1>5, <1>6, <1>7, <1>8 DEF Next, RSteps

-----------------------------------------------------------------------------
\* The parts of FlashIsPrefix.
PagesHold == \A p \in Pages \ failed : 2 * p + 1 < len => flash[p] = [h \in Halves |-> 2 * p + h]
BufferHolds == len % 2 = 1 => page_buf[0] = len - 1
LastHolds ==
  r_pc = "done" /\ len % 2 = 1 /\ len \div 2 \notin failed => flash[len \div 2][0] = len - 1

\* A page written or missed leaves the others alone.
LEMMA WriteIs ==
  ASSUME TypeOK, NEW q \in Pages, NEW buf, WritePage(q, buf)
  PROVE  /\ q \notin failed' => flash'[q] = buf
         /\ \A p \in Pages : p # q => flash'[p] = flash[p] /\ (p \in failed' <=> p \in failed)
  BY DEF WritePage, TypeOK, StoreOK

LEMMA TakeHolds ==
  ASSUME XmodemAssumption, TypeOK, InStep, NumMod > 2 * Cap, PagesHold, BufferHolds,
         RTake, Room
  PROVE  PagesHold' /\ BufferHolds'
<1>1. /\ page_buf' = [page_buf EXCEPT ![len % 2] = Head(toR).block] /\ len' = len + 1
      /\ Head(toR).block = len
  <2>1. /\ r_pc = "inbyte" /\ toR # <<>> /\ Head(toR).kind = "data"
        /\ Head(toR).crc = Crc /\ IsNext(Head(toR))
    BY DEF RTake, StartRecv, Good
  <2> QED
    BY <2>1, ReadBlock DEF RTake
<1>2. len \in Nat /\ len < DestBlocks /\ DestBlocks \in Nat
  BY Numbers DEF Room
<1>3. /\ page_buf'[len % 2] = len
      /\ \A h \in Halves : h # len % 2 => page_buf'[h] = page_buf[h]
      /\ DOMAIN page_buf' = Halves
      /\ page_buf' = [h \in Halves |-> page_buf'[h]]
  <2>1. page_buf \in [Halves -> Blocks \union {Before}] /\ len % 2 \in Halves
    BY <1>2 DEF TypeOK, StoreOK, Halves
  <2> QED
    BY <1>1, <2>1
<1>4. CASE len % 2 = 0
  <2>1. UNCHANGED <<flash, failed>>
    BY <1>4 DEF RTake
  <2>2. PagesHold'
    <3> SUFFICES ASSUME NEW p \in Pages \ failed, 2 * p + 1 < len + 1
                 PROVE  flash[p] = [h \in Halves |-> 2 * p + h]
      BY <1>1, <2>1 DEF PagesHold
    <3>1. p \in Nat
      BY DEF Pages
    <3>2. 2 * p + 1 < len
      BY <1>2, <1>4, <3>1
    <3> QED
      BY <3>2 DEF PagesHold
  <2>3. BufferHolds'
    <3>1. page_buf'[0] = len
      BY <1>3, <1>4
    <3>2. len = len' - 1
      BY <1>1, <1>2
    <3> QED
      BY <3>1, <3>2 DEF BufferHolds
  <2> QED
    BY <2>2, <2>3
<1>5. CASE len % 2 = 1
  <2>1. PICK q \in Nat : q = len \div 2
    BY <1>2
  <2>2. len = 2 * q + 1 /\ q \in Pages
    BY <1>2, <1>5, <2>1 DEF Pages
  <2>3. WritePage(q, page_buf')
    BY <1>5, <2>1 DEF RTake
  <2>4. page_buf' = [h \in Halves |-> 2 * q + h]
    <3>1. page_buf'[1] = 2 * q + 1
      BY <1>3, <1>5, <2>2
    <3>2. page_buf'[0] = 2 * q + 0
      BY <1>3, <1>5, <2>2 DEF BufferHolds, Halves
    <3>3. \A h \in Halves : page_buf'[h] = 2 * q + h
      BY <3>1, <3>2 DEF Halves
    <3> QED
      BY <1>3, <3>3
  <2>5. PagesHold'
    <3> SUFFICES ASSUME NEW p \in Pages, p \notin failed', 2 * p + 1 < len + 1
                 PROVE  flash'[p] = [h \in Halves |-> 2 * p + h]
      BY <1>1 DEF PagesHold
    <3>1. CASE p = q
      BY <2>2, <2>3, <2>4, <3>1, WriteIs
    <3>2. CASE p # q
      <4>1. p \in Nat
        BY DEF Pages
      <4>2. 2 * p + 1 < len
        BY <2>2, <3>2, <4>1
      <4>3. p \notin failed /\ flash'[p] = flash[p]
        BY <2>2, <2>3, <3>2, WriteIs
      <4> QED
        BY <4>2, <4>3 DEF PagesHold
    <3> QED
      BY <3>1, <3>2
  <2>6. BufferHolds'
    <3>1. len' % 2 = 0
      BY <1>1, <1>2, <1>5
    <3> QED
      BY <3>1 DEF BufferHolds
  <2> QED
    BY <2>5, <2>6
<1> QED
  BY <1>2, <1>4, <1>5

LEMMA FinalHolds ==
  ASSUME XmodemAssumption, TypeOK, PagesHold, BufferHolds, RFinal
  PROVE  PagesHold' /\ BufferHolds' /\ LastHolds'
<1>1. UNCHANGED <<len, page_buf>>
  BY DEF RFinal
<1>2. len \in 0 .. DestBlocks /\ DestBlocks \in Nat
  BY DEF TypeOK, StoreOK, XmodemAssumption
<1>3. CASE len % 2 # 1
  BY <1>1, <1>3 DEF RFinal, PagesHold, BufferHolds, LastHolds
<1>4. CASE len % 2 = 1
  <2>1. PICK q \in Nat : q = len \div 2
    BY <1>2
  <2>2. len = 2 * q + 1 /\ q \in Pages
    BY <1>2, <1>4, <2>1 DEF Pages
  <2>3. WritePage(q, page_buf)
    BY <1>4, <2>1 DEF RFinal
  <2>4. PagesHold'
    <3> SUFFICES ASSUME NEW p \in Pages, p \notin failed', 2 * p + 1 < len
                 PROVE  flash'[p] = [h \in Halves |-> 2 * p + h]
      BY <1>1 DEF PagesHold
    <3>1. p # q
      BY <2>2
    <3> QED
      BY <2>2, <2>3, <3>1, WriteIs DEF PagesHold
  <2>5. LastHolds'
    <3>1. q \notin failed' => flash'[q][0] = len - 1
      BY <1>4, <2>2, <2>3, WriteIs DEF BufferHolds
    <3> QED
      BY <1>1, <2>1, <3>1 DEF LastHolds
  <2> QED
    BY <1>1, <2>4, <2>5 DEF BufferHolds
<1> QED
  BY <1>3, <1>4

LEMMA FlashStep ==
  ASSUME XmodemAssumption, NumMod > 2 * Cap, TypeOK, InStep, FlashIsPrefix, [Next]_vars
  PROVE  FlashIsPrefix'
<1>1. PagesHold /\ BufferHolds /\ LastHolds
  BY DEF FlashIsPrefix, PagesHold, BufferHolds, LastHolds
<1>2. CASE RTake /\ Room
  <2>1. r_pc' # "done"
    BY <1>2 DEF RTake
  <2> QED
    BY <1>1, <1>2, <2>1, TakeHolds DEF FlashIsPrefix, PagesHold, BufferHolds
<1>3. CASE RFinal
  BY <1>1, <1>3, FinalHolds DEF FlashIsPrefix, PagesHold, BufferHolds, LastHolds
<1>4. CASE UNCHANGED store /\ (r_pc' = "done" => r_pc = "done")
  BY <1>4 DEF FlashIsPrefix, store
<1>5. CASE RTake /\ ~Room
  BY <1>4, <1>5 DEF RTake
<1>6. CASE RTry \/ RTryNak \/ RGiveUp \/ RTimeout \/ RIgnore \/ RCancel \/ REot
  BY <1>4, <1>6 DEF RTry, RTryNak, RGiveUp, RTimeout, RIgnore, RCancel, REot
<1>7. CASE RRepeated \/ RReject
  BY <1>4, <1>7 DEF RRepeated, RReject
<1>8. CASE UNCHANGED receiver
  BY <1>4, <1>8 DEF receiver
<1> QED
  BY <1>2, <1>3, <1>5, <1>6, <1>7, <1>8, SenderAlone DEF Next, RSteps, vars

\* With more packet numbers than twice the messages the line holds, the receiver
\* never takes one packet for another, and the sender is never further ahead
\* of it.
THEOREM SidesInStep ==
  ASSUME NumMod > 2 * Cap
  PROVE  Spec => []InStep
<1>1. Init => InStep
  <2> SUFFICES ASSUME Init PROVE InStep
    OBVIOUS
  <2>1. Len(toR) = 0 /\ Len(toS) = 0 /\ len = 0 /\ s_len = 0
    BY DEF Init
  <2>2. s_packetno = NumberOf(s_len) /\ packetno = NumberOf(len)
    BY DEF Init, NumberOf
  <2>3. NotBegun /\ InOrder /\ Modes /\ Ahead
    BY <2>1 DEF NotBegun, InOrder, Modes, Ahead
  <2>4. Credit
    BY <2>1, XmodemAssumption DEF Credit, XmodemAssumption
  <2> QED
    BY <2>2, <2>3, <2>4 DEF InStep
<1>2. TypeOK /\ TypeOK' /\ InStep /\ [Next]_vars => InStep'
  BY XmodemAssumption, InStepStep
<1> QED
  BY <1>1, <1>2, TypeCorrect, PTL DEF Spec

\* The flash holds the beginning of the file, whatever the line loses, damages or
\* delays.
THEOREM FlashHoldsPrefix ==
  ASSUME NumMod > 2 * Cap
  PROVE  Spec => []FlashIsPrefix
<1>1. Init => FlashIsPrefix
  BY XmodemAssumption DEF Init, FlashIsPrefix, Pages, XmodemAssumption
<1>2. TypeOK /\ InStep /\ FlashIsPrefix /\ [Next]_vars => FlashIsPrefix'
  BY XmodemAssumption, FlashStep
<1> QED
  BY <1>1, <1>2, TypeCorrect, SidesInStep, PTL DEF Spec
=============================================================================
