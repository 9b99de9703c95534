--------------------------- MODULE UdiCdcRxProofs ---------------------------
(***************************************************************************)
(* Type correctness of UdiCdcRx, for every number and size of buffers and  *)
(* with calls that overlap an enabling too; then the ring of two buffers   *)
(* (every project but DEVICE_EXAMPLE1) when calls and enabling do not      *)
(* overlap, for every buffer size and any number of bytes and connections: *)
(* RingInv is inductive, so the endpoint never fills a buffer that is      *)
(* being read, and the ring implements ByteStream.                         *)
(***************************************************************************)
EXTENDS UdiCdcRx, TLAPS

\* Buffer numbers stay in the ring, and start at 0.
LEMMA SuccType == ASSUME NEW b \in Bufs PROVE Succ(b) \in Bufs
  BY RxAssumption DEF RxAssumption, Succ, Bufs

LEMMA BufZero == 0 \in Bufs /\ 0 \in 0 .. BufSize
  BY RxAssumption DEF RxAssumption, Bufs

\* The initial state is well typed.
LEMMA InitType == Init => TypeOK
<1> SUFFICES ASSUME Init PROVE TypeOK
  OBVIOUS
<1>1. rx_buf \in [Bufs -> [0 .. (BufSize - 1) -> Nat]]
  BY DEF Init
<1>2. rx_buf_nb \in [Bufs -> 0 .. BufSize]
  BY BufZero DEF Init
<1>3. QED
  BY <1>1, <1>2, BufZero DEF Init, TypeOK, FlagsOK, DataOK

\* A transfer writes bytes, numbered from sent + 1.
LEMMA ReceivedType ==
  ASSUME DataOK, Received
  PROVE  rx_buf' \in [Bufs -> [0 .. (BufSize - 1) -> Nat]] /\ sent' \in Nat
<1>1. PICK n \in 0 .. BufSize :
        /\ sent' = sent + n
        /\ rx_buf' = [rx_buf EXCEPT ![job] =
              [i \in 0 .. (BufSize - 1) |-> IF i < n THEN sent + i + 1 ELSE @[i]]]
  BY DEF Received
<1>2. sent \in Nat /\ n \in Nat /\ BufSize \in Nat
  BY RxAssumption DEF DataOK, RxAssumption
<1>3. ASSUME job \in Bufs
      PROVE  [i \in 0 .. (BufSize - 1) |->
                IF i < n THEN sent + i + 1 ELSE rx_buf[job][i]]
                   \in [0 .. (BufSize - 1) -> Nat]
  <2>1. rx_buf[job] \in [0 .. (BufSize - 1) -> Nat]
    BY <1>3 DEF DataOK
  <2>2. QED
    BY <2>1, <1>2
<1>4. rx_buf \in [Bufs -> [0 .. (BufSize - 1) -> Nat]]
  BY DEF DataOK
<1>5. rx_buf' \in [Bufs -> [0 .. (BufSize - 1) -> Nat]]
  BY <1>1, <1>3, <1>4
<1>6. QED
  BY <1>1, <1>2, <1>5

\* The count it leaves for udi_cdc_data_received.
LEMMA ReceivedCount ==
  ASSUME DataOK, Received
  PROVE  usb' \in {"idle", "rcvNb"} /\ usb_n' \in Nat /\ (usb' = "rcvNb" => usb_n' <= BufSize)
  BY RxAssumption DEF RxAssumption, DataOK, Received

\* Every step keeps the types, the Booleans first.
LEMMA StepFlags == TypeOK /\ [Next]_vars => FlagsOK'
<1> SUFFICES ASSUME TypeOK, [Next]_vars PROVE FlagsOK'
  OBVIOUS
<1> USE DEF TypeOK, FlagsOK, ring, ports, bounds
<1>1. CASE EnableBegins
  BY <1>1 DEF EnableBegins
<1>2. CASE Disable
  BY <1>2 DEF Disable
<1>3. CASE Abort
  BY <1>3 DEF Abort
<1>4. CASE Received
  BY <1>4 DEF Received
<1>5. CASE EnableOngoing
  BY <1>5 DEF EnableOngoing
<1>6. CASE EnableSel
  BY <1>6 DEF EnableSel
<1>7. CASE EnableNb
  BY <1>7 DEF EnableNb
<1>8. CASE EnablePos
  BY <1>8 DEF EnablePos
<1>9. CASE EnableStart
  BY <1>9 DEF EnableStart, SwitchBuffer
<1>10. CASE EnableRun
  BY <1>10 DEF EnableRun, Notify, RxReady
<1>11. CASE ReceivedNb
  BY <1>11 DEF ReceivedNb
<1>12. CASE ReceivedOngoing
  BY <1>12 DEF ReceivedOngoing
<1>13. CASE ReceivedStart
  BY <1>13 DEF ReceivedStart, SwitchBuffer
<1>14. CASE ReceivedRun
  BY <1>14 DEF ReceivedRun, Notify, RxReady
<1>15. CASE AppChecks
  BY <1>15 DEF AppChecks
<1>16. CASE AppSleeps
  BY <1>16 DEF AppSleeps
<1>17. CASE AppCopies
  BY <1>17 DEF AppCopies
<1>18. CASE AppAdvances
  BY <1>18 DEF AppAdvances
<1>19. CASE AppStarts
  BY <1>19 DEF AppStarts, SwitchBuffer
<1>20. CASE AppRuns
  BY <1>20 DEF AppRuns, Notify, RxReady
<1>21. CASE UNCHANGED vars
  BY <1>21 DEF vars
<1>22. QED
  BY <1>1, <1>2, <1>3, <1>4, <1>5, <1>6, <1>7, <1>8, <1>9, <1>10, <1>11, <1>12, <1>13, <1>14, <1>15, <1>16, <1>17, <1>18, <1>19, <1>20, <1>21 DEF Next, UsbSteps, AppSteps

\* The rest of the types.
LEMMA StepData == TypeOK /\ [Next]_vars => DataOK'
<1> SUFFICES ASSUME TypeOK, [Next]_vars PROVE DataOK'
  OBVIOUS
<1> USE SuccType, BufZero DEF TypeOK, DataOK, Enabling, ring, usbvars, appvars, bounds
<1>1. CASE EnableBegins
  BY <1>1 DEF EnableBegins
<1>2. CASE Disable
  BY <1>2 DEF Disable
<1>3. CASE Abort
  BY <1>3 DEF Abort
<1>4. CASE Received
  <2>1. rx_buf' \in [Bufs -> [0 .. (BufSize - 1) -> Nat]] /\ sent' \in Nat
    BY <1>4, ReceivedType
  <2>2. usb' \in {"idle", "rcvNb"} /\ usb_n' \in Nat /\ (usb' = "rcvNb" => usb_n' <= BufSize)
    BY <1>4, ReceivedCount
  <2>3. job' \in Bufs \union {NoBuf}
    BY <1>4 DEF Received
  <2>4. QED
    BY <1>4, <2>1, <2>2, <2>3 DEF Received
<1>5. CASE EnableOngoing
  BY <1>5 DEF EnableOngoing
<1>6. CASE EnableSel
  BY <1>6 DEF EnableSel
<1>7. CASE EnableNb
  <2>1. rx_buf_nb' \in [Bufs -> 0 .. BufSize]
    BY <1>7 DEF EnableNb
  <2>2. usb' \in {"enNb", "enPos"} /\ usb_n' \in Nat
    BY <1>7 DEF EnableNb
  <2>3. QED
    BY <1>7, <2>1, <2>2 DEF EnableNb
<1>8. CASE EnablePos
  BY <1>8 DEF EnablePos
<1>9. CASE EnableStart
  BY <1>9 DEF EnableStart, SwitchBuffer
<1>10. CASE EnableRun
  BY <1>10 DEF EnableRun, EpRun
<1>11. CASE ReceivedNb
  BY <1>11 DEF ReceivedNb
<1>12. CASE ReceivedOngoing
  BY <1>12 DEF ReceivedOngoing
<1>13. CASE ReceivedStart
  BY <1>13 DEF ReceivedStart, SwitchBuffer
<1>14. CASE ReceivedRun
  BY <1>14 DEF ReceivedRun, EpRun
<1>15. CASE AppChecks
  BY <1>15 DEF AppChecks
<1>16. CASE AppSleeps
  BY <1>16 DEF AppSleeps
<1>17. CASE AppCopies
  BY <1>17 DEF AppCopies
<1>18. CASE AppAdvances
  BY <1>18 DEF AppAdvances
<1>19. CASE AppStarts
  BY <1>19 DEF AppStarts, SwitchBuffer
<1>20. CASE AppRuns
  BY <1>20 DEF AppRuns, EpRun
<1>21. CASE UNCHANGED vars
  BY <1>21 DEF vars
<1>22. QED
  BY <1>1, <1>2, <1>3, <1>4, <1>5, <1>6, <1>7, <1>8, <1>9, <1>10, <1>11, <1>12, <1>13, <1>14, <1>15, <1>16, <1>17, <1>18, <1>19, <1>20, <1>21 DEF Next, UsbSteps, AppSteps

\* Every variable keeps its type, for every number of buffers of every size.
THEOREM TypeCorrect == Spec => []TypeOK
  BY InitType, StepFlags, StepData, PTL DEF Spec, TypeOK

-----------------------------------------------------------------------------
\* The ring of two buffers.

\* The two buffers follow each other.
LEMMA Two ==
  ASSUME RxBufs = 2, NEW b \in Bufs
  PROVE  Succ(b) \in Bufs /\ Succ(b) # b /\ Succ(Succ(b)) = b /\ Succ(b) # NoBuf
  BY DEF Bufs, NoBuf, Succ

\* Who owns the transfer, where the calls are and what the enabling has done
\* so far are kept by every step.
LEMMA StepOwner ==
  ASSUME RxBufs = 2, ~Tear, TypeOK, RingInv, [Next]_vars
  PROVE  Owner'
<1> USE Two DEF TypeOK, DataOK, FlagsOK, RingInv, Owner, Oth, OtherHolds, Clearing, ring, ports, usbvars, appvars, bounds
<1>1. CASE EnableBegins
  BY <1>1 DEF EnableBegins
<1>2. CASE EnableOngoing
  BY <1>2 DEF EnableOngoing
<1>3. CASE EnableSel
  BY <1>3 DEF EnableSel
<1>4. CASE EnableNb
  BY <1>4 DEF EnableNb
<1>5. CASE EnablePos
  BY <1>5 DEF EnablePos
<1>6. CASE EnableStart
  BY <1>6 DEF EnableStart, SwitchBuffer, MayStart
<1>7. CASE EnableRun
  BY <1>7 DEF EnableRun, EpRun
<1>8. CASE Disable
  BY <1>8 DEF Disable
<1>9. CASE Abort
  BY <1>9 DEF Abort
<1>10. CASE Received
  BY <1>10 DEF Received
<1>11. CASE ReceivedNb
  BY <1>11 DEF ReceivedNb
<1>12. CASE ReceivedOngoing
  BY <1>12 DEF ReceivedOngoing
<1>13. CASE ReceivedStart
  BY <1>13 DEF ReceivedStart, SwitchBuffer, MayStart
<1>14. CASE ReceivedRun
  BY <1>14 DEF ReceivedRun, EpRun
<1>15. CASE AppChecks
  BY <1>15 DEF AppChecks
<1>16. CASE AppSleeps
  BY <1>16 DEF AppSleeps
<1>17. CASE AppCopies
  BY <1>17 DEF AppCopies
<1>18. CASE AppAdvances
  BY <1>18 DEF AppAdvances
<1>19. CASE AppStarts
  BY <1>19 DEF AppStarts, SwitchBuffer, MayStart, Calls, Enabling
<1>20. CASE AppRuns
  BY <1>20 DEF AppRuns, EpRun
<1>21. CASE UNCHANGED vars
  BY <1>21 DEF vars
<1>22. QED
  BY <1>1, <1>2, <1>3, <1>4, <1>5, <1>6, <1>7, <1>8, <1>9, <1>10, <1>11, <1>12, <1>13, <1>14, <1>15, <1>16, <1>17, <1>18, <1>19, <1>20, <1>21 DEF Next, UsbSteps, AppSteps

LEMMA StepCalls ==
  ASSUME RxBufs = 2, ~Tear, TypeOK, RingInv, [Next]_vars
  PROVE  Calls'
<1> USE Two, RxAssumption DEF TypeOK, DataOK, RingInv, Calls, HasData, Enabling, AppCalls, AppMoves, UsbMoves, RxAssumption, CurrentHolds, Unread, OtherHolds, Clearing, ring, ports, usbvars, appvars, bounds
<1>1. CASE EnableBegins
  BY <1>1 DEF EnableBegins
<1>2. CASE EnableOngoing
  BY <1>2 DEF EnableOngoing
<1>3. CASE EnableSel
  BY <1>3 DEF EnableSel
<1>4. CASE EnableNb
  BY <1>4 DEF EnableNb
<1>5. CASE EnablePos
  BY <1>5 DEF EnablePos
<1>6. CASE EnableStart
  BY <1>6 DEF EnableStart, SwitchBuffer, MayStart
<1>7. CASE EnableRun
  BY <1>7 DEF EnableRun
<1>8. CASE Disable
  BY <1>8 DEF Disable
<1>9. CASE Abort
  BY <1>9 DEF Abort
<1>10. CASE Received
  BY <1>10 DEF Received
<1>11. CASE ReceivedNb
  BY <1>11 DEF ReceivedNb
<1>12. CASE ReceivedOngoing
  BY <1>12 DEF ReceivedOngoing
<1>13. CASE ReceivedStart
  <2>1. CASE MayStart
    <3>1. ~HasData /\ app \notin {"copy", "advance"}
      BY <1>13, <2>1 DEF MayStart, ReceivedStart
    <3>2. QED
      BY <1>13, <2>1, <3>1 DEF ReceivedStart
  <2>2. CASE ~MayStart
    BY <1>13, <2>2 DEF ReceivedStart
  <2>3. QED
    BY <2>1, <2>2
<1>14. CASE ReceivedRun
  BY <1>14 DEF ReceivedRun
<1>15. CASE AppChecks
  BY <1>15 DEF AppChecks
<1>16. CASE AppSleeps
  BY <1>16 DEF AppSleeps
<1>17. CASE AppCopies
  BY <1>17 DEF AppCopies
<1>18. CASE AppAdvances
  BY <1>18 DEF AppAdvances
<1>19. CASE AppStarts
  BY <1>19 DEF AppStarts, SwitchBuffer, MayStart
<1>20. CASE AppRuns
  BY <1>20 DEF AppRuns
<1>21. CASE UNCHANGED vars
  BY <1>21 DEF vars
<1>22. QED
  BY <1>1, <1>2, <1>3, <1>4, <1>5, <1>6, <1>7, <1>8, <1>9, <1>10, <1>11, <1>12, <1>13, <1>14, <1>15, <1>16, <1>17, <1>18, <1>19, <1>20, <1>21 DEF Next, UsbSteps, AppSteps

LEMMA StepEnables ==
  ASSUME RxBufs = 2, ~Tear, TypeOK, RingInv, [Next]_vars
  PROVE  Enables'
<1> USE Two, RxAssumption DEF TypeOK, DataOK, FlagsOK, RingInv, Enables, Calls, Enabling, RxAssumption, LastCleared, ring, ports, usbvars, appvars, bounds
<1>1. CASE EnableBegins
  BY <1>1 DEF EnableBegins, Owner
<1>2. CASE EnableOngoing
  BY <1>2 DEF EnableOngoing
<1>3. CASE EnableSel
  <2>1. usb_n' \in Bufs /\ \A b \in Bufs : ~(b < usb_n')
    BY <1>3 DEF EnableSel, Bufs
  <2>2. QED
    BY <1>3, <2>1 DEF EnableSel
<1>4. CASE EnableNb
  <2>1. usb_n \in Bufs /\ rx_buf_nb' = [rx_buf_nb EXCEPT ![usb_n] = 0]
    BY <1>4 DEF EnableNb
  <2>2. \A b \in Bufs : b < usb_n => rx_buf_nb[b] = 0
    BY <1>4 DEF EnableNb
  <2>3. CASE LastCleared
    <3>1. usb_n = 1
      BY <2>1, <2>3 DEF Bufs
    <3>2. \A b \in Bufs : rx_buf_nb'[b] = 0
      BY <2>1, <2>2, <3>1 DEF Bufs
    <3>3. QED
      BY <1>4, <2>3, <3>2 DEF EnableNb
  <2>4. CASE ~LastCleared
    <3>1. usb_n = 0 /\ usb_n + 1 \in Bufs
      BY <2>1, <2>4 DEF Bufs
    <3>2. \A b \in Bufs : b < usb_n + 1 => rx_buf_nb'[b] = 0
      BY <2>1, <3>1 DEF Bufs
    <3>3. QED
      BY <1>4, <2>4, <3>1, <3>2 DEF EnableNb
  <2>5. QED
    BY <2>3, <2>4
<1>5. CASE EnablePos
  BY <1>5 DEF EnablePos
<1>6. CASE EnableStart
  BY <1>6 DEF EnableStart, SwitchBuffer, MayStart
<1>7. CASE EnableRun
  BY <1>7 DEF EnableRun, EpRun
<1>8. CASE Disable
  BY <1>8 DEF Disable
<1>9. CASE Abort
  BY <1>9 DEF Abort
<1>10. CASE Received
  BY <1>10 DEF Received
<1>11. CASE ReceivedNb
  BY <1>11 DEF ReceivedNb
<1>12. CASE ReceivedOngoing
  BY <1>12 DEF ReceivedOngoing
<1>13. CASE ReceivedStart
  BY <1>13 DEF ReceivedStart, SwitchBuffer, MayStart
<1>14. CASE ReceivedRun
  BY <1>14 DEF ReceivedRun, EpRun
<1>15. CASE AppChecks
  BY <1>15 DEF AppChecks
<1>16. CASE AppSleeps
  BY <1>16 DEF AppSleeps
<1>17. CASE AppCopies
  BY <1>17 DEF AppCopies
<1>18. CASE AppAdvances
  BY <1>18 DEF AppAdvances
<1>19. CASE AppStarts
  BY <1>19 DEF AppStarts, SwitchBuffer, MayStart
<1>20. CASE AppRuns
  BY <1>20 DEF AppRuns, EpRun
<1>21. CASE UNCHANGED vars
  BY <1>21 DEF vars
<1>22. QED
  BY <1>1, <1>2, <1>3, <1>4, <1>5, <1>6, <1>7, <1>8, <1>9, <1>10, <1>11, <1>12, <1>13, <1>14, <1>15, <1>16, <1>17, <1>18, <1>19, <1>20, <1>21 DEF Next, UsbSteps, AppSteps

\* What the ring holds does not change when its bytes, counts and ends do not.
LEMMA Kept ==
  ASSUME CurrentHolds, OtherHolds,
         UNCHANGED <<rx_buf, rx_buf_nb, rx_buf_sel, sent, got>>,
         Unread' = Unread, OtherCount' = OtherCount,
         usb' = "rcvNb" => usb_n' > 0,
         usb' \in {"rcvNb", "rcvOngoing"} => rx_trans_ongoing'
  PROVE  CurrentHolds' /\ OtherHolds'
<1>1. Oth' = Oth /\ EndCur' = EndCur
  BY DEF Oth, EndCur, Succ
<1>2. CurrentHolds'
  BY DEF CurrentHolds, Holds
<1>3. OtherHolds'
  BY <1>1 DEF OtherHolds, Holds
<1>4. QED
  BY <1>2, <1>3

\* The switch makes the buffer just filled the current one.
LEMMA Switched ==
  ASSUME RxBufs = 2, TypeOK, got \in Nat, CurrentHolds, OtherHolds,
         SwitchBuffer, UNCHANGED <<rx_buf, sent, got>>,
         app # "advance", app' # "advance",
         usb \notin {"rcvNb", "rcvOngoing"}, usb' \notin {"rcvNb", "rcvOngoing"}
  PROVE  CurrentHolds' /\ OtherHolds'
<1> DEFINE sel == rx_buf_sel
           oth == Succ(rx_buf_sel)
           m == rx_buf_nb[oth]
<1>1. sel \in Bufs /\ oth \in Bufs /\ Succ(oth) = sel
  BY Two DEF TypeOK, DataOK
<1>2. rx_buf_nb[sel] \in Nat /\ m \in Nat /\ rx_pos \in Nat
  BY <1>1, RxAssumption DEF TypeOK, DataOK, RxAssumption
<1>3. rx_pos = rx_buf_nb[sel] /\ ~rx_trans_ongoing
  BY <1>2 DEF SwitchBuffer, MayStart, HasData, CurrentHolds, Unread
<1>4. EndCur = got
  BY <1>2, <1>3 DEF EndCur, Unread
<1>5. sent = got + m /\ Holds(oth, got + 1, 0, m)
  BY <1>3, <1>4 DEF OtherHolds, OtherCount, Oth
<1>6. rx_buf_sel' = oth /\ rx_buf_nb' = rx_buf_nb /\ rx_pos' = 0 /\ rx_trans_ongoing'
  BY DEF SwitchBuffer
<1>7. Unread' = 0 /\ Oth' = sel
  BY <1>1, <1>6 DEF Unread, Oth, Succ
<1>8. EndCur' = sent'
  BY <1>2, <1>5, <1>6, <1>7 DEF EndCur
<1>9. CurrentHolds'
  BY <1>2, <1>5, <1>6, <1>7 DEF CurrentHolds, Holds
<1>10. OtherCount' = 0
  BY <1>6 DEF OtherCount
<1>11. Holds(Oth, EndCur + 1, 0, OtherCount)'
  BY <1>10 DEF Holds
<1>12. sent' \in Int
  BY <1>2, <1>5
<1>13. QED
  BY <1>8, <1>9, <1>10, <1>11, <1>12 DEF OtherHolds

\* The numbers of the ring's state.
LEMMA Ranges ==
  ASSUME RxBufs = 2, TypeOK, RingInv
  PROVE  /\ rx_buf_sel \in Bufs /\ Oth \in Bufs /\ Oth # rx_buf_sel
         /\ rx_buf_nb[rx_buf_sel] \in Nat /\ rx_buf_nb[rx_buf_sel] <= BufSize
         /\ rx_buf_nb[Oth] \in Nat
         /\ BufSize \in Nat /\ rx_pos \in Nat /\ app_n \in Nat /\ usb_n \in Nat
         /\ got \in Nat /\ sent \in Nat
         /\ Unread \in Nat /\ EndCur \in Int /\ OtherCount \in Nat
<1>1. rx_buf_sel \in Bufs /\ Oth \in Bufs /\ Oth # rx_buf_sel
  BY Two DEF TypeOK, DataOK, Oth
<1>2. rx_buf_nb \in [Bufs -> 0 .. BufSize] /\ BufSize \in Nat /\ app_n \in 0 .. BufSize
  BY RxAssumption DEF TypeOK, DataOK, RxAssumption
<1>3. rx_pos \in Nat /\ usb_n \in Nat /\ got \in Nat /\ sent \in Nat
  BY DEF TypeOK, DataOK, RingInv
<1>4. Unread \in Nat
  BY <1>2, <1>3 DEF Unread
<1>5. QED
  BY <1>1, <1>2, <1>3, <1>4 DEF EndCur, OtherCount

\* A byte received follows those already there.
LEMMA HoldsReceived ==
  ASSUME RxBufs = 2, TypeOK, RingInv, Received
  PROVE  CurrentHolds' /\ OtherHolds'
<1> DEFINE sel == rx_buf_sel
           oth == Succ(rx_buf_sel)
<1>1. PICK n \in 0 .. BufSize :
        /\ sent' = sent + n
        /\ rx_buf' = [rx_buf EXCEPT ![job] =
              [i \in 0 .. (BufSize - 1) |-> IF i < n THEN sent + i + 1 ELSE @[i]]]
        /\ IF n = 0
           THEN job' = Succ(rx_buf_sel) /\ UNCHANGED <<usb, usb_n>>
           ELSE job' = NoBuf /\ usb' = "rcvNb" /\ usb_n' = n
  BY DEF Received
<1>2. UNCHANGED <<rx_buf_nb, rx_buf_sel, rx_pos, rx_trans_ongoing, app, app_n, got>>
  BY DEF Received, ring, appvars
<1>3. usb = "idle" /\ job = oth /\ rx_trans_ongoing
  BY DEF Received, RingInv, Owner, Oth
<1>4. sel \in Bufs /\ oth \in Bufs /\ oth # sel
  BY Two DEF TypeOK, DataOK
<1>5. CurrentHolds /\ OtherHolds
  BY <1>3 DEF RingInv, Clearing
<1>6. sent \in Nat /\ BufSize \in Nat /\ n \in Nat /\ EndCur \in Int
      /\ rx_buf \in [Bufs -> [0 .. (BufSize - 1) -> Nat]]
  BY Ranges DEF TypeOK, DataOK
<1>7. rx_buf'[sel] = rx_buf[sel]
  BY <1>1, <1>3, <1>4, <1>6
<1>8. Unread' = Unread /\ EndCur' = EndCur /\ Oth' = oth
  BY <1>2 DEF Unread, EndCur, Oth, Succ
<1>9. CurrentHolds'
  BY <1>2, <1>5, <1>7, <1>8 DEF CurrentHolds, Holds
<1>10. OtherCount = 0 /\ sent = EndCur
  BY <1>3, <1>5, <1>6 DEF OtherCount, OtherHolds
<1>11. OtherCount' = n
  BY <1>1, <1>2, <1>3 DEF OtherCount
<1>12. \A i \in 0 .. (BufSize - 1) : i < n => rx_buf'[oth][i] = sent + i + 1
  BY <1>1, <1>3, <1>4, <1>6
<1>13. Holds(Oth, EndCur + 1, 0, OtherCount)'
  BY <1>2, <1>6, <1>8, <1>10, <1>11, <1>12 DEF Holds
<1>14. usb' = "rcvNb" => usb_n' > 0
  BY <1>1, <1>3, <1>6
<1>15. rx_trans_ongoing'
  BY <1>2, <1>3
<1>16. sent' = EndCur' + OtherCount'
  BY <1>1, <1>8, <1>10, <1>11
<1>17. QED
  BY <1>9, <1>13, <1>14, <1>15, <1>16 DEF OtherHolds

\* Its count is stored in the buffer it was received in.
LEMMA HoldsCounted ==
  ASSUME RxBufs = 2, TypeOK, RingInv, ReceivedNb
  PROVE  CurrentHolds' /\ OtherHolds'
<1> DEFINE sel == rx_buf_sel
           oth == Succ(rx_buf_sel)
<1>1. /\ usb = "rcvNb" /\ usb' = "rcvOngoing"
      /\ rx_buf_nb' = [rx_buf_nb EXCEPT ![oth] = usb_n]
      /\ UNCHANGED <<rx_buf, rx_buf_sel, rx_pos, rx_trans_ongoing, app, app_n, sent, got>>
  BY DEF ReceivedNb, appvars
<1>2. sel \in Bufs /\ oth \in Bufs /\ oth # sel
  BY Two DEF TypeOK, DataOK
<1>3. CurrentHolds /\ OtherHolds
  BY <1>1 DEF RingInv, Clearing
<1>4. rx_buf_nb \in [Bufs -> 0 .. BufSize]
  BY DEF TypeOK, DataOK
<1>5. rx_buf_nb'[sel] = rx_buf_nb[sel] /\ rx_buf_nb'[oth] = usb_n
  BY <1>1, <1>2, <1>4
<1>6. Unread' = Unread /\ EndCur' = EndCur /\ Oth' = oth /\ Oth = oth
  BY <1>1, <1>5 DEF Unread, EndCur, Oth, Succ
<1>7. OtherCount = usb_n /\ OtherCount' = usb_n
  BY <1>1, <1>5, <1>6 DEF OtherCount
<1>8. CurrentHolds'
  BY <1>1, <1>3, <1>5, <1>6 DEF CurrentHolds, Holds
<1>9. sent' = EndCur' + OtherCount' /\ usb_n > 0 /\ rx_trans_ongoing'
  BY <1>1, <1>3, <1>6, <1>7 DEF OtherHolds
<1>10. Holds(Oth, EndCur + 1, 0, OtherCount)'
  BY <1>1, <1>3, <1>6, <1>7 DEF OtherHolds, Holds
<1>11. QED
  BY <1>1, <1>8, <1>9, <1>10 DEF OtherHolds

\* The application takes bytes off the front.
LEMMA HoldsCopied ==
  ASSUME RxBufs = 2, TypeOK, RingInv, AppCopies
  PROVE  /\ CurrentHolds' /\ OtherHolds'
         /\ \E n \in 1 .. BufSize : got' = got + n
         /\ got' <= sent
<1> DEFINE sel == rx_buf_sel
<1>1. PICK n \in 1 .. BufSize :
        /\ n = 1 \/ app_pos + n <= rx_buf_nb[app_sel]
        /\ app_n' = n
        /\ got' = IF \A i \in 1 .. n : rx_buf[app_sel][app_pos + i - 1] = got + i
                  THEN got + n ELSE -1
  BY DEF AppCopies
<1>2. /\ app = "copy" /\ app' = "advance"
      /\ UNCHANGED <<rx_buf, rx_buf_nb, rx_buf_sel, rx_pos, rx_trans_ongoing, usb, usb_n, sent>>
  BY DEF AppCopies, ring, usbvars
<1>3. app_pos = rx_pos /\ app_sel = sel /\ rx_pos < rx_buf_nb[sel]
  BY <1>2 DEF RingInv, Calls, HasData
<1>4. usb \notin Clearing
  BY <1>2 DEF RingInv, Calls, Enabling, Clearing
<1>5. CurrentHolds /\ OtherHolds
  BY <1>4 DEF RingInv
<1>6. /\ sel \in Bufs /\ Oth \in Bufs
      /\ rx_pos \in Nat /\ n \in Nat /\ got \in Nat /\ sent \in Nat
      /\ rx_buf_nb[sel] \in Nat /\ rx_buf_nb[sel] <= BufSize /\ BufSize \in Nat
      /\ OtherCount \in Nat
  BY Ranges
<1>7. rx_pos + n <= rx_buf_nb[sel]
  BY <1>1, <1>3, <1>6
<1>8. Unread = rx_pos /\ Unread' = rx_pos + n
  BY <1>1, <1>2 DEF Unread
<1>9. \A i \in 0 .. (BufSize - 1) :
        rx_pos <= i /\ i < rx_buf_nb[sel] => rx_buf[sel][i] = got + 1 + (i - rx_pos)
  BY <1>5, <1>8 DEF CurrentHolds, Holds
<1>10. \A i \in 1 .. n : rx_buf[app_sel][app_pos + i - 1] = got + i
  <2> SUFFICES ASSUME NEW i \in 1 .. n
               PROVE  rx_buf[sel][rx_pos + i - 1] = got + i
    BY <1>3
  <2>1. rx_pos + i - 1 \in 0 .. (BufSize - 1) /\ rx_pos + i - 1 < rx_buf_nb[sel]
    BY <1>6, <1>7
  <2>2. rx_pos <= rx_pos + i - 1
    BY <1>6
  <2>3. rx_buf[sel][rx_pos + i - 1] = got + 1 + ((rx_pos + i - 1) - rx_pos)
    BY <1>9, <2>1, <2>2
  <2>4. QED
    BY <2>3, <1>6
<1>11. got' = got + n
  BY <1>1, <1>10
<1>12. EndCur' = EndCur /\ Oth' = Oth /\ OtherCount' = OtherCount
  BY <1>2, <1>6, <1>8, <1>11 DEF EndCur, Oth, OtherCount, Succ
<1>13. CurrentHolds'
  BY <1>2, <1>6, <1>7, <1>8, <1>9, <1>11 DEF CurrentHolds, Holds
<1>14. OtherHolds'
  BY <1>2, <1>5, <1>12 DEF OtherHolds, Holds
<1>15. got' <= sent
  BY <1>5, <1>6, <1>7, <1>8, <1>11 DEF OtherHolds, EndCur
<1>16. QED
  BY <1>11, <1>13, <1>14, <1>15

\* data_enable leaves two empty buffers and forgets what nobody read.
LEMMA HoldsEnabled ==
  ASSUME RxBufs = 2, TypeOK, RingInv, EnablePos
  PROVE  CurrentHolds' /\ OtherHolds'
<1> DEFINE sel == rx_buf_sel
           oth == Succ(rx_buf_sel)
<1>1. /\ usb = "enPos" /\ usb' = "enStart" /\ rx_pos' = 0 /\ got' = sent
      /\ UNCHANGED <<rx_buf, rx_buf_nb, rx_buf_sel, rx_trans_ongoing, app, app_n, sent>>
  BY DEF EnablePos, appvars
<1>2. ~rx_trans_ongoing /\ app = "idle"
  BY <1>1 DEF RingInv, Enables, Calls, Enabling
<1>3. sel \in Bufs /\ oth \in Bufs /\ sent \in Nat
  BY Ranges DEF Oth
<1>4. rx_buf_nb[sel] = 0 /\ rx_buf_nb[oth] = 0
  BY <1>1, <1>3 DEF RingInv, Enables
<1>5. Unread' = 0 /\ EndCur' = sent /\ Oth' = oth
  BY <1>1, <1>2, <1>3, <1>4 DEF Unread, EndCur, Oth, Succ
<1>6. OtherCount' = 0
  BY <1>1, <1>2, <1>4, <1>5 DEF OtherCount
<1>7. CurrentHolds'
  BY <1>1, <1>4, <1>5 DEF CurrentHolds, Holds
<1>8. Holds(Oth, EndCur + 1, 0, OtherCount)'
  BY <1>6 DEF Holds
<1>9. QED
  BY <1>1, <1>3, <1>5, <1>6, <1>7, <1>8 DEF OtherHolds

\* Every step keeps what the ring holds.
LEMMA StepHolds ==
  ASSUME RxBufs = 2, ~Tear, TypeOK, RingInv, [Next]_vars, usb' \notin Clearing
  PROVE  CurrentHolds' /\ OtherHolds'
<1>1. ASSUME EnableBegins \/ EnableOngoing \/ EnableSel \/ EnableNb PROVE FALSE
  BY <1>1 DEF EnableBegins, EnableOngoing, EnableSel, EnableNb, Clearing
<1>2. ASSUME usb \notin Clearing,
             UNCHANGED <<rx_buf, ring, sent, got>>, Unread' = Unread,
             usb' \notin {"rcvNb", "rcvOngoing"} \/ UNCHANGED <<usb, usb_n>>,
             usb \notin {"rcvNb", "rcvOngoing"} \/ UNCHANGED <<usb, usb_n>>
      PROVE  CurrentHolds' /\ OtherHolds'
  <2>1. CurrentHolds /\ OtherHolds
    BY <1>2 DEF RingInv
  <2>2. OtherCount' = OtherCount
    BY <1>2 DEF OtherCount, Oth, Succ, ring
  <2>3. /\ usb' = "rcvNb" => usb_n' > 0
        /\ usb' \in {"rcvNb", "rcvOngoing"} => rx_trans_ongoing'
    BY <1>2, <2>1 DEF OtherHolds, ring
  <2>4. QED
    BY <1>2, <2>1, <2>2, <2>3, Kept DEF ring
<1>3. ASSUME usb \notin Clearing, SwitchBuffer, UNCHANGED <<rx_buf, sent, got>>,
             app # "advance", app' # "advance", usb' \notin {"rcvNb", "rcvOngoing"}
      PROVE  CurrentHolds' /\ OtherHolds'
  <2>1. CurrentHolds /\ OtherHolds /\ got \in Nat
    BY <1>3 DEF RingInv
  <2>2. usb \notin {"rcvNb", "rcvOngoing"}
    BY <1>3, <2>1 DEF OtherHolds, SwitchBuffer, MayStart
  <2>3. QED
    BY <1>3, <2>1, <2>2, Switched
<1>4. CASE EnablePos
  BY <1>4, HoldsEnabled
<1>5. CASE EnableStart
  <2>1. usb = "enStart" /\ usb' \in {"enRun", "idle"} /\ UNCHANGED <<rx_buf, app, app_n, sent, got>>
    BY <1>5 DEF EnableStart, appvars
  <2>2. app = "idle" /\ usb \notin Clearing
    BY <2>1 DEF RingInv, Calls, Enabling, Clearing
  <2>3. CASE SwitchBuffer
    BY <1>3, <2>1, <2>2, <2>3
  <2>4. CASE UNCHANGED ring
    <3>1. Unread' = Unread
      BY <2>1, <2>2, <2>4 DEF Unread, ring
    <3>2. QED
      BY <1>2, <2>1, <2>2, <2>4, <3>1
  <2>5. QED
    BY <1>5, <2>3, <2>4 DEF EnableStart
<1>6. CASE EnableRun
  BY <1>2, <1>6 DEF EnableRun, Clearing, Unread, ring, appvars
<1>7. CASE Disable
  BY <1>2, <1>7 DEF Disable, Clearing, Unread, ring, appvars, usbvars
<1>8. CASE Abort
  BY <1>2, <1>8 DEF Abort, Clearing, Unread, ring, appvars, usbvars
<1>9. CASE Received
  BY <1>9, HoldsReceived
<1>10. CASE ReceivedNb
  BY <1>10, HoldsCounted
<1>11. CASE ReceivedOngoing
  <2>1. /\ usb = "rcvOngoing" /\ usb' = "rcvStart"
        /\ UNCHANGED <<rx_buf, rx_buf_nb, rx_buf_sel, rx_pos, app, app_n, sent, got>>
    BY <1>11 DEF ReceivedOngoing, appvars
  <2>2. ~rx_trans_ongoing'
    BY <1>11 DEF ReceivedOngoing
  <2>3. CurrentHolds /\ OtherHolds
    BY <2>1 DEF RingInv, Clearing
  <2>4. Unread' = Unread /\ OtherCount' = OtherCount
    BY <2>1, <2>2 DEF Unread, OtherCount, Oth, Succ
  <2>5. QED
    BY <2>1, <2>3, <2>4, Kept
<1>12. CASE ReceivedStart
  <2>1. usb = "rcvStart" /\ usb' \in {"rcvRun", "idle"} /\ UNCHANGED <<rx_buf, app, app_n, sent, got>>
    BY <1>12 DEF ReceivedStart, appvars
  <2>2. usb \notin Clearing
    BY <2>1 DEF Clearing
  <2>3. CASE SwitchBuffer
    <3>1. app # "advance"
      BY <2>2, <2>3, Ranges
         DEF SwitchBuffer, MayStart, HasData, RingInv, Calls, CurrentHolds, Unread
    <3>2. QED
      BY <1>3, <2>1, <2>2, <2>3, <3>1
  <2>4. CASE UNCHANGED ring
    <3>1. Unread' = Unread
      BY <2>1, <2>4 DEF Unread, ring
    <3>2. QED
      BY <1>2, <2>1, <2>2, <2>4, <3>1
  <2>5. QED
    BY <1>12, <2>3, <2>4 DEF ReceivedStart
<1>13. CASE ReceivedRun
  BY <1>2, <1>13 DEF ReceivedRun, Clearing, Unread, ring, appvars
<1>14. CASE AppChecks
  <2>1. usb \notin Clearing
    BY <1>14 DEF AppChecks, AppCalls, Enabling, Clearing
  <2>2. QED
    BY <1>2, <1>14, <2>1 DEF AppChecks, AppCalls, Unread, ring, usbvars
<1>15. CASE AppSleeps
  BY <1>2, <1>15 DEF AppSleeps, Unread, ring, usbvars, appvars
<1>16. CASE AppCopies
  BY <1>16, HoldsCopied
<1>17. CASE AppAdvances
  <2>1. /\ app = "advance" /\ app' = "start"
        /\ rx_pos' \in {rx_pos + app_n} \union (IF app_n = 1 THEN {app_pos + 1} ELSE {})
        /\ UNCHANGED <<rx_buf, rx_buf_nb, rx_buf_sel, rx_trans_ongoing, sent, got, usb, usb_n>>
    BY <1>17 DEF AppAdvances, usbvars
  <2>2. app_pos = rx_pos /\ usb \notin Clearing
    BY <2>1 DEF RingInv, Calls, Enabling, Clearing
  <2>3. rx_pos' = rx_pos + app_n
    BY <2>1, <2>2
  <2>4. CurrentHolds /\ OtherHolds
    BY <2>2 DEF RingInv
  <2>5. Unread' = Unread /\ OtherCount' = OtherCount
    BY <2>1, <2>3 DEF Unread, OtherCount, Oth, Succ
  <2>6. QED
    BY <2>1, <2>4, <2>5, Kept DEF OtherHolds
<1>18. CASE AppStarts
  <2>1. /\ app = "start" /\ app' \in {"run", "idle"}
        /\ UNCHANGED <<rx_buf, sent, got, usb, usb_n>>
    BY <1>18 DEF AppStarts, usbvars
  <2>2. usb \notin Clearing
    BY <2>1 DEF RingInv, Calls, Enabling, Clearing
  <2>3. CASE SwitchBuffer
    <3>1. CurrentHolds /\ OtherHolds
      BY <2>2 DEF RingInv
    <3>2. usb' \notin {"rcvNb", "rcvOngoing"}
      BY <2>1, <2>3, <3>1 DEF OtherHolds, SwitchBuffer, MayStart
    <3>3. QED
      BY <1>3, <2>1, <2>2, <2>3, <3>2
  <2>4. CASE UNCHANGED ring
    <3>1. Unread' = Unread
      BY <2>1, <2>4 DEF Unread, ring
    <3>2. QED
      BY <1>2, <2>1, <2>2, <2>4, <3>1
  <2>5. QED
    BY <1>18, <2>3, <2>4 DEF AppStarts
<1>19. CASE AppRuns
  <2>1. usb \notin Clearing
    BY <1>19 DEF AppRuns, RingInv, Calls, Enabling, Clearing
  <2>2. QED
    BY <1>2, <1>19, <2>1 DEF AppRuns, Unread, ring, usbvars
<1>20. CASE UNCHANGED vars
  BY <1>2, <1>20 DEF vars, Unread, ring, usbvars, appvars
<1>21. QED
  BY <1>1, <1>4, <1>5, <1>6, <1>7, <1>8, <1>9, <1>10, <1>11, <1>12, <1>13, <1>14, <1>15,
     <1>16, <1>17, <1>18, <1>19, <1>20 DEF Next, UsbSteps, AppSteps

\* RingInv is inductive.
LEMMA StepRing ==
  ASSUME RxBufs = 2, ~Tear, TypeOK, RingInv, [Next]_vars
  PROVE  RingInv'
<1>1. got' \in Nat
  <2>1. CASE AppCopies
    BY <2>1, HoldsCopied, Ranges
  <2>2. CASE EnablePos
    BY <2>2, Ranges DEF EnablePos
  <2>3. CASE ~AppCopies /\ ~EnablePos
    <3>1. got' = got
      BY <2>3 DEF Next, UsbSteps, AppSteps, vars, EnableBegins, EnableOngoing, EnableSel,
         EnableNb, EnableStart, EnableRun, Disable, Abort, Received, ReceivedNb,
         ReceivedOngoing, ReceivedStart, ReceivedRun, AppChecks, AppSleeps, AppAdvances,
         AppStarts, AppRuns
    <3>2. QED
      BY <3>1 DEF RingInv
  <2>4. QED
    BY <2>1, <2>2, <2>3
<1>2. data_running' => ep_on'
  BY DEF RingInv, Enables, Enabling, Next, UsbSteps, AppSteps, vars, ports, EnableBegins,
     EnableOngoing, EnableSel, EnableNb, EnablePos, EnableStart, EnableRun, Disable, Abort,
     Received, ReceivedNb, ReceivedOngoing, ReceivedStart, ReceivedRun, AppChecks,
     AppSleeps, AppCopies, AppAdvances, AppStarts, AppRuns
<1>3. Owner' /\ Calls' /\ Enables'
  BY StepOwner, StepCalls, StepEnables
<1>4. QED
  BY <1>1, <1>2, <1>3, StepHolds DEF RingInv

\* An empty ring holds nothing.
LEMMA InitRing == ASSUME RxBufs = 2, Init PROVE RingInv
<1>1. /\ usb = "idle" /\ app = "idle" /\ got = 0 /\ sent = 0 /\ rx_pos = 0
      /\ rx_buf_sel = 0 /\ ~rx_trans_ongoing /\ ~data_running /\ job = NoBuf
  BY DEF Init
<1>2. 0 \in Bufs /\ Succ(0) \in Bufs
  BY Two DEF Bufs
<1>3. rx_buf_nb[0] = 0 /\ rx_buf_nb[Succ(0)] = 0
  BY <1>2 DEF Init
<1>4. EndCur = 0 /\ Unread = 0 /\ Oth = Succ(0)
  BY <1>1, <1>3 DEF EndCur, Unread, Oth
<1>5. CurrentHolds /\ OtherHolds
  BY <1>1, <1>3, <1>4 DEF CurrentHolds, OtherHolds, OtherCount, Holds
<1>6. Owner /\ Calls /\ Enables
  BY <1>1 DEF Owner, Calls, Enables, Enabling
<1>7. QED
  BY <1>1, <1>5, <1>6 DEF RingInv

\* With two buffers and calls that do not overlap an enabling, RingInv is an
\* invariant for every buffer size: what the ring holds is exactly the bytes
\* the host sent and the application has not read.
THEOREM RingCorrect == ASSUME RxBufs = 2, ~Tear PROVE Spec => []RingInv
<1>1. Init => TypeOK /\ RingInv
  BY InitType, InitRing
<1>2. TypeOK /\ RingInv /\ [Next]_vars => TypeOK' /\ RingInv'
  BY StepFlags, StepData, StepRing DEF TypeOK
<1>3. QED
  BY <1>1, <1>2, PTL DEF Spec

\* The endpoint never fills the buffer being read.
THEOREM NeverOverwrites == ASSUME RxBufs = 2, ~Tear PROVE Spec => []NoOverwrite
<1>1. TypeOK /\ RingInv => NoOverwrite
  BY Ranges DEF NoOverwrite, RingInv, Owner
<1>2. Spec => []RingInv
  BY RingCorrect
<1>3. QED
  BY <1>1, <1>2, TypeCorrect, PTL

\* The ring implements ByteStream: the application reads what the host sent, in
\* order, each byte once, and bytes are lost only while the interface is down.
THEOREM RingImplementsStream == ASSUME RxBufs = 2, ~Tear PROVE Spec => InOrder
<1> DEFINE Up == data_running /\ ep_on
<1>1. Init => Stream!Init
  BY DEF Init, Stream!Init
<1>2. ASSUME TypeOK, RingInv, [Next]_vars
      PROVE  [Stream!Next]_(Stream!vars)
  <2>1. CASE Received
    <3>1. got' = got /\ Up' = Up
      BY <2>1 DEF Received, ports
    <3>2. PICK n \in 0 .. BufSize : sent' = sent + n
      BY <2>1 DEF Received
    <3>3. sent' = sent \/ (sent' \in Nat /\ sent' > sent)
      BY <1>2, <3>2, Ranges
    <3>4. CASE sent' = sent
      BY <3>1, <3>4 DEF Stream!vars
    <3>5. CASE sent' \in Nat /\ sent' > sent
      <4>1. Stream!Write
        BY <3>1, <3>5 DEF Stream!Write
      <4>2. QED
        BY <4>1 DEF Stream!Next
    <3>6. QED
      BY <3>3, <3>4, <3>5
  <2>2. CASE AppCopies
    <3>1. sent' = sent /\ Up' = Up
      BY <2>2 DEF AppCopies, ports
    <3>2. PICK n \in 1 .. BufSize : got' = got + n
      BY <1>2, <2>2, HoldsCopied
    <3>3. got' <= sent
      BY <1>2, <2>2, HoldsCopied
    <3>4. got' \in (got + 1) .. sent
      BY <1>2, <3>2, <3>3, Ranges
    <3>5. Stream!Deliver
      BY <3>1, <3>4 DEF Stream!Deliver
    <3>6. QED
      BY <3>5 DEF Stream!Next
  <2>3. CASE EnablePos
    <3>1. ~Up
      BY <1>2, <2>3 DEF EnablePos, RingInv, Enables, Enabling
    <3>2. got' = sent /\ sent' = sent /\ Up' = Up
      BY <2>3 DEF EnablePos, ports
    <3>3. Stream!Drop
      BY <3>1, <3>2 DEF Stream!Drop
    <3>4. QED
      BY <3>3 DEF Stream!Next
  <2>4. CASE EnableRun
    <3>1. ~Up /\ job = NoBuf /\ ep_on
      BY <1>2, <2>4 DEF EnableRun, RingInv, Enables, Enabling
    <3>2. sent' = sent /\ got' = got /\ Up'
      BY <2>4, <3>1 DEF EnableRun
    <3>3. Up' = TRUE
      BY <3>2
    <3>4. Stream!Open
      BY <3>1, <3>2, <3>3 DEF Stream!Open
    <3>5. QED
      BY <3>4 DEF Stream!Next
  <2>5. CASE EnableBegins
    <3>1. ~data_running
      BY <1>2, <2>5 DEF EnableBegins, RingInv
    <3>2. ~data_running' /\ sent' = sent /\ got' = got
      BY <2>5, <3>1 DEF EnableBegins
    <3>3. Up = FALSE /\ Up' = FALSE
      BY <3>1, <3>2
    <3>4. QED
      BY <3>2, <3>3 DEF Stream!vars
  <2>6. CASE Disable
    <3>1. Up' = FALSE /\ sent' = sent /\ got' = got
      BY <2>6 DEF Disable
    <3>2. CASE Up
      <4>1. Stream!Close
        BY <3>1, <3>2 DEF Stream!Close
      <4>2. QED
        BY <4>1 DEF Stream!Next
    <3>3. CASE ~Up
      <4>1. Up' = Up
        BY <3>1, <3>3
      <4>2. QED
        BY <3>1, <4>1 DEF Stream!vars
    <3>4. QED
      BY <3>2, <3>3
  <2>7. CASE UNCHANGED <<sent, got, ports>>
    <3>1. Up' = Up
      BY <2>7 DEF ports
    <3>2. QED
      BY <2>7, <3>1 DEF Stream!vars
  <2>8. CASE UNCHANGED <<sent, got, ep_on, data_running>>
    <3>1. Up' = Up
      BY <2>8
    <3>2. QED
      BY <2>8, <3>1 DEF Stream!vars
  <2>9. CASE EnableOngoing \/ EnableSel \/ EnableNb \/ EnableStart
    BY <2>7, <2>9 DEF EnableOngoing, EnableSel, EnableNb, EnableStart
  <2>10. CASE Abort \/ ReceivedNb \/ ReceivedOngoing \/ ReceivedStart \/ ReceivedRun
    BY <2>7, <2>8, <2>10 DEF Abort, ReceivedNb, ReceivedOngoing, ReceivedStart, ReceivedRun
  <2>11. CASE AppChecks \/ AppSleeps \/ AppAdvances \/ AppStarts \/ AppRuns
    BY <2>7, <2>8, <2>11 DEF AppChecks, AppSleeps, AppAdvances, AppStarts, AppRuns
  <2>12. CASE UNCHANGED vars
    BY <2>7, <2>12 DEF vars
  <2>13. QED
    BY <1>2, <2>1, <2>2, <2>3, <2>4, <2>5, <2>6, <2>9, <2>10, <2>11, <2>12
       DEF Next, UsbSteps, AppSteps
<1>3. Spec => []RingInv
  BY RingCorrect
<1>4. QED
  BY <1>1, <1>2, <1>3, TypeCorrect, PTL DEF Spec, InOrder, Stream!Spec
=============================================================================
