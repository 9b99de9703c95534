--------------------------- MODULE UdiCdcTxProofs ---------------------------
(***************************************************************************)
(* The transmit side, for every buffer size, frame counter and number of   *)
(* bytes and connections: its types, and, when calls and enabling do not   *)
(* overlap, TxInv, from which it follows that the space putc saw stays,    *)
(* that no buffer is written while it is sent, and that the two buffers    *)
(* implement ByteStream.                                                   *)
(***************************************************************************)
EXTENDS UdiCdcTx, TLAPS

\* The two buffers.
LEMMA Two ==
  ASSUME NEW b \in Bufs
  PROVE  Other(b) \in Bufs /\ Other(b) # b /\ Other(Other(b)) = b /\ b # NoBuf
  BY DEF Other, Bufs, NoBuf

\* What putc and write_buf leave in a buffer.
LEMMA StoredType ==
  ASSUME DataOK, NEW n \in Nat
  PROVE  Stored(n) \in [0 .. (BufSize - 1) -> Nat]
<1>1. tx_buf[tx_buf_sel] \in [0 .. (BufSize - 1) -> Nat]
  BY DEF DataOK
<1>2. tx_buf_nb[tx_buf_sel] \in Nat /\ put \in Nat /\ BufSize \in Nat
  BY TxAssumption DEF DataOK, TxAssumption
<1>3. QED
  BY <1>1, <1>2 DEF Stored

\* The initial state is well typed.
LEMMA InitType == Init => TypeOK
<1> SUFFICES ASSUME Init PROVE TypeOK
  OBVIOUS
<1>1. 0 \in 0 .. (FrameMod - 1) /\ 0 \in 0 .. ZlpLimit /\ 0 \in Bufs
  BY TxAssumption DEF TxAssumption, Bufs
<1>2. tx_buf \in [Bufs -> [0 .. (BufSize - 1) -> Nat]] /\ tx_buf_nb \in [Bufs -> Nat]
  BY DEF Init
<1>3. QED
  BY <1>1, <1>2 DEF Init, TypeOK, FlagsOK, DataOK

\* Every step keeps the types, the Booleans first.
LEMMA StepFlags == TypeOK /\ [Next]_vars => FlagsOK'
<1> SUFFICES ASSUME TypeOK, [Next]_vars PROVE FlagsOK'
  OBVIOUS
<1> USE DEF TypeOK, FlagsOK, ctl, ports, usbvars, bounds
<1>1. CASE EnableBegins
  BY <1>1 DEF EnableBegins
<1>2. CASE EnableOngoing
  BY <1>2 DEF EnableOngoing
<1>3. CASE EnableBoth
  BY <1>3 DEF EnableBoth
<1>4. CASE EnableSel
  BY <1>4 DEF EnableSel
<1>5. CASE EnableNb0
  BY <1>5 DEF EnableNb0
<1>6. CASE EnableNb1
  BY <1>6 DEF EnableNb1
<1>7. CASE EnableSof
  BY <1>7 DEF EnableSof
<1>8. CASE EnableRunning
  BY <1>8 DEF EnableRunning
<1>9. CASE Disable
  BY <1>9 DEF Disable
<1>10. CASE Abort
  BY <1>10 DEF Abort
<1>11. CASE Sof
  BY <1>11 DEF Sof
<1>12. CASE Sent
  BY <1>12 DEF Sent
<1>13. CASE SentNb
  BY <1>13 DEF SentNb
<1>14. CASE SentBoth
  BY <1>14 DEF SentBoth
<1>15. CASE SentOngoing
  BY <1>15 DEF SentOngoing
<1>16. CASE TxChecks
  BY <1>16 DEF TxChecks
<1>17. CASE TxWaits
  BY <1>17 DEF TxWaits
<1>18. CASE TxSelects
  BY <1>18 DEF TxSelects
<1>19. CASE TxShort
  BY <1>19 DEF TxShort
<1>20. CASE TxRuns
  BY <1>20 DEF TxRuns
<1>21. CASE AppMovesOn
  BY <1>21 DEF AppMovesOn, AppCalls
<1>22. CASE AppFindsSpace
  BY <1>22 DEF AppFindsSpace
<1>23. CASE AppWrites
  BY <1>23 DEF AppWrites
<1>24. CASE UNCHANGED vars
  BY <1>24 DEF vars
<1>25. QED
  BY <1>1, <1>2, <1>3, <1>4, <1>5, <1>6, <1>7, <1>8, <1>9, <1>10, <1>11, <1>12,
     <1>13, <1>14, <1>15, <1>16, <1>17, <1>18, <1>19, <1>20, <1>21, <1>22, <1>23,
     <1>24
     DEF Next, UsbSteps, TxSend

\* The rest of the types.
LEMMA StepData == TypeOK /\ [Next]_vars => DataOK'
<1> SUFFICES ASSUME TypeOK, [Next]_vars PROVE DataOK'
  OBVIOUS
<1> USE DEF TypeOK, DataOK, bufs, ctl, sof, endpoint, usbvars, bounds, Return
<1>1. CASE EnableBegins
  BY <1>1 DEF EnableBegins
<1>2. CASE EnableOngoing
  BY <1>2 DEF EnableOngoing
<1>3. CASE EnableBoth
  BY <1>3 DEF EnableBoth
<1>4. CASE EnableSel
  BY <1>4 DEF EnableSel, Bufs
<1>5. CASE EnableNb0
  BY <1>5 DEF EnableNb0
<1>6. CASE EnableNb1
  BY <1>6 DEF EnableNb1
<1>7. CASE EnableSof
  <2>1. 0 \in 0 .. (FrameMod - 1)
    BY TxAssumption DEF TxAssumption
  <2>2. QED
    BY <1>7, <2>1 DEF EnableSof
<1>8. CASE EnableRunning
  BY <1>8 DEF EnableRunning
<1>9. CASE Disable
  BY <1>9 DEF Disable
<1>10. CASE Abort
  BY <1>10 DEF Abort
<1>11. CASE Sof
  <2>1. (frame + 1) % FrameMod \in 0 .. (FrameMod - 1)
    BY TxAssumption DEF TxAssumption
  <2>2. QED
    BY <1>11, <2>1 DEF Sof
<1>12. CASE Sent
  <2>1. got' \in Nat \union {-1}
    <3>1. got \in Nat \/ got = -1
      OBVIOUS
    <3>2. job_n \in Nat
      OBVIOUS
    <3>3. CASE got \in Nat
      BY <1>12, <3>2, <3>3 DEF Sent
    <3>4. CASE got = -1
      BY <1>12, <3>2, <3>4 DEF Sent
    <3>5. QED
      BY <3>1, <3>3, <3>4
  <2>2. QED
    BY <1>12, <2>1 DEF Sent
<1>13. CASE SentNb
  BY <1>13 DEF SentNb
<1>14. CASE SentBoth
  BY <1>14 DEF SentBoth
<1>15. CASE SentOngoing
  BY <1>15 DEF SentOngoing
<1>16. CASE TxChecks
  BY <1>16 DEF TxChecks
<1>17. CASE TxWaits
  <2>1. sof_zlp_counter + 1 \in 0 .. ZlpLimit
    BY <1>17, TxAssumption DEF TxWaits, Waits, TxAssumption
  <2>2. QED
    BY <1>17, <2>1 DEF TxWaits
<1>18. CASE TxSelects
  <2>1. 0 \in 0 .. ZlpLimit
    BY TxAssumption DEF TxAssumption
  <2>2. Turn \in Bufs /\ tx_buf_sel' \in Bufs
    BY <1>18, Two DEF TxSelects, Turn
  <2>3. QED
    BY <1>18, <2>1, <2>2 DEF TxSelects
<1>19. CASE TxShort
  <2>1. 0 \in 0 .. (FrameMod - 1)
    BY TxAssumption DEF TxAssumption
  <2>2. QED
    BY <1>19, <2>1 DEF TxShort
<1>20. CASE TxRuns
  BY <1>20 DEF TxRuns
<1>21. CASE AppMovesOn
  BY <1>21, Two DEF AppMovesOn, AppCalls
<1>22. CASE AppFindsSpace
  BY <1>22 DEF AppFindsSpace
<1>23. CASE AppWrites
  <2>1. PICK n \in 1 .. BufSize :
          /\ put' = put + n
          /\ tx_buf_nb' = [tx_buf_nb EXCEPT ![tx_buf_sel] = @ + n]
          /\ tx_buf' = [tx_buf EXCEPT ![tx_buf_sel] = Stored(n)]
    BY <1>23 DEF AppWrites
  <2>2. tx_buf_nb[tx_buf_sel] \in Nat /\ put \in Nat /\ n \in Nat
    BY TxAssumption DEF TxAssumption
  <2>3. Stored(n) \in [0 .. (BufSize - 1) -> Nat]
    BY <2>2, StoredType
  <2>4. tx_buf' \in [Bufs -> [0 .. (BufSize - 1) -> Nat]]
    BY <2>1, <2>3
  <2>5. tx_buf_nb' \in [Bufs -> Nat] /\ put' \in Nat
    BY <2>1, <2>2
  <2>6. QED
    BY <1>23, <2>4, <2>5 DEF AppWrites
<1>24. CASE UNCHANGED vars
  BY <1>24 DEF vars
<1>25. QED
  BY <1>1, <1>2, <1>3, <1>4, <1>5, <1>6, <1>7, <1>8, <1>9, <1>10, <1>11, <1>12,
     <1>13, <1>14, <1>15, <1>16, <1>17, <1>18, <1>19, <1>20, <1>21, <1>22, <1>23,
     <1>24
     DEF Next, UsbSteps, TxSend

\* Every variable keeps its type, for every size of the buffers, with calls that
\* overlap an enabling too.
THEOREM TypeCorrect == Spec => []TypeOK
  BY InitType, StepFlags, StepData, PTL DEF Spec, TypeOK

\* The first state satisfies TxInv.
LEMMA InitInv == Init => TxInv
<1> SUFFICES ASSUME Init PROVE TxInv
  OBVIOUS
<1>1. Old \in Bufs /\ \A b \in Bufs : tx_buf_nb[b] = 0
  BY Two DEF Init, Old, Bufs
<1>2. Contents
  BY <1>1, TxAssumption DEF Init, Contents, Unsent, Resetting, Bufs, TxAssumption
<1>3. Owner /\ Calls /\ Enables
  BY DEF Init, Owner, Calls, Enables, Resetting
<1>4. QED
  BY <1>2, <1>3 DEF TxInv

\* Whose the transfer is.
LEMMA StepOwner ==
  ASSUME ~Tear, TypeOK, TxInv, [Next]_vars
  PROVE  Owner'
<1> USE Two DEF TypeOK, FlagsOK, DataOK, TxInv, Owner, Old, bufs, ctl, ports,
     endpoint, usbvars, bounds, Return
<1>1. CASE EnableBegins
  BY <1>1 DEF EnableBegins, Calls
<1>2. CASE EnableOngoing
  BY <1>2 DEF EnableOngoing
<1>3. CASE EnableBoth
  BY <1>3 DEF EnableBoth
<1>4. CASE EnableSel
  BY <1>4 DEF EnableSel, Enables
<1>5. CASE EnableNb0
  BY <1>5 DEF EnableNb0
<1>6. CASE EnableNb1
  BY <1>6 DEF EnableNb1
<1>7. CASE EnableSof
  BY <1>7 DEF EnableSof
<1>8. CASE EnableRunning
  BY <1>8 DEF EnableRunning, Calls
<1>9. CASE Disable
  BY <1>9 DEF Disable
<1>10. CASE Abort
  BY <1>10 DEF Abort
<1>11. CASE Sof
  BY <1>11 DEF Sof
<1>12. CASE Sent
  BY <1>12 DEF Sent
<1>13. CASE SentNb
  BY <1>13 DEF SentNb
<1>14. CASE SentBoth
  BY <1>14 DEF SentBoth
<1>15. CASE SentOngoing
  BY <1>15 DEF SentOngoing
<1>16. CASE TxChecks
  BY <1>16 DEF TxChecks
<1>17. CASE TxWaits
  BY <1>17 DEF TxWaits
<1>18. CASE TxSelects
  BY <1>18 DEF TxSelects, Turn
<1>19. CASE TxShort
  BY <1>19 DEF TxShort
<1>20. CASE TxRuns
  BY <1>20 DEF TxRuns, Calls
<1>21. CASE AppMovesOn
  BY <1>21 DEF AppMovesOn, AppCalls, MayMove
<1>22. CASE AppFindsSpace
  BY <1>22 DEF AppFindsSpace
<1>23. CASE AppWrites
  <2>1. PICK n \in 1 .. BufSize :
          tx_buf_nb' = [tx_buf_nb EXCEPT ![tx_buf_sel] = @ + n]
    BY <1>23 DEF AppWrites
  <2>2. Old' = Old /\ tx_buf_nb'[Old] = tx_buf_nb[Old]
    BY <1>23, <2>1, Two DEF AppWrites
  <2>3. QED
    BY <1>23, <2>2 DEF AppWrites
<1>24. CASE UNCHANGED vars
  BY <1>24 DEF vars
<1>25. QED
  BY <1>1, <1>2, <1>3, <1>4, <1>5, <1>6, <1>7, <1>8, <1>9, <1>10, <1>11, <1>12,
     <1>13, <1>14, <1>15, <1>16, <1>17, <1>18, <1>19, <1>20, <1>21, <1>22, <1>23,
     <1>24
     DEF Next, UsbSteps, TxSend

\* What is known of calls that are under way.
LEMMA StepCalls ==
  ASSUME ~Tear, TypeOK, TxInv, [Next]_vars
  PROVE  Calls'
<1> USE Two DEF TypeOK, FlagsOK, DataOK, TxInv, Calls, Resetting, Old, bufs, ctl,
     ports, usbvars, bounds, Return
<1>1. CASE EnableBegins
  BY <1>1 DEF EnableBegins
<1>2. CASE EnableOngoing
  BY <1>2 DEF EnableOngoing
<1>3. CASE EnableBoth
  BY <1>3 DEF EnableBoth
<1>4. CASE EnableSel
  BY <1>4 DEF EnableSel
<1>5. CASE EnableNb0
  BY <1>5 DEF EnableNb0
<1>6. CASE EnableNb1
  BY <1>6 DEF EnableNb1
<1>7. CASE EnableSof
  BY <1>7 DEF EnableSof
<1>8. CASE EnableRunning
  BY <1>8 DEF EnableRunning
<1>9. CASE Disable
  BY <1>9 DEF Disable
<1>10. CASE Abort
  BY <1>10 DEF Abort
<1>11. CASE Sof
  BY <1>11 DEF Sof
<1>12. CASE Sent
  BY <1>12 DEF Sent
<1>13. CASE SentNb
  BY <1>13 DEF SentNb
<1>14. CASE SentBoth
  BY <1>14 DEF SentBoth
<1>15. CASE SentOngoing
  BY <1>15 DEF SentOngoing
<1>16. CASE TxChecks
  BY <1>16 DEF TxChecks
<1>17. CASE TxWaits
  BY <1>17 DEF TxWaits
<1>18. CASE TxSelects
  BY <1>18, TxAssumption DEF TxSelects, Turn, Contents, Owner, TxAssumption
<1>19. CASE TxShort
  BY <1>19 DEF TxShort
<1>20. CASE TxRuns
  BY <1>20 DEF TxRuns
<1>21. CASE AppMovesOn
  BY <1>21, TxAssumption DEF AppMovesOn, AppCalls, MayMove, Contents, Full,
       AppMoves, TxAssumption
<1>22. CASE AppFindsSpace
  BY <1>22, TxAssumption DEF AppFindsSpace, AppCalls, Full, Contents, TxAssumption
<1>23. CASE AppWrites
  BY <1>23 DEF AppWrites
<1>24. CASE UNCHANGED vars
  BY <1>24 DEF vars
<1>25. QED
  BY <1>1, <1>2, <1>3, <1>4, <1>5, <1>6, <1>7, <1>8, <1>9, <1>10, <1>11, <1>12,
     <1>13, <1>14, <1>15, <1>16, <1>17, <1>18, <1>19, <1>20, <1>21, <1>22, <1>23,
     <1>24
     DEF Next, UsbSteps, TxSend

\* What an enabling has reset.
LEMMA StepEnables ==
  ASSUME ~Tear, TypeOK, TxInv, [Next]_vars
  PROVE  Enables'
<1> USE Two DEF TypeOK, FlagsOK, DataOK, TxInv, Enables, Calls, Resetting, bufs,
     ctl, ports, usbvars, bounds, Return
<1>1. CASE EnableBegins
  BY <1>1 DEF EnableBegins
<1>2. CASE EnableOngoing
  BY <1>2 DEF EnableOngoing
<1>3. CASE EnableBoth
  BY <1>3 DEF EnableBoth
<1>4. CASE EnableSel
  BY <1>4 DEF EnableSel
<1>5. CASE EnableNb0
  BY <1>5 DEF EnableNb0, Bufs
<1>6. CASE EnableNb1
  BY <1>6 DEF EnableNb1, Bufs
<1>7. CASE EnableSof
  BY <1>7 DEF EnableSof
<1>8. CASE EnableRunning
  BY <1>8 DEF EnableRunning
<1>9. CASE Disable
  BY <1>9 DEF Disable
<1>10. CASE Abort
  BY <1>10 DEF Abort
<1>11. CASE Sof
  BY <1>11 DEF Sof
<1>12. CASE Sent
  BY <1>12 DEF Sent
<1>13. CASE SentNb
  BY <1>13 DEF SentNb
<1>14. CASE SentBoth
  BY <1>14 DEF SentBoth
<1>15. CASE SentOngoing
  BY <1>15 DEF SentOngoing
<1>16. CASE TxChecks
  BY <1>16 DEF TxChecks
<1>17. CASE TxWaits
  BY <1>17 DEF TxWaits
<1>18. CASE TxSelects
  BY <1>18 DEF TxSelects
<1>19. CASE TxShort
  BY <1>19 DEF TxShort
<1>20. CASE TxRuns
  BY <1>20 DEF TxRuns
<1>21. CASE AppMovesOn
  BY <1>21 DEF AppMovesOn, AppCalls, Calls
<1>22. CASE AppFindsSpace
  BY <1>22 DEF AppFindsSpace, AppCalls
<1>23. CASE AppWrites
  BY <1>23 DEF AppWrites, Calls
<1>24. CASE UNCHANGED vars
  BY <1>24 DEF vars
<1>25. QED
  BY <1>1, <1>2, <1>3, <1>4, <1>5, <1>6, <1>7, <1>8, <1>9, <1>10, <1>11, <1>12,
     <1>13, <1>14, <1>15, <1>16, <1>17, <1>18, <1>19, <1>20, <1>21, <1>22, <1>23,
     <1>24
     DEF Next, UsbSteps, TxSend

\* The older buffer holds the bytes that come next: the host's check finds them
\* in order.
LEMMA SentInOrder ==
  ASSUME TypeOK, TxInv, Sent
  PROVE  got' = got + job_n
<1>1. /\ job = Old /\ job_n = tx_buf_nb[Old] /\ job_n \in Nat /\ job_n <= BufSize
      /\ usb = "idle" /\ Unsent = job_n /\ got \in Nat
  BY Two DEF Sent, TypeOK, DataOK, TxInv, Owner, Contents, Unsent
<1>2. \A i \in 1 .. job_n : tx_buf[job][i - 1] = got + i
  <2> TAKE i \in 1 .. job_n
  <2>1. i - 1 \in 0 .. (BufSize - 1) /\ i - 1 < job_n /\ i \in Nat
    BY <1>1, TxAssumption DEF TxAssumption
  <2>2. tx_buf[Old][i - 1] = got + (i - 1) + 1
    BY <1>1, <2>1 DEF TxInv, Contents, Resetting
  <2>3. QED
    BY <1>1, <2>1, <2>2
<1>3. QED
  BY <1>2 DEF Sent

\* Steps that do not touch the buffers keep their contents.
LEMMA ContentsKept ==
  ASSUME Contents, UNCHANGED <<bufs, ctl, put, got>>,
         usb' \in Resetting \/ usb \notin Resetting, (usb' = "sentNb") <=> (usb = "sentNb")
  PROVE  Contents'
<1>1. Old' = Old /\ Unsent' = Unsent
  BY DEF Old, Unsent, bufs, ctl
<1>2. QED
  BY <1>1 DEF Contents, bufs, ctl

\* What the buffers hold.
LEMMA StepContents ==
  ASSUME ~Tear, TypeOK, TxInv, [Next]_vars
  PROVE  Contents'
<1> USE Two DEF TypeOK, FlagsOK, DataOK, TxInv, bufs, ctl, ports, usbvars, bounds,
     Return
<1>1. CASE EnableBegins
  BY <1>1 DEF EnableBegins, Contents, Resetting
<1>2. CASE EnableOngoing
  BY <1>2 DEF EnableOngoing, Contents, Resetting
<1>3. CASE EnableBoth
  BY <1>3 DEF EnableBoth, Contents, Resetting
<1>4. CASE EnableSel
  BY <1>4 DEF EnableSel, Contents, Resetting
<1>5. CASE EnableNb0
  BY <1>5, TxAssumption DEF EnableNb0, Contents, Resetting, Bufs, TxAssumption
<1>6. CASE EnableNb1
  <2>1. /\ tx_buf_sel' = 0 /\ tx_buf_nb' = [b \in Bufs |-> 0]
        /\ usb' = "enSof" /\ got' = put /\ put' = put
    BY <1>6 DEF EnableNb1, Enables, Bufs
  <2>2. Old' \in Bufs /\ tx_buf_sel' \in Bufs
    BY <2>1, Two DEF Old, Bufs
  <2>3. Unsent' = 0
    BY <2>1, <2>2 DEF Unsent
  <2>4. /\ tx_buf_nb'[Old'] = 0 /\ tx_buf_nb'[tx_buf_sel'] = 0
        /\ \A b \in Bufs : tx_buf_nb'[b] = 0
    BY <2>1, <2>2
  <2>5. /\ got' \in Nat /\ put' = got' + Unsent' + tx_buf_nb'[tx_buf_sel']
        /\ \A b \in Bufs : tx_buf_nb'[b] <= BufSize
    BY <2>1, <2>3, <2>4, TxAssumption DEF TxAssumption
  <2>6. \A i \in 0 .. (BufSize - 1) : ~(i < Unsent') /\ ~(i < tx_buf_nb'[tx_buf_sel'])
    BY <2>3, <2>4, TxAssumption DEF TxAssumption
  <2>7. QED
    BY <2>4, <2>5, <2>6 DEF Contents
<1>7. CASE EnableSof
  BY <1>7, ContentsKept DEF EnableSof, Resetting
<1>8. CASE EnableRunning
  BY <1>8, ContentsKept DEF EnableRunning, Resetting
<1>9. CASE Disable
  BY <1>9, ContentsKept DEF Disable, Resetting
<1>10. CASE Abort
  BY <1>10, ContentsKept DEF Abort, Resetting
<1>11. CASE Sof
  BY <1>11, ContentsKept DEF Sof, Resetting
<1>12. CASE Sent
  <2>1. /\ job = Old /\ job_n = tx_buf_nb[Old] /\ job_n \in Nat /\ job_n <= BufSize
        /\ usb = "idle" /\ usb' = "sentNb" /\ tx_trans_ongoing'
        /\ UNCHANGED <<tx_buf, tx_buf_nb, tx_buf_sel, put>>
    BY <1>12 DEF Sent, Owner, Contents, bufs
  <2>3. got' = got + job_n
    BY <1>12, SentInOrder
  <2>4. Unsent = job_n /\ Unsent' = 0 /\ Old' = Old
    BY <2>1 DEF Unsent, Old
  <2>5. got \in Nat /\ put = got + job_n + tx_buf_nb[tx_buf_sel]
    BY <2>1, <2>4 DEF Contents, Resetting
  <2>a. tx_buf_nb'[tx_buf_sel'] = tx_buf_nb[tx_buf_sel] /\ put' = put
    BY <2>1
  <2>6. got' \in Nat /\ put' = got' + Unsent' + tx_buf_nb'[tx_buf_sel']
    <3>1. got' \in Nat
      <4>1. job_n \in Nat /\ got \in Nat
        BY <2>1, <2>5
      <4> QED
        BY <4>1, <2>3
    <3>2. put' = got' + 0 + tx_buf_nb[tx_buf_sel]
      BY <2>a, <2>3, <2>5, <3>1
    <3> QED
      BY <3>1, <3>2, <2>4, <2>a
  <2>7. \A i \in 0 .. (BufSize - 1) :
          i < tx_buf_nb[tx_buf_sel] => tx_buf[tx_buf_sel][i] = got + job_n + i + 1
    BY <2>1, <2>4 DEF Contents, Resetting
  <2>8. \A i \in 0 .. (BufSize - 1) : ~(i < Unsent')
    BY <2>4, TxAssumption DEF TxAssumption
  <2>9. \A i \in 0 .. (BufSize - 1) :
          i < tx_buf_nb'[tx_buf_sel'] => tx_buf'[tx_buf_sel'][i] = got' + Unsent' + i + 1
    BY <2>1, <2>3, <2>4, <2>5, <2>7
  <2>10. \A b \in Bufs : tx_buf_nb'[b] <= BufSize
    BY <2>1 DEF Contents
  <2>11. QED
    BY <2>1, <2>6, <2>8, <2>9, <2>10 DEF Contents, Resetting
<1>13. CASE SentNb
  <2>1. /\ tx_buf_nb' = [tx_buf_nb EXCEPT ![Old] = 0] /\ tx_trans_ongoing'
        /\ usb = "sentNb" /\ usb' = "sentBoth" /\ UNCHANGED <<tx_buf, tx_buf_sel, put, got>>
    BY <1>13 DEF SentNb, Owner, Old
  <2>2. /\ Old' = Old /\ tx_buf_nb'[Old] = 0 /\ tx_buf_nb'[tx_buf_sel] = tx_buf_nb[tx_buf_sel]
        /\ \A b \in Bufs : tx_buf_nb'[b] <= BufSize
    BY <2>1, Two, TxAssumption DEF Old, Contents, TxAssumption
  <2>3. Unsent = 0 /\ Unsent' = 0
    BY <2>1, <2>2 DEF Unsent
  <2>4. QED
    BY <2>1, <2>2, <2>3 DEF Contents, Resetting
<1>14. CASE SentBoth
  <2>1. Unsent' = Unsent /\ Old' = Old
    BY <1>14 DEF SentBoth, Unsent, Old
  <2>2. QED
    BY <1>14, <2>1 DEF SentBoth, Owner, Contents, Resetting
<1>15. CASE SentOngoing
  <2>1. Unsent' = Unsent /\ Old' = Old
    BY <1>15 DEF SentOngoing, Unsent, Old
  <2>2. QED
    BY <1>15, <2>1 DEF SentOngoing, Owner, Contents, Resetting
<1>16. CASE TxChecks
  BY <1>16, ContentsKept DEF TxChecks, Resetting
<1>17. CASE TxWaits
  BY <1>17, ContentsKept DEF TxWaits, Resetting
<1>18. CASE TxSelects
  <2>1. /\ usb = "txSelect" /\ usb' = "txShort" /\ ~tx_trans_ongoing /\ tx_trans_ongoing'
        /\ UNCHANGED <<tx_buf, tx_buf_nb, put, got>>
    BY <1>18 DEF TxSelects, Owner
  <2>2. CASE tx_both_buf_to_send
    BY <1>18, <2>1, <2>2, ContentsKept DEF TxSelects, Resetting, Contents, Unsent, Old
  <2>3. CASE ~tx_both_buf_to_send
    <3>1. tx_buf_sel' = Old /\ Old' = tx_buf_sel
      BY <1>18, <2>3, Two DEF TxSelects, Old
    <3>2. tx_buf_nb[Old] = 0 /\ Unsent = 0 /\ Unsent' = tx_buf_nb[tx_buf_sel]
      BY <2>1, <2>3, <3>1 DEF Contents, Resetting, Unsent
    <3>3. QED
      BY <2>1, <3>1, <3>2 DEF Contents, Resetting
  <2>4. QED
    BY <2>2, <2>3
<1>19. CASE TxShort
  BY <1>19, ContentsKept DEF TxShort, Resetting
<1>20. CASE TxRuns
  BY <1>20, ContentsKept DEF TxRuns, Resetting
<1>21. CASE AppMovesOn
  <2>1. /\ ~tx_trans_ongoing /\ ~tx_both_buf_to_send /\ tx_both_buf_to_send'
        /\ tx_buf_sel' = Old /\ UNCHANGED <<tx_buf, tx_buf_nb, put, got, usb>>
    BY <1>21 DEF AppMovesOn, MayMove, Old
  <2>2. Old' = tx_buf_sel /\ usb # "sentNb" /\ usb \notin Resetting
    BY <1>21, <2>1, Two DEF AppMovesOn, AppCalls, Calls, Owner, Old
  <2>3. tx_buf_nb[Old] = 0 /\ Unsent = 0 /\ Unsent' = tx_buf_nb[tx_buf_sel]
    BY <2>1, <2>2 DEF Contents, Unsent
  <2>4. QED
    BY <2>1, <2>2, <2>3 DEF Contents
<1>22. CASE AppFindsSpace
  BY <1>22, ContentsKept DEF AppFindsSpace, AppCalls, Calls, Resetting
<1>23. CASE AppWrites
  <2>1. PICK n \in 1 .. BufSize :
          /\ n = 1 \/ tx_buf_nb[tx_buf_sel] + n <= BufSize
          /\ put' = put + n
          /\ tx_buf_nb' = [tx_buf_nb EXCEPT ![tx_buf_sel] = @ + n]
          /\ tx_buf' = [tx_buf EXCEPT ![tx_buf_sel] = Stored(n)]
    BY <1>23 DEF AppWrites
  <2>2. /\ UNCHANGED <<tx_buf_sel, got, usb, tx_trans_ongoing, tx_both_buf_to_send>>
        /\ usb \notin Resetting /\ tx_buf_nb[tx_buf_sel] < BufSize
    BY <1>23 DEF AppWrites, Calls
  <2> DEFINE nb == tx_buf_nb[tx_buf_sel]
  <2>3. nb \in Nat /\ n \in Nat /\ BufSize \in Nat /\ nb + n <= BufSize
    BY <2>1, <2>2, TxAssumption DEF TxAssumption
  <2>4. /\ tx_buf_nb'[tx_buf_sel] = nb + n /\ tx_buf_nb'[Old] = tx_buf_nb[Old]
        /\ tx_buf'[Old] = tx_buf[Old] /\ tx_buf'[tx_buf_sel] = Stored(n)
        /\ Old' = Old
    BY <2>1, <2>2, Two DEF Old
  <2>5. \A b \in Bufs : tx_buf_nb'[b] <= BufSize
    BY <2>1, <2>3 DEF Contents
  <2>6. Unsent' = Unsent /\ Unsent \in Nat
    BY <2>2, <2>4, Two DEF Unsent, Old
  <2>7. put = got + Unsent + nb /\ got \in Nat
    BY <2>2 DEF Contents
  <2>8. \A i \in 0 .. (BufSize - 1) :
          i < nb + n => Stored(n)[i] = got + Unsent + i + 1
    <3> SUFFICES ASSUME NEW i \in 0 .. (BufSize - 1), i < nb + n
                 PROVE  Stored(n)[i] = got + Unsent + i + 1
      OBVIOUS
    <3>1. i \in Nat
      BY <2>3
    <3>2. CASE i < nb
      <4>1. Stored(n)[i] = tx_buf[tx_buf_sel][i]
        BY <2>3, <3>1, <3>2 DEF Stored
      <4>2. tx_buf[tx_buf_sel][i] = got + Unsent + i + 1
        BY <2>2, <3>2 DEF Contents
      <4>3. QED
        BY <4>1, <4>2
    <3>3. CASE ~(i < nb)
      <4>1. i \in nb .. (nb + n - 1)
        BY <2>3, <3>1, <3>3
      <4>2. Stored(n)[i] = put + (i - nb) + 1
        BY <4>1 DEF Stored
      <4>3. QED
        BY <2>3, <2>6, <2>7, <3>1, <4>2
    <3>4. QED
      BY <3>2, <3>3
  <2>9. put' = got + Unsent + (nb + n)
    BY <2>1, <2>3, <2>6, <2>7
  <2>10. QED
    BY <2>2, <2>4, <2>5, <2>6, <2>7, <2>8, <2>9 DEF Contents
<1>24. CASE UNCHANGED vars
  BY <1>24, ContentsKept DEF vars, Resetting
<1>25. QED
  BY <1>1, <1>2, <1>3, <1>4, <1>5, <1>6, <1>7, <1>8, <1>9, <1>10, <1>11, <1>12,
     <1>13, <1>14, <1>15, <1>16, <1>17, <1>18, <1>19, <1>20, <1>21, <1>22, <1>23,
     <1>24
     DEF Next, UsbSteps, TxSend

\* TxInv, the reason why the stream is in order, holds in every state.
THEOREM TxCorrect == ASSUME ~Tear PROVE Spec => []TxInv
<1>1. TypeOK /\ TxInv /\ [Next]_vars => TxInv'
  BY StepOwner, StepCalls, StepEnables, StepContents DEF TxInv
<1>2. QED
  BY <1>1, InitInv, TypeCorrect, PTL DEF Spec

\* The space udi_cdc_multi_is_tx_ready saw is there when putc stores.
THEOREM SpaceKept == ASSUME ~Tear PROVE Spec => []SpaceStays
<1>1. TxInv => SpaceStays
  BY DEF TxInv, Calls, SpaceStays
<1>2. QED
  BY <1>1, TxCorrect, PTL

\* The application never writes into the buffer being sent.
THEOREM SendingKept == ASSUME ~Tear PROVE Spec => []NoWriteToSending
<1>1. TypeOK /\ TxInv => NoWriteToSending
  BY Two DEF TypeOK, DataOK, TxInv, Owner, Old, NoWriteToSending
<1>2. QED
  BY <1>1, TxCorrect, TypeCorrect, PTL

\* A transfer that the host takes brings bytes that were written.
LEMMA SentDelivers ==
  ASSUME TypeOK, TxInv, Sent
  PROVE  got' = got \/ got' \in (got + 1) .. put
<1>1. job_n = tx_buf_nb[Old] /\ job_n \in Nat /\ usb = "idle" /\ Unsent = job_n
  BY Two DEF Sent, TypeOK, DataOK, TxInv, Owner, Unsent
<1>2. put = got + job_n + tx_buf_nb[tx_buf_sel] /\ got \in Nat /\ tx_buf_nb[tx_buf_sel] \in Nat
  BY <1>1 DEF TypeOK, DataOK, TxInv, Contents, Resetting
<1>3. got' = got + job_n
  BY SentInOrder
<1>4. QED
  BY <1>1, <1>2, <1>3

\* The transmit buffers implement ByteStream: the host gets what the application
\* wrote, in order, each byte once, and bytes are lost only while the interface is
\* down.
THEOREM TxImplementsStream == ASSUME ~Tear PROVE Spec => InOrder
<1>1. Init => Stream!Init
  BY DEF Init, Stream!Init
<1>2. ASSUME TypeOK, TxInv, [Next]_vars
      PROVE  [Stream!Next]_(Stream!vars)
  <2>1. CASE Sent
    <3>1. put' = put /\ data_running' = data_running
      BY <2>1 DEF Sent, ports
    <3>2. CASE got' = got
      BY <3>1, <3>2 DEF Stream!vars
    <3>3. CASE got' \in (got + 1) .. put
      <4>1. Stream!Deliver
        BY <3>1, <3>3 DEF Stream!Deliver
      <4>2. QED
        BY <4>1 DEF Stream!Next
    <3>4. QED
      BY <1>2, <2>1, <3>2, <3>3, SentDelivers
  <2>2. CASE AppWrites
    <3>1. got' = got /\ data_running' = data_running
      BY <2>2 DEF AppWrites, ports
    <3>2. PICK n \in 1 .. BufSize : put' = put + n
      BY <2>2 DEF AppWrites
    <3>3. put' \in Nat /\ put' > put
      BY <1>2, <3>2, TxAssumption DEF TypeOK, DataOK, TxAssumption
    <3>4. Stream!Write
      BY <3>1, <3>3 DEF Stream!Write
    <3>5. QED
      BY <3>4 DEF Stream!Next
  <2>3. CASE EnableNb1
    <3>1. ~data_running /\ put' = put /\ got' = put /\ data_running' = data_running
      BY <1>2, <2>3 DEF EnableNb1, TxInv, Calls, Resetting, ports
    <3>2. Stream!Drop
      BY <3>1 DEF Stream!Drop
    <3>3. QED
      BY <3>2 DEF Stream!Next
  <2>4. CASE EnableRunning
    <3>1. ~data_running /\ put' = put /\ got' = got /\ data_running' = TRUE
      BY <1>2, <2>4 DEF EnableRunning, TxInv, Calls
    <3>2. Stream!Open
      BY <3>1 DEF Stream!Open
    <3>3. QED
      BY <3>2 DEF Stream!Next
  <2>5. CASE Disable
    <3>1. put' = put /\ got' = got /\ data_running' = FALSE
      BY <2>5 DEF Disable
    <3>2. data_running \in BOOLEAN
      BY <1>2 DEF TypeOK, FlagsOK
    <3>3. CASE data_running
      <4>1. Stream!Close
        BY <3>1, <3>3 DEF Stream!Close
      <4>2. QED
        BY <4>1 DEF Stream!Next
    <3>4. CASE data_running = FALSE
      BY <3>1, <3>4 DEF Stream!vars
    <3>5. QED
      BY <3>2, <3>3, <3>4
  <2>6. CASE UNCHANGED <<put, got, data_running>>
    BY <2>6 DEF Stream!vars
  <2>7. CASE EnableBegins \/ EnableOngoing \/ EnableBoth \/ EnableSel \/ EnableNb0 \/ EnableSof
    BY <2>6, <2>7 DEF EnableBegins, EnableOngoing, EnableBoth, EnableSel, EnableNb0,
         EnableSof, ports
  <2>8. CASE Abort \/ Sof \/ SentNb \/ SentBoth \/ SentOngoing
    BY <2>6, <2>8 DEF Abort, Sof, SentNb, SentBoth, SentOngoing, ports
  <2>9. CASE TxSend
    BY <2>6, <2>9 DEF TxSend, TxChecks, TxWaits, TxSelects, TxShort, TxRuns, ports
  <2>10. CASE AppMovesOn \/ AppFindsSpace
    BY <2>6, <2>10 DEF AppMovesOn, AppFindsSpace, ports
  <2>11. CASE UNCHANGED vars
    BY <2>6, <2>11 DEF vars, ports
  <2>12. QED
    BY <1>2, <2>1, <2>2, <2>3, <2>4, <2>5, <2>7, <2>8, <2>9, <2>10, <2>11 DEF Next,
         UsbSteps
<1>3. Spec => []TxInv
  BY TxCorrect
<1>4. QED
  BY <1>1, <1>2, <1>3, TypeCorrect, PTL DEF Spec, InOrder, Stream!Spec
=============================================================================
