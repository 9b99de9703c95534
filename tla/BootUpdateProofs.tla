--------------------------- MODULE BootUpdateProofs ---------------------------
(***************************************************************************)
(* Type correctness of BootUpdate, for images, flash regions and frames of *)
(* every size and any number of faults.                                    *)
(***************************************************************************)
EXTENDS BootUpdate, SequenceTheorems, TLAPS

\* A session starts well typed.
LEMMA FreshSession ==
  ASSUME NewSession
  PROVE  /\ packge_index' \in 0 .. (IndexMod - 1) /\ len' \in Nat /\ bin_crc' \in Seq(Blocks)
         /\ flash_offset' \in Nat /\ packge_buffer' \in Seq(Blocks) /\ page' = 0
         /\ attempts' \in Nat
  BY ConstantsAssumption DEF NewSession, ConstantsAssumption

\* And so does the host's side of it.
LEMMA FreshHost == ASSUME NewSession PROVE HostOK'
<1>1. sent' \in Nat /\ host_index' \in 0 .. (IndexMod - 1) /\ heads' = 0 /\ last' = NoFrame
  BY ConstantsAssumption DEF NewSession, ConstantsAssumption
<1>2. NoFrame \in [idx : 0 .. (IndexMod - 1), data : Seq(Blocks)]
  BY ConstantsAssumption DEF NoFrame, ConstantsAssumption
<1>3. QED
  BY <1>1, <1>2, ConstantsAssumption DEF HostOK, ConstantsAssumption

\* No head yet.
LEMMA NoHeadType == NoHead \in HeadType
  BY DEF NoHead, HeadType

\* What the host sends is blocks,
LEMMA StreamType ==
  ASSUME SessionOK, NEW i \in Nat \ {0}
  PROVE  Stream(i) \in Blocks
<1>1. packge_head.image \in Seq(Blocks)
  BY DEF SessionOK, HeadType
<1>2. Fill \in Blocks
  BY ConstantsAssumption DEF ConstantsAssumption
<1>3. i <= Size(packge_head) => i \in 1 .. Len(packge_head.image)
  BY <1>1, LenProperties DEF Size
<1>4. QED
  BY <1>1, <1>2, <1>3 DEF Stream

\* and so are the data of a frame.
LEMMA NewFrameType ==
  ASSUME SessionOK, HostOK, NEW n \in 0 .. MaxFrame
  PROVE  NewFrame(n) \in [idx : 0 .. (IndexMod - 1), data : Seq(Blocks)]
<1>1. sent \in Nat /\ n \in Nat
  BY ConstantsAssumption DEF HostOK, ConstantsAssumption
<1>2. \A i \in 1 .. n : Stream(sent + i) \in Blocks
  BY <1>1, StreamType
<1>3. [i \in 1 .. n |-> Stream(sent + i)] \in Seq(Blocks)
  BY <1>1, <1>2
<1>4. QED
  BY <1>3 DEF NewFrame, HostOK

\* The device's answer to a data frame.
LEMMA AcceptType ==
  ASSUME SessionOK, NEW f \in [idx : 0 .. (IndexMod - 1), data : Seq(Blocks)], AcceptData(f)
  PROVE  /\ bin_crc' \in Seq(Blocks) /\ packge_buffer' \in Seq(Blocks)
         /\ page' \in Nat /\ attempts' \in Nat
         /\ g_err_ch' \in ErrCodes
         /\ pc' \in {"fail", "program", "erase", "frameDone"}
         /\ pc' = "erase" => page' < ErasedPages
<1>1. CASE IndexOk(f)
  <2>1. /\ bin_crc' = bin_crc \o f.data /\ packge_buffer' = f.data /\ page' = 0 /\ attempts' = 0
        /\ g_err_ch' \in {"4", "5"} /\ pc' \in {"program", "erase", "frameDone"}
    BY <1>1 DEF AcceptData
  <2>2. bin_crc' \in Seq(Blocks) /\ packge_buffer' \in Seq(Blocks)
    BY <2>1, ConcatProperties DEF SessionOK
  <2>3. QED
    BY <2>1, <2>2, ConstantsAssumption DEF ConstantsAssumption, ErrCodes
<1>2. CASE ~IndexOk(f)
  BY <1>2 DEF AcceptData, loop, SessionOK, ErrCodes
<1>3. QED
  BY <1>1, <1>2

\* Every step keeps the types: the Boolean switches,
LEMMA StepSwitches ==
  ASSUME TypeOK, [Next]_vars
  PROVE  SwitchesOK'
<1> USE DEF TypeOK, SwitchesOK, nonvolatile, session, loop, host
<1>1. CASE BootDecide
  BY <1>1 DEF BootDecide, NewSession
<1>2. CASE HandshakeHead
  BY <1>2 DEF HandshakeHead
<1>3. CASE HandshakeOther
  BY <1>3 DEF HandshakeOther, NewSession
<1>4. CASE NextFrame
  BY <1>4 DEF NextFrame
<1>5. CASE NextOther
  BY <1>5 DEF NextOther
<1>6. CASE RecvFrameError
  BY <1>6 DEF RecvFrameError
<1>7. CASE RecvHead
  BY <1>7 DEF RecvHead
<1>8. CASE RecvNewData
  BY <1>8 DEF RecvNewData, AcceptData
<1>9. CASE RecvDataAgain
  BY <1>9 DEF RecvDataAgain, AcceptData
<1>10. CASE ErasePage
  BY <1>10 DEF ErasePage, EraseEnds, Expose
<1>11. CASE ErasePageFails
  BY <1>11 DEF ErasePageFails, EraseRetry, EraseEnds
<1>12. CASE ProgramPage
  BY <1>12 DEF ProgramPage, Expose
<1>13. CASE ProgramEnds
  BY <1>13 DEF ProgramEnds
<1>14. CASE FrameDone
  BY <1>14 DEF FrameDone
<1>15. CASE FlagErase
  BY <1>15 DEF FlagErase
<1>16. CASE FlagWrite
  BY <1>16 DEF FlagWrite, NewSession
<1>17. CASE Fail
  BY <1>17 DEF Fail, NewSession
<1>18. CASE ConsoleUpdate
  BY <1>18 DEF ConsoleUpdate, NewSession
<1>19. CASE ConsoleGo
  BY <1>19 DEF ConsoleGo
<1>20. CASE ConsoleLock
  BY <1>20 DEF ConsoleLock
<1>21. CASE AppRequestsUpdate
  BY <1>21 DEF AppRequestsUpdate, Reset, NewSession
<1>22. CASE PowerLoss
  BY <1>22 DEF PowerLoss, Reset, NewSession
<1>23. CASE UNCHANGED vars
  BY <1>23 DEF vars
<1>24. QED
  BY <1>1, <1>2, <1>3, <1>4, <1>5, <1>6, <1>7, <1>8, <1>9, <1>10, <1>11, <1>12, <1>13, <1>14, <1>15, <1>16, <1>17, <1>18, <1>19, <1>20, <1>21, <1>22, <1>23 DEF Next, DeviceStep

\* the flash and its faults,
LEMMA StepFlash ==
  ASSUME TypeOK, [Next]_vars
  PROVE  FlashOK'
<1> USE ConstantsAssumption DEF TypeOK, FlashOK, ConstantsAssumption, nonvolatile, session, loop, host
<1>1. CASE BootDecide
  BY <1>1 DEF BootDecide
<1>2. CASE HandshakeHead
  BY <1>2 DEF HandshakeHead
<1>3. CASE HandshakeOther
  BY <1>3 DEF HandshakeOther
<1>4. CASE NextFrame
  BY <1>4 DEF NextFrame
<1>5. CASE NextOther
  BY <1>5 DEF NextOther
<1>6. CASE RecvFrameError
  BY <1>6 DEF RecvFrameError
<1>7. CASE RecvHead
  BY <1>7 DEF RecvHead
<1>8. CASE RecvNewData
  BY <1>8 DEF RecvNewData
<1>9. CASE RecvDataAgain
  BY <1>9 DEF RecvDataAgain
<1>10. CASE ErasePage
  BY <1>10 DEF ErasePage
<1>11. CASE ErasePageFails
  BY <1>11 DEF ErasePageFails, EraseRetry
<1>12. CASE ProgramPage
  <2>1. packge_buffer[page + 1] \in Blocks
    BY <1>12 DEF ProgramPage, SessionOK
  <2>2. ASSUME NEW b \in Blocks
        PROVE  [flash EXCEPT ![Dest] = @ \union {b}] \in [Pages -> SUBSET (Blocks \union {Old})]
    OBVIOUS
  <2>3. flash' \in [Pages -> SUBSET (Blocks \union {Old})]
    BY <1>12, <2>1, <2>2 DEF ProgramPage
  <2>4. flag' \in {"set", "clean"}
    BY <1>12 DEF ProgramPage
  <2>5. faults' \in 0 .. MaxFaults
    BY <1>12 DEF ProgramPage
  <2>6. QED
    BY <2>3, <2>4, <2>5
<1>13. CASE ProgramEnds
  BY <1>13 DEF ProgramEnds
<1>14. CASE FrameDone
  BY <1>14 DEF FrameDone
<1>15. CASE FlagErase
  BY <1>15 DEF FlagErase
<1>16. CASE FlagWrite
  BY <1>16 DEF FlagWrite
<1>17. CASE Fail
  BY <1>17 DEF Fail
<1>18. CASE ConsoleUpdate
  BY <1>18 DEF ConsoleUpdate
<1>19. CASE ConsoleGo
  BY <1>19 DEF ConsoleGo
<1>20. CASE ConsoleLock
  BY <1>20 DEF ConsoleLock
<1>21. CASE AppRequestsUpdate
  BY <1>21 DEF AppRequestsUpdate, Reset
<1>22. CASE PowerLoss
  BY <1>22 DEF PowerLoss, Reset
<1>23. CASE UNCHANGED vars
  BY <1>23 DEF vars
<1>24. QED
  BY <1>1, <1>2, <1>3, <1>4, <1>5, <1>6, <1>7, <1>8, <1>9, <1>10, <1>11, <1>12, <1>13, <1>14, <1>15, <1>16, <1>17, <1>18, <1>19, <1>20, <1>21, <1>22, <1>23 DEF Next, DeviceStep

\* the session,
LEMMA StepSession ==
  ASSUME TypeOK, [Next]_vars
  PROVE  SessionOK'
<1> USE ConstantsAssumption DEF TypeOK, SessionOK, ConstantsAssumption, PCs, ErrCodes, nonvolatile, session, loop, host
<1>1. CASE BootDecide
  <2>1. CASE NewSession /\ pc' = "handshake"
    BY <1>1, <2>1, FreshSession DEF BootDecide
  <2>2. CASE pc' = "app"
    BY <1>1, <2>2 DEF BootDecide
  <2>3. QED
    BY <1>1, <2>1, <2>2 DEF BootDecide
<1>2. CASE HandshakeHead
  BY <1>2 DEF HandshakeHead
<1>3. CASE HandshakeOther
  BY <1>3 DEF HandshakeOther, NewSession
<1>4. CASE NextFrame
  BY <1>4 DEF NextFrame
<1>5. CASE NextOther
  BY <1>5 DEF NextOther
<1>6. CASE RecvFrameError
  BY <1>6 DEF RecvFrameError
<1>7. CASE RecvHead
  <2>1. PICK h \in Heads :
           /\ packge_head' = h
           /\ IF Legal(h)
              THEN flash_offset' = h.offset /\ told' = "OK" /\ g_err_ch' = "1" /\ pc' = "waitHead"
              ELSE g_err_ch' = "7" /\ pc' = "fail" /\ UNCHANGED <<flash_offset, told>>
    BY <1>7 DEF RecvHead
  <2>2. h \in HeadType
    OBVIOUS
  <2>3. flash_offset' \in Nat
    BY <2>1, <2>2 DEF Legal, HeadType
  <2>4. QED
    BY <1>7, <2>1, <2>2, <2>3 DEF RecvHead
<1>8. CASE RecvNewData
  <2>1. PICK n \in 0 .. MaxFrame : MayCut(n) /\ AcceptData(NewFrame(n))
    BY <1>8 DEF RecvNewData
  <2>2. NewFrame(n) \in [idx : 0 .. (IndexMod - 1), data : Seq(Blocks)]
    BY <2>1, NewFrameType
  <2>3. QED
    BY <1>8, <2>1, <2>2, AcceptType DEF RecvNewData
<1>9. CASE RecvDataAgain
  <2>1. AcceptData(last) /\ last \in [idx : 0 .. (IndexMod - 1), data : Seq(Blocks)]
    BY <1>9 DEF RecvDataAgain, HostOK
  <2>2. QED
    BY <1>9, <2>1, AcceptType DEF RecvDataAgain
<1>10. CASE ErasePage
  BY <1>10 DEF ErasePage, EraseEnds, LastPage
<1>11. CASE ErasePageFails
  BY <1>11 DEF ErasePageFails, EraseRetry, EraseEnds, Counted
<1>12. CASE ProgramPage
  BY <1>12 DEF ProgramPage
<1>13. CASE ProgramEnds
  BY <1>13 DEF ProgramEnds
<1>14. CASE FrameDone
  BY <1>14 DEF FrameDone
<1>15. CASE FlagErase
  BY <1>15 DEF FlagErase
<1>16. CASE FlagWrite
  BY <1>16 DEF FlagWrite, NewSession
<1>17. CASE Fail
  BY <1>17 DEF Fail, NewSession
<1>18. CASE ConsoleUpdate
  BY <1>18 DEF ConsoleUpdate, NewSession
<1>19. CASE ConsoleGo
  BY <1>19 DEF ConsoleGo
<1>20. CASE ConsoleLock
  BY <1>20 DEF ConsoleLock
<1>21. CASE AppRequestsUpdate
  BY <1>21, FreshSession, NoHeadType DEF AppRequestsUpdate, Reset
<1>22. CASE PowerLoss
  BY <1>22, FreshSession, NoHeadType DEF PowerLoss, Reset
<1>23. CASE UNCHANGED vars
  BY <1>23 DEF vars
<1>24. QED
  BY <1>1, <1>2, <1>3, <1>4, <1>5, <1>6, <1>7, <1>8, <1>9, <1>10, <1>11, <1>12, <1>13, <1>14, <1>15, <1>16, <1>17, <1>18, <1>19, <1>20, <1>21, <1>22, <1>23 DEF Next, DeviceStep

\* and the host.
LEMMA StepHost ==
  ASSUME TypeOK, [Next]_vars
  PROVE  HostOK'
<1> USE ConstantsAssumption DEF TypeOK, HostOK, ConstantsAssumption, nonvolatile, session, loop, host
<1>1. CASE BootDecide
  <2>1. CASE NewSession
    BY <2>1, FreshHost
  <2>2. CASE pc' = "app" /\ UNCHANGED host
    BY <2>2
  <2>3. QED
    BY <1>1, <2>1, <2>2 DEF BootDecide
<1>2. CASE HandshakeHead
  BY <1>2 DEF HandshakeHead
<1>3. CASE HandshakeOther
  BY <1>3, FreshHost DEF HandshakeOther
<1>4. CASE NextFrame
  BY <1>4 DEF NextFrame
<1>5. CASE NextOther
  BY <1>5 DEF NextOther
<1>6. CASE RecvFrameError
  BY <1>6 DEF RecvFrameError
<1>7. CASE RecvHead
  <2>1. sent' = 0 /\ host_index' = 1 /\ last' = NoFrame /\ heads' = heads /\ pc' # "handshake"
    BY <1>7 DEF RecvHead
  <2>2. NoFrame \in [idx : 0 .. (IndexMod - 1), data : Seq(Blocks)]
    BY DEF NoFrame
  <2>3. QED
    BY <2>1, <2>2
<1>8. CASE RecvNewData
  <2>1. PICK n \in 0 .. MaxFrame :
           /\ MayCut(n)
           /\ sent' = sent + n
           /\ host_index' = (host_index + 1) % IndexMod
           /\ last' = NewFrame(n)
    BY <1>8 DEF RecvNewData
  <2>2. last' \in [idx : 0 .. (IndexMod - 1), data : Seq(Blocks)]
    BY <2>1, NewFrameType DEF HostOK
  <2>3. sent' \in Nat /\ host_index' \in 0 .. (IndexMod - 1)
    BY <2>1
  <2>4. heads' = heads /\ pc' # "handshake"
    BY <1>8 DEF RecvNewData, AcceptData
  <2>5. QED
    BY <2>2, <2>3, <2>4
<1>9. CASE RecvDataAgain
  BY <1>9 DEF RecvDataAgain, AcceptData
<1>10. CASE ErasePage
  BY <1>10 DEF ErasePage, EraseEnds
<1>11. CASE ErasePageFails
  BY <1>11 DEF ErasePageFails, EraseRetry, EraseEnds
<1>12. CASE ProgramPage
  BY <1>12 DEF ProgramPage
<1>13. CASE ProgramEnds
  BY <1>13 DEF ProgramEnds
<1>14. CASE FrameDone
  BY <1>14 DEF FrameDone
<1>15. CASE FlagErase
  BY <1>15 DEF FlagErase
<1>16. CASE FlagWrite
  BY <1>16, FreshHost DEF FlagWrite
<1>17. CASE Fail
  BY <1>17, FreshHost DEF Fail
<1>18. CASE ConsoleUpdate
  BY <1>18, FreshHost DEF ConsoleUpdate
<1>19. CASE ConsoleGo
  BY <1>19 DEF ConsoleGo
<1>20. CASE ConsoleLock
  BY <1>20 DEF ConsoleLock
<1>21. CASE AppRequestsUpdate
  BY <1>21, FreshHost DEF AppRequestsUpdate, Reset
<1>22. CASE PowerLoss
  BY <1>22, FreshHost DEF PowerLoss, Reset
<1>23. CASE UNCHANGED vars
  BY <1>23 DEF vars
<1>24. QED
  BY <1>1, <1>2, <1>3, <1>4, <1>5, <1>6, <1>7, <1>8, <1>9, <1>10, <1>11, <1>12, <1>13, <1>14, <1>15, <1>16, <1>17, <1>18, <1>19, <1>20, <1>21, <1>22, <1>23 DEF Next, DeviceStep

\* The initial state is well typed.
LEMMA InitType == Init => TypeOK
<1> SUFFICES ASSUME Init PROVE TypeOK
  OBVIOUS
<1>1. SwitchesOK
  BY DEF Init, SwitchesOK
<1>2. FlashOK
  BY ConstantsAssumption DEF Init, FlashOK, ConstantsAssumption
<1>3. SessionOK
  BY NoHeadType, ConstantsAssumption DEF Init, SessionOK, ConstantsAssumption, PCs, ErrCodes
<1>4. HostOK
  <2>1. NoFrame \in [idx : 0 .. (IndexMod - 1), data : Seq(Blocks)]
    BY ConstantsAssumption DEF NoFrame, ConstantsAssumption
  <2>2. QED
    BY <2>1, ConstantsAssumption DEF Init, HostOK, ConstantsAssumption
<1>5. QED
  BY <1>1, <1>2, <1>3, <1>4 DEF TypeOK

\* Every variable of the bootloader keeps its type, whatever the images, the
\* size of the flash and the faults: the erase loop stays in its region, the
\* index wraps, and the count of a session's frames stays bounded.
THEOREM TypeCorrect == Spec => []TypeOK
<1>1. TypeOK /\ [Next]_vars => TypeOK'
  BY StepSwitches, StepFlash, StepSession, StepHost DEF TypeOK
<1>2. QED
  BY InitType, <1>1, PTL DEF Spec
=============================================================================
