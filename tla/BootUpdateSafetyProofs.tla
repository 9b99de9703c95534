----------------------- MODULE BootUpdateSafetyProofs -----------------------
(***************************************************************************)
(* What the bootloader promises of its flash, for images and frames of     *)
(* every size, power loss at any point and any number of sessions, if      *)
(* images lie within the erased pages and faults do not use up the erase   *)
(* loop's attempts.                                                        *)
(***************************************************************************)
EXTENDS BootUpdateProofs

\* What boot_large_image refutes the promise without.
ImagesFit == \A h \in Heads : Legal(h) => Size(h) - h.offset <= ErasedPages
FewFaults == MaxFaults < EraseAttempts

\* The last frame of such an image ends in front of the page of the flag,
\* however far behind the image: 447 and 8 pages of 958.
FramesFit == ErasedPages + MaxFrame <= AppPages + 1

\* Legal heads in numbers.
LEMMA LegalHead ==
  ASSUME NEW h \in Heads, Legal(h)
  PROVE  /\ h \in HeadType /\ Size(h) \in Nat /\ h.offset \in Nat /\ Size(h) <= AppPages
         /\ h.image \in Seq(Blocks)
<1>1. h \in HeadType
  BY ConstantsAssumption DEF ConstantsAssumption
<1>2. QED
  BY <1>1, LenProperties DEF HeadType, Legal, Size

\* An index and the next one differ.
LEMMA NextIndex ==
  ASSUME NEW i \in 0 .. (IndexMod - 1)
  PROVE  (i + 1) % IndexMod # i /\ (i + 1) % IndexMod \in 0 .. (IndexMod - 1)
<1> USE ConstantsAssumption DEF ConstantsAssumption
<1>1. CASE i + 1 < IndexMod
  BY <1>1
<1>2. CASE i + 1 = IndexMod
  BY <1>2
<1>3. QED
  BY <1>1, <1>2

\* A locked page 0 is what Blocked says.
LEMMA BlockedPage ==
  ASSUME NEW p \in Nat
  PROVE  /\ ~Blocked => ~PageLocked(p)
         /\ Blocked => PageLocked(0)
  BY ConstantsAssumption DEF Blocked, PageLocked, ConstantsAssumption

-----------------------------------------------------------------------------
\* The session, action by action.
LEMMA HeadInv ==
  ASSUME TypeOK, SessionInv, RecvHead
  PROVE  SessionInv'
<1> USE DEF Between, Inside
<1>1. PICK h \in Heads :
         /\ packge_head' = h
         /\ IF Legal(h)
            THEN flash_offset' = h.offset /\ g_flash_erased' = FALSE /\ pc' = "waitHead"
            ELSE pc' = "fail"
  BY DEF RecvHead
<1>2. /\ pc = "frameH" /\ heads' = heads /\ heads > 0
      /\ packge_index' = 1 /\ sent' = 0 /\ host_index' = 1 /\ last' = NoFrame
      /\ len' = len /\ bin_crc' = bin_crc
  BY DEF RecvHead, SessionInv
<1>3. ASSUME pc' = "waitHead", heads' = 1
      PROVE  InStep' /\ InFlash'
  <2>1. Legal(h) /\ flash_offset' = h.offset /\ g_flash_erased' = FALSE
    BY <1>1, <1>3
  <2>2. len = 0 /\ bin_crc = <<>>
    BY <1>2, <1>3 DEF SessionInv
  <2>3. Size(h) \in Nat /\ h.offset \in Nat
    BY <2>1, LegalHead
  <2>4. InStep'
    BY <1>1, <1>2, <1>3, <2>1, <2>2, <2>3 DEF InStep, Legal, Size
  <2>5. InFlash'
    BY <1>2, <1>3, <2>1, <2>3 DEF InFlash
  <2>6. QED
    BY <2>4, <2>5
<1>4. QED
  BY <1>1, <1>2, <1>3 DEF SessionInv

\* A frame the device takes is the next of the image.
LEMMA NewDataInv ==
  ASSUME TypeOK, SessionInv, RecvNewData
  PROVE  SessionInv'
<1> USE DEF Between, Inside
<1>1. PICK n \in 0 .. MaxFrame :
         /\ MayCut(n) /\ AcceptData(NewFrame(n))
         /\ sent' = sent + n
         /\ host_index' = (host_index + 1) % IndexMod
         /\ last' = NewFrame(n)
  BY DEF RecvNewData
<1>2. /\ pc = "frameD" /\ heads' = heads /\ heads > 0 /\ pc' # "handshake" /\ pc' # "frameH"
      /\ UNCHANGED <<nonvolatile, g_flash_erased, packge_head, packge_index, len, flash_offset>>
  BY DEF RecvNewData, SessionInv, AcceptData
<1>3. ASSUME pc' \in Between \union Inside, heads' = 1
      PROVE  InStep' /\ InFlash'
  <2>1. InStep /\ InFlash
    BY <1>2, <1>3 DEF SessionInv
  <2>2. /\ packge_head \in Heads /\ Legal(packge_head) /\ flash_offset = packge_head.offset
        /\ sent = len /\ host_index = packge_index
        /\ Len(bin_crc) = sent /\ \A i \in 1 .. sent : bin_crc[i] = Stream(i)
        /\ len <= Size(packge_head)
    BY <1>2, <2>1 DEF InStep
  <2>3. /\ Size(packge_head) \in Nat /\ flash_offset \in Nat
        /\ sent \in Nat /\ n \in Nat /\ n <= MaxFrame
        /\ bin_crc \in Seq(Blocks) /\ packge_index \in 0 .. (IndexMod - 1)
    BY <1>1, <2>2, LegalHead, ConstantsAssumption
       DEF TypeOK, HostOK, SessionOK, ConstantsAssumption
  <2>16. ASSUME NEW i PROVE Stream(i)' = Stream(i)
    BY <1>2 DEF Stream, Size
  <2>4. /\ bin_crc' = bin_crc \o NewFrame(n).data /\ packge_buffer' = NewFrame(n).data
        /\ page' = 0 /\ attempts' = 0 /\ flash_error' = FALSE
        /\ IF len >= flash_offset
           THEN pc' = IF g_flash_erased THEN "program" ELSE "erase"
           ELSE pc' = "frameDone"
    BY <1>1, <1>3 DEF AcceptData
  <2>5. /\ Len(packge_buffer') = n
        /\ \A i \in 1 .. n : packge_buffer'[i] = Stream(sent + i)
    BY <2>3, <2>4 DEF NewFrame
  <2>6. /\ Len(bin_crc') = sent'
        /\ \A i \in 1 .. sent' : bin_crc'[i] = Stream(i)
    <3>1. packge_buffer' \in Seq(Blocks)
      BY <1>1, <2>4, NewFrameType DEF TypeOK
    <3>2. /\ Len(bin_crc') = sent + n
          /\ \A i \in 1 .. (sent + n) :
               bin_crc'[i] = IF i <= sent THEN bin_crc[i] ELSE packge_buffer'[i - sent]
      <4>1. /\ Len(bin_crc \o packge_buffer') = Len(bin_crc) + Len(packge_buffer')
            /\ \A i \in 1 .. Len(bin_crc) + Len(packge_buffer') :
                 (bin_crc \o packge_buffer')[i] =
                    IF i <= Len(bin_crc) THEN bin_crc[i] ELSE packge_buffer'[i - Len(bin_crc)]
        BY <2>3, <3>1, ConcatProperties
      <4>2. QED
        BY <2>2, <2>4, <2>5, <4>1
    <3>3. ASSUME NEW i \in 1 .. (sent + n)
          PROVE  bin_crc'[i] = Stream(i)
      <4>1. CASE i <= sent
        BY <2>2, <2>3, <3>2, <4>1
      <4>2. CASE i > sent
        <5>1. i - sent \in 1 .. n /\ sent + (i - sent) = i /\ ~(i <= sent)
          BY <2>3, <4>2
        <5>2. packge_buffer'[i - sent] = Stream(sent + (i - sent))
          BY <2>5, <5>1
        <5>3. QED
          BY <3>2, <5>1, <5>2
      <4>3. QED
        BY <2>3, <4>1, <4>2
    <3>4. QED
      BY <1>1, <3>2, <3>3
  <2>7. ~(len < flash_offset /\ flash_offset < sent')
    BY <1>1, <2>2 DEF MayCut
  <2>8. InStep'
    <3>1. len' <= Size(packge_head)' /\ Len(packge_buffer') <= MaxFrame
      BY <1>2, <2>2, <2>3, <2>5 DEF Size
    <3>2. pc' \notin Between
      BY <2>4
    <3>3. host_index' = (packge_index + 1) % IndexMod /\ last'.idx = packge_index
      BY <1>1, <2>2 DEF NewFrame
    <3>4. QED
      BY <1>1, <1>2, <2>2, <2>5, <2>6, <2>7, <2>16, <3>1, <3>2, <3>3 DEF InStep, Size, Legal
  <2>9. \/ len <= flash_offset /\ ~g_flash_erased
        \/ len > flash_offset /\ g_flash_erased /\ ~Blocked /\ WrittenTo(len - flash_offset)
    BY <1>2, <2>1, <2>2 DEF InFlash
  <2>10. ASSUME NEW k PROVE WrittenTo(k)' <=> WrittenTo(k)
    BY <1>2 DEF WrittenTo, Stream, Size, nonvolatile
  <2>11. Blocked' <=> Blocked
    BY <1>2 DEF Blocked, nonvolatile
  <2>12. CASE len < flash_offset
    <3>1. pc' = "frameDone" /\ sent' <= flash_offset /\ ~g_flash_erased
      BY <1>1, <2>2, <2>3, <2>4, <2>7, <2>9, <2>12
    <3>2. QED
      BY <1>2, <2>8, <3>1 DEF InFlash
  <2>13. CASE len = flash_offset
    <3>1. pc' = "erase" /\ attempts' = 0 /\ page' = 0
      BY <2>3, <2>4, <2>9, <2>13
    <3>2. faults' \in Nat
      BY ConstantsAssumption DEF RecvNewData, TypeOK, FlashOK, ConstantsAssumption
    <3>3. QED
      BY <1>2, <2>8, <2>13, <3>1, <3>2 DEF InFlash
  <2>14. CASE len > flash_offset
    <3>1. pc' = "program" /\ page' = 0 /\ g_flash_erased /\ ~Blocked /\ WrittenTo(len - flash_offset)
      BY <2>2, <2>3, <2>4, <2>9, <2>14
    <3>2. len' = len /\ flash_offset' = flash_offset /\ g_flash_erased' = g_flash_erased
      BY <1>2
    <3>3. len' - flash_offset' + page' = len - flash_offset
      BY <2>2, <2>3, <3>1, <3>2
    <3>4. WrittenTo(len - flash_offset + page)'
      BY <1>2, <3>1, <3>3 DEF WrittenTo, Stream, Size, nonvolatile
    <3>5. QED
      BY <2>2, <2>3, <2>5, <2>8, <2>11, <2>14, <3>1, <3>2, <3>4 DEF InFlash
  <2>15. QED
    BY <2>2, <2>3, <2>8, <2>12, <2>13, <2>14
<1>4. QED
  BY <1>2, <1>3 DEF SessionInv

\* A repeated frame is not taken.
LEMMA AgainInv ==
  ASSUME TypeOK, SessionInv, RecvDataAgain
  PROVE  SessionInv'
<1> USE DEF Between, Inside
<1>1. pc = "frameD" /\ last # NoFrame /\ AcceptData(last) /\ heads' = heads /\ heads > 0
  BY DEF RecvDataAgain, SessionInv, host
<1>2. pc' # "handshake" /\ pc' # "frameH"
  BY <1>1 DEF AcceptData
<1>3. CASE heads = 1
  <2>1. ~IndexOk(last)
    BY <1>1, <1>3 DEF SessionInv, InStep, IndexOk
  <2>2. pc' = "fail"
    BY <1>1, <2>1 DEF AcceptData
  <2>3. QED
    BY <1>1, <2>2 DEF SessionInv
<1>4. CASE heads # 1
  BY <1>1, <1>2, <1>4 DEF SessionInv
<1>5. QED
  BY <1>3, <1>4

\* The erase loop leaves every page erased, or the region is locked.
LEMMA EraseInv ==
  ASSUME TypeOK, SessionInv, FewFaults, ErasePage \/ ErasePageFails
  PROVE  SessionInv'
<1> USE DEF Between, Inside
<1>1. /\ pc = "erase" /\ pc' \in {"erase", "program"}
      /\ UNCHANGED <<flag, locked, session, packge_buffer, flash_error, host>>
  BY DEF ErasePage, ErasePageFails, EraseRetry, EraseEnds, nonvolatile
<1>2. heads' = heads /\ heads > 0
  BY <1>1 DEF host, SessionInv
<1>3. ASSUME heads = 1
      PROVE  InStep' /\ InFlash'
  <2>1. InStep /\ InFlash
    BY <1>1, <1>3 DEF SessionInv
  <2>2. InStep'
    BY <1>1, <2>1 DEF InStep, session, host, Legal, Size, Stream
  <2>3. /\ len = flash_offset
        /\ Blocked \/ (attempts <= faults /\ \A p \in 0 .. (page - 1) : flash[p] = {})
    BY <1>1, <2>1 DEF InFlash
  <2>4. len' = len /\ flash_offset' = flash_offset /\ (Blocked' <=> Blocked)
    BY <1>1 DEF session, Blocked
  <2>5. /\ page \in Nat /\ page < ErasedPages /\ attempts \in Nat /\ faults \in Nat
        /\ faults' \in 0 .. MaxFaults /\ len \in Nat /\ flash_offset \in Nat
        /\ ErasedPages \in Nat /\ ErasedPages <= AppPages /\ AppPages \in Nat
        /\ EraseAttempts \in Nat /\ MaxFaults \in Nat /\ Len(packge_buffer) \in Nat
    <3>1. FlashOK'
      BY StepFlash DEF Next, DeviceStep
    <3>2. QED
      BY <1>1, <3>1, ConstantsAssumption, LenProperties
         DEF TypeOK, SessionOK, FlashOK, ConstantsAssumption
  <2>6. ASSUME ~Blocked, pc' = "program"
        PROVE  page' = 0 /\ \A p \in 0 .. (ErasedPages - 1) : flash'[p] = {}
    <3>1. ~PageLocked(page)
      BY <2>5, <2>6, BlockedPage
    <3>2. CASE ErasePage
      <4>1. page' = 0 /\ page + 1 = ErasedPages
        BY <1>1, <2>6, <3>2 DEF ErasePage, EraseEnds, LastPage
      <4>2. flash' = [flash EXCEPT ![page] = {}] /\ DOMAIN flash = Pages
        BY <3>1, <3>2 DEF ErasePage, TypeOK, FlashOK
      <4>3. \A p \in 0 .. (ErasedPages - 1) : p \in Pages
        BY <2>5 DEF Pages
      <4>4. QED
        BY <2>3, <2>5, <2>6, <4>1, <4>2, <4>3
    <3>3. CASE ErasePageFails
      <4>1. faults' = faults + 1
        BY <3>1, <3>3 DEF ErasePageFails, EraseRetry
      <4>2. attempts + 1 >= EraseAttempts
        BY <1>1, <2>6, <3>3 DEF ErasePageFails, EraseRetry, Counted
      <4>3. QED
        BY <2>3, <2>5, <2>6, <4>1, <4>2 DEF FewFaults
    <3>4. QED
      BY <3>2, <3>3
  <2>7. ASSUME ~Blocked, pc' = "erase"
        PROVE  attempts' <= faults' /\ \A p \in 0 .. (page' - 1) : flash'[p] = {}
    <3>1. ~PageLocked(page)
      BY <2>5, <2>7, BlockedPage
    <3>2. CASE ErasePage
      <4>1. page' = page + 1 /\ attempts' = attempts /\ faults' = faults
        BY <1>1, <2>7, <3>2 DEF ErasePage, EraseEnds
      <4>2. flash' = [flash EXCEPT ![page] = {}] /\ DOMAIN flash = Pages
        BY <3>1, <3>2 DEF ErasePage, TypeOK, FlashOK
      <4>3. \A p \in 0 .. page : p \in Pages
        BY <2>5 DEF Pages
      <4>4. QED
        BY <2>3, <2>5, <2>7, <4>1, <4>2, <4>3
    <3>3. CASE ErasePageFails
      <4>1. faults' = faults + 1 /\ attempts' = attempts + 1 /\ page' = page /\ flash' = flash
        BY <1>1, <2>7, <3>1, <3>3 DEF ErasePageFails, EraseRetry, EraseEnds, Counted, nonvolatile
      <4>2. QED
        BY <2>3, <2>5, <2>7, <4>1
    <3>4. QED
      BY <3>2, <3>3
  <2>8. CASE pc' = "erase"
    BY <2>2, <2>3, <2>4, <2>7, <2>8 DEF InFlash
  <2>9. CASE pc' = "program"
    <3>1. g_flash_erased' = TRUE /\ page' = 0
      BY <1>1, <2>9 DEF ErasePage, ErasePageFails, EraseRetry, EraseEnds
    <3>2. len' - flash_offset' + page' = 0
      BY <2>3, <2>4, <2>5, <3>1
    <3>3. ~Blocked => WrittenTo(len - flash_offset + page)'
      <4>1. \A p \in 0 .. (ErasedPages - 1) : ~(p < 0)
        BY <2>5
      <4>2. ~Blocked => \A p \in 0 .. (ErasedPages - 1) : flash'[p] = {}
        BY <2>6, <2>9
      <4>3. QED
        BY <3>2, <4>1, <4>2 DEF WrittenTo
    <3>4. page' <= Len(packge_buffer')
      BY <1>1, <2>5, <3>1
    <3>5. QED
      BY <2>2, <2>3, <2>4, <2>5, <2>9, <3>1, <3>3, <3>4 DEF InFlash
  <2>10. QED
    BY <1>1, <2>2, <2>8, <2>9
<1>4. QED
  BY <1>1, <1>2, <1>3 DEF SessionInv

\* Where the next page of a session's only image goes.
LEMMA DestIs ==
  ASSUME TypeOK, SessionInv, heads = 1, pc = "program", page < Len(packge_buffer)
  PROVE  /\ Dest \in Nat
         /\ packge_buffer[page + 1] = Stream(Dest + flash_offset + 1)
         /\ Dest < Size(packge_head) - packge_head.offset + MaxFrame
         /\ packge_head \in Heads /\ Legal(packge_head)
<1> USE DEF Between, Inside
<1>1. InStep /\ InFlash
  BY DEF SessionInv
<1>2. /\ packge_head \in Heads /\ Legal(packge_head) /\ flash_offset = packge_head.offset
      /\ len <= Size(packge_head) /\ Len(packge_buffer) <= MaxFrame
      /\ \A i \in 1 .. Len(packge_buffer) : packge_buffer[i] = Stream(len + i)
  BY <1>1 DEF InStep
<1>3. len >= flash_offset
  BY <1>1 DEF InFlash
<1>4. /\ len \in Nat /\ page \in Nat /\ Len(packge_buffer) \in Nat /\ flash_offset \in Nat
      /\ Size(packge_head) \in Nat /\ MaxFrame \in Nat
  BY <1>2, LegalHead, LenProperties, ConstantsAssumption DEF TypeOK, SessionOK, ConstantsAssumption
<1>5. packge_buffer[page + 1] = Stream(len + (page + 1))
  BY <1>2, <1>4
<1>6. len + (page + 1) = Dest + flash_offset + 1
  BY <1>4 DEF Dest
<1>7. Dest \in Nat /\ Dest < Size(packge_head) - packge_head.offset + MaxFrame
  BY <1>2, <1>3, <1>4 DEF Dest
<1>8. QED
  BY <1>2, <1>5, <1>6, <1>7

\* It is not the page of the flag.
LEMMA DestFits ==
  ASSUME TypeOK, SessionInv, ImagesFit, FramesFit, heads = 1, pc = "program",
         page < Len(packge_buffer)
  PROVE  Dest \in Pages /\ Dest # FlagPage
<1>1. /\ Dest \in Nat /\ Dest < Size(packge_head) - packge_head.offset + MaxFrame
      /\ packge_head \in Heads /\ Legal(packge_head)
  BY DestIs
<1>2. Size(packge_head) - packge_head.offset <= ErasedPages
  BY <1>1 DEF ImagesFit
<1>3. /\ Size(packge_head) \in Nat /\ packge_head.offset \in Nat
      /\ ErasedPages \in Nat /\ AppPages \in Nat /\ MaxFrame \in Nat
  BY <1>1, LegalHead, ConstantsAssumption DEF ConstantsAssumption
<1>4. Dest <= AppPages
  BY <1>1, <1>2, <1>3 DEF FramesFit
<1>5. QED
  BY <1>1, <1>3, <1>4 DEF Pages, FlagPage

\* A page is programmed.
LEMMA ProgramInv ==
  ASSUME TypeOK, SessionInv, ProgramPage
  PROVE  SessionInv'
<1> USE DEF Between, Inside
<1>1. /\ pc = "program" /\ pc' = "program" /\ page < Len(packge_buffer) /\ page' = page + 1
      /\ UNCHANGED <<locked, g_flash_erased, session, packge_buffer, host>>
  BY DEF ProgramPage
<1>2. heads' = heads /\ heads > 0
  BY <1>1 DEF host, SessionInv
<1>3. ASSUME heads = 1
      PROVE  InStep' /\ InFlash'
  <2>1. InStep /\ InFlash
    BY <1>1, <1>3 DEF SessionInv
  <2>2. InStep'
    BY <1>1, <2>1 DEF InStep, session, host, Legal, Size, Stream
  <2>3. /\ g_flash_erased /\ len >= flash_offset /\ page <= Len(packge_buffer)
        /\ \/ flash_error
           \/ Blocked /\ page = 0 /\ len = flash_offset
           \/ ~Blocked /\ WrittenTo(len - flash_offset + page)
    BY <1>1, <2>1 DEF InFlash
  <2>4. len' = len /\ flash_offset' = flash_offset /\ packge_head' = packge_head
        /\ (Blocked' <=> Blocked)
    BY <1>1 DEF session, Blocked
  <2>5. page \in Nat /\ len \in Nat /\ flash_offset \in Nat /\ Len(packge_buffer) \in Nat
        /\ ErasedPages \in Nat
    BY LenProperties, ConstantsAssumption DEF TypeOK, SessionOK, ConstantsAssumption
  <2>6. Dest \in Nat /\ packge_buffer[page + 1] = Stream(Dest + flash_offset + 1)
    BY <1>1, <1>3, DestIs
  <2>7. g_flash_erased' /\ len' >= flash_offset' /\ page' <= Len(packge_buffer')
    BY <1>1, <2>3, <2>4, <2>5
  <2>8. CASE flash_error
    <3>1. flash_error'
      BY <2>8 DEF ProgramPage
    <3>2. QED
      BY <1>1, <2>2, <2>7, <3>1 DEF InFlash
  <2>9. CASE Blocked /\ page = 0 /\ len = flash_offset
    <3>1. PageLocked(Dest)
      BY <2>5, <2>9, BlockedPage DEF Dest
    <3>2. flash_error'
      BY <3>1 DEF ProgramPage
    <3>3. QED
      BY <1>1, <2>2, <2>7, <3>2 DEF InFlash
  <2>10. CASE ~Blocked /\ WrittenTo(len - flash_offset + page)
    <3>1. ~PageLocked(Dest)
      BY <2>6, <2>10, BlockedPage
    <3>2. CASE flash_error'
      BY <1>1, <2>2, <2>7, <3>2 DEF InFlash
    <3>3. CASE flash' = IF Dest \in Pages
                         THEN [flash EXCEPT ![Dest] = @ \union {packge_buffer[page + 1]}]
                         ELSE flash
      <4>1. Dest = len - flash_offset + page
        BY DEF Dest
      <4>2. \A p \in 0 .. (ErasedPages - 1) :
              flash[p] = IF p < Dest THEN {Stream(p + flash_offset + 1)} ELSE {}
        BY <2>10, <4>1 DEF WrittenTo
      <4>3. DOMAIN flash = Pages
        BY DEF TypeOK, FlashOK
      <4>4. \A p \in 0 .. (ErasedPages - 1) : p \in Pages
        BY ConstantsAssumption DEF Pages, ConstantsAssumption
      <4>5. \A p \in 0 .. (ErasedPages - 1) :
              flash'[p] = IF p = Dest THEN {Stream(Dest + flash_offset + 1)} ELSE flash[p]
        <5> SUFFICES ASSUME NEW p \in 0 .. (ErasedPages - 1)
                     PROVE  flash'[p] = IF p = Dest THEN {Stream(Dest + flash_offset + 1)}
                                                    ELSE flash[p]
          OBVIOUS
        <5>1. p \in Pages
          BY <4>4
        <5>2. p = Dest => flash[p] = {}
          <6> SUFFICES ASSUME p = Dest PROVE flash[p] = {}
            OBVIOUS
          <6>1. ~(p < Dest)
            BY <2>6
          <6>2. QED
            BY <4>2, <6>1
        <5>3. QED
          BY <2>6, <3>3, <4>3, <5>1, <5>2
      <4>6. \A p \in 0 .. (ErasedPages - 1) :
              flash'[p] = IF p < Dest + 1 THEN {Stream(p + flash_offset + 1)} ELSE {}
        <5> SUFFICES ASSUME NEW p \in 0 .. (ErasedPages - 1)
                     PROVE  flash'[p] = IF p < Dest + 1 THEN {Stream(p + flash_offset + 1)}
                                                        ELSE {}
          OBVIOUS
        <5>1. CASE p = Dest
          BY <2>6, <4>5, <5>1
        <5>2. CASE p # Dest
          <6>1. p < Dest + 1 <=> p < Dest
            BY <2>5, <2>6, <5>2
          <6>2. QED
            BY <4>2, <4>5, <5>2, <6>1
        <5>3. QED
          BY <5>1, <5>2
      <4>7. len' - flash_offset' + page' = Dest + 1
        BY <1>1, <2>4, <2>5, <4>1
      <4>8. ASSUME NEW i PROVE Stream(i)' = Stream(i)
        BY <2>4 DEF Stream, Size
      <4>9. WrittenTo(len - flash_offset + page)'
        BY <2>4, <4>6, <4>7, <4>8 DEF WrittenTo
      <4>10. QED
        BY <1>1, <2>2, <2>4, <2>7, <2>10, <4>9 DEF InFlash
    <3>4. QED
      BY <2>6, <3>1, <3>2, <3>3 DEF ProgramPage
  <2>11. QED
    BY <2>3, <2>8, <2>9, <2>10
<1>4. QED
  BY <1>1, <1>2, <1>3 DEF SessionInv

\* All pages of a frame are programmed.
LEMMA ProgramEndsInv ==
  ASSUME TypeOK, SessionInv, ProgramEnds
  PROVE  SessionInv'
<1> USE DEF Between, Inside
<1>1. /\ pc = "program" /\ pc' \in {"fail", "frameDone"} /\ page = Len(packge_buffer)
      /\ pc' = "frameDone" => ~flash_error /\ packge_buffer # <<>>
      /\ UNCHANGED <<nonvolatile, g_flash_erased, session, packge_buffer, host>>
  BY DEF ProgramEnds, loop
<1>2. heads' = heads /\ heads > 0
  BY <1>1 DEF host, SessionInv
<1>3. ASSUME heads = 1, pc' = "frameDone"
      PROVE  InStep' /\ InFlash'
  <2>1. InStep /\ InFlash
    BY <1>1, <1>3 DEF SessionInv
  <2>2. InStep'
    BY <1>1, <1>3, <2>1 DEF InStep, session, host, Legal, Size, Stream
  <2>3. Len(packge_buffer) \in Nat \ {0} /\ len \in Nat /\ flash_offset \in Nat
    BY <1>1, <1>3, LenProperties, EmptySeq DEF TypeOK, SessionOK
  <2>4. /\ g_flash_erased /\ ~Blocked /\ WrittenTo(len - flash_offset + page)
        /\ len >= flash_offset /\ sent = len + Len(packge_buffer)
    BY <1>1, <1>3, <2>1, <2>3 DEF InFlash, InStep
  <2>5. len - flash_offset + page = sent - flash_offset /\ sent > flash_offset
    BY <1>1, <2>3, <2>4
  <2>6. WrittenTo(sent - flash_offset)' /\ ~Blocked'
    BY <1>1, <2>4, <2>5 DEF WrittenTo, Stream, Size, Blocked, session, nonvolatile, host
  <2>7. QED
    BY <1>1, <1>3, <2>2, <2>4, <2>5, <2>6 DEF InFlash, session, host
<1>4. QED
  BY <1>1, <1>2, <1>3 DEF SessionInv

\* A frame is acknowledged.
LEMMA FrameDoneInv ==
  ASSUME TypeOK, SessionInv, FrameDone
  PROVE  SessionInv'
<1> USE DEF Between, Inside
<1>1. /\ pc = "frameDone" /\ pc' \in {"waitHead", "flagErase", "fail"}
      /\ len' = len + Len(packge_buffer) /\ packge_index' = (packge_index + 1) % IndexMod
      /\ UNCHANGED <<nonvolatile, g_flash_erased, packge_head, bin_crc, flash_offset,
                     packge_buffer, host>>
  BY DEF FrameDone, loop
<1>2. heads' = heads /\ heads > 0
  BY <1>1 DEF host, SessionInv
<1>3. ASSUME heads = 1, pc' = "waitHead"
      PROVE  InStep' /\ InFlash'
  <2>1. InStep /\ InFlash
    BY <1>1, <1>3 DEF SessionInv
  <2>2. sent = len + Len(packge_buffer) /\ host_index = (packge_index + 1) % IndexMod
        /\ last.idx = packge_index
    BY <1>1, <2>1 DEF InStep
  <2>3. (packge_index + 1) % IndexMod # packge_index
    BY NextIndex DEF TypeOK, SessionOK
  <2>7. len' <= Size(packge_head)
    <3>1. len' < Size(packge_head)
      BY <1>1, <1>3 DEF FrameDone
    <3>2. Size(packge_head) \in Nat /\ len' \in Nat
      BY <1>1, <2>1, LegalHead, LenProperties DEF InStep, TypeOK, SessionOK
    <3>3. QED
      BY <3>1, <3>2
  <2>4. InStep'
    BY <1>1, <1>3, <2>1, <2>2, <2>3, <2>7 DEF InStep, host, Legal, Size, Stream
  <2>5. InFlash'
    BY <1>1, <1>3, <2>1 DEF InFlash, WrittenTo, Stream, Size, Blocked, nonvolatile, host
  <2>6. QED
    BY <2>4, <2>5
<1>4. QED
  BY <1>1, <1>2, <1>3 DEF SessionInv

\* From frame to frame.
LEMMA NextFrameInv ==
  ASSUME TypeOK, SessionInv, NextFrame
  PROVE  SessionInv'
<1> USE DEF Between, Inside
<1>1. /\ pc = "waitHead" /\ heads > 0 /\ heads \in Nat
      /\ \/ pc' = "frameD" /\ heads' = heads
         \/ pc' = "frameH" /\ heads' = heads + 1
      /\ UNCHANGED <<nonvolatile, g_flash_erased, session, sent, host_index, last>>
  BY ConstantsAssumption DEF NextFrame, SessionInv, TypeOK, HostOK, ConstantsAssumption
<1>2. ASSUME heads = 1, pc' = "frameD"
      PROVE  InStep' /\ InFlash'
  <2>1. InStep /\ InFlash
    BY <1>1, <1>2 DEF SessionInv
  <2>2. InStep'
    BY <1>1, <1>2, <2>1 DEF InStep, session, Legal, Size, Stream
  <2>3. InFlash'
    BY <1>1, <1>2, <2>1 DEF InFlash, WrittenTo, Stream, Size, Blocked, session, nonvolatile
  <2>4. QED
    BY <2>2, <2>3
<1>3. QED
  BY <1>1, <1>2 DEF SessionInv

\* Every other step stays outside of a session, leaves it or begins one.
LEMMA OtherInv ==
  ASSUME TypeOK, SessionInv,
         \/ BootDecide \/ HandshakeHead \/ HandshakeOther \/ NextOther \/ RecvFrameError
         \/ FlagErase \/ FlagWrite \/ Fail \/ ConsoleUpdate \/ ConsoleGo \/ ConsoleLock
         \/ AppRequestsUpdate \/ PowerLoss
  PROVE  SessionInv'
<1> USE DEF Between, Inside
<1>1. CASE HandshakeHead
  <2>1. pc' = "frameH" /\ heads' = 1 /\ len' = 0 /\ bin_crc' = <<>>
    BY <1>1 DEF HandshakeHead, SessionInv, TypeOK, HostOK, session
  <2>2. QED
    BY <2>1 DEF SessionInv
<1>2. CASE BootDecide \/ ConsoleUpdate
  <2>1. CASE pc' = "handshake" /\ NewSession
    BY <2>1 DEF NewSession, SessionInv
  <2>2. CASE pc' = "app"
    BY <2>2 DEF SessionInv
  <2>3. QED
    BY <1>2, <2>1, <2>2 DEF BootDecide, ConsoleUpdate
<1>3. CASE \/ HandshakeOther \/ NextOther \/ RecvFrameError \/ FlagErase \/ FlagWrite \/ Fail
           \/ ConsoleGo \/ ConsoleLock \/ AppRequestsUpdate \/ PowerLoss
  <2>1. pc' \in {"console", "fail", "flagWrite", "app", "boot"}
    BY <1>3 DEF HandshakeOther, NextOther, RecvFrameError, FlagErase, FlagWrite, Fail,
                ConsoleGo, ConsoleLock, AppRequestsUpdate, PowerLoss, Reset
  <2>2. QED
    BY <2>1 DEF SessionInv
<1>4. QED
  BY <1>1, <1>2, <1>3

\* SessionInv is inductive.
LEMMA SessionStep ==
  ASSUME TypeOK, SessionInv, FewFaults, [Next]_vars
  PROVE  SessionInv'
<1>1. CASE UNCHANGED vars
  <2>1. InStep' <=> InStep
    BY <1>1 DEF vars, session, loop, host, InStep, Legal, Size, Stream
  <2>2. InFlash' <=> InFlash
    BY <1>1 DEF vars, nonvolatile, session, loop, host, InFlash, WrittenTo, Stream, Size,
       Blocked
  <2>3. QED
    BY <1>1, <2>1, <2>2 DEF vars, session, loop, host, SessionInv
<1>2. CASE Next
  BY <1>2, HeadInv, NewDataInv, AgainInv, EraseInv, ProgramInv, ProgramEndsInv, FrameDoneInv,
     NextFrameInv, OtherInv DEF Next, DeviceStep
<1>3. QED
  BY <1>1, <1>2

\* In every session with one head frame the two sides are in step, and the
\* flash below the frame they have reached holds the image (packge_recv and
\* memcpy_toflash).
THEOREM SessionCorrect ==
  ASSUME FewFaults
  PROVE  Spec => []SessionInv
<1>1. Init => SessionInv
  BY DEF Init, SessionInv, Between, Inside
<1>2. TypeOK /\ SessionInv /\ [Next]_vars => SessionInv'
  BY SessionStep
<1>3. QED
  BY <1>1, <1>2, TypeCorrect, PTL DEF Spec

\* Every block acknowledged is in flash (packge_recv, update.c:480-500).
THEOREM AckedDataSafe ==
  ASSUME ImagesFit, FewFaults
  PROVE  Spec => []AckedDataIsInFlash
<1>1. TypeOK /\ SessionInv => AckedDataIsInFlash
  <2> SUFFICES ASSUME TypeOK, SessionInv, pc = "waitHead", heads = 1,
                      NEW p \in 0 .. (len - flash_offset - 1)
               PROVE  flash[p] = {packge_head.image[p + flash_offset + 1]}
    BY DEF AckedDataIsInFlash
  <2>1. InStep /\ InFlash
    BY DEF SessionInv, Between
  <2>2. len \in Nat /\ flash_offset \in Nat /\ sent = len
    BY <2>1 DEF InStep, Between, TypeOK, SessionOK
  <2>3. WrittenTo(sent - flash_offset)
    BY <2>1, <2>2 DEF InFlash, Between
  <2>4. /\ len <= Size(packge_head) /\ Size(packge_head) \in Nat /\ ErasedPages \in Nat
        /\ Size(packge_head) - flash_offset <= ErasedPages
    BY <2>1, LegalHead, ConstantsAssumption DEF InStep, ImagesFit, ConstantsAssumption
  <2>5. p \in 0 .. (ErasedPages - 1) /\ p < sent - flash_offset
        /\ p + flash_offset + 1 <= Size(packge_head)
    BY <2>2, <2>4
  <2>6. QED
    BY <2>3, <2>5 DEF WrittenTo, Stream
<1>2. QED
  BY <1>1, SessionCorrect, TypeCorrect, PTL

-----------------------------------------------------------------------------
\* What holds from the frame that completes the image on: it was received
\* whole, and it is in flash.
Received == /\ packge_head \in Heads /\ Legal(packge_head)
            /\ Checked(packge_head)
            /\ Programmed(flash, packge_head)

EndInv ==
    /\ pc \in {"flagErase", "flagWrite"} => Received
    /\ told = "END" => pc = "console" /\ Programmed(flash, packge_head)

\* The last frame of the image.
LEMMA LastFrame ==
  ASSUME TypeOK, SessionInv, ImagesFit, MaxHeads = 1, FrameDone, pc' = "flagErase"
  PROVE  Received'
<1> USE DEF Between, Inside
<1>1. /\ pc = "frameDone" /\ len + Len(packge_buffer) >= Size(packge_head) /\ CrcOk
      /\ UNCHANGED <<nonvolatile, packge_head>>
  <2>1. /\ pc = "frameDone" /\ len' = len + Len(packge_buffer)
        /\ UNCHANGED <<nonvolatile, packge_head>>
        /\ IF len' < Size(packge_head)
           THEN pc' = "waitHead"
           ELSE IF CrcOk THEN pc' = "flagErase" ELSE pc' = "fail"
    BY DEF FrameDone
  <2>2. len' \in Int /\ Size(packge_head) \in Int
    BY <2>1, LenProperties DEF TypeOK, SessionOK, HeadType, Size
  <2>3. QED
    BY <2>1, <2>2
<1>2. heads = 1
  BY <1>1 DEF SessionInv, TypeOK, HostOK
<1>3. InStep /\ InFlash
  BY <1>1, <1>2 DEF SessionInv
<1>4. /\ packge_head \in Heads /\ Legal(packge_head) /\ flash_offset = packge_head.offset
      /\ sent = len + Len(packge_buffer)
      /\ Len(bin_crc) = sent /\ \A i \in 1 .. sent : bin_crc[i] = Stream(i)
  BY <1>1, <1>3 DEF InStep
<1>5. /\ Size(packge_head) \in Nat /\ flash_offset \in Nat /\ sent \in Nat
      /\ packge_head.image \in Seq(Blocks) /\ bin_crc \in Seq(Blocks)
      /\ Size(packge_head) <= sent
      /\ ErasedPages \in Nat /\ Size(packge_head) - flash_offset <= ErasedPages
  BY <1>1, <1>4, LegalHead, ConstantsAssumption
     DEF ImagesFit, TypeOK, SessionOK, HostOK, ConstantsAssumption
<1>6. \A i \in 1 .. Size(packge_head) : Stream(i) = packge_head.image[i]
  BY <1>5 DEF Stream
<1>7. Checked(packge_head)
  <2>1. \A i \in 1 .. Size(packge_head) : bin_crc[i] \in Blocks
    BY <1>4, <1>5, LenProperties
  <2>2. /\ SubSeq(bin_crc, 1, Size(packge_head)) \in Seq(Blocks)
        /\ Len(SubSeq(bin_crc, 1, Size(packge_head))) = Size(packge_head)
        /\ \A i \in 1 .. Size(packge_head) :
             SubSeq(bin_crc, 1, Size(packge_head))[i] = bin_crc[i]
    BY <1>5, <2>1, SubSeqProperties
  <2>3. \A i \in 1 .. Size(packge_head) : bin_crc[i] = packge_head.image[i]
    BY <1>4, <1>5, <1>6
  <2>4. SubSeq(bin_crc, 1, Size(packge_head)) = packge_head.image
    BY <1>5, <2>2, <2>3, SeqEqual DEF Size
  <2>5. QED
    BY <1>1, <1>4, <1>5, <2>4 DEF CrcOk, Checked
<1>8. Programmed(flash, packge_head)
  <2>1. CASE sent <= flash_offset
    BY <1>4, <1>5, <2>1 DEF Programmed
  <2>2. CASE sent > flash_offset
    <3>1. WrittenTo(sent - flash_offset)
      BY <1>1, <1>3, <1>5, <2>2 DEF InFlash
    <3>2. SUFFICES ASSUME NEW p \in 0 .. (Size(packge_head) - packge_head.offset - 1)
                   PROVE  flash[p] = {packge_head.image[p + packge_head.offset + 1]}
      BY DEF Programmed
    <3>3. /\ p \in 0 .. (ErasedPages - 1) /\ p < sent - flash_offset
          /\ p + flash_offset + 1 \in 1 .. Size(packge_head)
      BY <1>4, <1>5
    <3>4. QED
      BY <1>4, <1>6, <3>1, <3>3 DEF WrittenTo
  <2>3. QED
    BY <1>5, <2>1, <2>2
<1>9. QED
  BY <1>1, <1>4, <1>7, <1>8 DEF Received, Programmed, Checked, Legal, Size, nonvolatile

\* EndInv is inductive relative to SessionInv.
LEMMA EndStep ==
  ASSUME TypeOK, SessionInv, EndInv, ImagesFit, MaxHeads = 1, [Next]_vars
  PROVE  EndInv'
<1>1. CASE FrameDone
  <2>1. told' = "OK" /\ pc' # "flagWrite"
    BY <1>1 DEF FrameDone
  <2>2. QED
    BY <1>1, <2>1, LastFrame DEF EndInv
<1>2. CASE FlagErase
  <2>1. pc = "flagErase" /\ pc' = "flagWrite" /\ UNCHANGED <<flash, packge_head, told>>
    BY <1>2 DEF FlagErase, session
  <2>2. Received'
    BY <2>1 DEF EndInv, Received, Programmed, Checked, Legal, Size
  <2>3. QED
    BY <2>1, <2>2 DEF EndInv
<1>3. CASE FlagWrite
  <2>1. pc = "flagWrite" /\ pc' = "console" /\ UNCHANGED <<flash, packge_head>>
    BY <1>3 DEF FlagWrite
  <2>2. Programmed(flash, packge_head)'
    BY <2>1 DEF EndInv, Received, Programmed, Size
  <2>3. QED
    BY <2>1, <2>2 DEF EndInv
<1>4. CASE UNCHANGED vars
  BY <1>4 DEF vars, nonvolatile, session, EndInv, Received, Programmed, Checked, Legal, Size
<1>5. CASE \/ BootDecide \/ HandshakeOther \/ RecvHead \/ Fail \/ ConsoleUpdate \/ ConsoleGo
           \/ ConsoleLock \/ AppRequestsUpdate \/ PowerLoss
  <2>1. pc' \notin {"flagErase", "flagWrite"}
    BY <1>5 DEF BootDecide, HandshakeOther, RecvHead, Fail, ConsoleUpdate, ConsoleGo, ConsoleLock,
                AppRequestsUpdate, PowerLoss, Reset
  <2>2. told' # "END"
    <3>1. CASE BootDecide \/ RecvHead
      BY <3>1 DEF BootDecide, RecvHead, EndInv
    <3>2. CASE HandshakeOther \/ Fail \/ ConsoleUpdate \/ ConsoleGo
      BY <3>2 DEF HandshakeOther, Fail, ConsoleUpdate, ConsoleGo
    <3>3. CASE ConsoleLock \/ AppRequestsUpdate \/ PowerLoss
      BY <3>3 DEF ConsoleLock, AppRequestsUpdate, PowerLoss, Reset
    <3>4. QED
      BY <1>5, <3>1, <3>2, <3>3
  <2>3. QED
    BY <2>1, <2>2 DEF EndInv
<1>6. CASE \/ HandshakeHead \/ NextFrame \/ NextOther \/ RecvFrameError \/ RecvNewData
           \/ RecvDataAgain \/ ErasePage \/ ErasePageFails \/ ProgramPage \/ ProgramEnds
  <2>1. pc # "console" /\ pc' \notin {"flagErase", "flagWrite"} /\ told' = told
    BY <1>6 DEF HandshakeHead, NextFrame, NextOther, RecvFrameError, RecvNewData, RecvDataAgain,
                AcceptData, ErasePage, ErasePageFails, EraseRetry, EraseEnds, ProgramPage,
                ProgramEnds
  <2>2. QED
    BY <2>1 DEF EndInv
<1>7. QED
  BY <1>1, <1>2, <1>3, <1>4, <1>5, <1>6 DEF Next, DeviceStep

\* END is said only of a flash that holds the image (packge_recv,
\* update.c:501-510), when the host sends one head frame in a session.
THEOREM EndProgrammed ==
  ASSUME ImagesFit, FewFaults, MaxHeads = 1
  PROVE  Spec => []EndMeansProgrammed
<1>1. Init => EndInv
  BY DEF Init, EndInv
<1>2. TypeOK /\ SessionInv /\ EndInv /\ [Next]_vars => EndInv'
  BY EndStep
<1>3. EndInv => EndMeansProgrammed
  BY DEF EndInv, EndMeansProgrammed
<1>4. QED
  BY <1>1, <1>2, <1>3, SessionCorrect, TypeCorrect, PTL DEF Spec

\* The flag guards every update that is interrupted (boot_main,
\* bootmain.c:124): a step that changes the application's pages under a clean
\* flag is marked, and the flag becomes clean only behind a whole image.
LEMMA GuardStep ==
  ASSUME TypeOK, SessionInv, EndInv, GuardedImage, ImagesFit, FramesFit, MaxHeads = 1,
         [Next]_vars
  PROVE  GuardedImage'
<1>1. CASE UNCHANGED <<flash, flag, exposed>>
  BY <1>1 DEF GuardedImage, Intact, Programmed
<1>2. CASE ErasePage
  <2>1. flag' = flag /\ Expose
    BY <1>2 DEF ErasePage
  <2>2. QED
    BY <2>1 DEF Expose, GuardedImage
<1>3. CASE ProgramPage
  <2>1. pc = "program" /\ page < Len(packge_buffer)
    BY <1>3 DEF ProgramPage
  <2>2. heads = 1
    BY <2>1 DEF SessionInv, Inside, TypeOK, HostOK
  <2>3. Dest # FlagPage
    BY <2>1, <2>2, DestFits
  <2>4. \/ Expose /\ flag' = flag
        \/ UNCHANGED <<flash, flag, exposed>>
    BY <1>3, <2>3 DEF ProgramPage
  <2>5. QED
    BY <1>1, <2>4 DEF Expose, GuardedImage
<1>4. CASE FlagErase
  BY <1>4 DEF FlagErase, GuardedImage, Intact, Programmed
<1>5. CASE FlagWrite
  <2>1. Received /\ flash' = flash
    BY <1>5 DEF FlagWrite, EndInv
  <2>2. Intact'
    BY <2>1 DEF Received, Intact, Programmed
  <2>3. QED
    BY <2>2 DEF GuardedImage
<1>6. CASE AppRequestsUpdate
  BY <1>6 DEF AppRequestsUpdate, GuardedImage
<1>7. CASE \/ BootDecide \/ HandshakeHead \/ HandshakeOther \/ NextFrame \/ NextOther
           \/ RecvFrameError \/ RecvHead \/ RecvNewData \/ RecvDataAgain \/ ErasePageFails
           \/ ProgramEnds \/ FrameDone \/ Fail \/ ConsoleUpdate \/ ConsoleGo \/ ConsoleLock
           \/ PowerLoss \/ UNCHANGED vars
  <2>1. UNCHANGED <<flash, flag, exposed>>
    BY <1>7 DEF BootDecide, HandshakeHead, HandshakeOther, NextFrame, NextOther, RecvFrameError,
                RecvHead, RecvNewData, RecvDataAgain, ErasePageFails, EraseRetry, ProgramEnds,
                FrameDone, Fail, ConsoleUpdate, ConsoleGo, ConsoleLock, PowerLoss, vars,
                nonvolatile
  <2>2. QED
    BY <1>1, <2>1
<1>8. QED
  BY <1>2, <1>3, <1>4, <1>5, <1>6, <1>7 DEF Next, DeviceStep

\* Behind a clean flag the application is the old image or one received
\* whole, unless a session was begun on the key, whatever power loss does.
THEOREM ImageGuarded ==
  ASSUME ImagesFit, FramesFit, FewFaults, MaxHeads = 1
  PROVE  Spec => []GuardedImage
<1>1. Init => GuardedImage
  <2>1. ASSUME Init PROVE \A p \in 0 .. (AppPages - 1) : flash[p] = {Old}
    BY <2>1, ConstantsAssumption DEF Init, Pages, ConstantsAssumption
  <2>2. QED
    BY <2>1 DEF GuardedImage, Intact
<1>2. Init => EndInv
  BY DEF Init, EndInv
<1>3. TypeOK /\ SessionInv /\ EndInv /\ [Next]_vars => EndInv'
  BY EndStep
<1>4. TypeOK /\ SessionInv /\ EndInv /\ GuardedImage /\ [Next]_vars => GuardedImage'
  BY GuardStep
<1>5. QED
  BY <1>1, <1>2, <1>3, <1>4, SessionCorrect, TypeCorrect, PTL DEF Spec
=============================================================================
