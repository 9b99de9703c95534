----------------------------- MODULE BootUpdate -----------------------------
(***************************************************************************)
(* The UC3C serial bootloader: boot decision (bootmain.c), the update      *)
(* protocol and the flash writing it drives (update.c), with power loss    *)
(* between any two flash operations.                                       *)
(*                                                                         *)
(* The unit of data is a block, the content of one flash page.  A flash    *)
(* page holds the set of blocks programmed into it since its last erase:   *)
(* programming can only clear bits, so a page programmed twice holds the   *)
(* AND of two blocks, which is neither of them.  CRCs are modelled without *)
(* collisions: the CRC of a stream is the stream.                          *)
(***************************************************************************)
EXTENDS Integers, Sequences, FiniteSets

CONSTANTS
    Blocks,       \* contents a page of a new image can have
    Old,          \* the content of every page of the image of before
    Fill,         \* what a host that fills up its last frame puts behind the image
    Heads,        \* the head frames the host can send
    AppPages,     \* FLASH_BIN_MAX_SIZE in pages
    ErasedPages,  \* pages update_erase_flash erases (0x40 .. 0x1FE)
    LockPages,    \* pages of the lock region of FLASH_BIN_START_ADDR
    MaxFrame,     \* MAX_PACKGE_DATA_SIZE in pages
    IndexMod,     \* the range of the 8-bit frame index
    EraseAttempts,\* the 5 of update_erase_flash
    MaxFaults,    \* bound: failed erase and program operations of a run
    MaxHeads,     \* bound: head frames of a session
    TraceEn       \* TRACE_EN: are the lock and unlock commands compiled in

\* size is Len(image); crc is the stream bin_crc was computed over; startOk
\* says that bin_start_addr is in the first 256 bytes of FLASH_BIN_START_ADDR;
\* offset is bin_start_addr - bin_begin_addr, both rounded down.
HeadType == [image : Seq(Blocks), crc : Seq(Blocks), offset : Int, startOk : BOOLEAN]

ASSUME ConstantsAssumption ==
    /\ Old \notin Blocks /\ Fill \in Blocks
    /\ Heads \subseteq HeadType
    /\ AppPages \in Nat /\ ErasedPages \in Nat \ {0} /\ ErasedPages <= AppPages
    /\ LockPages \in Nat /\ MaxFrame \in Nat
    /\ IndexMod \in Nat /\ IndexMod > 1
    /\ EraseAttempts \in Nat \ {0}
    /\ MaxFaults \in Nat /\ MaxHeads \in Nat \ {0}
    /\ TraceEn \in BOOLEAN

\* The application's pages and the spare page.  After them comes the page whose
\* last byte is the update flag: FLASH_BIN_MAX_SIZE leaves two pages over.
Pages == 0 .. AppPages

\* Mutant: only the flag's page is left over.
FlagPageEarly == AppPages

FlagPage == AppPages + 1

NoHead == [image |-> <<>>, crc |-> <<>>, offset |-> 0, startOk |-> FALSE]

Size(h) == Len(h.image)

\* The test of packge_head_process.
Legal(h) == h.startOk /\ h.offset >= 0 /\ Size(h) <= AppPages

\* h's image from its start address on is in flash, one block to a page.
Programmed(flash, h) ==
    \A p \in 0 .. (Size(h) - h.offset - 1) : flash[p] = {h.image[p + h.offset + 1]}

ErrCodes == {"0", "1", "2", "3", "4", "5", "6", "7", "8", "9"}

VARIABLES
    \* nonvolatile
    flash,            \* [Pages -> set of blocks programmed since the erase]
    flag,             \* the byte at FW_UPDATE_FLAG_ADDRESS: "set" or "clean"
    locked,           \* the lock bit of the region of FLASH_BIN_START_ADDR
    \* the bootloader
    pc,               \* where boot_main, packge_recv and what it calls are
    g_flash_erased, packge_head, g_err_ch, packge_index, len, bin_crc,
    flash_offset,
    packge_buffer,    \* the data of the frame being processed
    page,             \* loop position of update_erase_flash and flashc_memcpy
    attempts,         \* flash_cmd_attempts
    flash_error,      \* flashc_error_status after flashc_memcpy
    told,             \* the last response sent (ERRn: n is g_err_ch)
    \* the host
    sent,             \* blocks it has sent
    host_index,       \* index of its next data frame
    last,             \* its last data frame
    heads,            \* head frames of this session
    \* the environment
    faults,           \* flash operations that failed
    exposed           \* the application's pages changed while flag was clean

nonvolatile == <<flash, flag, locked>>
session == <<packge_head, packge_index, len, bin_crc, flash_offset>>
loop == <<packge_buffer, page, attempts, flash_error>>
host == <<sent, host_index, last, heads>>
vars == <<nonvolatile, pc, g_flash_erased, g_err_ch, session, loop, told, host,
          faults, exposed>>

NoFrame == [idx |-> 0, data |-> <<>>]

PCs == {"boot", "handshake", "waitHead", "frameH", "frameD", "erase", "program",
        "frameDone", "flagErase", "flagWrite", "fail", "console", "app"}

Init ==
    /\ flash = [p \in Pages |-> IF p < AppPages THEN {Old} ELSE {}]
    /\ flag \in {"set", "clean"}
    /\ locked = FALSE
    /\ pc = "boot"
    /\ g_flash_erased = FALSE
    /\ packge_head = NoHead
    /\ g_err_ch = "0"
    /\ packge_index = 1 /\ len = 0 /\ bin_crc = <<>> /\ flash_offset = 0
    /\ packge_buffer = <<>> /\ page = 0 /\ attempts = 0 /\ flash_error = FALSE
    /\ told = "none"
    /\ sent = 0 /\ host_index = 1 /\ last = NoFrame /\ heads = 0
    /\ faults = 0
    /\ exposed = FALSE

-----------------------------------------------------------------------------
\* The locals of packge_recv on entry, where the host starts its file over,
\* and what is left of them once it has returned.
NewSession ==
    /\ packge_index' = 1 /\ len' = 0 /\ bin_crc' = <<>> /\ flash_offset' = 0
    /\ packge_buffer' = <<>> /\ page' = 0 /\ attempts' = 0 /\ flash_error' = FALSE
    /\ sent' = 0 /\ host_index' = 1 /\ last' = NoFrame /\ heads' = 0

\* boot_main: the update mode is entered for the key or the flag.
BootDecide ==
    /\ pc = "boot"
    /\ \E key \in BOOLEAN :
         IF key \/ flag = "set"
         THEN /\ pc' = "handshake"
              /\ g_err_ch' = "0"
              /\ told' = "U"
              /\ NewSession
         ELSE /\ pc' = "app"
              /\ UNCHANGED <<g_err_ch, told, packge_index, len, bin_crc,
                             flash_offset, loop, host>>
    /\ UNCHANGED <<nonvolatile, g_flash_erased, packge_head, faults, exposed>>

\* update_wait_handshake: 'U' is sent until a character comes.  'H' starts
\* the head frame; anything else ends the session.
HandshakeHead ==
    /\ pc = "handshake"
    /\ pc' = "frameH"
    /\ heads' = heads + 1
    /\ UNCHANGED <<nonvolatile, g_flash_erased, g_err_ch, session, loop, told,
                   sent, host_index, last, faults, exposed>>

HandshakeOther ==
    /\ pc = "handshake"
    /\ g_err_ch' \in {"9", "1"}
    /\ told' = "ERR"
    /\ pc' = "console"
    /\ NewSession
    /\ UNCHANGED <<nonvolatile, g_flash_erased, packge_head, faults, exposed>>

\* update_wait_head_ch, between two frames.
NextFrame ==
    /\ pc = "waitHead"
    /\ \/ pc' = "frameD" /\ UNCHANGED heads
       \/ heads < MaxHeads /\ heads' = heads + 1 /\ pc' = "frameH"
    /\ UNCHANGED <<nonvolatile, g_flash_erased, g_err_ch, session, loop, told,
                   sent, host_index, last, faults, exposed>>

NextOther ==
    /\ pc = "waitHead"
    /\ g_err_ch' \in {"9", "1"}
    /\ pc' = "fail"
    /\ UNCHANGED <<nonvolatile, g_flash_erased, session, loop, told, host, faults,
                   exposed>>

\* packge_recv_frame on a frame cut short in its head (1), too long (8), cut
\* short in its data (2) or with a wrong CRC (3).
RecvFrameError ==
    /\ pc \in {"frameH", "frameD"}
    /\ g_err_ch' \in {"1", "8", "2", "3"}
    /\ pc' = "fail"
    /\ UNCHANGED <<nonvolatile, g_flash_erased, session, loop, told, host, faults,
                   exposed>>

\* A whole head frame.  packge_head is overwritten before it is judged; len
\* and bin_crc keep what they had.
RecvHead ==
    /\ pc = "frameH"
    /\ \E h \in Heads :
         /\ packge_head' = h
         /\ IF Legal(h)
            THEN /\ flash_offset' = h.offset
                 /\ g_flash_erased' = FALSE
                 /\ told' = "OK"
                 /\ g_err_ch' = "1"
                 /\ pc' = "waitHead"
            ELSE /\ g_err_ch' = "7"
                 /\ pc' = "fail"
                 /\ UNCHANGED <<flash_offset, g_flash_erased, told>>
    /\ packge_index' = 1
    /\ sent' = 0 /\ host_index' = 1 /\ last' = NoFrame
    /\ UNCHANGED <<nonvolatile, len, bin_crc, loop, heads, faults, exposed>>

\* What the host sends: its image, and then whatever fills its last frame up.
\* The device takes frames of any length and ends the session with the one that
\* brings bin_size bytes; test_boot.py cuts its last frame to what is left.
Stream(i) == IF i <= Size(packge_head) THEN packge_head.image[i] ELSE Fill

NewFrame(n) == [idx |-> host_index, data |-> [i \in 1 .. n |-> Stream(sent + i)]]

\* The host cuts its file at flash_offset (1024-byte frames divide 0x8000); of a
\* frame across it the device would drop the whole.
MayCut(n) == ~(sent < flash_offset /\ flash_offset < sent + n)

\* packge_recv on a whole data frame f: index check, running CRC, and then
\* the flash (memcpy_toflash, which erases first when g_flash_erased says so)
\* unless len is still below flash_offset.
\* Mutant: the index is not looked at.
AnyIndex(f) == TRUE

IndexOk(f) == f.idx = packge_index

AcceptData(f) ==
    IF ~IndexOk(f)
    THEN /\ g_err_ch' = "4"
         /\ pc' = "fail"
         /\ UNCHANGED <<bin_crc, loop>>
    ELSE /\ bin_crc' = bin_crc \o f.data
         /\ packge_buffer' = f.data
         /\ page' = 0 /\ attempts' = 0 /\ flash_error' = FALSE
         /\ IF len >= flash_offset
            THEN /\ g_err_ch' = "5"
                 /\ pc' = IF g_flash_erased THEN "program" ELSE "erase"
            ELSE /\ g_err_ch' = "4"
                 /\ pc' = "frameDone"

RecvNewData ==
    /\ pc = "frameD"
    /\ \E n \in 0 .. MaxFrame :
         /\ MayCut(n)
         /\ AcceptData(NewFrame(n))
         /\ sent' = sent + n
         /\ host_index' = (host_index + 1) % IndexMod
         /\ last' = NewFrame(n)
    /\ UNCHANGED <<nonvolatile, g_flash_erased, packge_head, packge_index, len,
                   flash_offset, told, heads, faults, exposed>>

RecvDataAgain ==
    /\ pc = "frameD"
    /\ last # NoFrame
    /\ AcceptData(last)
    /\ UNCHANGED <<nonvolatile, g_flash_erased, packge_head, packge_index, len,
                   flash_offset, told, host, faults, exposed>>

-----------------------------------------------------------------------------
\* A page operation has no effect on a page of a locked region.
PageLocked(p) == locked /\ p < LockPages

\* The application's pages change under a clean flag: nothing will tell the
\* next boot.
Expose == exposed' = (exposed \/ flag = "clean")

\* update_erase_flash leaves its loop; memcpy_toflash takes the flash for
\* erased whatever it returned.
EraseEnds ==
    /\ g_flash_erased' = TRUE
    /\ page' = 0
    /\ pc' = "program"

\* Mutants: one page too many, one too few.
LastPageLate == page = ErasedPages
LastPageEarly == page + 2 >= ErasedPages

LastPage == page + 1 = ErasedPages

\* One page of update_erase_flash: flashc_erase_page says whether the page
\* reads as erased.
ErasePage ==
    /\ pc = "erase"
    /\ flash' = IF PageLocked(page) THEN flash ELSE [flash EXCEPT ![page] = {}]
    /\ flash'[page] = {}
    /\ Expose
    /\ IF LastPage
       THEN EraseEnds
       ELSE page' = page + 1 /\ UNCHANGED <<g_flash_erased, pc>>
    /\ UNCHANGED <<flag, locked, g_err_ch, session, packge_buffer, attempts,
                   flash_error, told, host, faults>>

\* The page does not read as erased: wait and try again, five times in all
\* the pages together, and then give up.
\* Mutant: the count starts over at every failure.
CountedOnce == 1

Counted == attempts + 1

EraseRetry ==
    /\ \/ PageLocked(page) /\ flash[page] # {} /\ UNCHANGED faults
       \/ ~PageLocked(page) /\ faults < MaxFaults /\ faults' = faults + 1
    /\ attempts' = Counted
    /\ IF Counted >= EraseAttempts
       THEN EraseEnds
       ELSE UNCHANGED <<page, g_flash_erased, pc>>

ErasePageFails ==
    /\ pc = "erase"
    /\ EraseRetry
    /\ UNCHANGED <<nonvolatile, g_err_ch, session, packge_buffer, flash_error, told,
                   host, exposed>>

\* One page of flashc_memcpy(dest + len - flash_offset, ...).  A locked page
\* or a programming error leaves the page, is remembered, and the loop goes
\* on.  Data written to the flag's page is ANDed into the flag.
\* Mutant: the offset is forgotten.
DestNoOffset == len + page

Dest == len - flash_offset + page

ProgramPage ==
    /\ pc = "program"
    /\ page < Len(packge_buffer)
    /\ \/ /\ ~PageLocked(Dest)
          /\ Expose
          /\ flash' = IF Dest \in Pages
                      THEN [flash EXCEPT ![Dest] = @ \union {packge_buffer[page + 1]}]
                      ELSE flash
          /\ flag' \in IF Dest = FlagPage THEN {flag, "clean"} ELSE {flag}
          /\ UNCHANGED <<flash_error, faults>>
       \/ /\ IF PageLocked(Dest)
             THEN UNCHANGED faults
             ELSE faults < MaxFaults /\ faults' = faults + 1
          /\ flash_error' = TRUE
          /\ UNCHANGED <<flash, flag, exposed>>
    /\ page' = page + 1
    /\ UNCHANGED <<locked, pc, g_flash_erased, g_err_ch, session, packge_buffer,
                   attempts, told, host>>

\* memcpy_toflash returns the size it was given, which is 0 for an empty
\* frame, or 0 after an error.
ProgramEnds ==
    /\ pc = "program"
    /\ page = Len(packge_buffer)
    /\ pc' = IF flash_error \/ packge_buffer = <<>> THEN "fail" ELSE "frameDone"
    /\ UNCHANGED <<nonvolatile, g_flash_erased, g_err_ch, session, loop, told, host,
                   faults, exposed>>

\* Mutant: the CRC is not compared.
AnyCrc == TRUE

CrcOk == bin_crc = packge_head.crc

\* The frame is acknowledged; the frame that completes bin_size bytes ends
\* the transfer with the comparison of the CRCs.
FrameDone ==
    /\ pc = "frameDone"
    /\ len' = len + Len(packge_buffer)
    /\ packge_index' = (packge_index + 1) % IndexMod
    /\ told' = "OK"
    /\ IF len' < Size(packge_head)
       THEN g_err_ch' = "1" /\ pc' = "waitHead"
       ELSE IF CrcOk
            THEN g_err_ch' = "0" /\ pc' = "flagErase"
            ELSE g_err_ch' = "6" /\ pc' = "fail"
    /\ UNCHANGED <<nonvolatile, g_flash_erased, packge_head, bin_crc, flash_offset,
                   loop, host, faults, exposed>>

\* update_clean_flag: the page of the flag is erased, so that the flag reads
\* 0xFF, which is a set flag, and then the 0 is written.  Nobody looks whether
\* either worked.
FlagErase ==
    /\ pc = "flagErase"
    /\ \/ flag' = "set" /\ UNCHANGED faults
       \/ faults < MaxFaults /\ faults' = faults + 1 /\ UNCHANGED flag
    /\ pc' = "flagWrite"
    /\ UNCHANGED <<flash, locked, g_flash_erased, g_err_ch, session, loop, told, host,
                   exposed>>

\* The transfer is over, and the host hears of it.
FlagWrite ==
    /\ pc = "flagWrite"
    /\ \/ flag' = "clean" /\ UNCHANGED faults
       \/ faults < MaxFaults /\ faults' = faults + 1 /\ UNCHANGED flag
    /\ exposed' = FALSE
    /\ told' = "END"
    /\ pc' = "console"
    /\ NewSession
    /\ UNCHANGED <<flash, locked, g_flash_erased, packge_head, g_err_ch>>

\* The one exit of packge_recv after an error.
Fail ==
    /\ pc = "fail"
    /\ told' = "ERR"
    /\ pc' = "console"
    /\ NewSession
    /\ UNCHANGED <<nonvolatile, g_flash_erased, packge_head, g_err_ch, faults,
                   exposed>>

-----------------------------------------------------------------------------
\* update_console: 'a' starts another session, 'g' starts the application,
\* 'v' and 'x' (TRACE_EN builds) lock and unlock the first region.
ConsoleUpdate ==
    /\ pc = "console"
    /\ pc' = "handshake"
    /\ g_err_ch' = "0"
    /\ told' = "U"
    /\ NewSession
    /\ UNCHANGED <<nonvolatile, g_flash_erased, packge_head, faults, exposed>>

ConsoleGo ==
    /\ pc = "console"
    /\ told' = "OK"
    /\ pc' = "app"
    /\ UNCHANGED <<nonvolatile, g_flash_erased, g_err_ch, session, loop, host,
                   faults, exposed>>

ConsoleLock ==
    /\ pc = "console"
    /\ TraceEn
    /\ \E lock \in BOOLEAN :
         /\ locked' = lock
         /\ told' = IF lock THEN "ERR" ELSE "OK"
    /\ UNCHANGED <<flash, flag, pc, g_flash_erased, g_err_ch, session, loop, host,
                   faults, exposed>>

\* RAM after a reset.
Reset ==
    /\ pc' = "boot"
    /\ g_flash_erased' = FALSE
    /\ packge_head' = NoHead
    /\ g_err_ch' = "0"
    /\ told' = "none"
    /\ NewSession

\* The application asks for an update: update_set_flag, and a reset.
AppRequestsUpdate ==
    /\ pc = "app"
    /\ flag' = "set"
    /\ Reset
    /\ UNCHANGED <<flash, locked, faults, exposed>>

\* Power loss at any point: RAM is lost, flash and its lock bits stay.
PowerLoss ==
    /\ pc # "boot"
    /\ Reset
    /\ UNCHANGED <<nonvolatile, faults, exposed>>

\* What the bootloader does on its own once it has characters or a time-out.
DeviceStep ==
    \/ RecvFrameError \/ RecvHead \/ RecvNewData \/ RecvDataAgain
    \/ ErasePage \/ ErasePageFails \/ ProgramPage \/ ProgramEnds
    \/ FrameDone \/ FlagErase \/ FlagWrite \/ Fail

Next ==
    \/ BootDecide
    \/ HandshakeHead \/ HandshakeOther
    \/ NextFrame \/ NextOther
    \/ DeviceStep
    \/ ConsoleUpdate \/ ConsoleGo \/ ConsoleLock
    \/ AppRequestsUpdate
    \/ PowerLoss

\* The device never rests inside a frame: port_inbyte and the erase loop are
\* bounded.
Fairness == WF_vars(DeviceStep)

Spec == Init /\ [][Next]_vars /\ Fairness

-----------------------------------------------------------------------------
SwitchesOK ==
    /\ locked \in BOOLEAN
    /\ g_flash_erased \in BOOLEAN
    /\ flash_error \in BOOLEAN
    /\ exposed \in BOOLEAN

FlashOK ==
    /\ flash \in [Pages -> SUBSET (Blocks \union {Old})]
    /\ flag \in {"set", "clean"}
    /\ faults \in 0 .. MaxFaults

SessionOK ==
    /\ pc \in PCs
    /\ packge_head \in HeadType
    /\ g_err_ch \in ErrCodes
    /\ packge_index \in 0 .. (IndexMod - 1)
    /\ len \in Nat
    /\ bin_crc \in Seq(Blocks)
    /\ flash_offset \in Nat
    /\ packge_buffer \in Seq(Blocks)
    /\ page \in Nat
    /\ pc = "erase" => page < ErasedPages
    /\ attempts \in Nat
    /\ told \in {"none", "U", "OK", "END", "ERR"}

HostOK ==
    /\ sent \in Nat
    /\ host_index \in 0 .. (IndexMod - 1)
    /\ last \in [idx : 0 .. (IndexMod - 1), data : Seq(Blocks)]
    /\ heads \in 0 .. MaxHeads
    /\ pc = "handshake" => heads = 0

TypeOK == SwitchesOK /\ FlashOK /\ SessionOK /\ HostOK

\* When the bootloader answers END, every page of the image from its start
\* address on holds exactly its block (packge_recv, update.c:501-510): neither
\* bits of the old image nor a block of another page are left in it.
EndMeansProgrammed == told = "END" => Programmed(flash, packge_head)

\* Between two frames of a session that had one head frame, every block
\* acknowledged so far and not below flash_offset is in flash (update.c:480-500).
AckedDataIsInFlash ==
    pc = "waitHead" /\ heads = 1 =>
        \A p \in 0 .. (len - flash_offset - 1) :
            flash[p] = {packge_head.image[p + flash_offset + 1]}

\* Why: in a session with one head frame the two sides are in step, and in
\* flash the pages below the one reached hold the image and those above it are
\* erased.  A session that finds the first region locked gets no frame
\* acknowledged (packge_recv and memcpy_toflash, update.c:130-158, 440-500).
Between == {"waitHead", "frameD"}
Inside == {"erase", "program", "frameDone"}

InStep ==
    /\ packge_head \in Heads /\ Legal(packge_head)
    /\ flash_offset = packge_head.offset
    /\ len <= Size(packge_head)
    /\ Len(bin_crc) = sent /\ \A i \in 1 .. sent : bin_crc[i] = Stream(i)
    /\ pc \in Between =>
         /\ sent = len /\ host_index = packge_index
         /\ last = NoFrame \/ last.idx # packge_index
    /\ pc \in Inside =>
         /\ sent = len + Len(packge_buffer) /\ Len(packge_buffer) <= MaxFrame
         /\ \A i \in 1 .. Len(packge_buffer) : packge_buffer[i] = Stream(len + i)
         /\ ~(len < flash_offset /\ flash_offset < sent)
         /\ host_index = (packge_index + 1) % IndexMod /\ last.idx = packge_index

Blocked == locked /\ LockPages > 0

WrittenTo(n) ==
    \A p \in 0 .. (ErasedPages - 1) :
        flash[p] = IF p < n THEN {Stream(p + flash_offset + 1)} ELSE {}

InFlash ==
    /\ pc \in Between \union {"frameDone"} =>
         \/ sent <= flash_offset /\ ~g_flash_erased
         \/ sent > flash_offset /\ g_flash_erased /\ ~Blocked /\ WrittenTo(sent - flash_offset)
    /\ pc = "erase" =>
         /\ len = flash_offset
         /\ Blocked \/ (attempts <= faults /\ \A p \in 0 .. (page - 1) : flash[p] = {})
    /\ pc = "program" =>
         /\ g_flash_erased /\ len >= flash_offset /\ page <= Len(packge_buffer)
         /\ \/ flash_error
            \/ Blocked /\ page = 0 /\ len = flash_offset
            \/ ~Blocked /\ WrittenTo(len - flash_offset + page)

SessionInv ==
    /\ pc \in Between \union Inside \union {"frameH"} => heads > 0
    /\ pc = "handshake" \/ (pc = "frameH" /\ heads = 1) => len = 0 /\ bin_crc = <<>>
    /\ pc \in Between \union Inside /\ heads = 1 => InStep /\ InFlash

\* The CRC is that of a stream that begins with the image.
Checked(h) == Size(h) <= Len(h.crc) /\ SubSeq(h.crc, 1, Size(h)) = h.image

\* With a clean flag and no session begun on the key, what boot() will jump to
\* is the old image or one that was received whole (boot_main, bootmain.c:124):
\* the flag guards every interrupted update.
Intact ==
    \/ \A p \in 0 .. (AppPages - 1) : flash[p] = {Old}
    \/ \E h \in Heads : Legal(h) /\ Checked(h) /\ Programmed(flash, h)

GuardedImage == flag = "clean" /\ ~exposed => Intact

\* Every frame the host sends is answered, by OK, ERRn or END, unless power is
\* lost: the device is back waiting or in the console (update.c:440-578).
FrameAnswered ==
    pc \in {"frameH", "frameD", "erase", "program", "frameDone", "flagErase",
            "flagWrite", "fail"}
      ~> pc \in {"waitHead", "console", "boot"}
=============================================================================
