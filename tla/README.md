# asm3u: models, model checks and proofs

TLA+ models of the programs of this repository, TLC configurations that check
them on small instances, and theorems about them that TLAPS checks. The source
is the reference; every definition that models code is tied to the lines it
models in `PROJECT.json` ("map").

1. [The system](#1-the-system)
2. [The plan](#2-the-plan)
3. [BootUpdate](#3-bootupdate-the-serial-bootloader)
4. [UdiCdcRx and UdiCdcTx](#4-udicdcrx-and-udicdctx-the-cdc-data-pipes)
5. [Xmodem](#5-xmodem-a-file-into-flash)
6. [MassStorage](#6-massstorage-a-disk-over-bulk-endpoints)
7. [UsbControl](#7-usbcontrol-control-transfers)
8. [The runs](#8-the-runs)
9. [The proofs](#9-the-proofs)
10. [What disagrees with its documentation](#10-what-disagrees-with-its-documentation)
11. [What is not modelled](#11-what-is-not-modelled)

## 1. The system

The repository holds six firmware projects for Atmel microcontrollers. Each is
a small program of its own on top of a copy of the Atmel Software Framework
(ASF); the copies differ where the projects changed them.

| project | program | its own logic |
|---|---|---|
| `bootloader_uc3c` | serial bootloader of an AVR32 UC3C | `update.c`, `bootmain.c`, `crc16.c`; host scripts in `test/` |
| `FLASH_PROGRAM_EXAMPLE1` | flash programming over XMODEM (SAM3U) | `xmodem/xmodem.c`, `xmodem/upgrade.c`, `flash_program_example.c`, the `flash_efc` service |
| `DEVICE_EXAMPLE1` | USB CDC device (SAM3U): console, XMODEM over USB | `main.c`, `uart_sam.c` (printk), `xmodem/xmodem.c`, a changed `udi_cdc.c` (N receive buffers) |
| `EXAMPLE_CDC_MSC1` | USB composite device: UART bridge and RAM disk | `main.c`, `uart_sam.c`, `udi_cdc.c`, `udi_msc.c`, `ctrl_access.c`, `virtual_mem.c` |
| `DEVICE_EXAMPLE2` | USB mass storage on SD cards and NAND | `udi_msc.c`, `ctrl_access.c`, `sd_mmc.c`, `sd_mmc_mem.c`, `hsmci.c` |
| `ADC_ADC_EXAMPLE1` | ADC demonstration | `adc_example.c` |

### Components, their state, operations and correctness

**UC3C bootloader** (`update.c`, `bootmain.c`).
State: the flash of the application, the update flag in the last byte of flash,
the lock bit of the first region; in RAM `g_flash_erased`, `packge_head`,
`packge_buffer`, `g_err_ch`, and the locals of `packge_recv`. Operations: the
decision of `boot_main` (key or flag), the handshake, head and data frames with
CRC, index and time-outs, the page erases and programming they cause, the end
of a transfer that clears the flag, the console. It talks to the host over a
serial line and to the flash controller. Hard: power loss between any two page
operations, failing or locked pages, frames repeated by a host that missed an
answer, a second head frame in a session. Correct when: END is said only of a
flash that holds the image; data acknowledged are in flash; an interrupted
update is never started at the next boot; every frame is answered.

**CDC data interface** (`udi_cdc.c`). State: a ring of receive buffers
(`udi_cdc_rx_buf`, `_nb`, `_sel`, `rx_pos`, `rx_trans_ongoing`), two transmit
buffers (`tx_buf`, `_nb`, `_sel`, `tx_trans_ongoing`, `tx_both_buf_to_send`,
`tx_sof_num`), `data_running`. Operations: `udi_cdc_data_enable` and `_disable`,
the callbacks `udi_cdc_data_received` and `udi_cdc_data_sent`, the start of frame
notification, and the application's `getc`, `read_buf`, `putc`, `write_buf`.
It calls `udd_ep_run` and is called back by the USB interrupt; the application
is either below that interrupt (`DEVICE_EXAMPLE1`'s main loop) or above it
(`EXAMPLE_CDC_MSC1`'s USART interrupt). Hard: the two interleave between short
critical sections. Correct when each direction is a byte stream and nothing
waits in a buffer for ever.

**CDC control interface** (`udi_cdc.c`, first half). State: line coding, the
count of enabled data interfaces, the serial-state message and whether it changed
during a transfer. Operations: the class requests and the enabling of the
interface, which opens and configures the UART. Correct when the UART works with
the line coding that GET_LINE_CODING reports; 9-bit characters must not make
`getc` or `putc` wait in an interrupt for another one of lower priority.

**UART side** (`uart_sam.c`). In `EXAMPLE_CDC_MSC1` a bridge between USART and
CDC whose interrupt handler disables itself when there is nothing to send and is
enabled by `UDI_CDC_RX_NOTIFY`. In `DEVICE_EXAMPLE1` the `printk` ring: a
buffer, a head, a tail and a masked `count` shared with the transmit interrupt.
Correct when no text is lost or printed twice, and a full ring is not taken for
an empty one.

**XMODEM** (`xmodem.c`, twice, and `upgrade.c`). State: the packet number, retry
counters, the flash buffer and its fill. Messages: SOH/STX packets, EOT, CAN,
ACK, NAK, `C`, over a line that can lose, repeat and cut them. Correct when what
is acknowledged is what ends up in flash, once and in order, and both sides
stop.

**Embedded flash controller** (`flash_efc.c`, `efc.c`). A page buffer and a
sequence of erase, write and lock commands; correct when a write that crosses
pages changes exactly the bytes it names.

**USB device controller and driver** (`udc.c`, `udphs_device.c`). State: address,
configuration and enabled interfaces; the phase of the control endpoint, its
payload and its callback; the hardware's flags of that endpoint, which several
events set before the one interrupt serves them; one job per bulk endpoint.
Operations: `udd_ctrl_interrupt` with a handler per event, the decoding of a
request, `udd_ep_run`, `udd_ep_set_halt`, `udd_ep_wait_stall_clear`,
`udd_ep_abort`. Hard: the host gives a request up and begins the next one while
events of the first are unserved. Correct when a supported request is never
stalled, host and device agree on address and configuration, and every request
ends.

**Mass storage** (`udi_msc.c`, `ctrl_access.c`, `virtual_mem.c`, `sd_mmc_mem.c`).
State: the CBW and CSW with its residue, sense data, and the flags by which the USB
interrupt and the main loop pass a transfer to each other. Operations: every SCSI
command (in the interrupt), the transfer of sectors through two buffers (in the
main loop), the stalls of either endpoint, the reset of the class. It sits on two
endpoints of the driver and on the card. Hard: main loop and interrupt share the
CSW, the flags and the endpoints; the host stalls, clears and resets at its own
pace. Correct when it is a block device: every command has its one status, with the
residue that was not moved, and a change of card is told before anything passes.

**SD/MMC stack** (`sd_mmc.c`, `hsmci.c`). State: per slot the card's state and
version and the debounce, and the open transfer with its remaining blocks.
Operations: selection and initialisation of a slot, the opening of a transfer and
its blocks. Correct when a removed card is noticed and no transfer is continued on
another one.

**The rest**: ADC example, NAND translation layer (a binary library), trace,
clock, GPIO, board and register code.

`PROJECT.json` lists every component with its status, and every hazard at the
line where it bites with the properties that cover it or the reason none does.

## 2. The plan

Most important first: the bootloader can make a device unusable, and every
other project moves its data through the CDC pipes.

| | module | models | abstract specification | state |
|---|---|---|---|---|
| 1 | `BootUpdate` | bootloader, update protocol, flash, power loss | | done |
| 2 | `UdiCdcRx`, `UdiCdcTx` | the two CDC pipes with their callers and endpoint | `ByteStream` | done |
| 3 | `Xmodem` | receiver and flash buffer, sender, lossy line | the receiver's flash is a prefix of the file | done |
| 4 | `UdiMsc` (on `SdMmc` and `UddEndpoint`), `MassStorage` | bulk-only transport on the card's stack and the endpoint driver, composed with a host | `BlockDevice` | done |
| 5 | `Udc`, `UddControl`, `UsbControl` | the device controller, the control endpoint below it, composed with a host | | done |
| 6 | `Printk` | the printk ring and its interrupt | `ByteStream` | not done |
| 7 | `FlashEfc` | page buffer arithmetic | an array write | not done |

How they are composed: `UdiMsc` extends `SdMmc` (the card) and `UddEndpoint` (a
bulk endpoint as a record, with the driver's functions as operators on it), and
`MassStorage` adds the host. `UddControl` extends `Udc` (a device as a record, a
request as a function of it), and `UsbControl` adds the host. `MC...` modules give
the values that a configuration file cannot state.

`Printk` would show two faults that are plain on the page (a masked count takes a
full ring for an empty one; `count++` and `count--` are not atomic towards each
other) and they are listed as hazards. `FlashEfc` is the identity in the one way it
is used: `memcpy_toflash` writes whole aligned pages.

Theorems. Proved: type correctness of `BootUpdate`, both CDC pipes and `Xmodem`;
that the bootloader's acknowledged data are in flash, that END means a programmed
image and that the flag guards it; the invariants of both CDC pipes with two buffers,
that they never overwrite what is unread or unsent, and that they implement
`ByteStream`; the protocol of the mass storage interface, where its sectors are, and
that it implements `BlockDevice`; every safety property of `UsbControl` and of
`Xmodem`, each from an inductive invariant `InStep`. With that every safety property
that a passing run checks is a theorem, for `BootUpdate` in sessions of one head
frame. Next: sessions of two head frames with images that differ in every page.

No module that a theorem is about declares a RECURSIVE operator.

## 3. BootUpdate: the serial bootloader

**State.** `flash` maps each page to the *set* of blocks programmed into it since
its erase. Programming can only clear bits, so a page programmed twice holds
the AND of two blocks and equals neither: `flash[p] = {b}` says that page `p`
reads back as block `b`. `flag` is the byte at `FW_UPDATE_FLAG_ADDRESS`
("clean" is 0; everything else, 0xFF included, is set). The page of the flag
lies above `Pages`; data that run over into it are ANDed into the flag, which
they can only clear. `pc` says where `boot_main`, `packge_recv` and the
functions they call are: the page loops of `update_erase_flash` and
`flashc_memcpy` are a step per page, since power can fail between two pages.
The other variables have the names of the code's.

**Actions.** One per frame, page operation, answer and console command:

| action | code |
|---|---|
| `BootDecide` | `boot_main` |
| `HandshakeHead`, `HandshakeOther` | `update_wait_handshake` |
| `NextFrame`, `NextOther` | `update_wait_head_ch` |
| `RecvFrameError` | the error returns of `packge_recv_frame` |
| `RecvHead` | `packge_recv` on a head frame, `packge_head_process` |
| `RecvNewData`, `RecvDataAgain` | `packge_recv` on a data frame: new, or repeated |
| `ErasePage`, `ErasePageFails` | the loop of `update_erase_flash` |
| `ProgramPage`, `ProgramEnds` | `memcpy_toflash`, the loop of `flashc_memcpy` |
| `FrameDone` | the acknowledgement, the end of the image, the CRC |
| `FlagErase`, `FlagWrite` | `update_clean_flag` |
| `Fail` | the error exit of `packge_recv` |
| `ConsoleUpdate`, `ConsoleGo`, `ConsoleLock` | `update_console` |
| `AppRequestsUpdate` | `update_set_flag` and a reset |
| `PowerLoss` | any point |

**Environment.** The host (`test_boot.py`, `packge.py`) sends frames of 0 to
`MaxFrame` blocks in order, or repeats its last one, or a second head; its errors and
its silence are `RecvFrameError` and `NextOther`. The device takes frames of any
length up to `MAX_PACKGE_DATA_SIZE` and programs them before it compares `len` with
`bin_size`, so the last one may run past the end of the image. What it brings there is
`Fill` (`Stream`): it is programmed behind the image and counts for the CRC, so that
the session ends well only if the head's CRC covers it too. `test_boot.py` cuts its last
frame to what is left; another host may fill it up. A flash operation fails at most
`MaxFaults` times. A page operation is atomic under power loss. CRCs do not collide: the
CRC of a stream is the stream. The host cuts its file at `flash_offset` (`MayCut`: its
1024-byte frames divide 0x8000); the device would drop a frame across it.
`update_clean_flag` and `update_set_flag` also erase the controller's user page;
what an application keeps there is not modelled.

**Ghost.** `exposed` says that the application's pages were changed while the flag
was clean, which happens in an update begun with the key (or from the console)
on a clean flag: nothing tells the next boot of it, so `GuardedImage` speaks of
the other histories. The run shows that these are the only exception.

**Properties.** `EndMeansProgrammed`, `AckedDataIsInFlash`, `GuardedImage`;
`SessionInv`, the inductive invariant behind them; `FrameAnswered` (liveness).

**Fairness.** `WF_vars(DeviceStep)`: inside a frame the device always goes on,
because `port_inbyte` times out and the erase loop stops after five failures in
all. Nothing is assumed of the host, the console or the application.

## 4. UdiCdcRx and UdiCdcTx: the CDC data pipes

**Two activities.** `usb` and `app` are the program counters of the USB interrupt
and of the application's call. A section between `cpu_irq_save` and
`cpu_irq_restore` is one step; outside of them one assignment to shared state is
one step. `high` names the one that preempts the other: with `high = "usb"` the
application moves only while the interrupt is idle (main loop), with
`high = "app"` the interrupt handler moves only while the application is idle
(USART interrupt above USB). Both orders occur in the repository and each run
has both.

**Bytes** are their numbers in the writer's stream: `sent` and `got` (receive), `put`
and `got` (transmit) count them, and `got` becomes -1 at the first byte out of
order. So `ByteStream` is refined by
`written <- sent, delivered <- got, up <- data_running /\ ep_on` (receive) and
`written <- put, delivered <- got, up <- data_running` (transmit), and a
duplicated, lost, reordered or stale byte is a step `ByteStream` does not have.

**Endpoint.** `job` is the buffer handed to `udd_ep_run`, which refuses a busy, a
disabled or a halted endpoint; the host may halt it at any time, with a transfer or
without one. A receive job ends with any number of bytes (0 runs it
again), a transmit job with all of them; a bus reset or a halt aborts it, and the
callbacks return without touching `trans_ongoing`, as in the code. Abort by halt
sets the ghost `aborted`: the pipe then stands still until the next enabling,
which is what the code does, and the liveness properties exclude it.

**Tear.** `Tear = FALSE` keeps a call of the application and `udi_cdc_data_enable`
apart. It holds in neither project strictly: with `Tear = TRUE` a bus reset can
interrupt the main loop's `getc`, and the USART interrupt, once `uart_open` has
enabled it, can interrupt `udi_cdc_data_enable`. The run `cdc_rx_tear` shows what
follows from it; the other runs show that the rest is right.

**RxBufs.** 2 is the original ASF double buffer of `EXAMPLE_CDC_MSC1`, and 9 the
ring of `DEVICE_EXAMPLE1` (`RX_BUFF_NUM_MAX + 1`). With nine,
`udi_cdc_data_received` counts another buffer than the one that was filled: run
`cdc_rx_nine`.

**Transmit.** `tx_sof_num` 0 means both "no wait" and frame 0, as in the code; the
frame number wraps at `FrameMod`. `sof_zlp_counter` waits `ZlpLimit` calls before
an empty transfer. `EnableRunning` sets `data_running`, which in the code follows
the start of the receive side; that start cannot fail right after the endpoints
were allocated.

**Fairness.** Receive: `WF_vars(UsbSteps)` and `WF_vars(AppSteps)`, an interrupt
handler that has begun ends, and the application keeps reading. Transmit:
`WF_vars(UsbSteps)`, `WF_vars(AppWrites)` (a call that found space ends), and
`SF_vars(Sof)`, `SF_vars(Sent)`: frames start, and the host takes what it is
sent. They are strong because the interrupt is idle again and again rather than
for ever: application and interrupt alternate. Nothing is assumed of how often
the application writes or the interface is enabled.

**Properties.** `RingInv` and `NoOverwrite` (receive), `TxInv`, `SpaceStays` and
`NoWriteToSending` (transmit), `InOrder` (both: `ByteStream` as a refinement),
`AllRead` and `AllSent` (liveness).

## 5. Xmodem: a file into flash

**Sides.** The receiver is `xmodemReceive` of `FLASH_PROGRAM_EXAMPLE1`, which writes
what it takes into flash, page by page. Its peer in the field is a terminal
program. The sender is the repository's own `xmodemTransmit`: the two copies of
`xmodem.c` have the same text, compiled in `DEVICE_EXAMPLE1` (packets of 1024
bytes, STX) and compiled out in `FLASH_PROGRAM_EXAMPLE1` (128 bytes, SOH, the size
this receiver takes). Nothing in the protocol depends on the size, and the model
has one packet size. The receiver of `DEVICE_EXAMPLE1` goes through the same steps
but stores nothing, and its sender has the copy of the file into the packet commented
out (`xmodem.c:352`): the data of the model's packets are those of the text that
`FLASH_PROGRAM_EXAMPLE1` has.

**State.** The locals of both functions under their names. `len` and `s_len` count
blocks, a block being the data of one packet and half a flash page; `page_buf` is
the receiver's buffer of two blocks, and `flash` what was written. A flash write
may fail at most `MaxFaults` times; `failed` is the ghost that remembers the pages
concerned, since the code does not look at the result. `said` is the receiver's
last answer to a packet.

| action | code |
|---|---|
| `RTry`, `RTryNak`, `RGiveUp` | the loop of 16 tries, the change from `C` to NAK, CAN CAN CAN |
| `RTimeout`, `RIgnore`, `RCancel` | a time-out of `port_inbyte`, a character of no meaning, CAN CAN |
| `REot`, `RFinal` | EOT, and after its ACK the write of the half page left |
| `RTake` | the packet expected: stored, written when the page is full, acknowledged |
| `RRepeated` | the packet before it: acknowledged, or CAN after `MAXRETRANS` |
| `RReject` | any other packet; one with a CRC that is read for a checksum leaves its last character on the line |
| `SStart`, `SBegin`, `SAwaitMore` | the call, the start of the transfer, waiting for it |
| `SSend`, or `SBreak` and `SRest` | a packet, written in one go or with a pause in the middle |
| `SAcked`, `SResend`, `SCancel` | its answers |
| `SConfirm`, `SGiveUp` | the last character to a receiver that cancels; CAN CAN CAN when the tries are used up |
| `SEot`, `SDone`, `SEotAgain` | the EOT loop |

**Line.** A message sent may be lost or damaged. A damaged packet has a wrong
character (`"bad"`) or has lost its first one (`"headless"`): the receiver then reads
its other characters one by one, and each can be EOT, CAN or anything. `flushinput`
eats one character if one is there; it can make the next packet headless, and it
never empties the line. A time-out may happen although the answer is under way, so
late and superfluous answers are the normal case. `port_inbyte` returns an
uninitialised variable after a time-out; the EOT loop of the sender compares it with
ACK, so `SDone` may happen without an answer. Checksums do not collide.

**Fairness.** `WF_vars(RSteps)`: every wait of the receiver's `port_inbyte` ends, and
its writes go to a UART. `WF_vars(SWaits)`: so do the sender's waits. Nothing is assumed
of the sender's writes (`SWrites`): `port_outbyte` of `DEVICE_EXAMPLE1`
(`xmodem.c:43-58`) spins until the host has read what is before the character, for
ever if it does not. Nor of the call of `xmodemTransmit`: the receiver must return
without a sender, and with one that stops in the middle of a packet.

**Properties.** `FlashIsPrefix`: the flash is the beginning of the file, block by
block, whatever is repeated or late. `InStep` is the inductive invariant behind it
(section 9). `DuplicateAckedUnlessWrapped`: the receiver's step that reads a repeated
packet does not refuse it, unless the number has wrapped to 0. `Terminates`: the
receiver returns; the sender returns, or stays in one write for ever. Two more
are refuted: `DuplicateAcked` and `SuccessMeansReceived`.

## 6. MassStorage: a disk over bulk endpoints

`udi_msc.c` of `DEVICE_EXAMPLE2` between a host and an SD card, with the bulk
endpoints of `udphs_device.c` below it and `sd_mmc_mem.c` and `sd_mmc.c` behind it.

**Activities.** The USB interrupt, the main loop (`udi_msc_process_trans`), the host,
and whoever moves the card. An interrupt is one step. The main loop takes a step for
every statement that touches what it shares; `task` is its position (`pc`), the
transfer (`read`, `a`, `n`, `k` steps to go) and the status. Two steps stand for two
statements each: `TransBegin` (`udi_msc.c:1044-1045`) and the look at
`udi_msc_b_reset_trans` with the sense and stall behind it in `TransStatus`. The only
interrupt that can come between them and matters is a bus reset, and it leaves the same
state as one that comes behind both.

| module | state | code |
|---|---|---|
| `UddEndpoint` | job, stall and filled banks of an endpoint | `udd_ep_run`, `_set_halt`, `_is_halted`, `_wait_stall_clear`, `_clear_halt`, `_abort` |
| `SdMmc` | the card in the slot, what the stack believes of it, eject, blocks remaining | `sd_mmc_select_slot`, `sd_mmc_check`, `sd_mmc_test_unit_ready`, the block functions |
| `UdiMsc` | CBW, CSW, sense, five flags, two endpoints, main loop, sector buffers | `udi_msc.c`, the pipelines of `sd_mmc_mem.c` |
| `MassStorage` | the host and the card it knows of | none: the bulk-only transport's host |

| action | code |
|---|---|
| `CbwReceived` | `udi_msc_cbw_received`: a disjunct per command (`InvalidCbw`, `UnitReady`, `Information`, `ReadCapacity`, `StartStop`, `NoData`, `Transfer`) |
| `DataSent`, `CswSent`, `BlockSent`, `BlockReceived` | the callbacks at the end of a transfer |
| `StallWhenSent` | the stall that waited for the banks (`udd_ep_interrupt`) |
| `ClearHaltIn`, `ClearHaltOut` | CLEAR_FEATURE, with the callback that waited for it |
| `BulkReset`, `BusReset`, `Configure` | `udi_msc_setup`, `_disable`, `_enable` |
| `TransSeen`, `TransBegin`, `TransOpen` | `udi_msc_process_trans` up to the open transfer |
| `CardStarts`, `CardEnds`, `BlockStarts`, `BlockAcked`, `BlockFails` | a step of the pipeline: a sector between card and one buffer, a sector between bus and the other |
| `TransStatus`, `TransSend`, `TransReset` | `udi_msc_csw_process` in the main loop: the stall, then the CSW; or neither after a reset |

**Data.** Lengths are in units: a sector is one full packet and 2 units, the
data of an information command a short packet of 1. The status byte of the CSW is
"pass" exactly when the sense is "none", as the functions that write both do. A
buffer under transfer holds `Junk`, so that a sector that is sent or stored too early
is seen. What nobody reads between two commands (wrappers, sector buffers, the count
of remaining blocks: the assertion on it is compiled out) is dropped there.
Transfers of no sector, an allocation length of 0 and another logical unit than the
only one are left out, and the write protection is that of this board (none). A host
asks only for sectors that the card has, as READ CAPACITY told it
(`SectorsAssumption`): the code passes any address on, and what a card does about one
beyond its end is the card's.

**Environment.** The host follows the bulk-only transport: it clears the stall of a
data phase, asks a second time for a stalled status, and otherwise performs a reset
recovery; it may reset the bus at any moment. `EnumerationIsSlow`: between a bus
reset and the next SET_CONFIGURATION the main loop has left its transfer. A card may
be removed, and any card inserted, at any moment; `live` is the card that was
initialised since it was inserted. The end of the debounce and the success of an
initialisation are choices. OUT packets are taken by an armed transfer only, and
`udd_ep_wait_stall_clear` is one step.

**Properties.** `PhasesAgree`: the host never takes a status for data, nor the device
a sector for a command, in any of the thirteen cases of what host and device expect
of each other. `InvalidHolds`: an invalid CBW stalls both endpoints whatever is
cleared, until the reset of the class. `ReadyForNext`: after a command nothing is
left of it. `ResidueExact`: the residue of a status is what was not moved on the bus.
`Transport` is behind these four and is proved inductive (section 9): it names, for
every stage of the host, the places the device can be in, and what is then on the
endpoints. `InCustody` is its counterpart for the contents: in every place of the
pipeline the two buffers, the banks, the host and the card hold exactly the sectors of
the command, and no status passes before all of them have moved. `IsBlockDevice`: `BlockDevice` with
`disk <- media, known <- hostCard, req <- host.cmd, answer <- host.answer`; a lost,
repeated or misplaced sector, a pass that is none and a change of card that is not
told are steps it does not have. `Answered` (liveness).

**Fairness.** `WF` of the interrupts, of the main loop (it polls) and of
`HostProceeds`: a host that has begun a command goes on with it. Nothing is assumed of
commands, resets and cards.

## 7. UsbControl: control transfers

The control endpoint of `DEVICE_EXAMPLE1`: `udd_ctrl_interrupt` and the functions it
calls (`udphs_device.c`), the requests of `udc.c` and `udi_cdc.c`, and a host.

| module | state | code |
|---|---|---|
| `Udc` | address, configuration, interfaces, line coding, UART | `udc.c`; the setup, enable and disable functions of `udi_cdc.c`; `uart_sam.c` |
| `UddControl` | `ep0`: the flags and banks of the hardware; `ctl`: state, payload, counters and callback of the request | `udd_ctrl_*` |
| `UsbControl` | the host and what it knows of the device | none |

| action | code |
|---|---|
| `SetupReceived` | `udd_ctrl_setup_received`, `udc_process_setup`, the first packet |
| `InSent` | `udd_ctrl_in_sent`: the next packet, the empty one that ends the data, the end of the request |
| `OutReceived` | `udd_ctrl_out_received` |
| `Overflow`, `Underflow` | `udd_ctrl_overflow`, `udd_ctrl_underflow`: a token was refused |
| `BusResetEnds` | the end of reset in `udd_interrupt`, `udc_reset` |

**Interrupt and hardware.** The interrupt is one step and serves one event, in the
order of `udd_ctrl_interrupt`. Between two of them hardware and host go on: a SETUP
packet is always taken, ends a forced stall and kills the IN packet that waits;
refused tokens raise a NAK flag; so several events are pending at once, of several
requests. Lengths are in half packets (`Full` = 2). What the next request sets before
it reads it (the last request, payload, counters) is dropped when a request is over.
The only request with OUT data that the device accepts has one packet, so
the branch for more is not reached and not modelled. A request to an interface is refused
when the interface does not exist, and one of the class when it names the data
interface (`Reaches`). A SETUP packet that has not eight bytes is stalled before it is
decoded, like an operation the device does not know, and is not told apart from one. `RequestsAssumption` states what
of a request the specification fixes: the direction of the operations that have a
direction, a `wLength` of 0 where there is no data phase, one packet for
SET_LINE_CODING, 7 bits for an address, and a longest `wLength`. `udi_cdc_rx_start` is taken to
succeed on freshly allocated endpoints (see `UdiCdcRx` for it).

**Host.** It may end the data of a read early and reset the bus at any time. At most
`MaxFaults` times it gives up a request for the next one, or goes wrong about its data
(skips the data it announced, sends more, asks for more). A SET_ADDRESS given up
leaves the address open (`lost`), a SET_INTERFACE leaves an interface, or the UART,
down (`touched`).

**Properties.** `NotStalled`: a supported request of a host that keeps to the protocol is
never stalled, whatever events of the one before are unserved. `HostReads`: a read
brings all of what there is and was asked for. `InStep` is the inductive invariant
behind these and the next (section 9). `AddressAgrees`, `ConfigAgrees`: host and
device agree as soon as nothing is pending; `ConfigAgrees` also has the count of
data interfaces (8 bits, decremented below zero by a disable after a refused
enable) always start the data interface with its enabling. `CodingApplied`: the coding set
is the one reported and the one the UART has, also when the next SETUP hides the end
of SET_LINE_CODING. `RequestEnds` (liveness).

**Fairness.** `WF_vars(Device)`: a pending event is served. `WF_vars(HostProceeds)`: the
host goes on with the request it began, and resets a device that has the wrong address.

## 8. The runs

| run | module, configuration | checks | shows |
|---|---|---|---|
| `boot_update` | `MCBootUpdate`, `MCBootUpdate.cfg` | `TypeOK`, `EndMeansProgrammed`, `AckedDataIsInFlash`, `GuardedImage`, `SessionInv`, `FrameAnswered` | with images within the erased pages the protocol is right under repeated frames, second heads, a fault, a locked region and power loss anywhere |
| `boot_large_image` | `MCBootUpdate`, `MCBootLargeImage.cfg` | `EndMeansProgrammed` is violated | an image that `packge_head_process` accepts but `update_erase_flash` does not cover |
| `boot_second_head` | `MCBootUpdate`, `MCBootSecondHead.cfg` | `EndMeansProgrammed` is violated | a second head in a session leaves `len` and `bin_crc` as they were |
| `cdc_rx` | `UdiCdcRx`, `MCUdiCdcRx.cfg` | `TypeOK`, `NoOverwrite`, `RingInv`, `InOrder`, `AllRead` | the double buffer is a byte stream under both priorities |
| `cdc_rx_nine` | `UdiCdcRx`, `MCUdiCdcRxNine.cfg` | `InOrder` is violated | the ring of nine is not |
| `cdc_rx_tear` | `UdiCdcRx`, `MCUdiCdcRxTear.cfg` | `InOrder` is violated | nor is the double buffer when a second enabling is interrupted by the USART |
| `cdc_tx` | `UdiCdcTx`, `MCUdiCdcTx.cfg` | `TypeOK`, `SpaceStays`, `NoWriteToSending`, `TxInv`, `InOrder`, `AllSent` | the transmit buffers are a byte stream under both priorities |
| `xmodem` | `Xmodem`, `MCXmodem.cfg` | `TypeOK`, `FlashIsPrefix`, `InStep`, `DuplicateAckedUnlessWrapped`, `Terminates` | the flash is a prefix of the file and the receiver returns, on any line; the sender returns or waits in a write for ever |
| `xmodem_wrap` | `Xmodem`, `MCXmodemWrap.cfg` | `DuplicateAcked` is violated | the packet before number 0, repeated, is refused |
| `xmodem_ack` | `Xmodem`, `MCXmodemLate.cfg` | `SuccessMeansReceived` is violated | the sender takes any ACK for that of its packet |
| `msc` | `MCMassStorage`, `MCMassStorage.cfg` | `TypeOK`, `PhasesAgree`, `InvalidHolds`, `ReadyForNext`, `Transport`, `InCustody`, `ResidueExact`, `IsBlockDevice`, `Answered` | the mass storage device is a block device for a host that sends every kind of command, clears, resets and changes cards |
| `usb_control` | `MCUsbControl`, `MCUsbControl.cfg` | `TypeOK`, `NotStalled`, `HostReads`, `AddressAgrees`, `CodingApplied`, `ConfigAgrees`, `InStep`, `RequestEnds` | control transfers are right whatever requests overlap, are given up or reset |

Every checked property has a mutant in `PROJECT.json`: a definition of the model
changed as a plausible bug would change the code, under which the same run
finds the property violated.

**Bounds of `boot_update`.** Three application pages of which two are erased,
images of one and three pages, one of them preceded by one page below
`flash_offset`; frames of up to two blocks, so that the last frame can run past the
image and past the erased pages; one head with the CRC of an image and the fill behind
it, so that such a session can end well; an index that wraps at 4; one fault; two heads
in a session. What a second head leaves in `len` takes the frame behind it as far as
the spare page (page 3, in front of the page of the flag). With frames of three blocks
it would reach the flag and clean it: TLC then finds `GuardedImage` violated, and with
one head in a session it does not. In the code a frame has eight pages, and between the
447 erased pages and the flag there are 512, which is what `FramesFit` says (section 9);
behind an image that goes beyond the erased pages, near `FLASH_BIN_MAX_SIZE`, a frame of
4096 bytes does reach the flag. The
smaller heads leave room for the faults to matter (a locked first page, a page
that fails in the middle), and the second head can name another image than the
first. A session is otherwise unbounded, and so are sessions and power losses.
`EraseAttempts` is the code's 5: the locked page takes all of them, a page that fails
by fault one. No image has two
equal pages: what a second head in a session can do to one that has is shown by
`boot_second_head`; with different pages the CRC refuses such a session.

**Bounds of the CDC runs.** Two buffers of two bytes: a buffer can be empty, half
full and full, and a call can take part of it. Two enablings: the second finds
every state the first one left. Six bytes (receive) and five (transmit) go
around both buffers and over an enabling. `FrameMod = 2` makes the ambiguous 0 as
frequent as it can be; `ZlpLimit = 2` makes an empty transfer possible and
avoidable. Deadlock is not checked: with all bytes sent and the enablings used up
these models may stop.

**Bounds of the Xmodem runs.** Four packets numbered modulo 3, so that the number
wraps inside the file and a repeated packet can be the one before 0; a
destination of three blocks, so that there is a full page, a half one and a packet
too many. Two messages on the line in each direction: a late answer and the next
one. Two tries in each loop, instead of 16, 25 and 10: one that fails and one more.
One failed write. `FlashIsPrefix` needs a packet number that does not come around
while a packet is on the line. In the code it is modulo 256; the theorem asks for more
than twice as many numbers as the line holds messages, since each acknowledge
that is late lets the sender go one block ahead, and each packet on the line can earn
one. The run has three numbers and two messages, fewer than that, and is right
because with two tries the sender gives up before it is three blocks ahead: with four
tries and six packets TLC finds `FlashIsPrefix` violated at this bound (and with two
numbers and one message), and holding at three numbers and one message and at five
numbers and two messages. `xmodem_ack` numbers modulo 8: there nothing wraps, and the packets are
lost all the same. Deadlock is not checked: both functions may have returned.

**Bounds of `msc`.** The nineteen commands of `MCMassStorage` have every direction and
length the bulk-only transport distinguishes, with the case written next to them. A
card has three blocks and the longest transfer three sectors, so that each buffer of
the pipeline is used again. Two cards, the second holding what a write to the first
would leave: the check must tell them apart by the protocol and not by their
contents. One tag: the host refuses another one than it sent, and there is only one CBW
outstanding; a second tag takes the run to the limit of its time. That no status
carries the tag of a command before is `Transport`, proved for every set of tags. Everything else is unbounded: commands, resets, cards.

**Bounds of `usb_control`.** Descriptors of one packet and of one and a half, read with
a `wLength` that ends them, cuts them or is more than there is: the data end with
`wLength`, an empty packet or a short one. Two line codings. `CountMod` is 2 where the
code has 256: the count is 1 after an enabling and wraps below 0 at once.
`MaxFaults = 1`: one request is given up or mistaken, in any stage, before any other.
The fifteen requests have a GET_INTERFACE and a class request to the data interface
among them, which is refused; none is to an endpoint or unknown.

**Bounds in the guards.** `MaxFaults` (failed flash operations, requests that the host
of `UsbControl` gives up or mistakes), `Cap` (messages on
the line; more are lost), `MaxHeads` (heads of
a session), `MaxBytes`, `MaxEnables`. Nothing else is bounded.

## 9. The proofs

| module | theorem | statement |
|---|---|---|
| `BootUpdateProofs` | `TypeCorrect` | `Spec => []TypeOK` |
| `BootUpdateSafetyProofs` | `SessionCorrect` | `FewFaults`: `Spec => []SessionInv` |
| `BootUpdateSafetyProofs` | `AckedDataSafe` | `ImagesFit`, `FewFaults`: `Spec => []AckedDataIsInFlash` |
| `BootUpdateSafetyProofs` | `EndProgrammed` | same and `MaxHeads = 1`: `Spec => []EndMeansProgrammed` |
| `BootUpdateSafetyProofs` | `ImageGuarded` | same, `MaxHeads = 1` and `FramesFit`: `Spec => []GuardedImage` |
| `UdiCdcRxProofs` | `TypeCorrect` | `Spec => []TypeOK` |
| `XmodemProofs` | `TypeCorrect` | `Spec => []TypeOK` |
| `XmodemProofs` | `DuplicateAcknowledged` | `Spec => DuplicateAckedUnlessWrapped` |
| `XmodemProofs` | `SidesInStep` | `NumMod > 2 * Cap`: `Spec => []InStep` |
| `XmodemProofs` | `FlashHoldsPrefix` | same: `Spec => []FlashIsPrefix` |
| `UdiCdcRxProofs` | `RingCorrect` | `RxBufs = 2`, `~Tear`: `Spec => []RingInv` |
| `UdiCdcRxProofs` | `NeverOverwrites` | same: `Spec => []NoOverwrite` |
| `UdiCdcRxProofs` | `RingImplementsStream` | same: `Spec => InOrder`, that is `Spec => Stream!Spec` |
| `UdiCdcTxProofs` | `TypeCorrect` | `Spec => []TypeOK` |
| `UdiCdcTxProofs` | `TxCorrect` | `~Tear`: `Spec => []TxInv` |
| `UdiCdcTxProofs` | `SpaceKept` | same: `Spec => []SpaceStays` |
| `UdiCdcTxProofs` | `SendingKept` | same: `Spec => []NoWriteToSending` |
| `UdiCdcTxProofs` | `TxImplementsStream` | same: `Spec => InOrder`, that is `Spec => Stream!Spec` |
| `MassStorageProofs` | `TransportCorrect` | `Spec => []Transport` |
| `MassStorageProofs` | `ReadyCorrect` | `Spec => []ReadyForNext` |
| `MassStorageProofs` | `InvalidCorrect` | `Spec => []InvalidHolds` |
| `MassStorageProofs` | `PhasesCorrect` | `Spec => []PhasesAgree` |
| `MassStorageProofs` | `ResidueCorrect` | `Spec => ResidueExact` |
| `MassStorageDataProofs` | `CustodyCorrect` | `Spec => []InCustody` |
| `MassStorageDataProofs` | `BlockDeviceCorrect` | `Spec => IsBlockDevice`, that is `Spec => Disk!Spec` |
| `MassStorageDataProofs` | `TypeCorrect` | `Spec => []TypeOK` |
| `UsbControlProofs` | `SidesAgree` | `Spec => []InStep` |
| `UsbControlProofs` | `TypeCorrect` | `Spec => []TypeOK` |
| `UsbControlProofs` | `SupportedNotStalled` | `Spec => []NotStalled` |
| `UsbControlProofs` | `ReadsBring` | `Spec => []HostReads` |
| `UsbControlProofs` | `AddressAgreement` | `Spec => []AddressAgrees` |
| `UsbControlProofs` | `CodingAgreement` | `Spec => []CodingApplied` |
| `UsbControlProofs` | `ConfigAgreement` | `Spec => []ConfigAgrees` |

They rest on the assumptions on constants of each module
(`ConstantsAssumption`, `RxAssumption`, `XmodemAssumption`, `CardsAssumption`,
`JobNamesAssumption`, `CommandsAssumption`, `SectorsAssumption`, `RequestsAssumption`,
`MaxFaultsAssumption`), which the runs evaluate, and on the
hypotheses in the table. They hold for images, frames, buffers, files, commands,
requests and numbers of bytes, sectors, messages, tries, connections and faults of
every size.

**BootUpdate.** `TypeOK` is inductive with one strengthening it carries itself:
`pc = "erase" => page < ErasedPages`, without which the erase loop could leave the
flash.

That acknowledged data are in flash is not inductive. `SessionInv` says why it holds
in a session with one head frame:
- `InStep`: between two frames the host's position and index are those of the device,
  and a frame the host repeats has another index; inside a frame the buffer holds
  the next blocks of the image and ends where the host stands; `bin_crc` is that of
  the image up to there; no frame lies across `flash_offset`.
- `InFlash`: `g_flash_erased` is set exactly when data above `flash_offset` were
  taken; then the pages below the one reached hold the image and the others of the
  erased region are empty. Inside the erase loop the failures counted are among the
  faults there were. In a session that finds the first region locked
  (`Blocked`) the first page is refused, and no frame is acknowledged.

The assumptions are the ones the code needs: `ImagesFit` (every legal image lies
within the erased pages; `boot_large_image` refutes the rest without it) and
`FewFaults` (`MaxFaults < EraseAttempts`: when the erase loop gives up,
`memcpy_toflash` programs all the same). For `EndProgrammed` the last frame brings
`sent` to the size of the image, so that `InFlash` covers all of it (`LastFrame`,
`EndInv`). For `ImageGuarded` a step that changes pages under a clean flag sets
`exposed`, and the flag becomes clean only in `FlagWrite`, behind a whole image:
`DestFits` excludes the page of the flag from the pages programmed, for which
`FramesFit` (`ErasedPages + MaxFrame <= AppPages + 1`) leaves room behind the erased
pages for a frame that runs past the image. Both assume one
head frame in a session (`MaxHeads = 1`), as the host script sends it;
`boot_second_head` refutes `EndProgrammed` with two.

**UdiCdcRx.** `TypeOK` is inductive for any number of buffers. It carries
`usb = "rcvNb" => usb_n <= BufSize`: the count a transfer ended with fits a buffer.

`InOrder` is not inductive: that the next byte read is `got + 1` depends on what
is in both buffers. `RingInv` says what is in them. Between two steps, whatever
activity is inside whatever call, the bytes `got + 1 .. sent` are those of the
current buffer from the reader's position on, followed by those of the other
buffer (`CurrentHolds`, `OtherHolds`), where the other buffer counts for
- the number just received, while `udi_cdc_data_received` has not stored it yet,
- nothing, while it is given to the endpoint,
- its `rx_buf_nb` otherwise.

This needs to know who owns the transfer (`Owner`: the job is the other buffer and
`rx_trans_ongoing` is set, and at most one of the two activities is between the
switch and `udd_ep_run`), that the application's copy of position and selection
is still true (`Calls`), and what an enabling has reset so far (`Enables`). During
`udi_cdc_data_enable`, before the position is reset, the contents mean nothing
and nothing is claimed of them.

The proof has one lemma per action, and below it one step per part of `RingInv`.
`RingImplementsStream` maps every step to `Write` (a transfer received), `Deliver`
(a copy), `Open` (the end of an enabling), `Close` (a reset), `Drop` (`EnablePos`) or a
stutter; `NeverOverwrites` follows from `Owner`, `OtherHolds` and the fact that
with two buffers the other one is never the current one.

`RxBufs = 2` and `~Tear` are needed: the runs `cdc_rx_nine` and `cdc_rx_tear`
refute the statement without them.

**UdiCdcTx.** `TxInv` plays the part of `RingInv` for the two transmit buffers. Between
two steps the bytes `got + 1 .. put` are those of the older buffer (`Old`, the one that
is not current), followed by those of the current one (`Contents`). The older one
counts for nothing while `udi_cdc_data_sent` has not cleared it yet, and it is empty
unless it is being sent or `tx_both_buf_to_send` announces it. This needs to know that
the transfer is the older buffer's from the choice to the end of the callback
(`Owner`), that the space an application's call has seen is still there (`Calls`,
which is `SpaceStays`), and what an enabling has reset so far (`Enables`). The type
invariant is split into the flags, which Zenon handles, and the numbers and sequences,
which are for the SMT solver. `~Tear` is needed as for the receive side.

**Xmodem.** `TypeOK` carries three facts that its counters need: a side that waits
has a try left (`retry < Retries`), the receiver that has not given up has a
retransmission left (`retrans > 0`), and the sender that has not come to EOT has a
block left. It says among others that no page beyond `destsz` is written and that
`page_buf` is indexed with 0 or 1. `DuplicateAcknowledged` needs no more than that.

`FlashIsPrefix` is not inductive: that the packet with the expected number is the
expected block depends on every packet and every answer on the line. `InStep` says how
far the two sides can be apart while the receiver takes blocks and has room for one:
- `NotBegun`: a receiver that still sends `C` or its first NAK has acknowledged nothing;
- `InOrder`: the packets on the line are in order, from the block last taken up to the
  sender's, each with the number of its block;
- `Ahead`: when the packet at place `i` of the line is read, the sender can be ahead of
  it by one block for each answer on the line and one for each answer to what is in
  front of it: `s_len + Len(toS) + i <= block + 2 * Cap`;
- `Credit`: the acknowledge at place `j` takes the sender to
  less than `len + 2 * Cap`.

So the packets on the line differ by at most `2 * Cap` blocks from the one expected, and
with more numbers than that a packet with the expected number is the expected block,
and one with the number before it the one before. The lemmas on `%` with a
symbolic modulus (`Division`, `ModIs`, `ModSucc`, `ModEqual`) carry that step. With the
room for the last block gone the claim is dropped: the receiver still counts what it
acknowledges and no longer stores it.

An earlier form of `DuplicateAckedUnlessWrapped` left open whose step it was about: a
step of the sender, with a duplicate at the head of the line and a NAK in `said`, would
have counted. The proof did not go through, and the statement is now about the step that
reads the packet.

**UsbControl.** `AddressAgrees`, `CodingApplied` and `ConfigAgrees` are about a device
with nothing pending, which says nothing about the steps that lead there. The central
part of `InStep` is `InKnowledge`: what the host knows holds of the device *as it will be
when the end of the last request has been served* (`EndOfRequest`), which is the device
itself unless the handshake of a SET_ADDRESS or SET_LINE_CODING has gone and its
callback has not run. That the next SETUP, or a reset of the bus, may come before
the interrupt for the handshake is the case behind most of the proof. For a request
under way it says the same of what the host will know if it gives up (`GivenUp`), is
stalled (`Failed`), or gets its handshake (`Succeeded`). The other parts are one
conjunct per state of `udd_ctrl` (`StateSetup`, `StateDataIn`, ...), which relate payload
and counters to what the host has got (`Transferred`), the pending flags of the
hardware to the host's stage, and the host's stage to its request (`InStage`, `InSetup`,
`InReset`). `NotStalled` and `HostReads` are carried along.

The proof has a lemma for each action and each event that the interrupt serves, with
one step per conjunct that it disturbs.

**MassStorage: the protocol.** None of the four properties is inductive: that nothing is left of a
command when its status is read depends on where its data went. `Transport` says where
the device is in the host's command. With a well-formed command out it is in one of six
places, and the host has its data phase or its status before it:
- `Requested`: the transfer waits for the main loop, both endpoints are at rest;
- `Moving`: the pipeline runs. The sectors whose acknowledge it has counted follow
  from its place (`Counted`), and are those the host has and those still in the banks
  (`Moves`), with one more between the interrupt and `udi_msc_trans_block`, while
  `udi_msc_b_ack_trans` is set again;
- `Ending`: `udi_msc_csw_process` has stalled the data endpoint, if there is a residue,
  and has not sent the CSW yet: the host may have seen and cleared the stall;
- `SendsData`, `SendsCsw`: the answer of an information command, and the CSW, which
  goes behind the packets in the banks or waits for the end of the stall;
- `CswLoaded`: the CSW is in the banks behind the data, and the next CBW is awaited,
  or will be when the OUT stall is cleared.

From the third place on `DataOver` adds up what the host has, what is in the banks and
the residue to the length asked for, and says that a residue has stalled the endpoint
until the host has left its data phase. Around a command the device is `Ready`,
`Invalid` (after an invalid CBW) or `Recovering`. `FlagsAgree` is about the flags that
interrupt and main loop pass each other, among them that a block that is acknowledged
was not aborted while the interface stayed enabled, so that `BlockFails` needs a bus
reset. The proof has a lemma per action; `Typed` is as much typing as it needs (the
banks are sequences, the counters numbers), and `Stage`, `AtRequest`, `AtMove`,
`AtSend` and `AtJob` tell the place from what an action's guard sees.

`CommandsAssumption` (a transfer has at least one sector) is what the model leaves out
(section 6), and `EnumerationIsSlow` is in the guard of `HostConfigures`.

**MassStorage: the sectors.** That an answer "pass" is true does not follow from
`Transport`, which counts packets and does not look at them. `Kept` adds `InCustody`:
- `Working`: the transfer of the main loop is the one of the host's command, also when a
  reset of the bus has made the host leave it: only then is it known that what the
  loop still writes belongs to a command that is out;
- `Buffered`: for each place of the pipeline, which sector of the command each of the
  two buffers holds, that the sectors before those of a write are on the card,
  and how many blocks the open transfer has left (`Unbegun`), from which the address of
  the next block follows;
- `Carried`: what the host has got, followed by the blocks in the banks, is the
  beginning of what it reads;
- `Whole`: a status "good", in the main loop, in the CSW on its way or in the banks,
  means a complete transfer (`Complete`);
- `KnownCard`: no card counts as initialised but the one the host knows of, unless the
  command under way fails or the host has given up. That is how a change of card is
  told: its initialisation is reported once as busy (`UnitStatus` of "init"), which
  fails the command, and no transfer opens on a card that is not initialised.

`Buffered` speaks of the buffers only where they are to be read. A write has one more
case: between the interrupt for a received block and the step that acknowledges it the
buffer already holds the sector, unless the block was aborted. `host.st = "off" =>
ackTrans` and the tag of the command are carried along (`Commanded`).

For the refinement, `CardEnds` of a write is `Store` of the block that `Stored`
computes, `HostReadsCsw` is `Answer` (`AnswerHonest`, from `Whole` and `Carried`), and
the other steps of the host are `Submit`, `Take`, `Forget` or stutters. For `TypeOK`,
the residue of a command is bounded by its length, and stays above zero since `DataSent`
finds the whole length in it and `Counted` leaves two units for the block that
`BlockAcked` counts.

**Only model-checked**: the liveness properties (`FrameAnswered`, `AllRead`,
`AllSent`, `Terminates`, `Answered`, `RequestEnds`), which rest on fairness and are
out of the prover's reach; sessions of `BootUpdate` with two head frames.

## 10. What disagrees with its documentation

Six runs refute something the repository says of its code; `PROJECT.json`
("findings") quotes it.

- `boot_large_image`: `update_erase_flash` erases pages 0x40 to 0x1FE, while a
  head is accepted up to `FLASH_BIN_MAX_SIZE`. The last pages of a large image are
  programmed over the old one; the CRC is computed from the frames and never from
  flash, so the host is told END.
- `boot_second_head`: a head frame inside a session starts another image but leaves
  `len` and `bin_crc`. The data that follow are placed behind those of the image
  before; usually the CRC refuses the session at its end, but an image whose pages
  repeat is completed by half of its frames, and the host is told END.
- `cdc_rx_nine`: with nine buffers `udi_cdc_rx_start` fills the buffer it leaves
  behind (with two buffers: the other one), and `udi_cdc_data_received` counts the
  one ahead.
- `cdc_rx_tear`: the USART interrupt is enabled before the ring is reset.
- `xmodem_wrap`: the previous packet is recognised with
  `xbuff[1] == (unsigned char)packetno - 1`, an `int` comparison; after the number
  has wrapped to 0 it is -1, and packet 255, repeated because its ACK was lost, is
  answered NAK until the sender gives up. `xmodem/readme.txt:39` says ACK.
- `xmodem_ack`: `xmodem/readme.txt:32` says that the ACK means that the packet was
  received. When an ACK comes after the time-out the packet is sent again and
  acknowledged again, and from there on each ACK is taken for the packet after the
  one it answers: one that is lost is not sent again.

Noticed while modelling, without a run of its own:

- Bootloader and XMODEM: a head frame cut short is answered ERR1 though the comment at
  `update.c:50` gives 2; the XMODEM receiver answers NAK to a packet out of order,
  where `xmodem/readme.txt:38` has CAN, and acknowledges packets whatever the flash
  write returned. The sender of `DEVICE_EXAMPLE1` sends packets without the file in
  them (`xmodem.c:352` is commented out), and `port_outbyte` there waits without a limit
  for a host that has stopped reading, so that `xmodemTransmit` need not return.
- USB: a SET_ADDRESS that the host gives up before its handshake still changes the
  address, at the next SETUP (`lost`), though `udc.c:601` puts the change after the
  handshake. SET_INTERFACE on the data interface closes the UART and does not open it
  again (`touched`). A stale refused OUT token, served after the data phase began,
  turns off the interrupt that a host asking for too much data relies on for its stall
  (`RequestEnds` excludes that host). Data after those of SET_LINE_CODING stall the
  request with the coding stored and the UART as it was.
- Mass storage: the reset of the class does not set `udi_msc_b_reset_trans`, which is
  harmless only because the transfer's end finds the stalls cleared by the host;
  a wrong logical unit leaves the residue of the command before (`udi_msc.c:507`); a
  card that is exchanged between two polls stays "ready", and its first transfer
  fails (`sd_mmc.c:1336`), which is why no wrong block passes.

## 11. What is not modelled

- Characters of the bootloader's frames: they are whole, cut short or wrong. So
  its `flushinput` and what is left of a failed frame on the line are not covered.
- `upgrade.c` (the package's header, its copy from one flash bank to the other), the
  consoles, and `port_read`, with which `DEVICE_EXAMPLE1` reads a packet.
- 9-bit characters of `udi_cdc.c`, and its serial-state notification, which only
  `EXAMPLE_CDC_MSC1` uses: an error signalled while a notification is under way is
  cleared unsent (`udi_cdc.c:574`).
- USB: suspend, remote wake-up, test modes, isochronous endpoints, and the requests to
  endpoints, which the mass storage model has as `ClearHaltIn` and `ClearHaltOut`.
- The RAM disk of `EXAMPLE_CDC_MSC1` (the same transport on an array that cannot
  fail), the commands that identify a card and the controller's registers (their
  outcome is a choice), more than one slot or logical unit.
- `printk` and `flash_efc`, for the reasons given in section 2.
- The CRC's arithmetic, tracing, `uart_config`, clocks, pins and register access:
  no property here depends on them.
- The NAND translation layer is a binary library; the ADC example is a menu around
  one conversion.
