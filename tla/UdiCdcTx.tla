------------------------------ MODULE UdiCdcTx ------------------------------
(***************************************************************************)
(* The transmit side of the CDC data interface (udi_cdc.c): two buffers    *)
(* filled by udi_cdc_multi_putc and udi_cdc_multi_write_buf and emptied by *)
(* udi_cdc_tx_send, which runs on every start of frame and after every     *)
(* transfer.  Interleaving and priorities are those of UdiCdcRx.           *)
(***************************************************************************)
EXTENDS Integers

CONSTANTS
    BufSize,    \* UDI_CDC_TX_BUFFERS, in bytes
    FrameMod,   \* range of the (micro)frame number
    ZlpLimit,   \* the 100 or 800 of sof_zlp_counter
    Highs,      \* which of the two may preempt the other: "usb", "app"
    MaxBytes,   \* bound: bytes the application writes
    MaxEnables, \* bound: times the interface is enabled
    Tear        \* whether a call of the application and the enabling overlap

ASSUME TxAssumption ==
    /\ BufSize \in Nat \ {0}
    /\ FrameMod \in Nat /\ FrameMod > 1
    /\ ZlpLimit \in Nat \ {0}
    /\ Highs \subseteq {"usb", "app"}
    /\ MaxBytes \in Nat /\ MaxEnables \in Nat
    /\ Tear \in BOOLEAN

Bufs == {0, 1}
NoBuf == 2

VARIABLES
    tx_buf,       \* bytes, by their number in the application's stream
    tx_buf_nb, tx_buf_sel, tx_trans_ongoing, tx_both_buf_to_send, tx_sof_num,
    sof_zlp_counter, data_running,
    job, job_n,   \* the buffer the endpoint is sending and its length
    frame,        \* udd_get_frame_number
    ep_on, uart_on,
    usb,          \* where the USB interrupt is
    usb_buf,      \* buf_sel_trans of udi_cdc_tx_send
    enabling,     \* udi_cdc_tx_send was called by udi_cdc_data_enable
    app,          \* where the application is
    put,          \* number of the last byte it wrote
    got,          \* number of the last byte the host received, -1 after a gap
    aborted,      \* the host has halted the endpoint in this connection
    enables, high

bufs == <<tx_buf, tx_buf_nb>>
ctl == <<tx_buf_sel, tx_trans_ongoing, tx_both_buf_to_send>>
sof == <<tx_sof_num, sof_zlp_counter, frame>>
ports == <<ep_on, uart_on, data_running>>
endpoint == <<job, job_n>>
usbvars == <<usb, usb_buf, enabling>>
bounds == <<aborted, enables, high>>
vars == <<bufs, ctl, sof, ports, endpoint, usbvars, app, put, got, bounds>>

\* Mutant: the index of the other buffer never comes back.
OtherNoWrap(b) == b + 1

Other(b) == IF b = 0 THEN 1 ELSE 0

Init ==
    /\ tx_buf = [b \in Bufs |-> [i \in 0 .. (BufSize - 1) |-> 0]]
    /\ tx_buf_nb = [b \in Bufs |-> 0]
    /\ tx_buf_sel = 0
    /\ tx_trans_ongoing = FALSE /\ tx_both_buf_to_send = FALSE
    /\ tx_sof_num = 0 /\ sof_zlp_counter = 0 /\ frame = 0
    /\ data_running = FALSE /\ ep_on = FALSE /\ uart_on = FALSE
    /\ job = NoBuf /\ job_n = 0
    /\ usb = "idle" /\ usb_buf = 0 /\ enabling = FALSE
    /\ app = "idle"
    /\ put = 0 /\ got = 0
    /\ aborted = FALSE /\ enables = 0
    /\ high \in Highs

UsbMoves == high = "app" => app = "idle"
AppMoves == high = "usb" => usb = "idle"

-----------------------------------------------------------------------------
\* udi_cdc_tx_send.  Its callers go on where it returns: the interrupt ends,
\* or data_enable goes on to the receive side.
Return == usb' = IF enabling THEN "enRunning" ELSE "idle"

TxChecks ==
    /\ UsbMoves /\ usb = "txCheck"
    /\ IF tx_trans_ongoing \/ tx_sof_num = frame
       THEN Return
       ELSE usb' = "txSelect"
    /\ UNCHANGED <<bufs, ctl, sof, ports, endpoint, usb_buf, enabling, app, put, got,
                   bounds>>

\* The section that chooses the buffer.  An empty one is sent only after
\* ZlpLimit calls; with both to send, it is the other one's turn.
\* Mutant: the current one always goes first.
CurrentFirst == tx_buf_sel

Waits == tx_buf_nb[tx_buf_sel] = 0 /\ sof_zlp_counter + 1 < ZlpLimit

Turn == IF tx_both_buf_to_send THEN Other(tx_buf_sel) ELSE tx_buf_sel

TxWaits ==
    /\ UsbMoves /\ usb = "txSelect"
    /\ Waits
    /\ sof_zlp_counter' = sof_zlp_counter + 1
    /\ Return
    /\ UNCHANGED <<bufs, ctl, tx_sof_num, frame, ports, endpoint, usb_buf, enabling,
                   app, put, got, bounds>>

TxSelects ==
    /\ UsbMoves /\ usb = "txSelect"
    /\ ~Waits
    /\ sof_zlp_counter' = 0
    /\ usb_buf' = Turn
    /\ tx_buf_sel' = IF tx_both_buf_to_send THEN tx_buf_sel ELSE Other(tx_buf_sel)
    /\ tx_trans_ongoing' = TRUE
    /\ usb' = "txShort"
    /\ UNCHANGED <<bufs, tx_both_buf_to_send, tx_sof_num, frame, ports, endpoint,
                   enabling, app, put, got, bounds>>

\* A short transfer is the last of its frame.
TxShort ==
    /\ UsbMoves /\ usb = "txShort"
    /\ tx_sof_num' = IF tx_buf_nb[usb_buf] # BufSize THEN frame ELSE 0
    /\ usb' = "txRun"
    /\ UNCHANGED <<bufs, ctl, sof_zlp_counter, frame, ports, endpoint, usb_buf,
                   enabling, app, put, got, bounds>>

\* udd_ep_run, whose result nobody looks at.  It refuses an endpoint that is
\* off or busy, or halted, which it can be in a connection with an abort.
TxRuns ==
    /\ UsbMoves /\ usb = "txRun"
    /\ \/ /\ ep_on /\ job = NoBuf
          /\ job' = usb_buf /\ job_n' = tx_buf_nb[usb_buf]
       \/ /\ ~ep_on \/ job # NoBuf \/ aborted
          /\ UNCHANGED endpoint
    /\ Return
    /\ UNCHANGED <<bufs, ctl, sof, ports, usb_buf, enabling, app, put, got, bounds>>

-----------------------------------------------------------------------------
\* SET_CONFIGURATION: udi_cdc_comm_enable, then the transmit part of
\* udi_cdc_data_enable, one assignment to a step.
EnableBegins ==
    /\ UsbMoves /\ usb = "idle"
    /\ ~ep_on /\ enables < MaxEnables
    /\ Tear \/ app = "idle"
    /\ ep_on' = TRUE /\ uart_on' = TRUE
    /\ usb' = "enOngoing" /\ enabling' = TRUE
    /\ enables' = enables + 1 /\ aborted' = FALSE
    /\ UNCHANGED <<bufs, ctl, sof, data_running, endpoint, usb_buf, app, put, got, high>>

EnableOngoing ==
    /\ UsbMoves /\ usb = "enOngoing"
    /\ tx_trans_ongoing' = FALSE
    /\ usb' = "enBoth"
    /\ UNCHANGED <<bufs, tx_buf_sel, tx_both_buf_to_send, sof, ports, endpoint, usb_buf,
                   enabling, app, put, got, bounds>>

EnableBoth ==
    /\ UsbMoves /\ usb = "enBoth"
    /\ tx_both_buf_to_send' = FALSE
    /\ usb' = "enSel"
    /\ UNCHANGED <<bufs, tx_buf_sel, tx_trans_ongoing, sof, ports, endpoint, usb_buf,
                   enabling, app, put, got, bounds>>

EnableSel ==
    /\ UsbMoves /\ usb = "enSel"
    /\ tx_buf_sel' = 0
    /\ usb' = "enNb0"
    /\ UNCHANGED <<bufs, tx_trans_ongoing, tx_both_buf_to_send, sof, ports, endpoint,
                   usb_buf, enabling, app, put, got, bounds>>

EnableNb0 ==
    /\ UsbMoves /\ usb = "enNb0"
    /\ tx_buf_nb' = [tx_buf_nb EXCEPT ![0] = 0]
    /\ usb' = "enNb1"
    /\ UNCHANGED <<tx_buf, ctl, sof, ports, endpoint, usb_buf, enabling, app, put, got,
                   bounds>>

\* What the application wrote and the host did not get is gone.
EnableNb1 ==
    /\ UsbMoves /\ usb = "enNb1"
    /\ tx_buf_nb' = [tx_buf_nb EXCEPT ![1] = 0]
    /\ got' = put
    /\ usb' = "enSof"
    /\ UNCHANGED <<tx_buf, ctl, sof, ports, endpoint, usb_buf, enabling, app, put, bounds>>

EnableSof ==
    /\ UsbMoves /\ usb = "enSof"
    /\ tx_sof_num' = 0
    /\ usb' = "txCheck"
    /\ UNCHANGED <<bufs, ctl, sof_zlp_counter, frame, ports, endpoint, usb_buf, enabling,
                   app, put, got, bounds>>

EnableRunning ==
    /\ UsbMoves /\ usb = "enRunning"
    /\ data_running' = TRUE
    /\ usb' = "idle" /\ enabling' = FALSE
    /\ UNCHANGED <<bufs, ctl, sof, ep_on, uart_on, endpoint, usb_buf, app, put, got,
                   bounds>>

\* A bus reset aborts the job, which udi_cdc_data_sent ignores, and disables
\* the interface.
Disable ==
    /\ UsbMoves /\ usb = "idle"
    /\ ep_on
    /\ Tear \/ app = "idle"
    /\ ep_on' = FALSE /\ uart_on' = FALSE /\ data_running' = FALSE
    /\ job' = NoBuf /\ job_n' = 0
    /\ UNCHANGED <<bufs, ctl, sof, usbvars, app, put, got, bounds>>

\* The host halts the endpoint: its transfer, if there is one, is aborted, and
\* the callback returns, so that tx_trans_ongoing stays.
Abort ==
    /\ UsbMoves /\ usb = "idle"
    /\ ep_on
    /\ job' = NoBuf /\ job_n' = 0
    /\ aborted' = TRUE
    /\ UNCHANGED <<bufs, ctl, sof, ports, usbvars, app, put, got, enables, high>>

\* udi_cdc_data_sof_notify
Sof ==
    /\ UsbMoves /\ usb = "idle"
    /\ ep_on
    /\ frame' = (frame + 1) % FrameMod
    /\ usb' = "txCheck"
    /\ UNCHANGED <<bufs, ctl, tx_sof_num, sof_zlp_counter, ports, endpoint, usb_buf,
                   enabling, app, put, got, bounds>>

\* The host has taken the whole transfer, as the buffer is now.
Sent ==
    /\ UsbMoves /\ usb = "idle"
    /\ job # NoBuf
    /\ got' = IF \A i \in 1 .. job_n : tx_buf[job][i - 1] = got + i
              THEN got + job_n ELSE -1
    /\ job' = NoBuf /\ job_n' = 0
    /\ usb' = "sentNb"
    /\ UNCHANGED <<bufs, ctl, sof, ports, usb_buf, enabling, app, put, bounds>>

\* udi_cdc_data_sent
SentNb ==
    /\ UsbMoves /\ usb = "sentNb"
    /\ tx_buf_nb' = [tx_buf_nb EXCEPT ![Other(tx_buf_sel)] = 0]
    /\ usb' = "sentBoth"
    /\ UNCHANGED <<tx_buf, ctl, sof, ports, endpoint, usb_buf, enabling, app, put, got,
                   bounds>>

\* Mutant: the mark of two full buffers stays.
BothStays ==
    /\ UsbMoves /\ usb = "sentBoth"
    /\ usb' = "sentOngoing"
    /\ UNCHANGED <<bufs, ctl, sof, ports, endpoint, usb_buf, enabling, app, put, got,
                   bounds>>

SentBoth ==
    /\ UsbMoves /\ usb = "sentBoth"
    /\ tx_both_buf_to_send' = FALSE
    /\ usb' = "sentOngoing"
    /\ UNCHANGED <<bufs, tx_buf_sel, tx_trans_ongoing, sof, ports, endpoint, usb_buf,
                   enabling, app, put, got, bounds>>

\* Mutant: the transfer is never over.
NeverOver ==
    /\ UsbMoves /\ usb = "sentOngoing"
    /\ usb' = "txCheck"
    /\ UNCHANGED <<bufs, ctl, sof, ports, endpoint, usb_buf, enabling, app, put, got,
                   bounds>>

SentOngoing ==
    /\ UsbMoves /\ usb = "sentOngoing"
    /\ tx_trans_ongoing' = FALSE
    /\ usb' = "txCheck"
    /\ UNCHANGED <<bufs, tx_buf_sel, tx_both_buf_to_send, sof, ports, endpoint, usb_buf,
                   enabling, app, put, got, bounds>>

-----------------------------------------------------------------------------
AppCalls ==
    /\ AppMoves /\ app = "idle"
    /\ high = "app" => uart_on
    /\ Tear \/ ~enabling
    /\ put < MaxBytes

\* Mutant: off by one.
FullLate == tx_buf_nb[tx_buf_sel] = BufSize + 1

Full == tx_buf_nb[tx_buf_sel] = BufSize

\* udi_cdc_multi_get_free_tx_buffer moves on from a full buffer when nothing
\* is being sent, and the other one waits for its turn.  Mutant: it moves on to
\* the buffer being sent.
MayMoveAnyway == Full /\ ~tx_both_buf_to_send

MayMove == Full /\ ~tx_trans_ongoing /\ ~tx_both_buf_to_send

AppMovesOn ==
    /\ AppCalls
    /\ MayMove
    /\ tx_both_buf_to_send' = TRUE
    /\ tx_buf_sel' = Other(tx_buf_sel)
    /\ app' = "write"
    /\ UNCHANGED <<bufs, tx_trans_ongoing, sof, ports, endpoint, usbvars, put, got, bounds>>

\* It finds space.  Otherwise putc and write_buf look again, and the USART
\* interrupt gives the byte up (and signals an overrun).
AppFindsSpace ==
    /\ AppCalls
    /\ ~Full
    /\ app' = "write"
    /\ UNCHANGED <<bufs, ctl, sof, ports, endpoint, usbvars, put, got, bounds>>

\* The second section: putc stores a byte without looking at the count again,
\* write_buf as many as fit.
Stored(n) ==
    LET nb == tx_buf_nb[tx_buf_sel] IN
    [i \in 0 .. (BufSize - 1) |->
       IF i \in nb .. (nb + n - 1) THEN put + (i - nb) + 1 ELSE tx_buf[tx_buf_sel][i]]

AppWrites ==
    /\ AppMoves /\ app = "write"
    /\ \E n \in 1 .. BufSize :
         /\ put + n <= MaxBytes
         /\ n = 1 \/ tx_buf_nb[tx_buf_sel] + n <= BufSize
         /\ put' = put + n
         /\ tx_buf' = [tx_buf EXCEPT ![tx_buf_sel] = Stored(n)]
         /\ tx_buf_nb' = [tx_buf_nb EXCEPT ![tx_buf_sel] = @ + n]
    /\ app' = "idle"
    /\ UNCHANGED <<ctl, sof, ports, endpoint, usbvars, got, bounds>>

TxSend == TxChecks \/ TxWaits \/ TxSelects \/ TxShort \/ TxRuns

UsbSteps ==
    \/ EnableOngoing \/ EnableBoth \/ EnableSel \/ EnableNb0 \/ EnableNb1 \/ EnableSof
    \/ EnableRunning
    \/ SentNb \/ SentBoth \/ SentOngoing
    \/ TxSend

Next ==
    \/ EnableBegins \/ Disable \/ Abort \/ Sof \/ Sent
    \/ UsbSteps
    \/ AppMovesOn \/ AppFindsSpace \/ AppWrites

\* Frames start and a host that listens takes what it is sent; a call of the
\* application ends.
Spec ==
    /\ Init /\ [][Next]_vars
    /\ WF_vars(UsbSteps) /\ SF_vars(Sof) /\ SF_vars(Sent) /\ WF_vars(AppWrites)

-----------------------------------------------------------------------------
FlagsOK ==
    /\ tx_trans_ongoing \in BOOLEAN /\ tx_both_buf_to_send \in BOOLEAN
    /\ data_running \in BOOLEAN /\ ep_on \in BOOLEAN /\ uart_on \in BOOLEAN
    /\ enabling \in BOOLEAN /\ aborted \in BOOLEAN

DataOK ==
    /\ tx_buf \in [Bufs -> [0 .. (BufSize - 1) -> Nat]]
    /\ tx_buf_nb \in [Bufs -> Nat]
    /\ tx_buf_sel \in Bufs
    /\ tx_sof_num \in 0 .. (FrameMod - 1) /\ frame \in 0 .. (FrameMod - 1)
    /\ sof_zlp_counter \in 0 .. ZlpLimit
    /\ job \in Bufs \union {NoBuf} /\ job_n \in Nat
    /\ usb \in {"idle", "txCheck", "txSelect", "txShort", "txRun", "enOngoing", "enBoth",
                "enSel", "enNb0", "enNb1", "enSof", "enRunning", "sentNb", "sentBoth",
                "sentOngoing"}
    /\ usb_buf \in Bufs
    /\ app \in {"idle", "write"}
    /\ put \in Nat /\ got \in Nat \union {-1}
    /\ enables \in Nat /\ high \in Highs

TypeOK == FlagsOK /\ DataOK

\* The host receives the bytes the application wrote, in order, each once:
\* no byte is sent before it is written, overwritten while it is being sent,
\* sent twice or out of turn (udi_cdc_tx_send, udi_cdc_data_sent, putc).
Stream == INSTANCE ByteStream WITH
    written <- put, delivered <- got, up <- data_running

InOrder == Stream!Spec

\* The space udi_cdc_multi_is_tx_ready saw is still there when putc stores,
\* whatever the USB interrupt did in between (udi_cdc.c:1041-1051).
SpaceStays == app = "write" => tx_buf_nb[tx_buf_sel] < BufSize

\* The application never writes into the buffer being sent.
NoWriteToSending ==
    tx_trans_ongoing /\ job # NoBuf /\ ~enabling => tx_buf_sel # job

\* Why the stream is in order (Tear = FALSE).  What was written and not yet
\* sent lies in the two buffers, the older part in the one that is not current:
\* nothing, unless it is being sent or waits for its turn.
Old == Other(tx_buf_sel)

Resetting == {"enOngoing", "enBoth", "enSel", "enNb0", "enNb1"}

\* The host has the buffer already while udi_cdc_data_sent has not cleared it.
Unsent == IF usb = "sentNb" THEN 0 ELSE tx_buf_nb[Old]

\* The transfer is the older buffer's, from the choice to the callback's end.
Owner ==
    /\ job # NoBuf =>
         /\ tx_trans_ongoing /\ ep_on /\ job = Old /\ job_n = tx_buf_nb[Old]
         /\ usb \in {"idle", "txCheck", "enRunning"}
    /\ usb \in {"txShort", "txRun"} => tx_trans_ongoing /\ usb_buf = Old
    /\ usb \in {"sentNb", "sentBoth", "sentOngoing"} => tx_trans_ongoing
    /\ usb = "txSelect" => ~tx_trans_ongoing
    /\ usb \in {"sentBoth", "sentOngoing"} => tx_buf_nb[Old] = 0
    /\ usb = "sentOngoing" => ~tx_both_buf_to_send

Calls ==
    /\ app = "write" => tx_buf_nb[tx_buf_sel] < BufSize /\ ~enabling
    /\ usb \in Resetting \cup {"enSof", "enRunning"} => enabling
    /\ enabling => usb # "idle" /\ ep_on /\ ~data_running
    /\ data_running => ep_on

\* What udi_cdc_data_enable has reset so far.
Enables ==
    /\ usb \in {"enBoth", "enSel", "enNb0", "enNb1", "enSof"} => ~tx_trans_ongoing
    /\ usb \in {"enSel", "enNb0", "enNb1", "enSof"} => ~tx_both_buf_to_send
    /\ usb \in {"enNb0", "enNb1", "enSof"} => tx_buf_sel = 0
    /\ usb \in {"enNb1", "enSof"} => tx_buf_nb[0] = 0
    /\ usb = "enSof" => tx_buf_nb[1] = 0

Contents ==
    /\ got \in Nat /\ \A b \in Bufs : tx_buf_nb[b] <= BufSize
    /\ usb \notin Resetting =>
         /\ tx_trans_ongoing \/ tx_both_buf_to_send \/ tx_buf_nb[Old] = 0
         /\ put = got + Unsent + tx_buf_nb[tx_buf_sel]
         /\ \A i \in 0 .. (BufSize - 1) :
              /\ i < Unsent => tx_buf[Old][i] = got + i + 1
              /\ i < tx_buf_nb[tx_buf_sel] => tx_buf[tx_buf_sel][i] = got + Unsent + i + 1

TxInv == Owner /\ Calls /\ Enables /\ Contents

\* Whatever the application writes is sent, unless the connection ends or the
\* host halts the endpoint.
AllSent == \A n \in 1 .. MaxBytes :
    put >= n /\ ep_on ~> got >= n \/ ~ep_on \/ aborted
=============================================================================
