------------------------------ MODULE UdiCdcRx ------------------------------
(***************************************************************************)
(* The receive side of the CDC data interface (udi_cdc.c): a ring of       *)
(* buffers filled by the OUT endpoint and emptied by udi_cdc_multi_getc    *)
(* and udi_cdc_multi_read_buf.                                             *)
(*                                                                         *)
(* Two activities share it: the USB interrupt (enable, disable, transfer   *)
(* completed) and the application.  One of them is the higher priority:    *)
(* the USART interrupt of EXAMPLE_CDC_MSC1 preempts the USB interrupt, and *)
(* the USB interrupt preempts the main loop of DEVICE_EXAMPLE1.  The one   *)
(* of lower priority moves only while the other is idle; a section between *)
(* cpu_irq_save and cpu_irq_restore is one step.                           *)
(***************************************************************************)
EXTENDS Integers

CONSTANTS
    RxBufs,     \* number of buffers: 2, or RX_BUFF_NUM_MAX + 1
    BufSize,    \* UDI_CDC_RX_BUFFERS, in bytes
    Highs,      \* which of the two may preempt the other: "usb", "app"
    MaxBytes,   \* bound: bytes the host sends
    MaxEnables, \* bound: times the interface is enabled
    Tear        \* whether a call of the application and the enabling of the
                \* interface can overlap: the main loop interrupted by a bus
                \* reset, udi_cdc_data_enable by the USART interrupt

ASSUME RxAssumption ==
    /\ RxBufs \in Nat /\ RxBufs > 1
    /\ BufSize \in Nat \ {0}
    /\ Highs \subseteq {"usb", "app"}
    /\ MaxBytes \in Nat /\ MaxEnables \in Nat
    /\ Tear \in BOOLEAN

Bufs == 0 .. (RxBufs - 1)
NoBuf == RxBufs

VARIABLES
    rx_buf,      \* bytes, by their number in the host's stream
    rx_buf_nb, rx_buf_sel, rx_pos, rx_trans_ongoing, data_running,
    job,         \* the buffer the endpoint is filling, or NoBuf
    ep_on,       \* the endpoint exists: the configuration is set
    uart_on,     \* uart_open .. uart_close
    tx_irq,      \* US_IMR_TXRDY: the USART interrupt will ask for a byte
    usb, usb_n,  \* where the USB interrupt is, and its count or loop index
    usb_buf,     \* its buf_sel_trans
    app, app_pos, app_sel, app_n, app_buf,  \* the same for the application
    sent,        \* number of the last byte the host sent
    got,         \* number of the last byte the application read, -1 after a gap
    aborted,     \* the host has halted the endpoint in this connection
    enables,
    high         \* which of the two has the higher priority; never changes

ring == <<rx_buf_nb, rx_buf_sel, rx_pos, rx_trans_ongoing>>
ports == <<ep_on, uart_on, tx_irq, data_running>>
usbvars == <<usb, usb_n, usb_buf>>
appvars == <<app, app_pos, app_sel, app_n, app_buf>>
bounds == <<aborted, enables, high>>
vars == <<rx_buf, ring, job, ports, usbvars, appvars, sent, got, bounds>>

Enabling == {"enOngoing", "enSel", "enNb", "enPos", "enStart", "enRun"}

Init ==
    /\ rx_buf = [b \in Bufs |-> [i \in 0 .. (BufSize - 1) |-> 0]]
    /\ rx_buf_nb = [b \in Bufs |-> 0]
    /\ rx_buf_sel = 0 /\ rx_pos = 0
    /\ rx_trans_ongoing = FALSE /\ data_running = FALSE
    /\ job = NoBuf
    /\ ep_on = FALSE /\ uart_on = FALSE /\ tx_irq = FALSE
    /\ usb = "idle" /\ usb_n = 0 /\ usb_buf = 0
    /\ app = "idle" /\ app_pos = 0 /\ app_sel = 0 /\ app_n = 0 /\ app_buf = 0
    /\ sent = 0 /\ got = 0
    /\ aborted = FALSE /\ enables = 0
    /\ high \in Highs

UsbMoves == high = "app" => app = "idle"
AppMoves == high = "usb" => usb = "idle"

\* (buf_sel == RX_BUFF_NUM_MAX) ? 0 : buf_sel + 1.  Mutant: without the wrap.
SuccNoWrap(b) == b + 1

Succ(b) == IF b = RxBufs - 1 THEN 0 ELSE b + 1

\* udi_cdc_multi_is_rx_ready: the count is unsigned, so it is positive also
\* when rx_pos is past the end.  getc and read_buf compare instead.
RxReady == rx_buf_nb[rx_buf_sel] # rx_pos

HasData == rx_pos < rx_buf_nb[rx_buf_sel]

-----------------------------------------------------------------------------
\* udi_cdc_rx_start up to cpu_irq_restore: whether it will start a transfer.
\* Mutants: over unread data; while one is under way.
MayStartOverData == ~rx_trans_ongoing
MayStartTwice == ~HasData

MayStart == ~rx_trans_ongoing /\ ~HasData

SwitchBuffer ==
    /\ MayStart
    /\ rx_pos' = 0
    /\ rx_buf_sel' = Succ(rx_buf_sel)
    /\ rx_trans_ongoing' = TRUE
    /\ UNCHANGED rx_buf_nb

\* The rest of it: UDI_CDC_RX_NOTIFY if there are data in the new current
\* buffer, then udd_ep_run, which refuses an endpoint that is off or busy,
\* or halted, which it can be in a connection with an abort.
\* Mutant: without the notification.
NotifyNobody == UNCHANGED tx_irq

Notify == tx_irq' = (tx_irq \/ (RxReady /\ uart_on))

EpRun(b) ==
    \/ ep_on /\ job = NoBuf /\ job' = b
    \/ (~ep_on \/ job # NoBuf \/ aborted) /\ UNCHANGED job

-----------------------------------------------------------------------------
\* USB interrupt: SET_CONFIGURATION.  udi_cdc_comm_enable opens the UART.
EnableBegins ==
    /\ UsbMoves /\ usb = "idle"
    /\ ~ep_on /\ enables < MaxEnables
    /\ Tear \/ app = "idle"
    /\ ep_on' = TRUE
    /\ uart_on' = TRUE /\ tx_irq' = TRUE
    /\ usb' = "enOngoing"
    /\ enables' = enables + 1 /\ aborted' = FALSE
    /\ UNCHANGED <<rx_buf, ring, data_running, job, usb_n, usb_buf, appvars, sent, got,
                   high>>

\* udi_cdc_data_enable, one assignment to a step.
EnableOngoing ==
    /\ UsbMoves /\ usb = "enOngoing"
    /\ rx_trans_ongoing' = FALSE
    /\ usb' = "enSel"
    /\ UNCHANGED <<rx_buf, rx_buf_nb, rx_buf_sel, rx_pos, job, ports, usb_n, usb_buf,
                   appvars, sent, got, bounds>>

EnableSel ==
    /\ UsbMoves /\ usb = "enSel"
    /\ rx_buf_sel' = 0
    /\ usb' = "enNb" /\ usb_n' = 0
    /\ UNCHANGED <<rx_buf, rx_buf_nb, rx_pos, rx_trans_ongoing, job, ports, usb_buf,
                   appvars, sent, got, bounds>>

\* The counts of buffers 0 .. 7, or of both: nine buffers have one more.
\* Mutant: one count too few.
LastClearedEarly == usb_n = 6 \/ usb_n = RxBufs - 2

LastCleared == usb_n = 7 \/ usb_n = RxBufs - 1

EnableNb ==
    /\ UsbMoves /\ usb = "enNb"
    /\ rx_buf_nb' = [rx_buf_nb EXCEPT ![usb_n] = 0]
    /\ IF LastCleared
       THEN usb' = "enPos" /\ usb_n' = 0
       ELSE usb_n' = usb_n + 1 /\ UNCHANGED usb
    /\ UNCHANGED <<rx_buf, rx_buf_sel, rx_pos, rx_trans_ongoing, job, ports, usb_buf,
                   appvars, sent, got, bounds>>

\* What the host sent and nobody read is gone.
EnablePos ==
    /\ UsbMoves /\ usb = "enPos"
    /\ rx_pos' = 0
    /\ got' = sent
    /\ usb' = "enStart"
    /\ UNCHANGED <<rx_buf, rx_buf_nb, rx_buf_sel, rx_trans_ongoing, job, ports,
                   usb_n, usb_buf, appvars, sent, bounds>>

EnableStart ==
    /\ UsbMoves /\ usb = "enStart"
    /\ IF MayStart
       THEN SwitchBuffer /\ usb_buf' = rx_buf_sel /\ usb' = "enRun"
       ELSE UNCHANGED <<ring, usb_buf>> /\ usb' = "idle"
    /\ UNCHANGED <<rx_buf, job, ports, usb_n, appvars, sent, got, bounds>>

EnableRun ==
    /\ UsbMoves /\ usb = "enRun"
    /\ Notify
    /\ EpRun(usb_buf)
    /\ data_running' = (job = NoBuf)
    /\ usb' = "idle"
    /\ UNCHANGED <<rx_buf, ring, ep_on, uart_on, usb_n, usb_buf, appvars, sent, got,
                   bounds>>

\* A bus reset: the endpoint's job is aborted, which udi_cdc_data_received
\* ignores, and udi_cdc_data_disable closes the UART.
Disable ==
    /\ UsbMoves /\ usb = "idle"
    /\ ep_on
    /\ Tear \/ app = "idle"
    /\ ep_on' = FALSE /\ job' = NoBuf
    /\ uart_on' = FALSE /\ tx_irq' = FALSE
    /\ data_running' = FALSE
    /\ UNCHANGED <<rx_buf, ring, usbvars, appvars, sent, got, bounds>>

\* The host halts the endpoint: its transfer, if there is one, is aborted, and
\* udi_cdc_data_received gets UDD_EP_TRANSFER_ABORT and returns, so that
\* rx_trans_ongoing stays.
Abort ==
    /\ UsbMoves /\ usb = "idle"
    /\ ep_on
    /\ job' = NoBuf
    /\ aborted' = TRUE
    /\ UNCHANGED <<rx_buf, ring, ports, usbvars, appvars, sent, got, enables, high>>

\* A transfer ends, full or on a short packet, with n bytes: the first part of
\* udi_cdc_data_received.  An empty one is run again.
Received ==
    /\ UsbMoves /\ usb = "idle"
    /\ job # NoBuf
    /\ \E n \in 0 .. BufSize :
         /\ sent + n <= MaxBytes
         /\ sent' = sent + n
         /\ rx_buf' = [rx_buf EXCEPT ![job] =
                [i \in 0 .. (BufSize - 1) |-> IF i < n THEN sent + i + 1 ELSE @[i]]]
         /\ IF n = 0
            THEN job' = Succ(rx_buf_sel) /\ UNCHANGED <<usb, usb_n>>
            ELSE job' = NoBuf /\ usb' = "rcvNb" /\ usb_n' = n
    /\ UNCHANGED <<ring, ports, usb_buf, appvars, got, bounds>>

ReceivedNb ==
    /\ UsbMoves /\ usb = "rcvNb"
    /\ rx_buf_nb' = [rx_buf_nb EXCEPT ![Succ(rx_buf_sel)] = usb_n]
    /\ usb' = "rcvOngoing" /\ usb_n' = 0
    /\ UNCHANGED <<rx_buf, rx_buf_sel, rx_pos, rx_trans_ongoing, job, ports, usb_buf,
                   appvars, sent, got, bounds>>

ReceivedOngoing ==
    /\ UsbMoves /\ usb = "rcvOngoing"
    /\ rx_trans_ongoing' = FALSE
    /\ usb' = "rcvStart"
    /\ UNCHANGED <<rx_buf, rx_buf_nb, rx_buf_sel, rx_pos, job, ports, usb_n, usb_buf,
                   appvars, sent, got, bounds>>

ReceivedStart ==
    /\ UsbMoves /\ usb = "rcvStart"
    /\ IF MayStart
       THEN SwitchBuffer /\ usb_buf' = rx_buf_sel /\ usb' = "rcvRun"
       ELSE UNCHANGED <<ring, usb_buf>> /\ usb' = "idle"
    /\ UNCHANGED <<rx_buf, job, ports, usb_n, appvars, sent, got, bounds>>

ReceivedRun ==
    /\ UsbMoves /\ usb = "rcvRun"
    /\ Notify
    /\ EpRun(usb_buf)
    /\ usb' = "idle"
    /\ UNCHANGED <<rx_buf, ring, ep_on, uart_on, data_running, usb_n, usb_buf,
                   appvars, sent, got, bounds>>

-----------------------------------------------------------------------------
\* The application asks for a byte: the main loop at any time, the USART
\* interrupt when it is enabled.
AppCalls ==
    /\ AppMoves /\ app = "idle"
    /\ high = "app" => tx_irq
    /\ Tear \/ usb \notin Enabling

\* The first section of getc and read_buf.  Without data they look again, or
\* return without any if data_running is FALSE (a getc that must return a byte
\* returns 0): the next call looks again.
AppChecks ==
    /\ AppCalls
    /\ HasData
    /\ app_pos' = rx_pos /\ app_sel' = rx_buf_sel
    /\ app' = "copy"
    /\ UNCHANGED <<rx_buf, ring, job, ports, usbvars, app_n, app_buf, sent, got, bounds>>

\* The USART interrupt finds nothing to send and disables itself.
AppSleeps ==
    /\ high = "app" /\ AppCalls
    /\ ~RxReady
    /\ tx_irq' = FALSE
    /\ UNCHANGED <<rx_buf, ring, job, ep_on, uart_on, data_running, usbvars, appvars,
                   sent, got, bounds>>

\* One byte (getc) or as many as the buffer has and the caller wants.
AppCopies ==
    /\ AppMoves /\ app = "copy"
    /\ \E n \in 1 .. BufSize :
         /\ n = 1 \/ app_pos + n <= rx_buf_nb[app_sel]
         /\ app_n' = n
         /\ got' = IF \A i \in 1 .. n : rx_buf[app_sel][app_pos + i - 1] = got + i
                   THEN got + n ELSE -1
    /\ app' = "advance"
    /\ UNCHANGED <<rx_buf, ring, job, ports, usbvars, app_pos, app_sel, app_buf, sent,
                   bounds>>

\* getc assigns pos + 1, read_buf adds.
AppAdvances ==
    /\ AppMoves /\ app = "advance"
    /\ rx_pos' \in {rx_pos + app_n} \union (IF app_n = 1 THEN {app_pos + 1} ELSE {})
    /\ app' = "start"
    /\ app_pos' = 0 /\ app_sel' = 0 /\ app_n' = 0
    /\ UNCHANGED <<rx_buf, rx_buf_nb, rx_buf_sel, rx_trans_ongoing, job, ports,
                   usbvars, app_buf, sent, got, bounds>>

AppStarts ==
    /\ AppMoves /\ app = "start"
    /\ IF MayStart
       THEN SwitchBuffer /\ app_buf' = rx_buf_sel /\ app' = "run"
       ELSE UNCHANGED <<ring, app_buf>> /\ app' = "idle"
    /\ UNCHANGED <<rx_buf, job, ports, usbvars, app_pos, app_sel, app_n, sent, got,
                   bounds>>

AppRuns ==
    /\ AppMoves /\ app = "run"
    /\ Notify
    /\ EpRun(app_buf)
    /\ app' = "idle"
    /\ UNCHANGED <<rx_buf, ring, ep_on, uart_on, data_running, usbvars, app_pos,
                   app_sel, app_n, app_buf, sent, got, bounds>>

UsbSteps ==
    \/ EnableOngoing \/ EnableSel \/ EnableNb \/ EnablePos \/ EnableStart \/ EnableRun
    \/ ReceivedNb \/ ReceivedOngoing \/ ReceivedStart \/ ReceivedRun

AppSteps ==
    AppChecks \/ AppSleeps \/ AppCopies \/ AppAdvances \/ AppStarts \/ AppRuns

Next == EnableBegins \/ Disable \/ Abort \/ Received \/ UsbSteps \/ AppSteps

\* Both activities go on once begun; the application keeps reading.
Spec == Init /\ [][Next]_vars /\ WF_vars(UsbSteps) /\ WF_vars(AppSteps)

-----------------------------------------------------------------------------
FlagsOK ==
    /\ rx_trans_ongoing \in BOOLEAN /\ data_running \in BOOLEAN
    /\ ep_on \in BOOLEAN /\ uart_on \in BOOLEAN /\ tx_irq \in BOOLEAN
    /\ aborted \in BOOLEAN

DataOK ==
    /\ rx_buf \in [Bufs -> [0 .. (BufSize - 1) -> Nat]]
    /\ rx_buf_nb \in [Bufs -> 0 .. BufSize]
    /\ rx_buf_sel \in Bufs
    /\ rx_pos \in Nat
    /\ job \in Bufs \union {NoBuf}
    /\ usb \in {"idle", "rcvNb", "rcvOngoing", "rcvStart", "rcvRun"} \union Enabling
    /\ usb_n \in Nat /\ (usb = "rcvNb" => usb_n <= BufSize)
    /\ usb_buf \in Bufs
    /\ app \in {"idle", "copy", "advance", "start", "run"}
    /\ app_pos \in Nat /\ app_sel \in Bufs /\ app_n \in 0 .. BufSize /\ app_buf \in Bufs
    /\ sent \in Nat
    /\ got \in Nat \union {-1}
    /\ enables \in Nat
    /\ high \in Highs

TypeOK == FlagsOK /\ DataOK

\* The bytes the application reads are the bytes the host sent, in order, each
\* once: no byte of a buffer still being filled, none twice, none of an earlier
\* connection (udi_cdc_data_received, udi_cdc_rx_start, getc, read_buf).
Stream == INSTANCE ByteStream WITH
    written <- sent, delivered <- got, up <- data_running /\ ep_on

InOrder == Stream!Spec

-----------------------------------------------------------------------------
\* The state of a ring of two buffers, when calls and enabling do not overlap:
\* what it holds is the run of bytes from got + 1 to sent.

\* The position of the first byte not yet copied, and the number of the last
\* byte of the current buffer.
Unread == IF app = "advance" THEN rx_pos + app_n ELSE rx_pos
EndCur == got + (rx_buf_nb[rx_buf_sel] - Unread)
Oth == Succ(rx_buf_sel)

\* Buffer b holds bytes first, first + 1, .. at positions lo .. hi - 1.
Holds(b, first, lo, hi) ==
    \A i \in 0 .. (BufSize - 1) :
        lo <= i /\ i < hi => rx_buf[b][i] = first + (i - lo)

CurrentHolds ==
    /\ Unread <= rx_buf_nb[rx_buf_sel]
    /\ Holds(rx_buf_sel, got + 1, Unread, rx_buf_nb[rx_buf_sel])

\* How many bytes of the other buffer follow them: all those counted in it,
\* those just received, or none while it is given to the endpoint.
OtherCount ==
    IF usb = "rcvNb" THEN usb_n
    ELSE IF usb # "rcvOngoing" /\ rx_trans_ongoing THEN 0
    ELSE rx_buf_nb[Oth]

OtherHolds ==
    /\ usb = "rcvNb" => usb_n > 0
    /\ usb \in {"rcvNb", "rcvOngoing"} => rx_trans_ongoing
    /\ sent = EndCur + OtherCount
    /\ Holds(Oth, EndCur + 1, 0, OtherCount)

\* Who owns the transfer.
Owner ==
    /\ job # NoBuf =>
         /\ rx_trans_ongoing /\ job = Oth /\ ep_on
         /\ usb \in {"idle", "rcvStart"} /\ app # "run"
    /\ app = "run" =>
         rx_trans_ongoing /\ app_buf = Oth /\ usb \in {"idle", "rcvStart"}
    /\ usb \in {"rcvRun", "enRun"} => rx_trans_ongoing /\ usb_buf = Oth

Calls ==
    /\ app = "copy" => app_pos = rx_pos /\ app_sel = rx_buf_sel /\ HasData
    /\ app = "advance" => app_pos = rx_pos /\ app_n > 0
    /\ app # "idle" => usb \notin Enabling

\* data_enable clears what it has passed; nothing counts before rx_pos.
Clearing == {"enOngoing", "enSel", "enNb", "enPos"}

Enables ==
    /\ usb \in Enabling => ~data_running /\ job = NoBuf /\ ep_on
    /\ usb \in {"enSel", "enNb", "enPos", "enStart"} => ~rx_trans_ongoing
    /\ usb \in {"enNb", "enPos", "enStart"} => rx_buf_sel = 0
    /\ usb = "enNb" => usb_n \in Bufs /\ \A b \in Bufs : b < usb_n => rx_buf_nb[b] = 0
    /\ usb \in {"enPos", "enStart"} => \A b \in Bufs : rx_buf_nb[b] = 0
    /\ usb = "enStart" => rx_pos = 0 /\ got = sent

RingInv ==
    /\ got \in Nat
    /\ data_running => ep_on
    /\ usb \notin Clearing => CurrentHolds /\ OtherHolds
    /\ Owner /\ Calls /\ Enables

-----------------------------------------------------------------------------
\* The endpoint never fills the buffer that is being read (udi_cdc_rx_start:
\* a transfer starts only on a buffer read to its end).
NoOverwrite == job # NoBuf /\ usb \notin Enabling => job # rx_buf_sel \/ ~HasData

\* Whatever the host has sent is read, unless the connection ends or the
\* host halts the endpoint
\* (RX_NOTIFY and the buffer switch never leave data behind unseen).
AllRead == \A n \in 1 .. MaxBytes :
    sent >= n /\ ep_on ~> got >= n \/ ~ep_on \/ aborted
=============================================================================
