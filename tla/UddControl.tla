----------------------------- MODULE UddControl -----------------------------
(***************************************************************************)
(* The control endpoint of the USB device driver (udphs_device.c): the     *)
(* state of the request (ctl), and the endpoint in the hardware (ep0),     *)
(* which goes on exchanging packets with the host while its interrupt is   *)
(* pending.  The interrupt is one step.                                    *)
(***************************************************************************)
EXTENDS Udc

CONSTANTS Requests

\* What a host may ask for.  A request of one of these names whose direction or
\* length does not fit is refused like one that the device does not know, and
\* is represented by another name, and so is a SETUP packet that has not 8 bytes;
\* 16 bits bound the lengths, 7 an address.
Reads == {"getDescriptor", "getConfiguration", "getInterface", "getLineCoding"}
Orders == {"setAddress", "setConfiguration", "setInterface", "setLineState"}

ASSUME RequestsAssumption ==
    /\ \E r \in Requests : \A q \in Requests : q.len <= r.len
    /\ \A r \in Requests :
         /\ r.in \in BOOLEAN /\ r.len \in Nat /\ r.n \in Nat /\ r.i \in Nat
         /\ r.d \in Items
         /\ r.op \in Reads => r.in /\ r.len > 0
         /\ r.op \in Orders => ~r.in /\ r.len = 0
         /\ r.op = "setLineCoding" => ~r.in /\ r.len = 1 /\ r.d \in Codings
         /\ r.op = "setAddress" => r.n \in 0..127

VARIABLES ep0, ctl, udc

ctrlVars == <<ep0, ctl, udc>>

\* Packets: a length, and of what they are a part.
Full == 2
Packet(len, payload) == [len |-> len, d |-> payload.d, n |-> payload.n]
Nothing == [d |-> NoItem, n |-> 0]
Zlp == Packet(0, Nothing)
Packets == [len : 0..Full, d : Items, n : 0..1]

NoRequest ==
    [op |-> "none", in |-> FALSE, len |-> 0, n |-> 0, i |-> 0, d |-> NoItem]

CtrlStates ==
    {"SETUP", "DATA_OUT", "DATA_IN", "WAIT_IN_ZLP", "WAIT_OUT_ZLP", "STALL_REQ"}

\* Flags of the hardware: a SETUP packet (setup), an IN packet that waits for
\* the host (tx) or was sent (sent), an OUT packet (out), a forced stall, a
\* refused IN or OUT token (nakIn, nakOut), the end of a bus reset (reset);
\* and the interrupts that are enabled on sent, nakIn, nakOut.
EpTypes ==
    [setup : Seq(Requests), tx : Seq(Packets), out : Seq(Packets),
     sent : BOOLEAN, sentIrq : BOOLEAN, stall : BOOLEAN, nakIn : BOOLEAN,
     nakInIrq : BOOLEAN, nakOut : BOOLEAN, nakOutIrq : BOOLEAN, reset : BOOLEAN]

EpClear ==
    [setup |-> <<>>, tx |-> <<>>, out |-> <<>>, sent |-> FALSE, sentIrq |-> FALSE,
     stall |-> FALSE, nakIn |-> FALSE, nakInIrq |-> FALSE, nakOut |-> FALSE,
     nakOutIrq |-> FALSE, reset |-> FALSE]

\* udd_g_ctrlreq, with the counters of its payload and b_shortpacket.
CtlTypes(maxLen) ==
    [state : CtrlStates, req : Requests \cup {NoRequest},
     callback : {"none", "address", "coding"}, payload : [d : Items, n : 0..1],
     size : 0..maxLen, cnt : 0..maxLen, prev : 0..2 * maxLen, short : BOOLEAN]

CtlInit ==
    [state |-> "SETUP", req |-> NoRequest, callback |-> "none", payload |-> Nothing,
     size |-> 0, cnt |-> 0, prev |-> 0, short |-> FALSE]

-----------------------------------------------------------------------------
\* Internal routines, on the hardware e or the request c.

\* Mutants: the OUT packet is left in the bank; the interrupt on the next packet
\* is missing; the end of a request that is cut short by the next one is
\* forgotten; what remains is counted from wLength; the interrupts on refused
\* tokens stay enabled.
FreeEpKeepsOut(e) == [e EXCEPT !.sentIrq = FALSE]
RaiseTxQuietly(e, p) == [e EXCEPT !.tx = <<p>>, !.sent = FALSE]
HiddenEndForgotten == udc
RemainingOfRequest(c) == c.req.len - c.cnt
EnteredWithIrqs == ep0

\* udd_ctrl_init: the endpoint, and the request.  The last request, its payload
\* and its counters are dropped: the next one sets them before it reads them, as
\* no payload is empty.
FreeEp(e) == [e EXCEPT !.sentIrq = FALSE, !.out = <<>>]

FreeRequest(c) ==
    [c EXCEPT !.callback = "none", !.size = 0, !.state = "SETUP",
              !.req = NoRequest, !.payload = Nothing, !.cnt = 0, !.prev = 0,
              !.short = FALSE]

\* udd_ctrl_endofrequest
EndOfRequest == Callback(udc, ctl.callback, ctl.req)

\* udd_ctrl_stall_data
StallData(e, c) ==
    /\ ep0' = [e EXCEPT !.stall = TRUE]
    /\ ctl' = [c EXCEPT !.state = "STALL_REQ"]

\* The bank is filled and given to the hardware, with an interrupt when it is
\* sent.
RaiseTx(e, p) == [e EXCEPT !.tx = <<p>>, !.sent = FALSE, !.sentIrq = TRUE]

\* udd_ctrl_send_zlp_in and udd_ctrl_send_zlp_out: the handshake, in which the
\* refusal of a token of the other direction is told from now on.
SendZlpIn(e, c) ==
    /\ ep0' = [RaiseTx(e, Zlp) EXCEPT !.nakOut = FALSE, !.nakOutIrq = TRUE]
    /\ ctl' = [c EXCEPT !.state = "WAIT_IN_ZLP"]

SendZlpOut(e, c) ==
    /\ ep0' = [e EXCEPT !.nakIn = FALSE, !.nakInIrq = TRUE]
    /\ ctl' = [c EXCEPT !.state = "WAIT_OUT_ZLP"]

-----------------------------------------------------------------------------
\* udd_ctrl_in_sent in the data phase.

Remaining(c) == c.size - c.cnt

DataEnds(c) == Remaining(c) = 0 /\ (c.req.len = c.prev + c.cnt \/ c.short)

\* The next packet, which is empty when the payload was a multiple of the
\* packet and shorter than wLength.
Counted(c) ==
    [c EXCEPT !.prev = IF Remaining(c) = 0 THEN @ + c.cnt ELSE @,
              !.short = Remaining(c) < Full]

SendData(e, c) ==
    LET len == Smaller(Remaining(c), Full) IN
    /\ ep0' = RaiseTx(e, Packet(len, c.payload))
    /\ ctl' = [Counted(c) EXCEPT !.cnt = @ + len]

NextData(e, c) ==
    \/ DataEnds(c) /\ SendZlpOut(e, [c EXCEPT !.prev = @ + c.cnt])
    \* The host has ended the phase.
    \/ /\ ~DataEnds(c) /\ e.out # <<>>
       /\ ep0' = e
       /\ ctl' = [Counted(c) EXCEPT !.state = "WAIT_OUT_ZLP"]
    \/ ~DataEnds(c) /\ e.out = <<>> /\ SendData(e, c)

-----------------------------------------------------------------------------
\* The USB interrupt on the control endpoint.

Pending ==
    \/ ep0.reset
    \/ ep0.setup # <<>>
    \/ ep0.out # <<>>
    \/ ep0.sent /\ ep0.sentIrq
    \/ ep0.nakIn /\ ep0.nakInIrq
    \/ ep0.nakOut /\ ep0.nakOutIrq

\* udd_ctrl_interrupt serves one event; the interrupts on refused tokens are
\* off until a handler wants them again.
Entered == [ep0 EXCEPT !.nakInIrq = FALSE, !.nakOutIrq = FALSE]

\* udd_ctrl_setup_received.  The request before it may be over without the
\* interrupt of its handshake having been served, or given up by the host.  A
\* packet that has not 8 bytes is not copied to the request before the stall,
\* which nobody can tell: the request is not read in that state.
HiddenEnd == EndOfRequest

StartData(c, state) == [c EXCEPT !.state = state, !.prev = 0, !.cnt = 0]

SetupReceived ==
    /\ ep0.setup # <<>>
    /\ LET r == Head(ep0.setup)
           hidden == ctl.state # "SETUP"
           e == [(IF hidden THEN FreeEp(Entered) ELSE Entered) EXCEPT !.setup = <<>>]
       IN \E p \in {ProcessSetup(IF hidden THEN HiddenEnd ELSE udc, r)} :
            LET c == [(IF hidden THEN FreeRequest(ctl) ELSE ctl) EXCEPT
                        !.req = r, !.callback = p.callback,
                        !.payload = p.payload, !.size = p.size]
            IN /\ udc' = p.udc
               /\ \/ ~p.ok /\ StallData(e, c)
                  \/ p.ok /\ r.in /\ NextData([e EXCEPT !.sentIrq = FALSE],
                                              StartData(c, "DATA_IN"))
                  \/ p.ok /\ ~r.in /\ r.len = 0 /\ SendZlpIn(e, c)
                  \/ /\ p.ok /\ ~r.in /\ r.len > 0
                     /\ ep0' = [e EXCEPT !.nakIn = FALSE, !.nakInIrq = TRUE]
                     /\ ctl' = StartData(c, "DATA_OUT")

InIsSent == ep0.setup = <<>> /\ ep0.sent /\ ep0.sentIrq

\* The end of a request: what its handlers do when the handshake is over.
RequestOver ==
    /\ udc' = EndOfRequest
    /\ ep0' = FreeEp(Entered)
    /\ ctl' = FreeRequest(ctl)

\* udd_ctrl_in_sent
InSent ==
    /\ InIsSent
    /\ \/ ctl.state = "WAIT_IN_ZLP" /\ RequestOver
       \/ /\ ctl.state = "DATA_IN"
          /\ NextData([Entered EXCEPT !.sentIrq = FALSE], ctl)
          /\ UNCHANGED udc

OutIsReceived == ep0.setup = <<>> /\ ~InIsSent /\ ep0.out # <<>>

\* udd_ctrl_out_received.  The one request with data from the host is
\* SET_LINE_CODING: its payload fits in one packet, which ends the data phase.
OutReceived ==
    /\ OutIsReceived
    /\ \/ /\ ctl.state = "DATA_OUT"
          /\ LET p == Head(ep0.out) IN
             /\ udc' = [udc EXCEPT !.coding = p.d]
             /\ SendZlpIn([Entered EXCEPT !.out = <<>>],
                          [ctl EXCEPT !.cnt = @ + p.len, !.size = ctl.cnt + p.len])
       \/ ctl.state \in {"DATA_IN", "WAIT_OUT_ZLP"} /\ RequestOver
       \/ /\ ctl.state \in {"SETUP", "WAIT_IN_ZLP", "STALL_REQ"}
          /\ ep0' = [FreeEp(Entered) EXCEPT !.stall = TRUE]
          /\ ctl' = FreeRequest(ctl)
          /\ UNCHANGED udc

NoPacket == ep0.setup = <<>> /\ ~InIsSent /\ ep0.out = <<>> /\ ~ep0.reset

\* udd_ctrl_overflow: an OUT token was refused.  More data than wLength while
\* the handshake waits is stalled.
Overflow ==
    /\ Pending /\ NoPacket /\ ep0.nakOut
    /\ ep0' = [Entered EXCEPT !.nakOut = FALSE,
                              !.stall = @ \/ (~ep0.sent /\ ctl.state = "WAIT_IN_ZLP")]
    /\ UNCHANGED <<ctl, udc>>

\* udd_ctrl_underflow: an IN token was refused.  The host may end its data
\* early, and asks for too much if the handshake is its own.
Underflow ==
    /\ Pending /\ NoPacket /\ ~ep0.nakOut
    /\ LET e == [Entered EXCEPT !.nakIn = FALSE] IN
       \/ ctl.state = "DATA_OUT" /\ SendZlpIn(e, ctl)
       \/ /\ ctl.state # "DATA_OUT"
          /\ ep0' = [e EXCEPT !.stall = @ \/ ctl.state = "WAIT_OUT_ZLP"]
          /\ UNCHANGED ctl
    /\ UNCHANGED udc

\* The end of a bus reset, in udd_interrupt.
BusResetEnds ==
    /\ ep0.reset
    /\ ep0' = EpClear
    /\ ctl' = FreeRequest(ctl)
    /\ udc' = [UdcReset(udc) EXCEPT !.address = 0]

Interrupt ==
    \/ SetupReceived \/ InSent \/ OutReceived \/ Overflow \/ Underflow
    \/ BusResetEnds

CtrlBegin == ep0 = EpClear /\ ctl = CtlInit /\ udc = UdcInit
=============================================================================
