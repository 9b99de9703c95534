----------------------------- MODULE UsbControl -----------------------------
(***************************************************************************)
(* Control transfers between a host and the device: SETUP, data, and a     *)
(* handshake in the other direction.  The host may end the data phase of a *)
(* read early and reset the bus at any moment.  At most MaxFaults times it *)
(* gives a request up for the next one, or goes wrong about its data: it   *)
(* keeps back what it announced, or sends or asks for more.  Its tokens    *)
(* meet the endpoint before and after the interrupt has served the last    *)
(* event.                                                                  *)
(***************************************************************************)
EXTENDS UddControl

CONSTANT MaxFaults

ASSUME MaxFaultsAssumption == MaxFaults \in Nat

VARIABLES
    host  \* the host's side of the transfer, and what it knows of the device

vars == <<ctrlVars, host>>

\* A stage of the request req; a request ends well (idle, or ok after a read),
\* or with a stall.
Resting == {"off", "idle", "ok", "stalled"}
Stages == {"dataIn", "dataOut", "statusIn", "statusOut"}

Unknown == 2  \* the configuration after a SET_CONFIGURATION that was given up

HostTypes ==
    [st : Resting \cup Stages, req : Requests \cup {NoRequest},
     got : Nat, what : [d : Items, n : 0..1], early : BOOLEAN, wrong : BOOLEAN,
     addr : 0..127, lost : BOOLEAN, config : 0..Unknown,
     coding : Codings \cup {NoItem}, touched : SUBSET Ifaces, faults : 0..MaxFaults]

\* got and what: length and contents of the data that was read; early: the
\* host ended the data phase, or (wrong) mistook it; lost: the address may have changed after a
\* SET_ADDRESS that was given up; touched: interfaces that a SET_INTERFACE may
\* have left down, or without the UART.
HostInit ==
    host = [st |-> "off", req |-> NoRequest, got |-> 0, what |-> Nothing,
            early |-> FALSE, wrong |-> FALSE, addr |-> 0, lost |-> FALSE, config |-> 0,
            coding |-> NoItem, touched |-> {}, faults |-> 0]

Reached == host.addr = udc.address /\ ~ep0.reset

-----------------------------------------------------------------------------
\* An interface that may be down or, if it is the data interface, may have
\* closed the UART.
Stirred(r) == {i \in Ifaces : i = r.i /\ (i = DataIface \/ r.n # 0)}

\* What the host knows of the device after its request succeeded, failed or
\* was given up.
Succeeded(h) ==
    LET r == h.req IN
    CASE r.op = "setAddress" -> [h EXCEPT !.addr = r.n]
      [] r.op = "setConfiguration" ->
           [h EXCEPT !.config = r.n, !.touched = {},
                     !.coding = IF r.n = 1 THEN Default ELSE NoItem]
      [] r.op = "setLineCoding" -> [h EXCEPT !.coding = r.d]
      [] r.op = "setInterface" ->
           [h EXCEPT !.touched = @ \cup Stirred(r),
                     !.coding = IF r.i = Comm THEN Default ELSE @]
      [] OTHER -> h

Failed(h) ==
    CASE h.req.op = "setInterface" -> [h EXCEPT !.touched = @ \cup Stirred(h.req)]
      [] h.req.op = "setLineCoding" /\ h.wrong -> [h EXCEPT !.coding = NoItem]
      [] OTHER -> h

GivenUp(h) ==
    LET r == h.req IN
    CASE r.op = "setAddress" -> [h EXCEPT !.lost = TRUE]
      [] r.op = "setConfiguration" -> [h EXCEPT !.config = Unknown, !.coding = NoItem]
      [] r.op = "setLineCoding" -> [h EXCEPT !.coding = NoItem]
      [] r.op = "setInterface" ->
           [h EXCEPT !.touched = @ \cup Stirred(r), !.coding = NoItem]
      [] OTHER -> h

FirstStage(r) ==
    CASE r.in                -> "dataIn"
      [] ~r.in /\ r.len > 0  -> "dataOut"
      [] OTHER               -> "statusIn"

\* Of a read that succeeds, the request is kept with what it brought.
Over(h) ==
    IF h.req.in THEN [h EXCEPT !.st = "ok"]
    ELSE [(IF h.wrong THEN GivenUp(h) ELSE Succeeded(h)) EXCEPT
             !.st = "idle", !.req = NoRequest, !.wrong = FALSE]

\* A SETUP packet is always accepted.  It ends a forced stall and the IN
\* packet that waited.
HostSetup ==
    /\ host.st # "off" /\ Reached
    /\ host.st \in Stages => host.faults < MaxFaults
    /\ \E r \in Requests :
         /\ ep0' = [ep0 EXCEPT !.setup = <<r>>, !.tx = <<>>, !.stall = FALSE,
                               !.sent = @ \/ ep0.tx # <<>>]
         /\ LET h == IF host.st \in Stages
                     THEN [GivenUp(host) EXCEPT !.faults = @ + 1] ELSE host
            IN host' = [h EXCEPT !.st = FirstStage(r), !.req = r, !.got = 0,
                                 !.what = Nothing, !.early = FALSE, !.wrong = FALSE]
    /\ UNCHANGED <<ctl, udc>>

\* An IN token takes the packet that waits.
HostTakesIn ==
    /\ host.st \in {"dataIn", "statusIn"} /\ Reached /\ ~ep0.stall
    /\ ep0.tx # <<>>
    /\ ep0' = [ep0 EXCEPT !.tx = <<>>, !.sent = TRUE]
    /\ LET p == Head(ep0.tx)
           got == host.got + p.len
       IN host' =
            IF host.st = "statusIn" THEN Over(host)
            ELSE [host EXCEPT
                    !.got = got,
                    !.what = IF p.len > 0 THEN [d |-> p.d, n |-> p.n] ELSE @,
                    !.st = IF p.len < Full \/ got = host.req.len THEN "statusOut" ELSE @]
    /\ UNCHANGED <<ctl, udc>>

OutFree == ep0.setup = <<>> /\ ep0.out = <<>>

\* An OUT token finds the bank free: the data, or the handshake.
HostSendsOut ==
    /\ host.st \in {"dataOut", "statusOut"} /\ Reached /\ ~ep0.stall /\ OutFree
    /\ ep0' = [ep0 EXCEPT !.out =
                 IF host.st = "dataOut"
                 THEN <<Packet(host.req.len, [d |-> host.req.d, n |-> 0])>> ELSE <<Zlp>>]
    /\ host' = IF host.st = "dataOut" THEN [host EXCEPT !.st = "statusIn"]
               ELSE Over(host)
    /\ UNCHANGED <<ctl, udc>>

HostEndsData ==
    /\ host.st = "dataIn"
    /\ host' = [host EXCEPT !.st = "statusOut", !.early = TRUE]
    /\ UNCHANGED ctrlVars

\* A wrong turn: to the handshake without the data, to more data instead of
\* the handshake.
HostErrs ==
    /\ host.faults < MaxFaults
    /\ host.st \in {"dataOut", "statusOut"} \/ (host.st = "statusIn" /\ host.req.len > 0)
    /\ host' = [host EXCEPT !.faults = @ + 1, !.wrong = TRUE, !.st =
                  CASE host.st = "dataOut" -> "statusIn"
                    [] host.st = "statusIn" -> "dataOut"
                    [] OTHER -> "dataIn"]
    /\ UNCHANGED ctrlVars

\* A token is refused because the endpoint is not ready for it, and repeated;
\* an OUT token may be refused while a packet waits in the other direction.
HostRefused ==
    /\ Reached /\ ~ep0.stall
    /\ \/ /\ host.st \in {"dataIn", "statusIn"} /\ ep0.tx = <<>>
          /\ ep0' = [ep0 EXCEPT !.nakIn = TRUE]
       \/ /\ host.st \in {"dataOut", "statusOut"} /\ (~OutFree \/ ep0.tx # <<>>)
          /\ ep0' = [ep0 EXCEPT !.nakOut = TRUE]
    /\ UNCHANGED <<ctl, udc, host>>

HostStalled ==
    /\ host.st \in Stages /\ Reached /\ ep0.stall
    /\ host' = [Failed(host) EXCEPT !.st = "stalled"]
    /\ UNCHANGED ctrlVars

\* The reset disables the endpoint until the interrupt at its end.
HostReset ==
    /\ ep0' = [EpClear EXCEPT !.reset = TRUE]
    /\ host' = [host EXCEPT !.st = "idle", !.req = NoRequest, !.got = 0,
                            !.what = Nothing, !.early = FALSE, !.wrong = FALSE, !.addr = 0,
                            !.lost = FALSE, !.config = 0, !.coding = NoItem,
                            !.touched = {}]
    /\ UNCHANGED <<ctl, udc>>

Device == Interrupt /\ UNCHANGED host

Init == CtrlBegin /\ HostInit

Next ==
    \/ HostSetup \/ HostTakesIn \/ HostSendsOut \/ HostEndsData
    \/ HostErrs \/ HostRefused \/ HostStalled \/ HostReset
    \/ Device

\* The host goes on with a request, and resets a device that does not answer
\* to its address.
HostProceeds ==
    \/ HostTakesIn \/ HostSendsOut \/ HostStalled
    \/ host.st \in Stages /\ host.addr # udc.address /\ HostReset

Fairness == WF_vars(Device) /\ WF_vars(HostProceeds)

Spec == Init /\ [][Next]_vars /\ Fairness

-----------------------------------------------------------------------------
MaxLen == CHOOSE m \in {r.len : r \in Requests} : \A r \in Requests : r.len <= m

\* Types: the packets and flags of the endpoint, the request, the device; the
\* counters of the interfaces stay in 8 bits.
TypeOK ==
    /\ ep0 \in EpTypes /\ Len(ep0.setup) <= 1 /\ Len(ep0.tx) <= 1 /\ Len(ep0.out) <= 1
    /\ ctl \in CtlTypes(MaxLen)
    /\ udc \in UdcTypes
    /\ host \in HostTypes

\* What the device supports, from what the host h knows of it.
Supported(h) ==
    LET r == h.req IN
    CASE r.op \in {"setAddress", "getConfiguration"} -> TRUE
      [] r.op = "setConfiguration" -> r.n <= 1 /\ h.addr # 0
      [] r.op = "getDescriptor" -> r.d \in DOMAIN Size
      [] r.op = "setInterface" -> h.config = 1 /\ r.i \in Ifaces /\ r.n = 0
      [] r.op = "getInterface" -> h.config = 1 /\ r.i \in Ifaces
      [] r.op \in {"getLineCoding", "setLineCoding", "setLineState"} ->
           h.config = 1 /\ r.i = Comm
      [] OTHER -> FALSE

\* A request that the device supports is never stalled if the host keeps to the
\* protocol, whatever the events of
\* the request before it that the interrupt had not served yet, and whatever
\* tokens were refused on the way (udd_ctrl_interrupt, udd_ctrl_underflow,
\* udd_ctrl_overflow).
NotStalled == host.st = "stalled" /\ ~host.wrong => ~Supported(host)

\* What a read of the host h must bring: all of what was asked for, of what the
\* host knows to be there.
Brings(h, what, len) ==
    LET r == h.req IN
    CASE r.op = "getDescriptor" ->
           what = [d |-> r.d, n |-> 0] /\ len = Smaller(Size[r.d], r.len)
      [] r.op = "getConfiguration" /\ h.config # Unknown ->
           what = [d |-> NoItem, n |-> h.config] /\ len = 1
      [] r.op = "getLineCoding" /\ h.coding # NoItem ->
           what = [d |-> h.coding, n |-> 0] /\ len = 1
      [] OTHER -> len > 0

\* A read that succeeds has brought it (udd_ctrl_in_sent).
HostReads ==
    host.st = "ok" /\ host.req.in /\ ~host.early /\ ~host.wrong =>
      Brings(host, host.what, host.got)

\* Unless a SET_ADDRESS was given up, host and device agree on the address as
\* soon as nothing is pending; the handshake of SET_ADDRESS itself passes
\* under the old one (udc_req_std_dev_set_address).
AddressAgrees == ~Pending /\ ~host.lost => udc.address = host.addr

\* A line coding that the host has set is what GET_LINE_CODING reports and
\* what the UART works with, also if the end of the request was hidden by the
\* next one; so is the default after a configuration
\* (udi_cdc_line_coding_received, udi_cdc_comm_enable).
CodingApplied ==
    ~Pending /\ host.st \in Resting /\ host.coding # NoItem =>
      udc.coding = host.coding /\ udc.uart = host.coding

\* The device is in the configuration that the host has set, with its
\* interfaces; the data interface runs when it is enabled, however its counter
\* got there, and the UART is open with it as long as no setting was asked for
\* (udc_reset, udc_iface_disable, udi_cdc_data_enable).
ConfigAgrees ==
    /\ ~Pending /\ host.st \in Resting /\ host.config # Unknown =>
         /\ udc.config = host.config
         /\ \A i \in Ifaces \ host.touched : udc.up[i] = (udc.config = 1)
         /\ host.touched = {} => udc.open = udc.running
    /\ udc.running = udc.up[DataIface]

\* Every request of a host that keeps to the protocol ends: with its handshake,
\* a stall, or a reset of the bus when the device has the wrong address.
RequestEnds == host.st \in Stages ~> host.st \in Resting \/ host.wrong
-----------------------------------------------------------------------------
(***************************************************************************)
(* Host and device in step: the inductive invariant behind the properties. *)
(***************************************************************************)

\* What the host h knows holds of the device u.
Knows(h, u) ==
    /\ h.lost \/ u.address = h.addr
    /\ h.config # Unknown =>
         /\ u.config = h.config
         /\ \A i \in Ifaces \ h.touched : u.up[i] = (u.config = 1)
         /\ h.touched = {} => u.open = u.running
    /\ h.coding # NoItem => u.coding = h.coding /\ u.uart = h.coding

\* The interfaces by themselves: none runs without a configuration.
Interfaces(u) ==
    /\ u.running = u.up[DataIface]
    /\ u.config = 0 => ~u.open /\ \A i \in Ifaces : ~u.up[i]

\* A reset of the bus finds the host without a request and without knowledge.
InReset ==
    ep0.reset =>
      /\ ep0.setup = <<>> /\ ep0.out = <<>> /\ ~ep0.sent /\ host.st = "idle"
      /\ host.addr = 0 /\ host.config = 0 /\ host.coding = NoItem /\ host.touched = {}

\* The stage of the host fits its request.
InStage ==
    host.st \in Stages =>
      /\ host.req \in Requests
      /\ host.req.in => host.st \in {"dataIn", "statusOut"}
      /\ ~host.req.in => host.st \in {"dataOut", "statusIn"} /\ ~host.early
      /\ ~host.req.in /\ host.req.len = 0 => host.st = "statusIn" /\ ~host.wrong
      /\ host.st = "dataIn" /\ host.early => host.wrong

\* A SETUP packet waits: the host has gone no further, and what it knows holds
\* once the end of the request before has been made up for.
InSetup ==
    ep0.setup # <<>> =>
      /\ ep0.setup = <<host.req>> /\ host.st \in Stages /\ ~ep0.stall /\ ep0.tx = <<>>
      /\ host.got = 0 /\ host.what = Nothing
      /\ ~host.wrong /\ ~host.early => host.st = FirstStage(host.req)
      /\ Knows(host, EndOfRequest)

\* What is left to do at the end of a request is that of the request.
InCallback ==
    /\ ctl.callback # "none" => ctl.req \in Requests
    /\ ctl.callback = "address" => ctl.req.op = "setAddress"

Quiet == ep0.setup = <<>> /\ ~ep0.reset

\* Without a request under way, the host knows the device as it is after the end of
\* the last one, even if that end has not been served; a request that is given
\* up, fails or succeeds leaves it right in each case.
InKnowledge ==
    /\ Quiet /\ host.st \in Resting => Knows(host, EndOfRequest)
    /\ host.st \in Stages => Knows(GivenUp(host), EndOfRequest)
    /\ Quiet /\ host.st \in Stages =>
         /\ ~host.lost => udc.address = host.addr
         /\ ep0.stall => Knows(Failed(host), EndOfRequest)
         /\ ctl.state = "WAIT_IN_ZLP" /\ ~host.wrong => Knows(Succeeded(host), EndOfRequest)

\* No request is under way in the device, or it waits for the next one.
StateSetup ==
    ctl.state = "SETUP" =>
      /\ ep0.out = <<>> /\ ~ep0.sentIrq /\ ctl.callback = "none"
      /\ Quiet /\ host.st \in Stages => ep0.stall /\ host.wrong

\* Data to the host: the packets are taken in order, and the last one is the
\* last for both.
Transferred ==
    /\ Brings(host, ctl.payload, ctl.size)
    /\ host.got > 0 => host.what = ctl.payload
    /\ ep0.tx # <<>> =>
         LET p == Head(ep0.tx) IN
         /\ host.st = "dataIn"
         /\ host.got + p.len = ctl.cnt /\ ctl.short = (p.len < Full)
         /\ p.len > 0 => p.d = ctl.payload.d /\ p.n = ctl.payload.n
    /\ ep0.tx = <<>> =>
         /\ host.got = ctl.cnt
         /\ host.st = "dataIn" => ~ctl.short /\ ctl.cnt < ctl.req.len
         /\ host.st = "statusOut" => ctl.short \/ ctl.cnt = ctl.req.len

StateDataIn ==
    ctl.state = "DATA_IN" =>
      /\ ctl.callback = "none"
      /\ ep0.reset \/ (ep0.sentIrq /\ ep0.sent = (ep0.tx = <<>>))
      /\ 0 < ctl.size /\ ctl.size <= ctl.req.len /\ ctl.cnt <= ctl.size
      /\ ctl.prev = 0 \/ (ctl.prev = ctl.size /\ ctl.short)
      /\ ctl.short => ctl.cnt = ctl.size
      /\ Quiet =>
           /\ ~ep0.stall /\ host.st \in Stages \cup {"ok"}
           /\ ctl.req = host.req /\ ctl.req.in
           /\ host.st \in Stages => ep0.out = <<>>
           /\ host.st \in Stages /\ ~host.early /\ ~host.wrong => Transferred

StateWaitOut ==
    ctl.state = "WAIT_OUT_ZLP" =>
      /\ ~ep0.sentIrq /\ ctl.callback = "none"
      /\ Quiet =>
           /\ ep0.tx = <<>> /\ ctl.req = host.req /\ ctl.req.in
           /\ host.st \in Stages \cup {"ok", "stalled"}
           /\ host.st \in Stages => ep0.out = <<>>
           /\ ~host.wrong =>
                /\ ~ep0.stall /\ ~(ep0.nakIn /\ ep0.nakInIrq)
                /\ host.st \in {"statusOut", "ok"}
           /\ host.st \in Stages /\ ~host.early /\ ~host.wrong =>
                Brings(host, host.what, host.got)

\* Data from the host, of SET_LINE_CODING.
StateDataOut ==
    ctl.state = "DATA_OUT" =>
      /\ ~ep0.sentIrq /\ ctl.callback = "coding" /\ ctl.cnt = 0
      /\ ctl.req.op = "setLineCoding"
      /\ Quiet =>
           /\ ep0.tx = <<>> /\ ~ep0.stall /\ host.st \in Stages
           /\ ctl.req = host.req
           /\ ep0.out # <<>> => Head(ep0.out) = Packet(1, [d |-> host.req.d, n |-> 0])
           /\ ~host.wrong =>
                /\ host.st = "dataOut" => ep0.out = <<>> /\ ~ep0.nakIn
                /\ host.st = "statusIn" => ep0.out # <<>>

StateWaitIn ==
    ctl.state = "WAIT_IN_ZLP" =>
      /\ ep0.reset \/ (ep0.sentIrq /\ ep0.sent = (ep0.tx = <<>>))
      /\ Quiet /\ host.st \in Stages =>
           /\ ctl.req = host.req /\ ~ep0.sent
           /\ ~host.req.in /\ (host.req.len > 0 => host.req.op = "setLineCoding")
           /\ host.req.op = "setConfiguration" => host.req.n <= 1
           /\ ~host.wrong =>
                /\ host.st = "statusIn" /\ ep0.out = <<>> /\ ~ep0.nakOut /\ ~ep0.stall
      /\ Quiet /\ host.st \in Resting =>
           ep0.sent \/ (host.coding = NoItem /\ ctl.callback # "address")

\* A request that the device does not support.
StateStall ==
    ctl.state = "STALL_REQ" =>
      /\ ~ep0.sentIrq /\ ctl.callback = "none"
      /\ Quiet =>
           /\ ep0.stall /\ ep0.out = <<>>
           /\ host.st \in Stages /\ ~host.wrong /\ Reached => ~Supported(host)

InStep ==
    /\ Interfaces(udc) /\ InReset /\ InStage /\ InSetup /\ InCallback /\ InKnowledge
    /\ StateSetup /\ StateDataIn /\ StateWaitOut /\ StateDataOut /\ StateWaitIn
    /\ StateStall
=============================================================================
