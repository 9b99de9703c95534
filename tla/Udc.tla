-------------------------------- MODULE Udc --------------------------------
(***************************************************************************)
(* The USB device controller of DEVICE_EXAMPLE1 (udc.c): it decodes a      *)
(* request of the control endpoint, and keeps the address, the             *)
(* configuration and the interfaces, here those of the virtual COM port    *)
(* (udi_cdc.c, main.c, uart_sam.c).  Its state is a record:                *)
(*                                                                         *)
(*   address, config   of the device;                                      *)
(*   up[i]             interface i is enabled, its endpoints allocated;    *)
(*   nb                udi_cdc_nb_data_enabled (with one port, that of the *)
(*                     communication interface is never read);             *)
(*   running           udi_cdc_data_running;                               *)
(*   coding            udi_cdc_line_coding;                                *)
(*   uart, open        the coding the UART is set to, and whether it runs. *)
(*                                                                         *)
(* A request is a record: the operation op, its direction in, wLength len, *)
(* the number n in wValue, the interface i in wIndex, and the item d that  *)
(* it names or carries.  Lengths are counted in halves of a packet of the  *)
(* control endpoint: 2 is a full packet.                                   *)
(***************************************************************************)
EXTENDS Integers, Sequences

CONSTANTS Codings,  \* line codings
          Default,  \* the one of udi_cdc_comm_enable
          Size,     \* the length of every descriptor
          NoItem,
          CountMod  \* range of an 8-bit counter of interfaces, 2^8 in the code

ASSUME ItemsAssumption ==
    /\ Default \in Codings
    /\ NoItem \notin Codings \cup DOMAIN Size
    /\ \A d \in DOMAIN Size : Size[d] \in Nat \ {0}

ASSUME CountModAssumption == CountMod \in Nat \ {0, 1}

Comm == 0
DataIface == 1
Ifaces == {Comm, DataIface}

Items == Codings \cup DOMAIN Size \cup {NoItem}

UdcTypes ==
    [address : 0..127, config : 0..1, up : [Ifaces -> BOOLEAN],
     nb : 0..CountMod - 1, running : BOOLEAN, open : BOOLEAN,
     coding : Codings, uart : Codings]

UdcInit ==
    [address |-> 0, config |-> 0, up |-> [i \in Ifaces |-> FALSE],
     nb |-> 0, running |-> FALSE, open |-> FALSE,
     coding |-> Default, uart |-> Default]

-----------------------------------------------------------------------------
\* Interfaces.

\* Mutants: a counter that is not brought back to zero, or does not wrap.
CountKept(n) == (n + 1) % CountMod
CountBelow(n) == n - 1

\* udi_cdc_data_enable restarts the counter of the one port there is, and
\* udi_cdc_data_disable counts down and wraps, without a look at the interface
\* being enabled.
CountUp(n) == 1
CountDown(n) == (n - 1) % CountMod

\* udc_iface_disable on an interface of the current configuration.
IfaceDisable(u, i) ==
    IF i = Comm THEN [u EXCEPT !.up[i] = FALSE]
    ELSE [u EXCEPT !.up[i] = FALSE, !.nb = CountDown(@), !.running = FALSE,
                   !.open = FALSE]

\* udc_iface_enable: the setting exists, and its endpoints are free.
MayEnable(u, i, setting) == u.config # 0 /\ setting = 0 /\ ~u.up[i]

IfaceEnable(u, i) ==
    IF i = Comm
    THEN [u EXCEPT !.up[i] = TRUE, !.coding = Default, !.uart = Default,
                   !.open = TRUE]
    ELSE [u EXCEPT !.up[i] = TRUE, !.nb = CountUp(@),
                   !.running = @ \/ CountUp(u.nb) = 1]

UdcReset(u) ==
    [(IF u.config = 0 THEN u
      ELSE IfaceDisable(IfaceDisable(u, Comm), DataIface)) EXCEPT !.config = 0]

Configured(u, n) ==
    LET v == [UdcReset(u) EXCEPT !.config = n] IN
    IF n = 0 THEN v ELSE IfaceEnable(IfaceEnable(v, Comm), DataIface)

-----------------------------------------------------------------------------
\* udc_process_setup: whether the request is accepted, the state of the
\* device after it, the callback for its end and the payload of its data.
Reply(ok, u, callback, d, n, size) ==
    [ok |-> ok, udc |-> u, callback |-> callback,
     payload |-> [d |-> d, n |-> n], size |-> size]

Refused(u) == Reply(FALSE, u, "none", NoItem, 0, 0)
Accepted(u) == Reply(TRUE, u, "none", NoItem, 0, 0)

Smaller(a, b) == IF a <= b THEN a ELSE b

\* udc_req_std_iface_set_setting: the current setting is gone when the new one
\* turns out not to exist.
SetInterface(u, r) ==
    IF u.config = 0 \/ r.i \notin Ifaces THEN Refused(u)
    ELSE LET v == IfaceDisable(u, r.i) IN
         IF MayEnable(v, r.i, r.n) THEN Accepted(IfaceEnable(v, r.i))
         ELSE Refused(v)

\* Mutant: the address is taken at once.
SetAddressNow(u, r) == Accepted([u EXCEPT !.address = r.n])

SetAddress(u, r) == Reply(TRUE, u, "address", NoItem, 0, 0)

SetConfiguration(u, r) ==
    IF u.address = 0 \/ r.n > 1 THEN Refused(u) ELSE Accepted(Configured(u, r.n))

\* udc_req_std_iface_get_setting is for every interface; of the requests of
\* the class, udi_cdc_comm_setup knows some and udi_cdc_data_setup none.
Reaches(u, r, ifaces) == u.config # 0 /\ r.i \in ifaces

ProcessSetup(u, r) ==
    CASE r.op = "setAddress"       -> SetAddress(u, r)
      [] r.op = "setConfiguration" -> SetConfiguration(u, r)
      [] r.op = "getConfiguration" -> Reply(TRUE, u, "none", NoItem, u.config, 1)
      [] r.op = "getDescriptor" ->
            IF r.d \in DOMAIN Size
            THEN Reply(TRUE, u, "none", r.d, 0, Smaller(Size[r.d], r.len))
            ELSE Refused(u)
      [] r.op = "setInterface" -> SetInterface(u, r)
      [] r.op = "getInterface" /\ Reaches(u, r, Ifaces) ->
            Reply(TRUE, u, "none", NoItem, 0, 1)
      [] r.op = "getLineCoding" /\ Reaches(u, r, {Comm}) ->
            Reply(TRUE, u, "none", u.coding, 0, 1)
      [] r.op = "setLineCoding" /\ Reaches(u, r, {Comm}) ->
            Reply(TRUE, u, "coding", NoItem, 0, 1)
      [] r.op = "setLineState" /\ Reaches(u, r, {Comm}) -> Accepted(u)
      [] OTHER -> Refused(u)

\* udc_valid_address and udi_cdc_line_coding_received, the callbacks of the
\* end of a request r.
Callback(u, callback, r) ==
    CASE callback = "address" -> [u EXCEPT !.address = r.n]
      [] callback = "coding"  -> [u EXCEPT !.uart = u.coding]
      [] OTHER                -> u
=============================================================================
