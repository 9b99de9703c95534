-------------------------- MODULE UsbControlProofs --------------------------
(***************************************************************************)
(* Proofs about UsbControl.  The inductive invariant is InStep, with the   *)
(* types and with the two properties of the host at rest, NotStalled and   *)
(* HostReads.  The first lemmas are about the records of Udc, by           *)
(* themselves; then every action of the host and every branch of the       *)
(* interrupt keeps every part of the invariant.                            *)
(***************************************************************************)
EXTENDS UsbControl, SequenceTheorems, TLAPS

-----------------------------------------------------------------------------
(***************************************************************************)
(* Requests and the interfaces of the device.                              *)
(***************************************************************************)

\* The fields of a request, by what its name says.
LEMMA RequestFields ==
    ASSUME NEW r \in Requests
    PROVE  /\ r.in \in BOOLEAN /\ r.len \in Nat /\ r.n \in Nat /\ r.i \in Nat
           /\ r.d \in Items
           /\ r.op \in Reads => r.in /\ r.len > 0
           /\ r.op \in Orders => ~r.in /\ r.len = 0
           /\ r.op = "setLineCoding" => ~r.in /\ r.len = 1 /\ r.d \in Codings
           /\ r.op = "setAddress" => r.n \in 0..127
  BY RequestsAssumption DEF RequestsAssumption

\* MaxLen bounds the length of every request.
LEMMA MaxLenBound ==
    /\ MaxLen \in Nat
    /\ \A r \in Requests : r.len <= MaxLen
<1>1. PICK q \in Requests : \A r \in Requests : r.len <= q.len
  BY RequestsAssumption DEF RequestsAssumption
<1> DEFINE Bound(m) == \A r \in Requests : r.len <= m
           Lens == {r.len : r \in Requests}
<1>2. q.len \in Lens /\ Bound(q.len)
  BY <1>1
<1>3. \E m \in Lens : Bound(m)
  BY <1>2
<1>4. MaxLen = CHOOSE m \in Lens : Bound(m)
  BY DEF MaxLen
<1>5. MaxLen \in Lens /\ Bound(MaxLen)
  BY <1>3, <1>4
<1>6. \A r \in Requests : r.len \in Nat
  BY RequestFields
<1> QED
  BY <1>5, <1>6

\* Disabling, enabling and resetting interfaces keeps the types, and leaves none
\* running without a configuration.
LEMMA IfaceDisableTypes ==
    ASSUME NEW u \in UdcTypes, NEW i \in Ifaces
    PROVE  /\ IfaceDisable(u, i) \in UdcTypes
           /\ IfaceDisable(u, i).address = u.address
           /\ IfaceDisable(u, i).config = u.config
           /\ IfaceDisable(u, i).coding = u.coding
           /\ IfaceDisable(u, i).uart = u.uart
           /\ IfaceDisable(u, i).up = [u.up EXCEPT ![i] = FALSE]
           /\ i = Comm => /\ IfaceDisable(u, i).running = u.running
                          /\ IfaceDisable(u, i).open = u.open
           /\ i # Comm => /\ ~IfaceDisable(u, i).running
                          /\ ~IfaceDisable(u, i).open
<1>1. (u.nb - 1) % CountMod \in 0..CountMod - 1
  BY CountModAssumption DEF UdcTypes, CountModAssumption
<1>2. CountDown(u.nb) \in 0..CountMod - 1
  BY <1>1 DEF CountDown
<1>3. PICK up, nb, v :
        /\ up = [u.up EXCEPT ![i] = FALSE] /\ nb = CountDown(u.nb)
        /\ v = IfaceDisable(u, i)
  OBVIOUS
<1>4. up \in [Ifaces -> BOOLEAN] /\ nb \in 0..CountMod - 1
  BY <1>2, <1>3 DEF UdcTypes
<1>5. CASE i = Comm
  <2>1. v = [u EXCEPT !.up = up]
    BY <1>3, <1>5 DEF IfaceDisable, UdcTypes
  <2>2. v \in UdcTypes
    BY <1>4, <2>1 DEF UdcTypes
  <2>3. /\ v.address = u.address /\ v.config = u.config /\ v.coding = u.coding
        /\ v.uart = u.uart /\ v.up = up /\ v.running = u.running /\ v.open = u.open
    BY <2>1 DEF UdcTypes
  <2> QED
    BY <1>3, <1>5, <2>2, <2>3
<1>6. CASE i # Comm
  <2>1. v = [u EXCEPT !.up = up, !.nb = nb, !.running = FALSE, !.open = FALSE]
    BY <1>3, <1>6 DEF IfaceDisable, UdcTypes
  <2>2. v \in UdcTypes
    BY <1>4, <2>1 DEF UdcTypes
  <2>3. /\ v.address = u.address /\ v.config = u.config /\ v.coding = u.coding
        /\ v.uart = u.uart /\ v.up = up /\ ~v.running /\ ~v.open
    BY <2>1 DEF UdcTypes
  <2> QED
    BY <1>3, <1>6, <2>2, <2>3
<1> QED
  BY <1>5, <1>6

LEMMA IfaceEnableTypes ==
    ASSUME NEW u \in UdcTypes, NEW i \in Ifaces
    PROVE  /\ IfaceEnable(u, i) \in UdcTypes
           /\ IfaceEnable(u, i).address = u.address
           /\ IfaceEnable(u, i).config = u.config
           /\ IfaceEnable(u, i).up = [u.up EXCEPT ![i] = TRUE]
           /\ i = Comm => /\ IfaceEnable(u, i).running = u.running
                          /\ IfaceEnable(u, i).open
                          /\ IfaceEnable(u, i).coding = Default
                          /\ IfaceEnable(u, i).uart = Default
           /\ i # Comm => /\ IfaceEnable(u, i).running
                          /\ IfaceEnable(u, i).open = u.open
                          /\ IfaceEnable(u, i).coding = u.coding
                          /\ IfaceEnable(u, i).uart = u.uart
<1>1. CountUp(u.nb) = 1 /\ 1 \in 0..CountMod - 1
  BY CountModAssumption DEF CountUp, CountModAssumption
<1>2. Default \in Codings
  BY ItemsAssumption DEF ItemsAssumption
<1> QED
  BY <1>1, <1>2 DEF IfaceEnable, UdcTypes, Ifaces, Comm, DataIface

LEMMA UdcResetTypes ==
    ASSUME NEW u \in UdcTypes, Interfaces(u)
    PROVE  /\ UdcReset(u) \in UdcTypes
           /\ UdcReset(u).address = u.address /\ UdcReset(u).config = 0
           /\ \A i \in Ifaces : ~UdcReset(u).up[i]
           /\ ~UdcReset(u).running /\ ~UdcReset(u).open
<1> DEFINE v == IfaceDisable(u, Comm)
           w == IfaceDisable(v, DataIface)
<1>0. Comm \in Ifaces /\ DataIface \in Ifaces /\ DataIface # Comm
  BY DEF Ifaces, Comm, DataIface
<1>1. v \in UdcTypes /\ v.address = u.address /\ v.up = [u.up EXCEPT ![Comm] = FALSE]
  BY <1>0, IfaceDisableTypes
<1> HIDE DEF v
<1>2. /\ w \in UdcTypes /\ w.address = v.address /\ ~w.running /\ ~w.open
      /\ w.up = [v.up EXCEPT ![DataIface] = FALSE]
  BY <1>0, <1>1, IfaceDisableTypes
<1> HIDE DEF w
<1>3. \A i \in Ifaces : ~w.up[i]
  BY <1>1, <1>2 DEF UdcTypes, Ifaces, Comm, DataIface
<1>4. UdcReset(u) = [(IF u.config = 0 THEN u ELSE w) EXCEPT !.config = 0]
  BY DEF UdcReset, v, w
<1>5. CASE u.config = 0
  <2>1. UdcReset(u) = [u EXCEPT !.config = 0]
    BY <1>4, <1>5
  <2> QED
    BY <2>1, <1>5 DEF UdcTypes, Interfaces, Ifaces, DataIface
<1>6. CASE u.config # 0
  <2>1. UdcReset(u) = [w EXCEPT !.config = 0]
    BY <1>4, <1>6
  <2> QED
    BY <2>1, <1>1, <1>2, <1>3 DEF UdcTypes
<1> QED
  BY <1>5, <1>6

\* The device after a SET_CONFIGURATION.
LEMMA ConfiguredTypes ==
    ASSUME NEW u \in UdcTypes, Interfaces(u), NEW n \in 0..1
    PROVE  /\ Configured(u, n) \in UdcTypes
           /\ Interfaces(Configured(u, n))
           /\ Configured(u, n).address = u.address /\ Configured(u, n).config = n
           /\ \A i \in Ifaces : Configured(u, n).up[i] = (n = 1)
           /\ Configured(u, n).open = Configured(u, n).running
           /\ n = 1 => Configured(u, n).coding = Default /\ Configured(u, n).uart = Default
<1> DEFINE r == UdcReset(u)
           v == [r EXCEPT !.config = n]
           w == IfaceEnable(v, Comm)
           x == IfaceEnable(w, DataIface)
<1>0. Comm \in Ifaces /\ DataIface \in Ifaces /\ DataIface # Comm
  BY DEF Ifaces, Comm, DataIface
<1>1. /\ r \in UdcTypes /\ r.address = u.address /\ r.config = 0
      /\ \A i \in Ifaces : ~r.up[i]
      /\ ~r.running /\ ~r.open
  BY UdcResetTypes
<1>2. Configured(u, n) = IF n = 0 THEN v ELSE x
  BY DEF Configured
<1> HIDE DEF r
<1>3. /\ v \in UdcTypes /\ v.address = u.address /\ v.config = n
      /\ v.up = r.up /\ ~v.running /\ ~v.open
  BY <1>1 DEF UdcTypes
<1> HIDE DEF v
<1>4. CASE n = 0
  BY <1>0, <1>1, <1>2, <1>3, <1>4 DEF Interfaces, UdcTypes, Ifaces
<1>5. CASE n = 1
  <2>1. /\ w \in UdcTypes /\ w.address = u.address /\ w.config = 1
        /\ w.up = [v.up EXCEPT ![Comm] = TRUE]
        /\ w.open /\ w.coding = Default /\ w.uart = Default
    BY <1>0, <1>3, <1>5, IfaceEnableTypes
  <2> HIDE DEF w
  <2>2. /\ x \in UdcTypes /\ x.address = u.address /\ x.config = 1
        /\ x.up = [w.up EXCEPT ![DataIface] = TRUE]
        /\ x.running /\ x.open = w.open /\ x.coding = Default /\ x.uart = Default
    BY <1>0, <2>1, IfaceEnableTypes
  <2> HIDE DEF x
  <2>3. \A i \in Ifaces : x.up[i]
    BY <1>3, <2>1, <2>2 DEF UdcTypes, Ifaces, Comm, DataIface
  <2>4. Configured(u, n) = x
    BY <1>2, <1>5
  <2>5. x.open /\ x.running /\ x.open = x.running
    BY <2>1, <2>2 DEF UdcTypes
  <2>6. x.running = TRUE /\ x.up[DataIface] = TRUE /\ x.config # 0
    BY <1>0, <2>2, <2>3 DEF UdcTypes
  <2>7. Interfaces(x)
    BY <2>6 DEF Interfaces
  <2> QED
    BY <1>5, <2>2, <2>3, <2>4, <2>5, <2>7 DEF UdcTypes
<1> QED
  BY <1>4, <1>5

-----------------------------------------------------------------------------
(***************************************************************************)
(* What the host knows.                                                    *)
(***************************************************************************)

\* Two records of the host that know the same.
Alike(g, h) ==
    /\ g.lost = h.lost /\ g.addr = h.addr /\ g.config = h.config
    /\ g.touched = h.touched /\ g.coding = h.coding

LEMMA KnowsAlike ==
    ASSUME NEW g, NEW h, NEW u, Alike(g, h), Knows(g, u)
    PROVE  Knows(h, u)
  BY DEF Alike, Knows

\* What a request leaves alone, however it ends.
LEMMA GivenUpFields ==
    ASSUME NEW h \in HostTypes, h.req \in Requests
    PROVE  /\ GivenUp(h) \in HostTypes
           /\ GivenUp(h).st = h.st /\ GivenUp(h).req = h.req
           /\ GivenUp(h).got = h.got /\ GivenUp(h).what = h.what
           /\ GivenUp(h).early = h.early /\ GivenUp(h).wrong = h.wrong
           /\ GivenUp(h).addr = h.addr /\ GivenUp(h).faults = h.faults
           /\ h.req.in => GivenUp(h) = h
<1>1. h.req.in => h.req.op \notin {"setAddress", "setConfiguration", "setLineCoding", "setInterface"}
  BY RequestFields DEF Orders
<1>2. Stirred(h.req) \subseteq Ifaces
  BY DEF Stirred
<1>3. h.req.in => GivenUp(h) = h
  BY <1>1 DEF GivenUp
<1>4. GivenUp(h) \in HostTypes
  <2>1. CASE h.req.op = "setInterface"
    <3>1. GivenUp(h) = [h EXCEPT !.touched = @ \cup Stirred(h.req), !.coding = NoItem]
      BY <2>1 DEF GivenUp
    <3> QED
      BY <3>1, <1>2, ZenonT(60) DEF HostTypes
  <2>2. CASE h.req.op = "setConfiguration"
    <3>1. GivenUp(h) = [h EXCEPT !.config = Unknown, !.coding = NoItem]
      BY <2>2 DEF GivenUp
    <3>2. Unknown \in 0..Unknown
      BY DEF Unknown
    <3> QED
      BY <3>1, <3>2, ZenonT(60) DEF HostTypes
  <2>3. CASE h.req.op = "setAddress"
    BY <2>3 DEF GivenUp, HostTypes
  <2>4. CASE h.req.op = "setLineCoding"
    BY <2>4 DEF GivenUp, HostTypes
  <2>5. CASE h.req.op \notin {"setAddress", "setConfiguration", "setInterface", "setLineCoding"}
    BY <2>5 DEF GivenUp
  <2> QED
    BY <2>1, <2>2, <2>3, <2>4, <2>5
<1>5. /\ GivenUp(h).st = h.st /\ GivenUp(h).req = h.req
      /\ GivenUp(h).got = h.got /\ GivenUp(h).what = h.what
      /\ GivenUp(h).early = h.early /\ GivenUp(h).wrong = h.wrong
      /\ GivenUp(h).addr = h.addr /\ GivenUp(h).faults = h.faults
  BY DEF GivenUp, HostTypes
<1> QED
  BY <1>3, <1>4, <1>5

LEMMA FailedFields ==
    ASSUME NEW h \in HostTypes, h.req \in Requests
    PROVE  /\ Failed(h) \in HostTypes
           /\ Failed(h).st = h.st /\ Failed(h).req = h.req
           /\ Failed(h).got = h.got /\ Failed(h).what = h.what
           /\ Failed(h).early = h.early /\ Failed(h).wrong = h.wrong
           /\ Failed(h).addr = h.addr /\ Failed(h).faults = h.faults
           /\ Failed(h).config = h.config
           /\ h.req.op = "setLineCoding" /\ h.wrong =>
                Failed(h) = [h EXCEPT !.coding = NoItem] /\ Failed(h).coding = NoItem
           /\ h.req.op = "setInterface" =>
                Failed(h) = [h EXCEPT !.touched = @ \cup Stirred(h.req)]
           /\ h.req.op \notin {"setLineCoding", "setInterface"} => Failed(h) = h
           /\ h.req.op = "setLineCoding" /\ ~h.wrong => Failed(h) = h
<1>2. Stirred(h.req) \subseteq Ifaces
  BY DEF Stirred
<1> QED
  BY <1>2 DEF Failed, HostTypes

LEMMA SucceededFields ==
    ASSUME NEW h \in HostTypes, h.req \in Requests,
           h.req.op = "setConfiguration" => h.req.n <= 1
    PROVE  /\ Succeeded(h) \in HostTypes
           /\ Succeeded(h).faults = h.faults
           /\ Succeeded(h).wrong = h.wrong /\ Succeeded(h).req = h.req
           /\ h.req.op = "setAddress" => Succeeded(h) = [h EXCEPT !.addr = h.req.n]
           /\ h.req.op = "setConfiguration" =>
                Succeeded(h) = [h EXCEPT !.config = h.req.n, !.touched = {},
                                         !.coding = IF h.req.n = 1 THEN Default ELSE NoItem]
           /\ h.req.op = "setLineCoding" => Succeeded(h) = [h EXCEPT !.coding = h.req.d]
           /\ h.req.op = "setInterface" =>
                Succeeded(h) = [h EXCEPT !.touched = @ \cup Stirred(h.req),
                                         !.coding = IF h.req.i = Comm THEN Default ELSE @]
           /\ h.req.op \notin {"setAddress", "setConfiguration", "setLineCoding", "setInterface"}
                => Succeeded(h) = h
<1>1. Default \in Codings
  BY ItemsAssumption DEF ItemsAssumption
<1>2. Stirred(h.req) \subseteq Ifaces
  BY DEF Stirred
<1>3. /\ h.req.n \in Nat
      /\ h.req.op = "setAddress" => h.req.n \in 0..127
      /\ h.req.op = "setLineCoding" => h.req.d \in Codings
      /\ h.req.op = "setConfiguration" => h.req.n \in 0..Unknown
  BY RequestFields DEF Unknown
<1> QED
  BY <1>1, <1>2, <1>3 DEF Succeeded, HostTypes

\* Nothing is known after a request was given up that was not known before, or
\* than after it failed.
LEMMA KnowsGivenUp ==
    ASSUME NEW h \in HostTypes, h.req \in Requests, NEW u, Knows(h, u)
    PROVE  Knows(GivenUp(h), u)
<1>1. Stirred(h.req) \subseteq Ifaces
  BY DEF Stirred
<1> QED
  BY <1>1 DEF GivenUp, HostTypes, Knows, Unknown

\* The three ends of a request, for two records that know the same.
LEMMA EndsAlike ==
    ASSUME NEW g \in HostTypes, NEW h \in HostTypes, Alike(g, h), g.req = h.req,
           g.req \in Requests, NEW u
    PROVE  /\ Knows(GivenUp(g), u) => Knows(GivenUp(h), u)
           /\ Knows(Failed(g), u) /\ g.wrong = h.wrong => Knows(Failed(h), u)
           /\ Knows(Succeeded(g), u) => Knows(Succeeded(h), u)
<1>1. Alike(GivenUp(g), GivenUp(h))
  BY DEF Alike, GivenUp, HostTypes
<1>2. g.wrong = h.wrong => Alike(Failed(g), Failed(h))
  BY DEF Alike, Failed, HostTypes
<1>3. Alike(Succeeded(g), Succeeded(h))
  BY DEF Alike, Succeeded, HostTypes
<1> QED
  BY <1>1, <1>2, <1>3, KnowsAlike

\* A request with data about which the host went wrong fails like one that is
\* given up.
LEMMA FailedLikeGivenUp ==
    ASSUME NEW h \in HostTypes, h.req \in Requests, h.wrong,
           h.req.in \/ h.req.len > 0, NEW u, Knows(GivenUp(h), u)
    PROVE  Knows(Failed(h), u)
<1>1. h.req.op \notin {"setAddress", "setConfiguration", "setInterface"}
  BY RequestFields DEF Orders
<1>2. Alike(GivenUp(h), Failed(h))
  BY <1>1 DEF Alike, GivenUp, Failed, HostTypes
<1> QED
  BY <1>2, KnowsAlike

-----------------------------------------------------------------------------
(***************************************************************************)
(* ProcessSetup, on a device u and a request r that the host h has made.   *)
(***************************************************************************)

\* The end of a request changes the address or what the UART works with.
LEMMA CallbackFields ==
    ASSUME NEW u \in UdcTypes, NEW r \in Requests, NEW c,
           c = "address" => r.op = "setAddress"
    PROVE  /\ Callback(u, c, r) \in UdcTypes
           /\ Interfaces(u) => Interfaces(Callback(u, c, r))
           /\ c # "address" => Callback(u, c, r).address = u.address
           /\ c # "coding" => Callback(u, c, r).uart = u.uart
           /\ c \notin {"address", "coding"} => Callback(u, c, r) = u
           /\ Callback(u, c, r).coding = u.coding
           /\ Callback(u, c, r).config = u.config
           /\ Callback(u, c, r).up = u.up
           /\ Callback(u, c, r).open = u.open
           /\ Callback(u, c, r).running = u.running
<1>1. r.op = "setAddress" => r.n \in 0..127
  BY RequestFields
<1> QED
  BY <1>1 DEF Callback, UdcTypes, Interfaces

\* SET_INTERFACE.
LEMMA SetInterfaceReply ==
    ASSUME NEW u \in UdcTypes, Interfaces(u), NEW r \in Requests, r.op = "setInterface",
           NEW h \in HostTypes, h.req = r, Knows(h, u),
           NEW p, p = SetInterface(u, r)
    PROVE  /\ p.ok \in BOOLEAN /\ p.callback = "none"
           /\ p.payload = Nothing /\ p.size = 0
           /\ p.udc \in UdcTypes /\ Interfaces(p.udc) /\ p.udc.address = u.address
           /\ Knows(GivenUp(h), p.udc)
           /\ ~p.ok => Knows(Failed(h), p.udc)
           /\ p.ok => Knows(Succeeded(h), p.udc)
           /\ ~p.ok => ~(u.config = 1 /\ r.i \in Ifaces /\ r.n = 0)
<1> DEFINE v == IfaceDisable(u, r.i)
           w == IfaceEnable(v, r.i)
<1>1. CASE u.config = 0 \/ r.i \notin Ifaces
  <2>1. p = Refused(u)
    BY <1>1 DEF SetInterface
  <2>2. /\ p.ok = FALSE /\ p.callback = "none" /\ p.payload = Nothing /\ p.size = 0
        /\ p.udc = u
    BY <2>1 DEF Refused, Reply, Nothing
  <2>3. Knows(GivenUp(h), u)
    BY KnowsGivenUp
  <2>4. Knows(Failed(h), u)
    <3>1. Stirred(r) \subseteq Ifaces
      BY DEF Stirred
    <3>2. Failed(h) = [h EXCEPT !.touched = @ \cup Stirred(r)]
      BY FailedFields
    <3> QED
      BY <3>1, <3>2 DEF Knows, HostTypes
  <2> QED
    <3>1. ~(u.config = 1 /\ r.i \in Ifaces /\ r.n = 0)
      BY <1>1
    <3> QED
      BY <2>2, <2>3, <2>4, <3>1
<1>2. CASE u.config = 1 /\ r.i \in Ifaces
  <2>1. /\ v \in UdcTypes /\ v.address = u.address /\ v.config = u.config
        /\ v.coding = u.coding /\ v.uart = u.uart
        /\ v.up = [u.up EXCEPT ![r.i] = FALSE]
        /\ r.i = Comm => v.running = u.running /\ v.open = u.open
        /\ r.i # Comm => v.running = FALSE /\ v.open = FALSE
    BY <1>2, IfaceDisableTypes
  <2>2. Interfaces(v)
    <3>1. v.up[DataIface] = v.running
      <4>1. u.up \in [Ifaces -> BOOLEAN] /\ u.running = u.up[DataIface] /\ DataIface \in Ifaces
        BY DEF UdcTypes, Interfaces, Ifaces
      <4>2. CASE r.i = Comm
        <5>1. v.up[DataIface] = u.up[DataIface]
          BY <2>1, <4>1, <4>2 DEF Comm, DataIface
        <5> QED
          BY <2>1, <4>1, <4>2, <5>1
      <4>3. CASE r.i # Comm
        <5>1. r.i = DataIface
          BY <1>2, <4>3 DEF Ifaces
        <5>2. v.up[DataIface] = FALSE
          BY <2>1, <4>1, <5>1
        <5> QED
          BY <2>1, <4>3, <5>2
      <4> QED
        BY <4>2, <4>3
    <3> QED
      BY <3>1, <1>2, <2>1 DEF Interfaces
  <2>3. v.up[r.i] = FALSE
    BY <1>2, <2>1 DEF UdcTypes
  <2>4. /\ r.n = 0 => p = Accepted(w)
        /\ r.n # 0 => p = Refused(v)
    BY <1>2, <2>1, <2>3 DEF SetInterface, MayEnable
  <2> HIDE DEF v
  <2>5. \A i \in Ifaces \ {r.i} : v.up[i] = u.up[i]
    BY <1>2, <2>1 DEF UdcTypes
  <2>6. r.n # 0 => Stirred(r) = {r.i}
    BY <1>2 DEF Stirred
  <2>7. r.i # Comm => r.i = DataIface /\ Stirred(r) = {r.i}
    BY <1>2 DEF Stirred, Ifaces
  <2>8. r.i = Comm /\ r.n = 0 => Stirred(r) = {}
    BY DEF Stirred, Comm, DataIface
  <2>9. CASE r.n # 0
    <3>1. /\ p.ok = FALSE /\ p.callback = "none" /\ p.payload = Nothing /\ p.size = 0
          /\ p.udc = v
      BY <2>4, <2>9 DEF Refused, Reply, Nothing
    <3>2. Failed(h) = [h EXCEPT !.touched = @ \cup {r.i}]
      BY FailedFields, <2>6, <2>9
    <3>3. PICK f : f = Failed(h)
      OBVIOUS
    <3>4. /\ f.lost = h.lost /\ f.addr = h.addr /\ f.config = h.config
          /\ f.touched = h.touched \cup {r.i} /\ f.coding = h.coding
      BY <3>2, <3>3 DEF HostTypes
    <3>5. Knows(f, v)
      BY <2>1, <2>5, <3>4, ZenonT(60) DEF Knows
    <3>6. GivenUp(h) = [h EXCEPT !.touched = @ \cup {r.i}, !.coding = NoItem]
      BY <2>6, <2>9 DEF GivenUp
    <3>7. PICK g : g = GivenUp(h)
      OBVIOUS
    <3>8. /\ g.lost = h.lost /\ g.addr = h.addr /\ g.config = h.config
          /\ g.touched = h.touched \cup {r.i} /\ g.coding = NoItem
      BY <3>6, <3>7 DEF HostTypes
    <3>9. Knows(g, v)
      BY <2>1, <2>5, <3>8, ZenonT(60) DEF Knows
    <3> QED
      BY <3>1, <3>3, <3>5, <3>7, <3>9, <2>1, <2>2, <2>9
  <2>10. CASE r.n = 0
    <3>1. /\ w \in UdcTypes /\ w.address = v.address /\ w.config = v.config
          /\ w.up = [v.up EXCEPT ![r.i] = TRUE]
          /\ r.i = Comm => /\ w.running = v.running /\ w.open = TRUE
                           /\ w.coding = Default /\ w.uart = Default
          /\ r.i # Comm => /\ w.running = TRUE /\ w.open = v.open
                           /\ w.coding = v.coding /\ w.uart = v.uart
      BY <1>2, <2>1, IfaceEnableTypes DEF UdcTypes
    <3> HIDE DEF w
    <3>2. /\ p.ok = TRUE /\ p.callback = "none" /\ p.payload = Nothing /\ p.size = 0
          /\ p.udc = w
      BY <2>4, <2>10 DEF Accepted, Reply, Nothing
    <3>3. \A i \in Ifaces \ {r.i} : w.up[i] = u.up[i]
      BY <1>2, <2>1, <2>5, <3>1 DEF UdcTypes
    <3>4. w.up[r.i] = TRUE
      BY <1>2, <2>1, <3>1 DEF UdcTypes
    <3>5. Interfaces(w)
      <4>1. w.up[DataIface] = w.running
        BY <1>2, <2>1, <2>2, <2>7, <3>1, <3>4 DEF Interfaces, UdcTypes, Ifaces, Comm, DataIface
      <4> QED
        BY <4>1, <1>2, <2>1, <3>1 DEF Interfaces
    <3>6. h.config # Unknown =>
            /\ h.config = 1
            /\ \A i \in Ifaces \ h.touched : w.up[i] = TRUE
      BY <1>2, <3>3, <3>4 DEF Knows
    <3>7. r.i = Comm /\ h.touched = {} /\ h.config # Unknown => w.open = TRUE /\ w.running = TRUE
      <4>1. DataIface \in Ifaces
        BY DEF Ifaces
      <4> QED
        BY <4>1, <3>1, <3>5, <3>6 DEF Interfaces
    <3>8. Succeeded(h) = [h EXCEPT !.touched = @ \cup Stirred(r),
                             !.coding = IF r.i = Comm THEN Default ELSE @]
      BY SucceededFields
    <3>9. GivenUp(h) = [h EXCEPT !.touched = @ \cup Stirred(r), !.coding = NoItem]
      BY DEF GivenUp
    <3>10. w.config = 1 /\ w.address = u.address
      BY <1>2, <2>1, <3>1
    <3>11. CASE r.i = Comm
      <4>1. h.touched \cup Stirred(r) = h.touched
        BY <2>8, <2>10, <3>11
      <4>2. Alike(Succeeded(h), [h EXCEPT !.coding = Default])
        BY <3>8, <3>11, <4>1 DEF Alike, HostTypes
      <4>3. Alike(GivenUp(h), [h EXCEPT !.coding = NoItem])
        BY <3>9, <4>1 DEF Alike, HostTypes
      <4>4. Knows(Succeeded(h), w)
        BY <4>2, <3>1, <3>6, <3>7, <3>10, <3>11, ZenonT(60) DEF Knows, Alike, HostTypes
      <4>5. Knows(GivenUp(h), w)
        BY <4>3, <3>1, <3>6, <3>7, <3>10, <3>11, ZenonT(60) DEF Knows, Alike, HostTypes
      <4> QED
        BY <4>4, <4>5, <3>1, <3>2, <3>5, <3>10, <2>10
    <3>12. CASE r.i # Comm
      <4>1. h.touched \cup Stirred(r) # {}
        BY <2>7, <3>12
      <4>2. Succeeded(h) = [h EXCEPT !.touched = @ \cup Stirred(r)]
        BY <3>8, <3>12 DEF HostTypes
      <4>3. w.coding = u.coding /\ w.uart = u.uart
        BY <2>1, <3>1, <3>12
      <4>4. Knows(Succeeded(h), w)
        BY <4>1, <4>2, <4>3, <3>6, <3>10, ZenonT(60) DEF Knows, HostTypes
      <4>5. Knows(GivenUp(h), w)
        BY <4>1, <3>9, <3>6, <3>10, ZenonT(60) DEF Knows, HostTypes
      <4> QED
        BY <4>4, <4>5, <3>1, <3>2, <3>5, <3>10, <2>10
    <3> QED
      BY <3>11, <3>12
  <2> QED
    BY <2>9, <2>10
<1>3. u.config = 0 \/ u.config = 1
  BY DEF UdcTypes
<1> QED
  BY <1>1, <1>2, <1>3

\* What ProcessSetup does to the device, and the host's knowledge of it.
Replied(h, u, r, p) ==
    /\ p.ok \in BOOLEAN
    /\ p.udc \in UdcTypes /\ Interfaces(p.udc) /\ p.udc.address = u.address
    /\ p.callback \in {"none", "address", "coding"}
    /\ p.callback = "address" => r.op = "setAddress"
    /\ p.callback = "coding" => r.op = "setLineCoding"
    /\ Knows(GivenUp(h), Callback(p.udc, p.callback, r))
    /\ ~p.ok => p.callback = "none" /\ Knows(Failed(h), p.udc)
    /\ ~p.ok /\ h.addr = u.address => ~Supported(h)
    /\ p.ok /\ ~r.in /\ r.len = 0 => Knows(Succeeded(h), Callback(p.udc, p.callback, r))
    /\ p.ok /\ r.op = "setConfiguration" => r.n <= 1
    /\ p.ok /\ ~r.in /\ r.len > 0 => r.op = "setLineCoding" /\ p.callback = "coding"
    /\ p.ok /\ r.in => p.callback = "none" /\ p.udc = u

\* ProcessSetup on what the host asks.
LEMMA ProcessSetupKnows ==
    ASSUME NEW u \in UdcTypes, Interfaces(u), NEW r \in Requests,
           NEW h \in HostTypes, h.req = r, Knows(h, u),
           NEW p, p = ProcessSetup(u, r)
    PROVE  Replied(h, u, r, p)
<1>a. Knows(GivenUp(h), u) /\ Callback(u, "none", r) = u
  BY KnowsGivenUp DEF Callback
<1>b. /\ r.in \in BOOLEAN /\ r.len \in Nat /\ r.n \in Nat /\ r.i \in Nat
      /\ r.op \in Reads => r.in /\ r.len > 0
      /\ r.op \in Orders => ~r.in /\ r.len = 0
      /\ r.op = "setLineCoding" => ~r.in /\ r.len = 1 /\ r.d \in Codings
      /\ r.op = "setAddress" => r.n \in 0..127
  BY RequestFields
<1>c. ASSUME p.ok = FALSE, p.udc = u, p.callback = "none", Knows(Failed(h), u),
             h.addr = u.address => ~Supported(h)
      PROVE  Replied(h, u, r, p)
  BY <1>a, <1>c DEF Replied
<1>d. ASSUME p.ok = TRUE, p.udc \in UdcTypes, Interfaces(p.udc),
             p.udc.address = u.address,
             p.callback \in {"none", "address", "coding"},
             p.callback = "address" => r.op = "setAddress",
             p.callback = "coding" => r.op = "setLineCoding",
             Knows(GivenUp(h), Callback(p.udc, p.callback, r)),
             ~r.in /\ r.len = 0 => Knows(Succeeded(h), Callback(p.udc, p.callback, r)),
             r.op = "setConfiguration" => r.n <= 1,
             ~r.in /\ r.len > 0 => r.op = "setLineCoding" /\ p.callback = "coding",
             r.in => p.callback = "none" /\ p.udc = u
      PROVE  Replied(h, u, r, p)
  BY <1>d DEF Replied
\* A request without data that is accepted.
<1>e. ASSUME p.ok = TRUE, ~r.in, r.len = 0, p.udc \in UdcTypes, Interfaces(p.udc),
             p.udc.address = u.address,
             NEW c \in {"none", "address"}, p.callback = c, c = "address" => r.op = "setAddress",
             Knows(GivenUp(h), Callback(p.udc, c, r)),
             Knows(Succeeded(h), Callback(p.udc, c, r)),
             r.op = "setConfiguration" => r.n <= 1
      PROVE  Replied(h, u, r, p)
  <2>1. ~r.in /\ r.len > 0 => r.op = "setLineCoding" /\ p.callback = "coding"
    BY <1>e
  <2>2. r.in => p.callback = "none" /\ p.udc = u
    BY <1>e
  <2>3. /\ p.callback = "coding" => r.op = "setLineCoding"
        /\ p.callback = "address" => r.op = "setAddress"
        /\ p.callback \in {"none", "address", "coding"}
    BY <1>e
  <2>4. /\ Knows(GivenUp(h), Callback(p.udc, p.callback, r))
        /\ Knows(Succeeded(h), Callback(p.udc, p.callback, r))
    BY <1>e
  <2> QED
    BY <1>d, <1>e, <2>1, <2>2, <2>3, <2>4
<1>0. u.config = 0 \/ u.config = 1
  BY DEF UdcTypes
<1>1. CASE r.op = "setAddress"
  <2>1. /\ p.ok = TRUE /\ p.udc = u /\ p.callback = "address"
    BY <1>1 DEF ProcessSetup, SetAddress, Reply
  <2>2. PICK v : v = Callback(u, "address", r)
    OBVIOUS
  <2>3. v = [u EXCEPT !.address = r.n]
    BY <2>2 DEF Callback
  <2>4. PICK g : g = GivenUp(h)
    OBVIOUS
  <2>5. g = [h EXCEPT !.lost = TRUE]
    BY <1>1, <2>4 DEF GivenUp
  <2>6. Knows(g, v)
    BY <2>3, <2>5 DEF Knows, HostTypes, UdcTypes
  <2>7. PICK s : s = Succeeded(h)
    OBVIOUS
  <2>8. s = [h EXCEPT !.addr = r.n]
    BY <1>1, <2>7, SucceededFields
  <2>9. Knows(s, v)
    BY <1>1, <2>3, <2>8 DEF Knows, HostTypes, UdcTypes
  <2> QED
    <3>1. ~r.in /\ r.len = 0
      BY <1>1, <1>b DEF Orders
    <3> QED
      <4>1. Knows(GivenUp(h), Callback(p.udc, "address", r))
        BY <2>1, <2>2, <2>4, <2>6
      <4>2. Knows(Succeeded(h), Callback(p.udc, "address", r))
        BY <2>1, <2>2, <2>7, <2>9
      <4>3. r.op # "setConfiguration"
        BY <1>1
      <4>4. p.udc \in UdcTypes /\ Interfaces(p.udc) /\ p.udc.address = u.address
        BY <2>1
      <4> QED
        BY <1>1, <1>e, <2>1, <3>1, <4>1, <4>2, <4>3, <4>4
<1>2. CASE r.op = "setConfiguration"
  <2>1. CASE u.address = 0 \/ r.n > 1
    <3>1. p = Refused(u)
      BY <1>2, <2>1 DEF ProcessSetup, SetConfiguration
    <3>2. p.ok = FALSE /\ p.udc = u /\ p.callback = "none"
      BY <3>1 DEF Refused, Reply
    <3>4. Failed(h) = h
      BY <1>2, FailedFields
    <3>5. h.addr = u.address => ~Supported(h)
      <4>1. h.addr = u.address => ~(r.n <= 1 /\ h.addr # 0)
        BY <1>b, <2>1
      <4>2. Supported(h) = (r.n <= 1 /\ h.addr # 0)
        BY <1>2 DEF Supported
      <4> QED
        BY <4>1, <4>2
    <3> QED
      BY <1>c, <3>2, <3>4, <3>5
  <2>2. CASE u.address # 0 /\ r.n <= 1
    <3>0. r.n \in 0..1
      BY <1>b, <2>2
    <3>1. p = Accepted(Configured(u, r.n))
      BY <1>2, <2>2, <3>0 DEF ProcessSetup, SetConfiguration
    <3>2. PICK v : v = Configured(u, r.n)
      OBVIOUS
    <3>3. p.ok = TRUE /\ p.udc = v /\ p.callback = "none"
      BY <3>1, <3>2 DEF Accepted, Reply
    <3>4. Callback(v, "none", r) = v
      BY DEF Callback
    <3>5. /\ v \in UdcTypes /\ Interfaces(v) /\ v.address = u.address /\ v.config = r.n
          /\ \A i \in Ifaces : v.up[i] = (r.n = 1)
          /\ v.open = v.running
          /\ r.n = 1 => v.coding = Default /\ v.uart = Default
      BY <3>0, <3>2, ConfiguredTypes
    <3>6. PICK g : g = GivenUp(h)
      OBVIOUS
    <3>7. g = [h EXCEPT !.config = Unknown, !.coding = NoItem]
      BY <1>2, <3>6 DEF GivenUp
    <3>8. Knows(g, v)
      BY <3>5, <3>7 DEF Knows, HostTypes
    <3>9. PICK s : s = Succeeded(h)
      OBVIOUS
    <3>10. s = [h EXCEPT !.config = r.n, !.touched = {},
                         !.coding = IF r.n = 1 THEN Default ELSE NoItem]
      BY <1>2, <2>2, <3>9, SucceededFields
    <3>11. Knows(s, v)
      BY <3>0, <3>5, <3>10 DEF Knows, HostTypes
    <3> QED
      <4>1. ~r.in /\ r.len = 0
        BY <1>2, <1>b DEF Orders
      <4> QED
        <5>1. /\ Knows(GivenUp(h), Callback(p.udc, "none", r))
              /\ Knows(Succeeded(h), Callback(p.udc, "none", r))
          BY <3>3, <3>4, <3>6, <3>8, <3>9, <3>11
        <5>2. p.udc \in UdcTypes /\ Interfaces(p.udc) /\ p.udc.address = u.address
          BY <3>3, <3>5
        <5> QED
          BY <1>e, <2>2, <3>3, <4>1, <5>1, <5>2
  <2>3. \/ u.address = 0 \/ r.n > 1
        \/ u.address # 0 /\ r.n <= 1
    BY <1>b
  <2> QED
    BY <2>1, <2>2, <2>3
<1>3. CASE r.op = "setInterface"
  <2>1. p = SetInterface(u, r)
    BY <1>3 DEF ProcessSetup
  <2>2. Callback(p.udc, "none", r) = p.udc
    BY DEF Callback
  <2>3. ~(u.config = 1 /\ r.i \in Ifaces /\ r.n = 0) => ~Supported(h)
    BY <1>3 DEF Supported, Knows, Unknown
  <2> QED
    <3>1. /\ p.ok \in BOOLEAN /\ p.callback = "none"
          /\ p.udc \in UdcTypes /\ Interfaces(p.udc) /\ p.udc.address = u.address
          /\ Knows(GivenUp(h), p.udc)
          /\ ~p.ok => Knows(Failed(h), p.udc)
          /\ p.ok => Knows(Succeeded(h), p.udc)
          /\ ~p.ok => ~(u.config = 1 /\ r.i \in Ifaces /\ r.n = 0)
      BY <1>3, <2>1, SetInterfaceReply
    <3>2. ~r.in /\ r.len = 0 /\ r.op # "setConfiguration"
      BY <1>3, <1>b DEF Orders
    <3>3. Callback(p.udc, p.callback, r) = p.udc
      BY <3>1, <2>2
    <3>4. ~p.ok => ~Supported(h)
      BY <3>1, <2>3
    <3>5. CASE p.ok = TRUE
      <4>1. Knows(Succeeded(h), Callback(p.udc, "none", r))
        BY <3>1, <3>5, <2>2
      <4>2. Knows(GivenUp(h), Callback(p.udc, "none", r))
        BY <3>1, <2>2
      <4> QED
        BY <1>e, <3>1, <3>2, <3>5, <4>1, <4>2
    <3>6. CASE p.ok = FALSE
      <4>1. Knows(Failed(h), p.udc) /\ ~Supported(h)
        BY <3>1, <3>4, <3>6
      <4> QED
        BY <4>1, <3>1, <3>2, <3>3, <3>6 DEF Replied
    <3> QED
      BY <3>1, <3>5, <3>6
<1>4. CASE r.op = "setLineCoding" /\ Reaches(u, r, {Comm})
  <2>1. /\ p.ok = TRUE /\ p.udc = u /\ p.callback = "coding"
    BY <1>4 DEF ProcessSetup, Reply
  <2>2. PICK v : v = Callback(u, "coding", r)
    OBVIOUS
  <2>3. v = [u EXCEPT !.uart = u.coding]
    BY <2>2 DEF Callback
  <2>4. PICK g : g = GivenUp(h)
    OBVIOUS
  <2>5. g = [h EXCEPT !.coding = NoItem]
    BY <1>4, <2>4 DEF GivenUp
  <2>6. Knows(g, v)
    BY <2>3, <2>5 DEF Knows, HostTypes, UdcTypes
  <2> QED
    <3>1. ~r.in /\ r.len # 0
      BY <1>4, <1>b
    <3> QED
      <4>1. Knows(GivenUp(h), Callback(p.udc, p.callback, r))
        BY <2>1, <2>2, <2>4, <2>6
      <4>2. r.op # "setConfiguration"
        BY <1>4
      <4>3. p.udc \in UdcTypes /\ Interfaces(p.udc) /\ p.udc.address = u.address
        BY <2>1
      <4>4. p.ok = TRUE /\ p.callback = "coding"
        BY <2>1
      <4> QED
        BY <1>4, <1>d, <4>1, <4>2, <4>3, <4>4, <3>1
<1>5. CASE r.op = "setLineState" /\ Reaches(u, r, {Comm})
  <2>1. p = Accepted(u)
    BY <1>5 DEF ProcessSetup
  <2>2. p.ok = TRUE /\ p.udc = u /\ p.callback = "none"
    BY <2>1 DEF Accepted, Reply
  <2>4. Succeeded(h) = h
    BY <1>5, SucceededFields
  <2> QED
    <3>1. ~r.in /\ r.len = 0
      BY <1>5, <1>b DEF Orders
    <3> QED
      <4>1. /\ Knows(GivenUp(h), Callback(p.udc, "none", r))
            /\ Knows(Succeeded(h), Callback(p.udc, "none", r))
        BY <1>a, <2>2, <2>4
      <4>2. p.udc \in UdcTypes /\ Interfaces(p.udc) /\ p.udc.address = u.address
        BY <2>2
      <4>3. r.op # "setConfiguration"
        BY <1>5
      <4> QED
        BY <1>e, <2>2, <3>1, <4>1, <4>2, <4>3
<1>6. CASE \/ r.op \in {"getConfiguration", "getDescriptor"}
           \/ r.op = "getInterface" /\ Reaches(u, r, Ifaces)
           \/ r.op = "getLineCoding" /\ Reaches(u, r, {Comm})
  <2>0. r.in /\ r.len > 0 /\ r.op \notin {"setAddress", "setConfiguration", "setLineCoding"}
    BY <1>6, <1>b DEF Reads
  <2>1. CASE r.op = "getDescriptor" /\ r.d \notin DOMAIN Size
    <3>1. p = Refused(u)
      BY <2>1 DEF ProcessSetup
    <3>2. p.ok = FALSE /\ p.udc = u /\ p.callback = "none"
      BY <3>1 DEF Refused, Reply
    <3>4. Failed(h) = h
      BY <2>1, FailedFields
    <3>5. ~Supported(h)
      BY <2>1 DEF Supported
    <3> QED
      BY <1>c, <3>2, <3>4, <3>5
  <2>2. CASE ~(r.op = "getDescriptor" /\ r.d \notin DOMAIN Size)
    <3>1. p.ok = TRUE /\ p.udc = u /\ p.callback = "none"
      BY <1>6, <2>2 DEF ProcessSetup, Reply
    <3> QED
      BY <1>6, <1>a, <1>d, <2>0, <3>1
  <2> QED
    BY <2>1, <2>2
<1>7. CASE \/ r.op \notin {"setAddress", "setConfiguration", "setInterface", "setLineCoding",
                            "setLineState", "getDescriptor", "getConfiguration",
                            "getInterface", "getLineCoding"}
           \/ r.op = "getInterface" /\ ~Reaches(u, r, Ifaces)
           \/ /\ r.op \in {"setLineCoding", "setLineState", "getLineCoding"}
              /\ ~Reaches(u, r, {Comm})
  <2>1. p = Refused(u)
    BY <1>7 DEF ProcessSetup
  <2>2. p.ok = FALSE /\ p.udc = u /\ p.callback = "none"
    BY <2>1 DEF Refused, Reply
  <2>4. Knows(Failed(h), u)
    BY <1>7, FailedFields, KnowsAlike DEF Knows, HostTypes
  <2>5. ~Supported(h)
    BY <1>7 DEF Supported, Knows, Unknown, Reaches
  <2> QED
    BY <1>c, <2>2, <2>4, <2>5
<1> QED
  <2>1. \/ r.op = "setAddress" \/ r.op = "setConfiguration" \/ r.op = "setInterface"
        \/ (r.op = "setLineCoding" /\ Reaches(u, r, {Comm}))
        \/ (r.op = "setLineState" /\ Reaches(u, r, {Comm}))
        \/ \/ r.op \in {"getConfiguration", "getDescriptor"}
           \/ r.op = "getInterface" /\ Reaches(u, r, Ifaces)
           \/ r.op = "getLineCoding" /\ Reaches(u, r, {Comm})
        \/ \/ r.op \notin {"setAddress", "setConfiguration", "setInterface", "setLineCoding",
                            "setLineState", "getDescriptor", "getConfiguration",
                            "getInterface", "getLineCoding"}
           \/ r.op = "getInterface" /\ ~Reaches(u, r, Ifaces)
           \/ /\ r.op \in {"setLineCoding", "setLineState", "getLineCoding"}
              /\ ~Reaches(u, r, {Comm})
    OBVIOUS
  <2> QED
    BY <2>1, <1>1, <1>2, <1>3, <1>4, <1>5, <1>6, <1>7

\* The data of the reply: as long as the request allows, and what the host expects.
LEMMA ProcessSetupPayload ==
    ASSUME NEW u \in UdcTypes, NEW r \in Requests,
           NEW h \in HostTypes, h.req = r, Knows(h, u),
           NEW p, p = ProcessSetup(u, r)
    PROVE  /\ p.payload \in [d : Items, n : 0..1] /\ p.size \in 0..MaxLen
           /\ p.ok /\ r.in => 0 < p.size /\ p.size <= r.len /\ Brings(h, p.payload, p.size)
<1>b. /\ r.in \in BOOLEAN /\ r.len \in Nat /\ r.d \in Items
      /\ r.op \in Reads => r.in /\ r.len > 0
      /\ r.op \in Orders => ~r.in /\ r.len = 0
      /\ r.op = "setLineCoding" => ~r.in /\ r.len = 1
  BY RequestFields
<1>m. MaxLen \in Nat /\ r.len <= MaxLen
  BY MaxLenBound
<1>n. NoItem \in Items /\ u.coding \in Items /\ u.config \in 0..1
  BY DEF Items, UdcTypes
<1> DEFINE None == [d |-> NoItem, n |-> 0]
<1>0. None \in [d : Items, n : 0..1]
  BY <1>n
<1>1. ASSUME p.payload = None, p.size = 0, p.ok = FALSE \/ ~r.in
      PROVE  /\ p.payload \in [d : Items, n : 0..1] /\ p.size \in 0..MaxLen
             /\ p.ok /\ r.in => 0 < p.size /\ p.size <= r.len /\ Brings(h, p.payload, p.size)
  BY <1>0, <1>1, <1>m
<1>2. CASE r.op = "getDescriptor"
  <2>1. CASE r.d \in DOMAIN Size
    <3>1. /\ p.payload = [d |-> r.d, n |-> 0]
          /\ p.size = Smaller(Size[r.d], r.len)
      BY <1>2, <2>1 DEF ProcessSetup, Reply
    <3>2. Size[r.d] \in Nat \ {0}
      BY <2>1, ItemsAssumption DEF ItemsAssumption
    <3>3. r.len > 0
      BY <1>2, <1>b DEF Reads
    <3>4. Smaller(Size[r.d], r.len) \in 1..r.len
      BY <3>2, <3>3, <1>b DEF Smaller
    <3>5. Brings(h, p.payload, p.size)
      BY <1>2, <3>1 DEF Brings
    <3>6. p.payload \in [d : Items, n : 0..1]
      BY <3>1, <1>b
    <3> QED
      BY <3>1, <3>4, <3>5, <3>6, <1>b, <1>m
  <2>2. CASE r.d \notin DOMAIN Size
    <3>1. p = Refused(u)
      BY <1>2, <2>2 DEF ProcessSetup
    <3> QED
      BY <1>1, <3>1 DEF Refused, Reply
  <2> QED
    BY <2>1, <2>2
<1>3. CASE r.op = "getConfiguration"
  <2>1. p.payload = [d |-> NoItem, n |-> u.config] /\ p.size = 1
    BY <1>3 DEF ProcessSetup, Reply
  <2>2. r.len > 0
    BY <1>3, <1>b DEF Reads
  <2>3. Brings(h, p.payload, p.size)
    BY <1>3, <2>1 DEF Brings, Knows
  <2>4. p.payload \in [d : Items, n : 0..1]
    BY <2>1, <1>n
  <2> QED
    BY <2>1, <2>2, <2>3, <2>4, <1>m, <1>b
<1>4. CASE \/ r.op = "getInterface" /\ Reaches(u, r, Ifaces)
           \/ r.op = "getLineCoding" /\ Reaches(u, r, {Comm})
  <2>1. /\ p.size = 1
        /\ r.op = "getLineCoding" => p.payload = [d |-> u.coding, n |-> 0]
        /\ r.op # "getLineCoding" => p.payload = None
    BY <1>4 DEF ProcessSetup, Reply
  <2>2. r.len > 0
    BY <1>4, <1>b DEF Reads
  <2>3. Brings(h, p.payload, p.size)
    BY <1>4, <2>1 DEF Brings, Knows
  <2>4. p.payload \in [d : Items, n : 0..1]
    BY <2>1, <1>n
  <2> QED
    BY <2>1, <2>2, <2>3, <2>4, <1>m, <1>b
<1>5. CASE r.op = "setLineCoding" /\ Reaches(u, r, {Comm})
  <2>1. p.payload = None /\ p.size = 1
    BY <1>5 DEF ProcessSetup, Reply
  <2>2. ~r.in /\ r.len = 1
    BY <1>5, <1>b
  <2> QED
    BY <2>1, <2>2, <1>0, <1>m
<1>6. CASE r.op \in Orders
  <2>1. ~r.in
    BY <1>6, <1>b
  <2>2. p.payload = None /\ p.size = 0
    <3>1. CASE r.op = "setAddress"
      BY <3>1 DEF ProcessSetup, SetAddress, Reply
    <3>2. CASE r.op = "setConfiguration"
      BY <3>2 DEF ProcessSetup, SetConfiguration, Accepted, Refused, Reply
    <3>3. CASE r.op = "setInterface"
      <4>1. p = SetInterface(u, r)
        BY <3>3 DEF ProcessSetup
      <4>2. \E v : p = Accepted(v) \/ p = Refused(v)
        BY <4>1 DEF SetInterface
      <4> QED
        BY <4>2 DEF Accepted, Refused, Reply
    <3>4. CASE r.op = "setLineState"
      <4>1. p = Accepted(u) \/ p = Refused(u)
        BY <3>4 DEF ProcessSetup
      <4> QED
        BY <4>1 DEF Accepted, Refused, Reply
    <3> QED
      BY <1>6, <3>1, <3>2, <3>3, <3>4 DEF Orders
  <2> QED
    BY <1>1, <2>1, <2>2
<1>7. CASE \/ r.op \notin {"setAddress", "setConfiguration", "setInterface", "setLineCoding",
                            "setLineState", "getDescriptor", "getConfiguration",
                            "getInterface", "getLineCoding"}
           \/ r.op = "getInterface" /\ ~Reaches(u, r, Ifaces)
           \/ r.op \in {"setLineCoding", "getLineCoding"} /\ ~Reaches(u, r, {Comm})
  <2>1. p = Refused(u)
    BY <1>7 DEF ProcessSetup
  <2> QED
    BY <1>1, <2>1 DEF Refused, Reply
<1> QED
  BY <1>2, <1>3, <1>4, <1>5, <1>6, <1>7 DEF Orders

-----------------------------------------------------------------------------
(***************************************************************************)
(* The inductive invariant, and the steps of the host.                     *)
(***************************************************************************)

IInv == TypeOK /\ InStep /\ NotStalled /\ HostReads

\* What the types say of the state.
LEMMA StateFields ==
    ASSUME TypeOK
    PROVE  /\ ep0 \in EpTypes /\ host \in HostTypes /\ udc \in UdcTypes
           /\ ctl \in CtlTypes(MaxLen)
           /\ ep0.setup # <<>> => Head(ep0.setup) \in Requests
           /\ ep0.tx # <<>> => Head(ep0.tx) \in Packets
           /\ ep0.out # <<>> => Head(ep0.out) \in Packets
           /\ host.st \in Stages <=> host.st \notin Resting
<1>1. ep0.setup \in Seq(Requests) /\ ep0.tx \in Seq(Packets) /\ ep0.out \in Seq(Packets)
  BY DEF TypeOK, EpTypes
<1>2. host.st \in Stages <=> host.st \notin Resting
  BY DEF TypeOK, HostTypes, Stages, Resting
<1> QED
  BY <1>1, <1>2, HeadTailProperties DEF TypeOK

\* A step of the host that leaves the device, its knowledge and its request alone.
LEMMA KnowledgeKept ==
    ASSUME host \in HostTypes, host' \in HostTypes, host'.req = host.req,
           Alike(host, host'), UNCHANGED <<ctl, udc>>
    PROVE  /\ EndOfRequest' = EndOfRequest
           /\ Knows(host, EndOfRequest) => Knows(host, EndOfRequest)'
           /\ host.req \in Requests =>
                /\ Knows(GivenUp(host), EndOfRequest) => Knows(GivenUp(host), EndOfRequest)'
                /\ Knows(Succeeded(host), EndOfRequest) => Knows(Succeeded(host), EndOfRequest)'
                /\ host'.wrong = host.wrong =>
                     (Knows(Failed(host), EndOfRequest) => Knows(Failed(host), EndOfRequest)')
<1>1. EndOfRequest' = EndOfRequest
  BY DEF EndOfRequest
<1>2. PICK h : h = host'
  OBVIOUS
<1>3. PICK e : e = EndOfRequest'
  OBVIOUS
<1>4. /\ Knows(host, e) => Knows(h, e)
      /\ host.req \in Requests =>
           /\ Knows(GivenUp(host), e) => Knows(GivenUp(h), e)
           /\ Knows(Succeeded(host), e) => Knows(Succeeded(h), e)
           /\ h.wrong = host.wrong => (Knows(Failed(host), e) => Knows(Failed(h), e))
  BY <1>2, EndsAlike, KnowsAlike
<1> QED
  BY <1>1, <1>2, <1>3, <1>4

\* The host ends the data of a read early.
LEMMA EndsDataKeeps ==
    ASSUME IInv, HostEndsData
    PROVE  IInv'
<1>1. /\ host.st = "dataIn" /\ host' = [host EXCEPT !.st = "statusOut", !.early = TRUE]
      /\ UNCHANGED <<ep0, ctl, udc>>
  BY DEF HostEndsData, ctrlVars
<1>2. host \in HostTypes
  BY DEF IInv, TypeOK
<1>3. /\ host'.st = "statusOut" /\ host'.early = TRUE /\ host'.req = host.req
      /\ host'.got = host.got /\ host'.what = host.what /\ host'.wrong = host.wrong
      /\ host'.addr = host.addr /\ host'.lost = host.lost /\ host'.config = host.config
      /\ host'.coding = host.coding /\ host'.touched = host.touched
  BY <1>1, <1>2 DEF HostTypes
<1>4. host' \in HostTypes
  BY <1>1, <1>2 DEF HostTypes, Stages
<1>5. TypeOK'
  BY <1>1, <1>4 DEF IInv, TypeOK
<1>7. host.st \in Stages /\ host'.st \in Stages /\ host.st \notin Resting /\ host'.st \notin Resting
  BY <1>1, <1>3 DEF Stages, Resting
<1>8. host.req \in Requests
  BY <1>7 DEF IInv, InStep, InStage
<1>9. Alike(host, host')
  BY <1>3 DEF Alike
<1>10. /\ Knows(host, EndOfRequest) => Knows(host, EndOfRequest)'
       /\ Knows(GivenUp(host), EndOfRequest) => Knows(GivenUp(host), EndOfRequest)'
       /\ Knows(Failed(host), EndOfRequest) => Knows(Failed(host), EndOfRequest)'
       /\ Knows(Succeeded(host), EndOfRequest) => Knows(Succeeded(host), EndOfRequest)'
  BY <1>1, <1>2, <1>3, <1>4, <1>8, <1>9, KnowledgeKept
<1>11. Quiet' = Quiet
  BY <1>1 DEF Quiet
<1> USE <1>1, <1>3, <1>7 DEF IInv, InStep
<1>12. Interfaces(udc)' /\ InCallback' /\ InReset' /\ InStage'
  BY DEF InCallback, InReset, InStage, Stages
<1>13. InSetup'
  BY <1>10 DEF InSetup
<1>14. InKnowledge'
  BY <1>10, <1>11 DEF InKnowledge
<1>15. StateSetup' /\ StateWaitIn'
  BY <1>11 DEF StateSetup, StateWaitIn, InStage
<1>16. StateDataIn'
  BY <1>11 DEF StateDataIn
<1>17. StateWaitOut'
  BY <1>11 DEF StateWaitOut
<1>18. StateDataOut'
  BY <1>11 DEF StateDataOut, InStage
<1>19. StateStall'
  BY <1>11 DEF StateStall, Supported, Reached
<1>20. NotStalled' /\ HostReads'
  BY DEF NotStalled, HostReads
<1> QED
  BY <1>5, <1>12, <1>13, <1>14, <1>15, <1>16, <1>17, <1>18, <1>19, <1>20

\* A mistake of the host.  It fails like a request that is given up from now on.
LEMMA ErrsKeeps ==
    ASSUME IInv, HostErrs
    PROVE  IInv'
<1>1. /\ host.faults < MaxFaults
      /\ host.st \in {"dataOut", "statusOut"} \/ (host.st = "statusIn" /\ host.req.len > 0)
      /\ UNCHANGED <<ep0, ctl, udc>>
  BY DEF HostErrs, ctrlVars
<1>2. host \in HostTypes
  BY DEF IInv, TypeOK
<1>3. PICK st \in {"statusIn", "dataOut", "dataIn"} :
        /\ host' = [host EXCEPT !.faults = @ + 1, !.wrong = TRUE, !.st = st]
        /\ host.st = "dataOut" => st = "statusIn"
        /\ host.st = "statusIn" => st = "dataOut"
        /\ host.st = "statusOut" => st = "dataIn"
  <2>1. CASE host.st = "dataOut"
    BY <2>1 DEF HostErrs
  <2>2. CASE host.st = "statusIn"
    BY <2>2 DEF HostErrs
  <2>3. CASE host.st = "statusOut"
    BY <2>3 DEF HostErrs
  <2> QED
    BY <1>1, <2>1, <2>2, <2>3
<1>4. /\ host'.st = st /\ host'.early = host.early /\ host'.req = host.req
      /\ host'.got = host.got /\ host'.what = host.what /\ host'.wrong = TRUE
      /\ host'.addr = host.addr /\ host'.lost = host.lost /\ host'.config = host.config
      /\ host'.coding = host.coding /\ host'.touched = host.touched
      /\ host'.faults = host.faults + 1
  BY <1>2, <1>3 DEF HostTypes
<1>5. host.faults + 1 \in 0..MaxFaults
  BY <1>1, <1>2, MaxFaultsAssumption DEF HostTypes, MaxFaultsAssumption
<1>6. host' \in HostTypes
  BY <1>2, <1>3, <1>5 DEF HostTypes, Stages
<1>7. TypeOK'
  BY <1>1, <1>6 DEF IInv, TypeOK
<1>8. /\ host.st \in Stages /\ host'.st \in Stages
      /\ host.st \notin Resting /\ host'.st \notin Resting
  BY <1>1, <1>3, <1>4 DEF Stages, Resting
<1>9. /\ host.req \in Requests /\ host.req.in \in BOOLEAN /\ host.req.len \in Nat
      /\ host.req.in \/ host.req.len > 0
      /\ host.req.in => st = "dataIn"
      /\ ~host.req.in => st \in {"dataOut", "statusIn"} /\ ~host.early
  <2>1. host.req \in Requests
    BY <1>8 DEF IInv, InStep, InStage
  <2>2. host.req.in \in BOOLEAN /\ host.req.len \in Nat
    BY <2>1, RequestFields
  <2>3. host.req.in => host.st = "statusOut"
    BY <1>1, <1>8 DEF IInv, InStep, InStage
  <2>4. ~host.req.in => host.st \in {"dataOut", "statusIn"} /\ ~host.early
    BY <1>8 DEF IInv, InStep, InStage
  <2>5. ~host.req.in /\ host.req.len = 0 => host.st = "statusIn"
    BY <1>8 DEF IInv, InStep, InStage
  <2>6. host.req.in \/ host.req.len > 0
    BY <1>1, <2>2, <2>5
  <2> QED
    BY <1>3, <2>1, <2>2, <2>3, <2>4, <2>6
<1>10. Alike(host, host')
  BY <1>4 DEF Alike
<1>11. /\ Knows(host, EndOfRequest) => Knows(host, EndOfRequest)'
       /\ Knows(GivenUp(host), EndOfRequest) => Knows(GivenUp(host), EndOfRequest)'
  BY <1>1, <1>2, <1>4, <1>6, <1>9, <1>10, KnowledgeKept
<1>12. Knows(GivenUp(host), EndOfRequest)' => Knows(Failed(host), EndOfRequest)'
  <2>1. PICK h : h = host'
    OBVIOUS
  <2>2. PICK e : e = EndOfRequest'
    OBVIOUS
  <2>3. Knows(GivenUp(h), e) => Knows(Failed(h), e)
    BY <2>1, <1>4, <1>6, <1>9, FailedLikeGivenUp
  <2> QED
    BY <2>1, <2>2, <2>3
<1>13. Quiet' = Quiet
  BY <1>1 DEF Quiet
<1> USE <1>1, <1>4, <1>8, <1>9 DEF IInv, InStep
<1>14. Interfaces(udc)' /\ InCallback' /\ InReset'
  BY DEF InCallback, InReset
<1>15. InStage'
  BY <1>3 DEF InStage
<1>16. InSetup'
  BY <1>11 DEF InSetup
<1>17. InKnowledge'
  BY <1>11, <1>12, <1>13 DEF InKnowledge
<1>18. StateSetup'
  BY <1>13 DEF StateSetup
<1>19. StateDataIn'
  BY <1>13 DEF StateDataIn
<1>20. StateWaitOut'
  BY <1>13 DEF StateWaitOut
<1>21. StateDataOut'
  BY <1>13 DEF StateDataOut
<1>22. StateWaitIn'
  BY <1>13 DEF StateWaitIn
<1>23. StateStall'
  BY <1>13 DEF StateStall
<1>24. NotStalled' /\ HostReads'
  BY DEF NotStalled, HostReads
<1> QED
  BY <1>7, <1>14, <1>15, <1>16, <1>17, <1>18, <1>19, <1>20, <1>21, <1>22, <1>23, <1>24

\* A token that is refused leaves its flag, which matters to no handler that
\* the host has not led astray.
LEMMA RefusedKeeps ==
    ASSUME IInv, HostRefused
    PROVE  IInv'
<1>1. /\ UNCHANGED <<host, ctl, udc>>
      /\ ~ep0.stall
      /\ \/ host.st \in {"dataIn", "statusIn"} /\ ep0' = [ep0 EXCEPT !.nakIn = TRUE]
         \/ host.st \in {"dataOut", "statusOut"} /\ ep0' = [ep0 EXCEPT !.nakOut = TRUE]
  BY DEF HostRefused
<1>2. ep0 \in EpTypes
  BY DEF IInv, TypeOK
<1>3. /\ ep0'.setup = ep0.setup /\ ep0'.tx = ep0.tx /\ ep0'.out = ep0.out
      /\ ep0'.sent = ep0.sent /\ ep0'.sentIrq = ep0.sentIrq /\ ep0'.stall = ep0.stall
      /\ ep0'.nakInIrq = ep0.nakInIrq /\ ep0'.nakOutIrq = ep0.nakOutIrq
      /\ ep0'.reset = ep0.reset
      /\ host.st \notin {"dataIn", "statusIn"} => ep0'.nakIn = ep0.nakIn
      /\ host.st \notin {"dataOut", "statusOut"} => ep0'.nakOut = ep0.nakOut
  BY <1>1, <1>2 DEF EpTypes
<1>4. ep0' \in EpTypes
  BY <1>1, <1>2 DEF EpTypes
<1>5. TypeOK'
  BY <1>1, <1>3, <1>4 DEF IInv, TypeOK
<1>6. Quiet' = Quiet
  BY <1>3 DEF Quiet
<1>7. EndOfRequest' = EndOfRequest
  BY <1>1 DEF EndOfRequest
<1>8. Transferred => Transferred'
  BY <1>1, <1>3 DEF Transferred
<1> USE <1>1, <1>3 DEF IInv, InStep
<1>9. Interfaces(udc)' /\ InCallback' /\ InReset' /\ InStage'
  BY DEF InCallback, InReset, InStage
<1>10. InSetup'
  BY <1>7 DEF InSetup
<1>11. InKnowledge'
  BY <1>6, <1>7 DEF InKnowledge
<1>12. StateSetup'
  BY <1>6 DEF StateSetup
<1>13. StateDataIn'
  BY <1>6, <1>8 DEF StateDataIn
<1>14. StateWaitOut'
  BY <1>6 DEF StateWaitOut
<1>15. StateDataOut'
  BY <1>6 DEF StateDataOut
<1>16. StateWaitIn'
  BY <1>6 DEF StateWaitIn, Stages
<1>17. StateStall'
  BY <1>6 DEF StateStall, Reached
<1>18. NotStalled' /\ HostReads'
  BY DEF NotStalled, HostReads
<1> QED
  BY <1>5, <1>9, <1>10, <1>11, <1>12, <1>13, <1>14, <1>15, <1>16, <1>17, <1>18

\* A request that fails was not supported, unless the host went wrong.
LEMMA StalledKeeps ==
    ASSUME IInv, HostStalled
    PROVE  IInv'
<1>1. /\ host.st \in Stages /\ Reached /\ ep0.stall
      /\ host' = [Failed(host) EXCEPT !.st = "stalled"]
      /\ UNCHANGED <<ep0, ctl, udc>>
  BY DEF HostStalled, ctrlVars
<1>2. host \in HostTypes /\ host.st \notin Resting
  BY <1>1, StateFields DEF IInv
<1>3. host.req \in Requests
  BY <1>1 DEF IInv, InStep, InStage
<1>4. ep0.setup = <<>> /\ Quiet
  BY <1>1 DEF IInv, InStep, InSetup, Reached, Quiet
<1>5. PICK f : f = Failed(host)
  OBVIOUS
<1>6. /\ f \in HostTypes /\ f.req = host.req /\ f.wrong = host.wrong
      /\ f.got = host.got /\ f.what = host.what /\ f.early = host.early
      /\ f.addr = host.addr /\ f.config = host.config
      /\ host.req.op = "setLineCoding" /\ host.wrong => f.coding = NoItem
  BY <1>2, <1>3, <1>5, FailedFields
<1>7. host' = [f EXCEPT !.st = "stalled"]
  BY <1>1, <1>5
<1>8. /\ host'.st = "stalled" /\ host'.req = f.req /\ host'.wrong = f.wrong
      /\ host'.got = f.got /\ host'.what = f.what /\ host'.early = f.early
      /\ host'.lost = f.lost /\ host'.addr = f.addr /\ host'.config = f.config
      /\ host'.coding = f.coding /\ host'.touched = f.touched
  BY <1>6, <1>7 DEF HostTypes
<1>9. host' \in HostTypes
  BY <1>6, <1>7 DEF HostTypes, Resting
<1>10. TypeOK'
  BY <1>1, <1>9 DEF IInv, TypeOK
<1>11. host'.st \in Resting /\ host'.st \notin Stages
  BY <1>8 DEF Resting, Stages
<1>12. Knows(host, EndOfRequest)'
  <2>1. EndOfRequest' = EndOfRequest
    BY <1>1 DEF EndOfRequest
  <2>2. Alike(f, host')
    BY <1>8 DEF Alike
  <2>3. Knows(f, EndOfRequest)
    BY <1>1, <1>4, <1>5 DEF IInv, InStep, InKnowledge
  <2>4. PICK h : h = host'
    OBVIOUS
  <2>5. Knows(h, EndOfRequest)
    BY <2>2, <2>3, <2>4, KnowsAlike
  <2> QED
    BY <2>1, <2>4, <2>5
<1>13. Quiet' = Quiet
  BY <1>1 DEF Quiet
<1>14. ~host.wrong => ctl.state = "STALL_REQ"
  <2>1. ctl.state \in CtrlStates
    BY DEF IInv, TypeOK, CtlTypes
  <2> QED
    BY <1>1, <1>4, <2>1 DEF IInv, InStep, StateSetup, StateDataIn, StateWaitOut, StateDataOut,
                            StateWaitIn, CtrlStates
<1>15. NotStalled'
  <2>1. ~host.wrong => ~Supported(host)
    BY <1>1, <1>4, <1>14 DEF IInv, InStep, StateStall
  <2>2. Supported(host)' <=> Supported(host)
    BY <1>6, <1>8 DEF Supported
  <2> QED
    BY <1>6, <1>8, <2>1, <2>2 DEF NotStalled
<1>16. ctl.state = "WAIT_IN_ZLP" =>
         /\ host'.coding = NoItem /\ ctl.callback # "address"
  <2>1. ASSUME ctl.state = "WAIT_IN_ZLP"
        PROVE  host'.coding = NoItem /\ ctl.callback # "address"
    <3>1. host.wrong /\ ~host.req.in
      BY <1>1, <1>4, <1>14, <2>1 DEF IInv, InStep, StateWaitIn
    <3>2. host.req.len # 0
      BY <1>1, <3>1 DEF IInv, InStep, InStage
    <3>3. host.req.len > 0
      BY <1>3, <3>2, RequestFields
    <3>4. host.req.op = "setLineCoding"
      BY <1>1, <1>4, <2>1, <3>3 DEF IInv, InStep, StateWaitIn
    <3>5. ctl.callback = "address" => host.req.op = "setAddress"
      BY <1>1, <1>4, <2>1 DEF IInv, InStep, InCallback, StateWaitIn
    <3> QED
      BY <1>6, <1>8, <3>1, <3>4, <3>5
  <2> QED
    BY <2>1
<1> USE <1>1, <1>8, <1>11 DEF IInv, InStep
<1>17. Interfaces(udc)' /\ InCallback' /\ InReset' /\ InStage' /\ InSetup'
  BY <1>4 DEF InCallback, InReset, InStage, InSetup, Reached
<1>18. InKnowledge'
  BY <1>12 DEF InKnowledge
<1>19. StateSetup'
  BY <1>13 DEF StateSetup
<1>20. StateDataIn'
  BY <1>4, <1>13 DEF StateDataIn
<1>21. StateWaitOut'
  BY <1>4, <1>6, <1>13 DEF StateWaitOut
<1>22. StateDataOut'
  BY <1>4, <1>13 DEF StateDataOut
<1>23. StateWaitIn'
  BY <1>13, <1>16 DEF StateWaitIn
<1>24. StateStall'
  BY <1>13 DEF StateStall
<1>25. HostReads'
  BY DEF HostReads
<1> QED
  BY <1>10, <1>15, <1>17, <1>18, <1>19, <1>20, <1>21, <1>22, <1>23, <1>24, <1>25

\* A reset of the bus takes the endpoint's events and the host's knowledge away.
LEMMA HostResetKeeps ==
    ASSUME IInv, HostReset
    PROVE  IInv'
<1>1. /\ UNCHANGED <<ctl, udc>>
      /\ ep0' = [EpClear EXCEPT !.reset = TRUE]
      /\ host' = [host EXCEPT !.st = "idle", !.req = NoRequest, !.got = 0,
                              !.what = Nothing, !.early = FALSE, !.wrong = FALSE, !.addr = 0,
                              !.lost = FALSE, !.config = 0, !.coding = NoItem,
                              !.touched = {}]
  BY DEF HostReset
<1>2. host \in HostTypes
  BY DEF IInv, TypeOK
<1>3. /\ ep0'.setup = <<>> /\ ep0'.out = <<>> /\ ep0'.tx = <<>> /\ ep0'.sent = FALSE
      /\ ep0'.sentIrq = FALSE /\ ep0'.reset = TRUE
  BY <1>1 DEF EpClear
<1>4. /\ host'.st = "idle" /\ host'.addr = 0 /\ host'.config = 0 /\ host'.coding = NoItem
      /\ host'.touched = {}
  BY <1>1, <1>2 DEF HostTypes
<1>5. ep0' \in EpTypes
  <2>1. <<>> \in Seq(Requests) /\ <<>> \in Seq(Packets)
    BY EmptySeq
  <2> QED
    BY <1>1, <2>1 DEF EpClear, EpTypes
<1>6. host' \in HostTypes
  <2>1. Nothing \in [d : Items, n : 0..1] /\ NoItem \in Codings \cup {NoItem}
    BY DEF Nothing, Items
  <2>2. 0 \in 0..127 /\ 0 \in 0..Unknown /\ {} \in SUBSET Ifaces
    BY DEF Unknown
  <2> QED
    BY <1>1, <1>2, <2>1, <2>2, ZenonT(60) DEF HostTypes, Resting
<1>7. TypeOK'
  <2>1. Len(<<>>) <= 1
    BY EmptySeq
  <2> QED
    BY <1>1, <1>3, <1>5, <1>6, <2>1 DEF IInv, TypeOK
<1>8. Quiet' = FALSE /\ host'.st \notin Stages
  BY <1>3, <1>4 DEF Quiet, Stages
<1> USE <1>1, <1>3, <1>4, <1>8 DEF IInv, InStep
<1>9. Interfaces(udc)' /\ InCallback' /\ InReset' /\ InStage' /\ InSetup' /\ InKnowledge'
  BY DEF InCallback, InReset, InStage, InSetup, InKnowledge
<1>10. StateSetup' /\ StateDataIn' /\ StateWaitOut'
  BY DEF StateSetup, StateDataIn, StateWaitOut
<1>11. StateDataOut' /\ StateWaitIn' /\ StateStall'
  BY DEF StateDataOut, StateWaitIn, StateStall
<1>12. NotStalled' /\ HostReads'
  BY DEF NotStalled, HostReads
<1> QED
  BY <1>7, <1>9, <1>10, <1>11, <1>12

\* The next request, after the one before it succeeded, failed or was given up.
LEMMA SetupKeeps ==
    ASSUME IInv, HostSetup
    PROVE  IInv'
<1>1. PICK r \in Requests :
        /\ ep0' = [ep0 EXCEPT !.setup = <<r>>, !.tx = <<>>, !.stall = FALSE,
                              !.sent = @ \/ ep0.tx # <<>>]
        /\ LET h == IF host.st \in Stages
                    THEN [GivenUp(host) EXCEPT !.faults = @ + 1] ELSE host
           IN host' = [h EXCEPT !.st = FirstStage(r), !.req = r, !.got = 0,
                                !.what = Nothing, !.early = FALSE, !.wrong = FALSE]
  BY DEF HostSetup
<1>2. /\ ep0 \in EpTypes /\ host \in HostTypes
      /\ ~ep0.reset /\ (host.st \in Stages => host.faults < MaxFaults)
      /\ UNCHANGED <<ctl, udc>>
  BY StateFields DEF IInv, HostSetup, Reached
<1>3. PICK h \in HostTypes :
        /\ Knows(h, EndOfRequest)
        /\ host' = [h EXCEPT !.st = FirstStage(r), !.req = r, !.got = 0,
                             !.what = Nothing, !.early = FALSE, !.wrong = FALSE]
  <2>1. CASE host.st \in Stages
    <3>1. host.req \in Requests
      BY <2>1 DEF IInv, InStep, InStage
    <3>2. PICK g : g = GivenUp(host)
      OBVIOUS
    <3>3. g \in HostTypes /\ g.faults = host.faults
      BY <1>2, <3>1, <3>2, GivenUpFields
    <3>4. g.faults + 1 \in 0..MaxFaults
      BY <1>2, <2>1, <3>3, MaxFaultsAssumption DEF HostTypes, MaxFaultsAssumption
    <3>5. PICK h : h = [g EXCEPT !.faults = @ + 1]
      OBVIOUS
    <3>6. h \in HostTypes /\ Alike(g, h)
      BY <3>3, <3>4, <3>5 DEF HostTypes, Alike
    <3>7. Knows(g, EndOfRequest)
      BY <2>1, <3>2 DEF IInv, InStep, InKnowledge
    <3>8. Knows(h, EndOfRequest)
      BY <3>6, <3>7, KnowsAlike
    <3> QED
      BY <1>1, <2>1, <3>2, <3>5, <3>6, <3>8
  <2>2. CASE host.st \notin Stages
    <3>1. host.st \in Resting
      BY <2>2, StateFields DEF IInv
    <3>2. Quiet
      BY <1>2, <2>2 DEF IInv, InStep, InSetup, Quiet
    <3> QED
      BY <1>1, <1>2, <2>2, <3>1, <3>2 DEF IInv, InStep, InKnowledge
  <2> QED
    BY <2>1, <2>2
<1>4. /\ r.in \in BOOLEAN /\ r.len \in Nat
  BY RequestFields
<1>5. /\ FirstStage(r) \in Stages /\ FirstStage(r) \notin Resting
      /\ r.in => FirstStage(r) = "dataIn"
      /\ ~r.in => FirstStage(r) \in {"dataOut", "statusIn"}
      /\ ~r.in /\ r.len = 0 => FirstStage(r) = "statusIn"
  BY <1>4 DEF FirstStage, Stages, Resting
<1>6. PICK st : st = FirstStage(r)
  OBVIOUS
<1>7. /\ host'.st = st /\ host'.req = r /\ host'.got = 0
      /\ host'.what = Nothing /\ host'.early = FALSE /\ host'.wrong = FALSE
      /\ Alike(h, host')
  BY <1>3, <1>6 DEF HostTypes, Alike
<1>8. host' \in HostTypes
  <2>1. Nothing \in [d : Items, n : 0..1]
    BY DEF Nothing, Items
  <2> QED
    BY <1>3, <1>5, <2>1 DEF HostTypes
<1>9. /\ ep0'.setup = <<r>> /\ ep0'.tx = <<>> /\ ep0'.stall = FALSE
      /\ ep0'.out = ep0.out /\ ep0'.sentIrq = ep0.sentIrq /\ ep0'.reset = FALSE
      /\ ep0'.sent = (ep0.sent \/ ep0.tx # <<>>)
  BY <1>1, <1>2 DEF EpTypes
<1>10. ep0' \in EpTypes
  <2>1. <<r>> \in Seq(Requests) /\ <<>> \in Seq(Packets)
    BY EmptySeq
  <2> QED
    BY <1>1, <1>2, <2>1 DEF EpTypes
<1>11. TypeOK'
  <2>1. Len(<<r>>) = 1 /\ Len(<<>>) = 0
    OBVIOUS
  <2> QED
    BY <1>2, <1>8, <1>9, <1>10, <2>1 DEF IInv, TypeOK
<1>12. Knows(host, EndOfRequest)' /\ Knows(GivenUp(host), EndOfRequest)'
  <2>1. PICK e : e = EndOfRequest
    OBVIOUS
  <2>2. EndOfRequest' = e
    BY <1>2, <2>1 DEF EndOfRequest
  <2>3. PICK g : g = host'
    OBVIOUS
  <2>4. Knows(g, e)
    BY <1>3, <1>7, <2>1, <2>3, KnowsAlike
  <2>5. Knows(GivenUp(g), e)
    BY <1>7, <1>8, <2>3, <2>4, KnowsGivenUp
  <2> QED
    BY <2>2, <2>3, <2>4, <2>5
<1>13. Quiet' = FALSE
  BY <1>9 DEF Quiet
<1> USE <1>2, <1>5, <1>6, <1>7, <1>9 DEF IInv, InStep
<1>14. Interfaces(udc)' /\ InCallback' /\ InReset'
  BY DEF InCallback, InReset
<1>15. InStage'
  BY <1>4 DEF InStage
<1>16. InSetup'
  BY <1>12 DEF InSetup
<1>17. InKnowledge'
  BY <1>12, <1>13 DEF InKnowledge
<1>18. StateSetup' /\ StateWaitOut' /\ StateDataOut' /\ StateStall'
  BY <1>13 DEF StateSetup, StateWaitOut, StateDataOut, StateStall
<1>19. StateDataIn'
  BY <1>13 DEF StateDataIn, EpTypes
<1>20. StateWaitIn'
  BY <1>13 DEF StateWaitIn, EpTypes
<1>21. NotStalled' /\ HostReads'
  BY DEF NotStalled, HostReads, Resting
<1> QED
  BY <1>11, <1>14, <1>15, <1>16, <1>17, <1>18, <1>19, <1>20, <1>21

\* The device has a packet for the host only in its data or its handshake.
LEMMA PacketFor ==
    ASSUME IInv, host.st \in {"dataIn", "statusIn"}, Reached, ~ep0.stall, ep0.tx # <<>>
    PROVE  /\ Quiet /\ host.st \in Stages /\ host.req \in Requests
           /\ \/ ctl.state = "DATA_IN" /\ host.st = "dataIn" /\ host.req.in
              \/ ctl.state = "WAIT_IN_ZLP" /\ host.st = "statusIn" /\ ~host.req.in
<1>1. host.st \in Stages
  BY DEF Stages
<1>2. Quiet
  BY DEF IInv, InStep, InSetup, Reached, Quiet
<1>3. ctl.state \in CtrlStates
  BY DEF IInv, TypeOK, CtlTypes
<1>4. ctl.state \in {"DATA_IN", "WAIT_IN_ZLP"}
  BY <1>1, <1>2, <1>3 DEF IInv, InStep, StateSetup, StateWaitOut, StateDataOut, StateStall,
                          CtrlStates
<1>5. ctl.state = "DATA_IN" => ctl.req = host.req /\ ctl.req.in
  BY <1>2 DEF IInv, InStep, StateDataIn
<1>6. ctl.state = "WAIT_IN_ZLP" => ~host.req.in
  BY <1>1, <1>2 DEF IInv, InStep, StateWaitIn
<1>7. /\ host.req \in Requests
      /\ host.req.in => host.st = "dataIn"
      /\ ~host.req.in => host.st = "statusIn"
  BY <1>1 DEF IInv, InStep, InStage
<1> QED
  BY <1>1, <1>2, <1>4, <1>5, <1>6, <1>7

\* An IN token takes a packet of the data.
LEMMA TakesDataKeeps ==
    ASSUME IInv, HostTakesIn, ctl.state = "DATA_IN"
    PROVE  IInv'
<1>1. /\ host.st = "dataIn" /\ Quiet /\ host.st \in Stages /\ host.req \in Requests
      /\ ep0.tx # <<>> /\ ~ep0.stall /\ UNCHANGED <<ctl, udc>>
      /\ host.req.in
  BY PacketFor DEF HostTakesIn
<1>2. PICK p \in Packets : p = Head(ep0.tx)
  BY <1>1, StateFields DEF IInv
<1>3. host \in HostTypes /\ ep0 \in EpTypes /\ ctl \in CtlTypes(MaxLen)
  BY StateFields DEF IInv
<1>4. PICK got, what, st :
        /\ host' = [host EXCEPT !.got = got, !.what = what, !.st = st]
        /\ got = host.got + p.len
        /\ what = IF p.len > 0 THEN [d |-> p.d, n |-> p.n] ELSE host.what
        /\ st = IF p.len < Full \/ got = host.req.len THEN "statusOut" ELSE "dataIn"
  BY <1>1, <1>2, <1>3, ZenonT(60) DEF HostTakesIn, HostTypes
<1>5. /\ got \in Nat /\ p.len \in 0..Full /\ host.got \in Nat
      /\ what \in [d : Items, n : 0..1] /\ st \in {"dataIn", "statusOut"}
  BY <1>2, <1>3, <1>4 DEF HostTypes, Packets, Full
<1>6. /\ host'.got = got /\ host'.what = what /\ host'.st = st
      /\ host'.req = host.req /\ host'.early = host.early /\ host'.wrong = host.wrong
      /\ host'.addr = host.addr /\ host'.lost = host.lost /\ host'.config = host.config
      /\ host'.coding = host.coding /\ host'.touched = host.touched
  BY <1>3, <1>4 DEF HostTypes
<1>7. host' \in HostTypes
  <2>1. st \in Resting \cup Stages
    BY <1>5 DEF Stages
  <2>2. host' = [host EXCEPT !.got = got, !.what = what, !.st = st]
    BY <1>4
  <2> QED
    BY <1>3, <1>5, <2>1, <2>2 DEF HostTypes
<1>8. ep0' = [ep0 EXCEPT !.tx = <<>>, !.sent = TRUE]
  BY DEF HostTakesIn
<1>9. /\ ep0'.tx = <<>> /\ ep0'.sent = TRUE /\ ep0'.setup = ep0.setup
      /\ ep0'.out = ep0.out /\ ep0'.sentIrq = ep0.sentIrq /\ ep0'.stall = ep0.stall
      /\ ep0'.reset = ep0.reset
  BY <1>3, <1>8 DEF EpTypes
<1>10. TypeOK'
  <2>1. <<>> \in Seq(Packets) /\ Len(<<>>) = 0
    BY EmptySeq
  <2>2. ep0' \in EpTypes
    BY <1>3, <1>8, <2>1 DEF EpTypes
  <2> QED
    BY <1>1, <1>7, <1>9, <2>1, <2>2 DEF IInv, TypeOK
<1>11. host'.st \in Stages /\ host'.st \notin Resting /\ host'.st # "stalled" /\ host'.st # "ok"
  BY <1>5, <1>6 DEF Stages, Resting
<1>12. Quiet' = Quiet
  BY <1>9 DEF Quiet
<1>13. Knows(GivenUp(host), EndOfRequest)'
  <2>1. Alike(host, host')
    BY <1>6 DEF Alike
  <2>2. Knows(GivenUp(host), EndOfRequest)
    BY <1>1 DEF IInv, InStep, InKnowledge
  <2> QED
    BY <1>1, <1>3, <1>6, <1>7, <2>1, <2>2, KnowledgeKept
<1>14. ASSUME ~host.early, ~host.wrong
       PROVE  Transferred'
  <2>1. Transferred
    BY <1>1, <1>14 DEF IInv, InStep, StateDataIn
  <2>2. Brings(host, ctl.payload, ctl.size)'
    BY <1>1, <1>6, <2>1 DEF Transferred, Brings
  <2>3. /\ host.got > 0 => host.what = ctl.payload
        /\ got = ctl.cnt /\ ctl.short = (p.len < Full)
        /\ p.len > 0 => p.d = ctl.payload.d /\ p.n = ctl.payload.n
    BY <1>1, <1>2, <1>4, <2>1 DEF Transferred
  <2>4. ctl.payload = [d |-> ctl.payload.d, n |-> ctl.payload.n]
    BY <1>3 DEF CtlTypes
  <2>5. got > 0 => what = ctl.payload
    BY <1>4, <1>5, <2>3, <2>4
  <2>6. ctl.cnt <= ctl.size /\ ctl.size <= ctl.req.len /\ ctl.req = host.req
    BY <1>1 DEF IInv, InStep, StateDataIn
  <2>7. ctl.cnt \in Nat /\ ctl.size \in Nat /\ host.req.len \in Nat
    BY <1>1, <1>3, RequestFields, MaxLenBound DEF CtlTypes
  <2>8. st = "dataIn" => ~ctl.short /\ ctl.cnt < ctl.req.len
    <3>1. st = "dataIn" => ~(p.len < Full) /\ got # host.req.len
      BY <1>4
    <3>2. st = "dataIn" => ~ctl.short
      BY <2>3, <3>1
    <3>3. got # host.req.len => ctl.cnt < ctl.req.len
      BY <2>3, <2>6, <2>7
    <3> QED
      BY <3>1, <3>2, <3>3
  <2>9. st = "statusOut" => ctl.short \/ ctl.cnt = ctl.req.len
    <3>1. st = "statusOut" => p.len < Full \/ got = host.req.len
      BY <1>4
    <3>2. p.len < Full => ctl.short
      BY <2>3
    <3> QED
      BY <2>3, <2>6, <3>1, <3>2
  <2> QED
    BY <1>1, <1>6, <1>9, <2>2, <2>3, <2>5, <2>8, <2>9 DEF Transferred
<1> USE <1>1, <1>6, <1>9, <1>11, <1>12 DEF IInv, InStep
<1>15. Interfaces(udc)' /\ InCallback' /\ InReset' /\ InSetup'
  BY DEF InCallback, InReset, InSetup, Quiet
<1>16. InStage'
  BY <1>4 DEF InStage
<1>17. InKnowledge'
  BY <1>13 DEF InKnowledge
<1>18. StateSetup' /\ StateWaitOut' /\ StateDataOut' /\ StateWaitIn' /\ StateStall'
  BY DEF StateSetup, StateWaitOut, StateDataOut, StateWaitIn, StateStall
<1>19. StateDataIn'
  BY <1>14 DEF StateDataIn, Quiet
<1>20. NotStalled' /\ HostReads'
  BY DEF NotStalled, HostReads
<1> QED
  BY <1>10, <1>15, <1>16, <1>17, <1>18, <1>19, <1>20

\* An IN token takes the handshake: the request has succeeded, or the host does
\* not know what has become of it.
LEMMA TakesHandshakeKeeps ==
    ASSUME IInv, HostTakesIn, ctl.state = "WAIT_IN_ZLP"
    PROVE  IInv'
<1>1. /\ host.st = "statusIn" /\ Quiet /\ host.st \in Stages /\ host.req \in Requests
      /\ ep0.tx # <<>> /\ ~ep0.stall /\ UNCHANGED <<ctl, udc>>
      /\ ~host.req.in
  BY PacketFor DEF HostTakesIn
<1>2. host \in HostTypes /\ ep0 \in EpTypes
  BY StateFields DEF IInv
<1>3. PICK g \in HostTypes :
        /\ g.req = host.req /\ Knows(g, EndOfRequest)
        /\ host' = [g EXCEPT !.st = "idle", !.req = NoRequest, !.wrong = FALSE]
  <2>1. host' = [(IF host.wrong THEN GivenUp(host) ELSE Succeeded(host)) EXCEPT
                    !.st = "idle", !.req = NoRequest, !.wrong = FALSE]
    BY <1>1 DEF HostTakesIn, Over
  <2>2. CASE host.wrong
    BY <1>1, <1>2, <2>1, <2>2, GivenUpFields DEF IInv, InStep, InKnowledge
  <2>3. CASE ~host.wrong
    <3>1. host.req.op = "setConfiguration" => host.req.n <= 1
      BY <1>1 DEF IInv, InStep, StateWaitIn
    <3>2. Succeeded(host) \in HostTypes /\ Succeeded(host).req = host.req
      BY <1>1, <1>2, <3>1, SucceededFields
    <3>3. Knows(Succeeded(host), EndOfRequest)
      BY <1>1, <2>3 DEF IInv, InStep, InKnowledge
    <3> QED
      BY <2>1, <2>3, <3>2, <3>3
  <2> QED
    BY <2>2, <2>3
<1>4. host'.st = "idle" /\ host'.wrong = FALSE /\ Alike(g, host')
  BY <1>3 DEF HostTypes, Alike
<1>5. host' \in HostTypes
  BY <1>3 DEF HostTypes, Resting
<1>6. ep0' = [ep0 EXCEPT !.tx = <<>>, !.sent = TRUE]
  BY DEF HostTakesIn
<1>7. /\ ep0'.tx = <<>> /\ ep0'.sent = TRUE /\ ep0'.setup = ep0.setup
      /\ ep0'.out = ep0.out /\ ep0'.sentIrq = ep0.sentIrq /\ ep0'.stall = ep0.stall
      /\ ep0'.reset = ep0.reset
  BY <1>2, <1>6 DEF EpTypes
<1>8. TypeOK'
  <2>1. <<>> \in Seq(Packets) /\ Len(<<>>) = 0
    BY EmptySeq
  <2>2. ep0' \in EpTypes
    BY <1>2, <1>6, <2>1 DEF EpTypes
  <2> QED
    BY <1>1, <1>5, <1>7, <2>1, <2>2 DEF IInv, TypeOK
<1>9. host'.st \notin Stages
  BY <1>4 DEF Stages
<1>10. Knows(host, EndOfRequest)'
  <2>1. PICK e : e = EndOfRequest
    OBVIOUS
  <2>2. EndOfRequest' = e
    BY <1>1, <2>1 DEF EndOfRequest
  <2>3. PICK h : h = host'
    OBVIOUS
  <2>4. Knows(h, e)
    BY <1>3, <1>4, <2>1, <2>3, KnowsAlike
  <2> QED
    BY <2>2, <2>3, <2>4
<1> USE <1>1, <1>4, <1>7, <1>9 DEF IInv, InStep
<1>11. Interfaces(udc)' /\ InCallback' /\ InReset' /\ InStage' /\ InSetup'
  BY DEF InCallback, InReset, InStage, InSetup, Quiet
<1>12. InKnowledge'
  BY <1>10 DEF InKnowledge
<1>13. StateSetup' /\ StateDataIn' /\ StateWaitOut' /\ StateDataOut' /\ StateStall'
  BY DEF StateSetup, StateDataIn, StateWaitOut, StateDataOut, StateStall
<1>14. StateWaitIn'
  BY DEF StateWaitIn, Quiet
<1>15. NotStalled' /\ HostReads'
  BY DEF NotStalled, HostReads
<1> QED
  BY <1>8, <1>11, <1>12, <1>13, <1>14, <1>15

LEMMA TakesInKeeps ==
    ASSUME IInv, HostTakesIn
    PROVE  IInv'
<1>1. ctl.state = "DATA_IN" \/ ctl.state = "WAIT_IN_ZLP"
  BY PacketFor DEF HostTakesIn
<1> QED
  BY <1>1, TakesDataKeeps, TakesHandshakeKeeps

\* The device is ready for an OUT packet only in its data or its handshake, or when
\* the host sends more than it announced.
LEMMA ReadyForOut ==
    ASSUME IInv, host.st \in {"dataOut", "statusOut"}, Reached, ~ep0.stall, OutFree
    PROVE  /\ Quiet /\ host.st \in Stages /\ host.req \in Requests
           /\ \/ /\ host.st = "dataOut" /\ ~host.req.in
                 /\ host.req.op = "setLineCoding" /\ host.req.len = 1
                 /\ \/ ctl.state = "DATA_OUT"
                    \/ ctl.state = "WAIT_IN_ZLP" /\ host.wrong
              \/ /\ host.st = "statusOut" /\ host.req.in
                 /\ ctl.state \in {"DATA_IN", "WAIT_OUT_ZLP"}
<1>1. host.st \in Stages
  BY DEF Stages
<1>2. Quiet
  BY DEF OutFree, Reached, Quiet
<1>3. ctl.state \in CtrlStates
  BY DEF IInv, TypeOK, CtlTypes
<1>4. ctl.state \in {"DATA_IN", "WAIT_OUT_ZLP", "DATA_OUT", "WAIT_IN_ZLP"}
  BY <1>1, <1>2, <1>3 DEF IInv, InStep, StateSetup, StateStall, CtrlStates
<1>5. /\ host.req \in Requests
      /\ host.req.in => host.st = "statusOut"
      /\ ~host.req.in => host.st = "dataOut"
      /\ ~host.req.in => host.req.len # 0
  BY <1>1 DEF IInv, InStep, InStage
<1>6. ctl.state \in {"DATA_IN", "WAIT_OUT_ZLP"} => host.req.in
  BY <1>2 DEF IInv, InStep, StateDataIn, StateWaitOut
<1>7. ctl.state = "DATA_OUT" => host.req.op = "setLineCoding"
  BY <1>2 DEF IInv, InStep, StateDataOut
<1>8. ctl.state = "WAIT_IN_ZLP" =>
         ~host.req.in /\ (host.req.len > 0 => host.req.op = "setLineCoding")
  BY <1>1, <1>2 DEF IInv, InStep, StateWaitIn
<1>9. ctl.state = "WAIT_IN_ZLP" /\ ~host.wrong => host.st = "statusIn"
  BY <1>1, <1>2 DEF IInv, InStep, StateWaitIn
<1>10. /\ host.req.len \in Nat
       /\ host.req.op = "setLineCoding" => ~host.req.in /\ host.req.len = 1
  BY <1>5, RequestFields
<1>11. CASE ctl.state \in {"DATA_IN", "WAIT_OUT_ZLP"}
  BY <1>1, <1>2, <1>5, <1>6, <1>11
<1>12. CASE ctl.state = "DATA_OUT"
  BY <1>1, <1>2, <1>5, <1>7, <1>10, <1>12
<1>13. CASE ctl.state = "WAIT_IN_ZLP"
  <2>1. host.st = "dataOut" /\ host.wrong
    BY <1>5, <1>8, <1>9, <1>13
  <2>2. host.req.len > 0
    BY <1>5, <1>8, <1>10, <1>13
  <2> QED
    BY <1>1, <1>2, <1>5, <1>8, <1>10, <1>13, <2>1, <2>2
<1> QED
  BY <1>4, <1>11, <1>12, <1>13

\* An OUT token of the host brings its data.
LEMMA SendsDataKeeps ==
    ASSUME IInv, HostSendsOut, host.st = "dataOut"
    PROVE  IInv'
<1>1. /\ Quiet /\ host.st \in Stages /\ host.req \in Requests
      /\ ~host.req.in /\ host.req.op = "setLineCoding" /\ host.req.len = 1
      /\ ctl.state = "DATA_OUT" \/ (ctl.state = "WAIT_IN_ZLP" /\ host.wrong)
      /\ ~ep0.stall /\ ep0.setup = <<>> /\ UNCHANGED <<ctl, udc>>
  BY ReadyForOut DEF HostSendsOut, OutFree
<1>2. host \in HostTypes /\ ep0 \in EpTypes
  BY StateFields DEF IInv
<1>3. PICK p : p = Packet(1, [d |-> host.req.d, n |-> 0])
  OBVIOUS
<1>4. /\ ep0' = [ep0 EXCEPT !.out = <<p>>]
      /\ host' = [host EXCEPT !.st = "statusIn"]
  BY <1>1, <1>3 DEF HostSendsOut
<1>5. /\ host'.st = "statusIn" /\ host'.got = host.got /\ host'.what = host.what
      /\ host'.req = host.req /\ host'.early = host.early /\ host'.wrong = host.wrong
      /\ host'.addr = host.addr /\ host'.lost = host.lost /\ host'.config = host.config
      /\ host'.coding = host.coding /\ host'.touched = host.touched
  BY <1>2, <1>4 DEF HostTypes
<1>6. host' \in HostTypes
  BY <1>2, <1>4 DEF HostTypes, Stages
<1>7. /\ ep0'.out = <<p>> /\ ep0'.tx = ep0.tx /\ ep0'.sent = ep0.sent
      /\ ep0'.setup = ep0.setup /\ ep0'.sentIrq = ep0.sentIrq /\ ep0'.stall = ep0.stall
      /\ ep0'.reset = ep0.reset /\ ep0'.nakIn = ep0.nakIn /\ ep0'.nakOut = ep0.nakOut
  BY <1>2, <1>4 DEF EpTypes
<1>8. TypeOK'
  <2>1. host.req.d \in Items
    BY <1>1, RequestFields
  <2>2. p \in Packets
    BY <1>3, <2>1 DEF Packet, Packets, Full
  <2>3. <<p>> \in Seq(Packets) /\ Len(<<p>>) = 1
    BY <2>2
  <2>4. ep0' \in EpTypes
    BY <1>2, <1>4, <2>3 DEF EpTypes
  <2> QED
    BY <1>1, <1>6, <1>7, <2>3, <2>4 DEF IInv, TypeOK
<1>9. host'.st \in Stages /\ host'.st \notin Resting
  BY <1>5 DEF Stages, Resting
<1>10. Quiet' = Quiet
  BY <1>7 DEF Quiet
<1>11. Knows(GivenUp(host), EndOfRequest)'
  <2>1. Alike(host, host')
    BY <1>5 DEF Alike
  <2>2. Knows(GivenUp(host), EndOfRequest)
    BY <1>1 DEF IInv, InStep, InKnowledge
  <2> QED
    BY <1>1, <1>2, <1>5, <1>6, <2>1, <2>2, KnowledgeKept
<1>12. Head(<<p>>) = p /\ <<p>> # <<>>
  OBVIOUS
<1> USE <1>1, <1>5, <1>7, <1>9, <1>10 DEF IInv, InStep
<1>13. Interfaces(udc)' /\ InCallback' /\ InReset' /\ InSetup'
  BY DEF InCallback, InReset, InSetup, Quiet
<1>14. InStage'
  BY DEF InStage
<1>15. InKnowledge'
  BY <1>11 DEF InKnowledge
<1>16. StateSetup' /\ StateDataIn' /\ StateWaitOut' /\ StateStall'
  BY DEF StateSetup, StateDataIn, StateWaitOut, StateStall
<1>17. StateDataOut'
  BY <1>3, <1>12 DEF StateDataOut
<1>18. StateWaitIn'
  BY DEF StateWaitIn
<1>19. NotStalled' /\ HostReads'
  BY DEF NotStalled, HostReads
<1> QED
  BY <1>8, <1>13, <1>14, <1>15, <1>16, <1>17, <1>18, <1>19

\* The handshake of a read: the host has what it asked for.
LEMMA EndsReadKeeps ==
    ASSUME IInv, HostSendsOut, host.st = "statusOut"
    PROVE  IInv'
<1>1. /\ Quiet /\ host.st \in Stages /\ host.req \in Requests /\ host.req.in
      /\ ctl.state \in {"DATA_IN", "WAIT_OUT_ZLP"}
      /\ ~ep0.stall /\ ep0.setup = <<>> /\ UNCHANGED <<ctl, udc>>
  BY ReadyForOut DEF HostSendsOut, OutFree
<1>2. host \in HostTypes /\ ep0 \in EpTypes /\ ctl \in CtlTypes(MaxLen)
  BY StateFields DEF IInv
<1>3. /\ ep0' = [ep0 EXCEPT !.out = <<Zlp>>]
      /\ host' = [host EXCEPT !.st = "ok"]
  BY <1>1 DEF HostSendsOut, Over
<1>4. /\ host'.st = "ok" /\ host'.got = host.got /\ host'.what = host.what
      /\ host'.req = host.req /\ host'.early = host.early /\ host'.wrong = host.wrong
      /\ host'.addr = host.addr /\ host'.lost = host.lost /\ host'.config = host.config
      /\ host'.coding = host.coding /\ host'.touched = host.touched
  BY <1>2, <1>3 DEF HostTypes
<1>5. host' \in HostTypes
  BY <1>2, <1>3 DEF HostTypes, Resting
<1>6. /\ ep0'.tx = ep0.tx /\ ep0'.sent = ep0.sent
      /\ ep0'.setup = ep0.setup /\ ep0'.sentIrq = ep0.sentIrq /\ ep0'.stall = ep0.stall
      /\ ep0'.reset = ep0.reset /\ ep0'.nakIn = ep0.nakIn /\ ep0'.nakInIrq = ep0.nakInIrq
      /\ ep0'.out = <<Zlp>>
  BY <1>2, <1>3 DEF EpTypes
<1>7. TypeOK'
  <2>1. Zlp \in Packets
    BY DEF Zlp, Packet, Packets, Full, Nothing, Items
  <2>2. <<Zlp>> \in Seq(Packets) /\ Len(<<Zlp>>) = 1
    BY <2>1
  <2>3. ep0' \in EpTypes
    BY <1>2, <1>3, <2>2 DEF EpTypes
  <2> QED
    BY <1>1, <1>5, <1>6, <2>2, <2>3 DEF IInv, TypeOK
<1>8. host'.st \notin Stages
  BY <1>4 DEF Stages
<1>9. Quiet' = Quiet
  BY <1>6 DEF Quiet
<1>10. Knows(host, EndOfRequest)'
  <2>1. Alike(host, host')
    BY <1>4 DEF Alike
  <2>2. Knows(host, EndOfRequest)
    BY <1>1, <1>2, GivenUpFields DEF IInv, InStep, InKnowledge
  <2> QED
    BY <1>1, <1>2, <1>4, <1>5, <2>1, <2>2, KnowledgeKept
<1>11. ASSUME ~host.early, ~host.wrong
       PROVE  Brings(host, host.what, host.got)
  <2>1. CASE ctl.state = "DATA_IN"
    <3>1. Transferred
      BY <1>1, <1>11, <2>1 DEF IInv, InStep, StateDataIn
    <3>2. ep0.tx = <<>>
      BY <3>1 DEF Transferred
    <3>3. /\ host.got = ctl.cnt /\ (ctl.short \/ ctl.cnt = ctl.req.len)
          /\ host.got > 0 => host.what = ctl.payload
          /\ Brings(host, ctl.payload, ctl.size)
      BY <3>1, <3>2 DEF Transferred
    <3>4. /\ 0 < ctl.size /\ ctl.size <= ctl.req.len /\ ctl.cnt <= ctl.size
          /\ ctl.short => ctl.cnt = ctl.size
          /\ ctl.req = host.req
      BY <1>1, <2>1 DEF IInv, InStep, StateDataIn
    <3>5. ctl.cnt \in Nat /\ ctl.size \in Nat /\ ctl.req.len \in Nat
      BY <1>1, <1>2, <3>4, RequestFields, MaxLenBound DEF CtlTypes
    <3>6. ctl.cnt = ctl.req.len => ctl.cnt = ctl.size
      BY <3>4, <3>5
    <3>7. host.got = ctl.size /\ host.got > 0
      BY <3>3, <3>4, <3>5, <3>6
    <3> QED
      BY <3>3, <3>7
  <2>2. CASE ctl.state = "WAIT_OUT_ZLP"
    BY <1>1, <1>11, <2>2 DEF IInv, InStep, StateWaitOut
  <2> QED
    BY <1>1, <2>1, <2>2
<1> USE <1>1, <1>4, <1>6, <1>8, <1>9 DEF IInv, InStep
<1>12. Interfaces(udc)' /\ InCallback' /\ InReset' /\ InStage' /\ InSetup'
  BY DEF InCallback, InReset, InStage, InSetup, Quiet
<1>13. InKnowledge'
  BY <1>10 DEF InKnowledge
<1>14. StateSetup' /\ StateDataOut' /\ StateWaitIn' /\ StateStall'
  BY DEF StateSetup, StateDataOut, StateWaitIn, StateStall
<1>15. StateDataIn'
  BY DEF StateDataIn
<1>16. StateWaitOut'
  BY DEF StateWaitOut
<1>17. NotStalled'
  BY DEF NotStalled
<1>18. HostReads'
  BY <1>11 DEF HostReads, Brings
<1> QED
  BY <1>7, <1>12, <1>13, <1>14, <1>15, <1>16, <1>17, <1>18

LEMMA SendsOutKeeps ==
    ASSUME IInv, HostSendsOut
    PROVE  IInv'
  BY SendsDataKeeps, EndsReadKeeps DEF HostSendsOut

-----------------------------------------------------------------------------
(***************************************************************************)
(* The steps of the interrupt.  The host does nothing in them.             *)
(***************************************************************************)

\* The end of a request, hidden or not, leaves a device of the same kind.
LEMMA EndFields ==
    ASSUME IInv
    PROVE  /\ EndOfRequest \in UdcTypes /\ Interfaces(EndOfRequest)
           /\ ctl.callback = "none" => EndOfRequest = udc
           /\ ctl.callback # "address" => EndOfRequest.address = udc.address
           /\ EndOfRequest.config = udc.config /\ EndOfRequest.up = udc.up
           /\ EndOfRequest.open = udc.open /\ EndOfRequest.running = udc.running
<1>1. udc \in UdcTypes /\ ctl \in CtlTypes(MaxLen)
  BY StateFields DEF IInv
<1>2. Interfaces(udc)
  BY DEF IInv, InStep
<1>3. CASE ctl.callback = "none"
  <2>1. EndOfRequest = udc
    BY <1>3 DEF EndOfRequest, Callback
  <2> QED
    BY <1>1, <1>2, <2>1
<1>4. CASE ctl.callback # "none"
  <2>1. ctl.req \in Requests /\ (ctl.callback = "address" => ctl.req.op = "setAddress")
    BY <1>4 DEF IInv, InStep, InCallback
  <2>2. PICK c, r : c = ctl.callback /\ r = ctl.req
    OBVIOUS
  <2>3. EndOfRequest = Callback(udc, c, r)
    BY <2>2 DEF EndOfRequest
  <2> QED
    BY <1>1, <1>2, <1>4, <2>1, <2>2, <2>3, CallbackFields
<1> QED
  BY <1>3, <1>4

\* What the interrupt cannot disturb once the SETUP packet is served.
LEMMA ServedKeeps ==
    ASSUME IInv, UNCHANGED host, ep0'.setup = <<>>, ep0'.reset = FALSE
    PROVE  InReset' /\ InStage' /\ InSetup' /\ NotStalled' /\ HostReads' /\ Quiet'
<1> USE DEF IInv, InStep
<1>1. InReset' /\ InSetup' /\ Quiet'
  BY DEF InReset, InSetup, Quiet
<1>2. InStage'
  BY DEF InStage
<1>3. NotStalled' /\ HostReads'
  BY DEF NotStalled, HostReads
<1> QED
  BY <1>1, <1>2, <1>3

\* udd_ctrl_init on the request.
LEMMA FreeRequestFields ==
    ASSUME NEW c \in CtlTypes(MaxLen)
    PROVE  /\ FreeRequest(c) \in CtlTypes(MaxLen)
           /\ FreeRequest(c).state = "SETUP" /\ FreeRequest(c).callback = "none"
<1>1. 0 \in 0..MaxLen /\ 0 \in 0..2 * MaxLen
  BY MaxLenBound
<1>2. Nothing \in [d : Items, n : 0..1]
  BY DEF Nothing, Items
<1>3. "SETUP" \in CtrlStates
  BY DEF CtrlStates
<1>4. NoRequest \in Requests \cup {NoRequest}
  OBVIOUS
<1>5. FreeRequest(c) =
        [c EXCEPT !.callback = "none", !.size = 0, !.state = "SETUP",
                  !.req = NoRequest, !.payload = Nothing, !.cnt = 0, !.prev = 0,
                  !.short = FALSE]
  BY DEF FreeRequest
<1> QED
  BY <1>1, <1>2, <1>3, <1>4, <1>5, ZenonT(60) DEF CtlTypes

\* The end of a bus reset.
LEMMA ResetEndsKeeps ==
    ASSUME IInv, BusResetEnds, UNCHANGED host
    PROVE  IInv'
<1>1. /\ ep0.reset /\ ep0' = EpClear /\ ctl' = FreeRequest(ctl)
      /\ udc' = [UdcReset(udc) EXCEPT !.address = 0]
  BY DEF BusResetEnds
<1>2. udc \in UdcTypes /\ ctl \in CtlTypes(MaxLen) /\ Interfaces(udc)
  BY StateFields DEF IInv, InStep
<1>3. PICK u : u = UdcReset(udc)
  OBVIOUS
<1>4. /\ u \in UdcTypes /\ u.config = 0
      /\ \A i \in Ifaces : ~u.up[i]
      /\ ~u.running /\ ~u.open
  BY <1>2, <1>3, UdcResetTypes
<1>5. udc' = [u EXCEPT !.address = 0]
  BY <1>1, <1>3
<1>6. /\ udc' \in UdcTypes /\ udc'.address = 0 /\ udc'.config = 0
      /\ \A i \in Ifaces : udc'.up[i] = FALSE
      /\ udc'.running = FALSE /\ udc'.open = FALSE
  BY <1>4, <1>5 DEF UdcTypes
<1>7. /\ ctl' \in CtlTypes(MaxLen) /\ ctl'.state = "SETUP" /\ ctl'.callback = "none"
  BY <1>1, <1>2, FreeRequestFields
<1>8. /\ ep0'.setup = <<>> /\ ep0'.tx = <<>> /\ ep0'.out = <<>>
      /\ ep0'.sentIrq = FALSE /\ ep0'.reset = FALSE
  BY <1>1 DEF EpClear
<1>9. TypeOK'
  <2>1. <<>> \in Seq(Requests) /\ <<>> \in Seq(Packets) /\ Len(<<>>) = 0
    BY EmptySeq
  <2>2. ep0' \in EpTypes
    BY <1>1, <2>1 DEF EpClear, EpTypes
  <2> QED
    BY <1>6, <1>7, <1>8, <2>1, <2>2 DEF IInv, TypeOK
<1>10. InReset' /\ InStage' /\ InSetup' /\ NotStalled' /\ HostReads' /\ Quiet'
  BY <1>8, ServedKeeps
<1>11. /\ host.st = "idle" /\ host.addr = 0 /\ host.config = 0 /\ host.coding = NoItem
       /\ host.touched = {}
  BY <1>1 DEF IInv, InStep, InReset
<1>12. EndOfRequest' = udc'
  BY <1>7 DEF EndOfRequest, Callback
<1>13. Knows(host, udc)'
  <2>0. udc'.config # 1
    BY <1>6
  <2>1. \A i \in Ifaces : udc'.up[i] = (udc'.config = 1)
    BY <1>6, <2>0, Zenon
  <2>2. udc'.open = udc'.running /\ NoItem = NoItem
    BY <1>6
  <2> QED
    BY <1>6, <1>11, <2>1, <2>2 DEF Knows
<1>14. Interfaces(udc)'
  <2>1. DataIface \in Ifaces
    BY DEF Ifaces
  <2> QED
    BY <1>6, <2>1 DEF Interfaces
<1>15. InCallback'
  BY <1>7 DEF InCallback
<1>16. InKnowledge'
  BY <1>11, <1>12, <1>13 DEF InKnowledge, Stages
<1>17. StateSetup'
  BY <1>8, <1>7, <1>11 DEF StateSetup, Stages
<1>18. StateDataIn' /\ StateWaitOut' /\ StateDataOut' /\ StateWaitIn' /\ StateStall'
  BY <1>7 DEF StateDataIn, StateWaitOut, StateDataOut, StateWaitIn, StateStall
<1> QED
  BY <1>9, <1>10, <1>14, <1>15, <1>16, <1>17, <1>18 DEF IInv, InStep

\* A token that is refused in a quiet moment.
LEMMA RefusedFacts ==
    ASSUME IInv, NoPacket
    PROVE  /\ Quiet /\ ep0.out = <<>> /\ ep0.setup = <<>> /\ ~ep0.reset
           /\ ~(ep0.sent /\ ep0.sentIrq)
           /\ Pending /\ ~ep0.nakOut => ep0.nakIn /\ ep0.nakInIrq
           /\ host.wrong /\ host.st \in Stages => Knows(Failed(host), EndOfRequest)
<1>1. /\ Quiet /\ ep0.out = <<>> /\ ep0.setup = <<>> /\ ~ep0.reset
      /\ ~(ep0.sent /\ ep0.sentIrq)
  BY DEF NoPacket, InIsSent, Quiet
<1>2. Pending /\ ~ep0.nakOut => ep0.nakIn /\ ep0.nakInIrq
  BY <1>1 DEF Pending
<1>3. ASSUME host.wrong, host.st \in Stages
      PROVE  Knows(Failed(host), EndOfRequest)
  <2>1. /\ host.req \in Requests
        /\ ~host.req.in => host.req.len # 0
        /\ Knows(GivenUp(host), EndOfRequest)
    BY <1>3 DEF IInv, InStep, InStage, InKnowledge
  <2>2. host.req.len \in Nat
    BY <2>1, RequestFields
  <2>3. host.req.in \/ host.req.len > 0
    BY <2>1, <2>2
  <2>4. host \in HostTypes
    BY StateFields DEF IInv
  <2>5. PICK e : e = EndOfRequest
    OBVIOUS
  <2> QED
    BY <1>3, <2>1, <2>3, <2>4, <2>5, FailedLikeGivenUp
<1> QED
  BY <1>1, <1>2, <1>3

LEMMA OverflowKeeps ==
    ASSUME IInv, Overflow, UNCHANGED host
    PROVE  IInv'
<1>1. /\ NoPacket /\ ep0.nakOut /\ UNCHANGED <<ctl, udc>>
      /\ ep0' = [Entered EXCEPT !.nakOut = FALSE,
                                !.stall = @ \/ (~ep0.sent /\ ctl.state = "WAIT_IN_ZLP")]
  BY DEF Overflow
<1>2. ep0 \in EpTypes
  BY StateFields DEF IInv
<1>3. /\ ep0'.setup = ep0.setup /\ ep0'.tx = ep0.tx /\ ep0'.out = ep0.out
      /\ ep0'.sent = ep0.sent /\ ep0'.sentIrq = ep0.sentIrq /\ ep0'.reset = ep0.reset
      /\ ep0'.nakIn = ep0.nakIn /\ ep0'.nakInIrq = FALSE
      /\ ep0'.stall = (ep0.stall \/ (~ep0.sent /\ ctl.state = "WAIT_IN_ZLP"))
  BY <1>1, <1>2 DEF Entered, EpTypes
<1>4. TypeOK'
  <2>1. ep0' \in EpTypes
    BY <1>1, <1>2 DEF Entered, EpTypes
  <2> QED
    BY <1>1, <1>3, <2>1 DEF IInv, TypeOK
<1>5. /\ Quiet /\ ep0.out = <<>> /\ ep0.setup = <<>> /\ ep0.reset = FALSE
      /\ host.wrong /\ host.st \in Stages => Knows(Failed(host), EndOfRequest)
  BY <1>1, <1>2, RefusedFacts DEF EpTypes
<1>6. InReset' /\ InStage' /\ InSetup' /\ NotStalled' /\ HostReads' /\ Quiet'
  BY <1>3, <1>5, ServedKeeps
<1>7. EndOfRequest' = EndOfRequest
  BY <1>1 DEF EndOfRequest
\* More data is stalled only if the host has gone wrong.
<1>8. ctl.state = "WAIT_IN_ZLP" /\ host.st \in Stages => host.wrong
  BY <1>1, <1>5 DEF IInv, InStep, StateWaitIn
<1>9. Transferred => Transferred'
  BY <1>1, <1>3 DEF Transferred
<1> USE <1>1, <1>3, <1>5, <1>6 DEF IInv, InStep
<1>10. Interfaces(udc)' /\ InCallback'
  BY DEF InCallback
<1>11. InKnowledge'
  <2>1. ep0'.stall /\ host.st \in Stages => ep0.stall \/ host.wrong
    BY <1>8
  <2> QED
    BY <1>7, <2>1 DEF InKnowledge
<1>12. StateSetup'
  BY DEF StateSetup
<1>13. StateDataIn'
  BY <1>9 DEF StateDataIn
<1>14. StateWaitOut'
  BY DEF StateWaitOut
<1>15. StateDataOut'
  BY DEF StateDataOut
<1>16. StateWaitIn'
  BY <1>8 DEF StateWaitIn
<1>17. StateStall'
  BY DEF StateStall, Reached
<1> QED
  BY <1>4, <1>10, <1>11, <1>12, <1>13, <1>14, <1>15, <1>16, <1>17

\* A refused IN token instead of data from the host.
LEMMA UnderflowHandshakeKeeps ==
    ASSUME IInv, Underflow, ctl.state = "DATA_OUT", UNCHANGED host
    PROVE  IInv'
<1>1. /\ NoPacket /\ Pending /\ ~ep0.nakOut /\ UNCHANGED udc
      /\ ep0' = [RaiseTx([Entered EXCEPT !.nakIn = FALSE], Zlp) EXCEPT
                   !.nakOut = FALSE, !.nakOutIrq = TRUE]
      /\ ctl' = [ctl EXCEPT !.state = "WAIT_IN_ZLP"]
  BY DEF Underflow, SendZlpIn
<1>2. ep0 \in EpTypes /\ ctl \in CtlTypes(MaxLen)
  BY StateFields DEF IInv
<1>3. /\ ep0'.setup = ep0.setup /\ ep0'.tx = <<Zlp>> /\ ep0'.out = ep0.out
      /\ ep0'.sent = FALSE /\ ep0'.sentIrq = TRUE /\ ep0'.reset = ep0.reset
      /\ ep0'.stall = ep0.stall
  BY <1>1, <1>2 DEF Entered, RaiseTx, EpTypes
<1>4. /\ ctl'.state = "WAIT_IN_ZLP" /\ ctl'.callback = ctl.callback /\ ctl'.req = ctl.req
  BY <1>1, <1>2 DEF CtlTypes
<1>5. TypeOK'
  <2>1. Zlp \in Packets
    BY DEF Zlp, Packet, Packets, Full, Nothing, Items
  <2>2. <<Zlp>> \in Seq(Packets) /\ Len(<<Zlp>>) = 1
    BY <2>1
  <2>3. ep0' \in EpTypes
    BY <1>1, <1>2, <2>2 DEF Entered, RaiseTx, EpTypes
  <2>4. ctl' \in CtlTypes(MaxLen)
    BY <1>1, <1>2 DEF CtlTypes, CtrlStates
  <2> QED
    <3>1. UNCHANGED <<udc, host>>
      BY <1>1
    <3>2. Len(ep0'.setup) <= 1 /\ Len(ep0'.out) <= 1
      BY <1>3 DEF IInv, TypeOK
    <3>3. Len(ep0'.tx) <= 1
      BY <1>3, <2>2
    <3> QED
      BY <2>3, <2>4, <3>1, <3>2, <3>3 DEF IInv, TypeOK
<1>6. /\ Quiet /\ ep0.out = <<>> /\ ep0.setup = <<>> /\ ep0.reset = FALSE
      /\ ep0.nakIn
  BY <1>1, <1>2, RefusedFacts DEF EpTypes
<1>7. InReset' /\ InStage' /\ InSetup' /\ NotStalled' /\ HostReads' /\ Quiet'
  BY <1>3, <1>6, ServedKeeps
<1>8. EndOfRequest' = EndOfRequest
  BY <1>1, <1>4 DEF EndOfRequest
<1>9. /\ ctl.req = host.req /\ host.req.op = "setLineCoding" /\ ~ep0.stall
      /\ host.st \in Stages /\ host.st \notin Resting
  BY <1>6, StateFields DEF IInv, InStep, StateDataOut
<1>10. host.req \in Requests /\ ~host.req.in
  BY <1>9, RequestFields DEF IInv, InStep, InStage
<1>11. host.wrong
  <2>1. host.st \in {"dataOut", "statusIn"}
    BY <1>9, <1>10 DEF IInv, InStep, InStage
  <2> QED
    BY <1>6, <2>1 DEF IInv, InStep, StateDataOut
<1> USE <1>1, <1>3, <1>4, <1>6, <1>7, <1>9, <1>10, <1>11 DEF IInv, InStep
<1>12. Interfaces(udc)' /\ InCallback'
  BY DEF InCallback
<1>13. InKnowledge'
  BY <1>8 DEF InKnowledge
<1>14. StateSetup' /\ StateDataIn' /\ StateWaitOut' /\ StateDataOut' /\ StateStall'
  BY DEF StateSetup, StateDataIn, StateWaitOut, StateDataOut, StateStall
<1>15. StateWaitIn'
  <2>0. ep0'.tx # <<>>
    <3>1. <<Zlp>> # <<>>
      OBVIOUS
    <3> QED
      BY <1>3, <3>1, Zenon
  <2>1. ep0'.sent = (ep0'.tx = <<>>)
    BY <1>3, <2>0, Zenon
  <2> QED
    BY <2>1 DEF StateWaitIn
<1> QED
  BY <1>5, <1>12, <1>13, <1>14, <1>15

\* A refused IN token otherwise: the host asks for too much only if it is wrong.
LEMMA UnderflowKeeps ==
    ASSUME IInv, Underflow, ctl.state # "DATA_OUT", UNCHANGED host
    PROVE  IInv'
<1>1. /\ NoPacket /\ Pending /\ ~ep0.nakOut /\ UNCHANGED <<ctl, udc>>
      /\ ep0' = [Entered EXCEPT !.nakIn = FALSE,
                                !.stall = @ \/ ctl.state = "WAIT_OUT_ZLP"]
  BY DEF Underflow
<1>2. ep0 \in EpTypes
  BY StateFields DEF IInv
<1>3. /\ ep0'.setup = ep0.setup /\ ep0'.tx = ep0.tx /\ ep0'.out = ep0.out
      /\ ep0'.sent = ep0.sent /\ ep0'.sentIrq = ep0.sentIrq /\ ep0'.reset = ep0.reset
      /\ ep0'.nakOut = ep0.nakOut /\ ep0'.nakInIrq = FALSE
      /\ ep0'.stall = (ep0.stall \/ ctl.state = "WAIT_OUT_ZLP")
  BY <1>1, <1>2 DEF Entered, EpTypes
<1>4. TypeOK'
  <2>1. ep0' \in EpTypes
    BY <1>1, <1>2 DEF Entered, EpTypes
  <2> QED
    BY <1>1, <1>3, <2>1 DEF IInv, TypeOK
<1>5. /\ Quiet /\ ep0.out = <<>> /\ ep0.setup = <<>> /\ ep0.reset = FALSE
      /\ ep0.nakIn /\ ep0.nakInIrq
      /\ host.wrong /\ host.st \in Stages => Knows(Failed(host), EndOfRequest)
  BY <1>1, <1>2, RefusedFacts DEF EpTypes
<1>6. InReset' /\ InStage' /\ InSetup' /\ NotStalled' /\ HostReads' /\ Quiet'
  BY <1>3, <1>5, ServedKeeps
<1>7. EndOfRequest' = EndOfRequest
  BY <1>1 DEF EndOfRequest
<1>8. ctl.state = "WAIT_OUT_ZLP" => host.wrong
  BY <1>5 DEF IInv, InStep, StateWaitOut
<1>9. Transferred => Transferred'
  BY <1>1, <1>3 DEF Transferred
<1> USE <1>1, <1>3, <1>5, <1>6 DEF IInv, InStep
<1>10. Interfaces(udc)' /\ InCallback'
  BY DEF InCallback
<1>11. InKnowledge'
  <2>1. ep0'.stall => ep0.stall \/ host.wrong
    BY <1>8
  <2> QED
    BY <1>7, <2>1 DEF InKnowledge
<1>12. StateSetup'
  BY DEF StateSetup
<1>13. StateDataIn'
  BY <1>9 DEF StateDataIn
<1>14. StateWaitOut'
  BY <1>8 DEF StateWaitOut
<1>15. StateDataOut'
  BY DEF StateDataOut
<1>16. StateWaitIn'
  BY DEF StateWaitIn
<1>17. StateStall'
  BY DEF StateStall, Reached
<1> QED
  BY <1>4, <1>10, <1>11, <1>12, <1>13, <1>14, <1>15, <1>16, <1>17

\* The end of a request of which the host knows already.
LEMMA RequestOverKeeps ==
    ASSUME IInv, RequestOver, UNCHANGED host, Quiet, host.st \in Resting
    PROVE  IInv'
<1>1. udc' = EndOfRequest /\ ep0' = FreeEp(Entered) /\ ctl' = FreeRequest(ctl)
  BY DEF RequestOver
<1>2. ep0 \in EpTypes /\ ctl \in CtlTypes(MaxLen) /\ host.st \notin Stages
  BY StateFields DEF IInv
<1>3. /\ ep0'.setup = ep0.setup /\ ep0'.tx = ep0.tx /\ ep0'.out = <<>>
      /\ ep0'.sentIrq = FALSE /\ ep0'.reset = ep0.reset
  BY <1>1, <1>2 DEF FreeEp, Entered, EpTypes
<1>4. /\ ctl' \in CtlTypes(MaxLen) /\ ctl'.state = "SETUP" /\ ctl'.callback = "none"
  BY <1>1, <1>2, FreeRequestFields
<1>5. udc' \in UdcTypes /\ Interfaces(udc)'
  <2>1. PICK u : u = EndOfRequest
    OBVIOUS
  <2>2. u \in UdcTypes /\ Interfaces(u)
    BY <2>1, EndFields
  <2>3. udc' = u
    BY <1>1, <2>1
  <2> QED
    BY <2>2, <2>3
<1>6. TypeOK'
  <2>1. <<>> \in Seq(Packets) /\ Len(<<>>) = 0
    BY EmptySeq
  <2>2. ep0' \in EpTypes
    BY <1>1, <1>2, <2>1 DEF FreeEp, Entered, EpTypes
  <2> QED
    BY <1>3, <1>4, <1>5, <2>1, <2>2 DEF IInv, TypeOK
<1>7. ep0.setup = <<>> /\ ep0.reset = FALSE
  BY <1>2 DEF Quiet, EpTypes
<1>8. InReset' /\ InStage' /\ InSetup' /\ NotStalled' /\ HostReads' /\ Quiet'
  BY <1>3, <1>7, ServedKeeps
<1>9. Knows(host, EndOfRequest)'
  <2>1. PICK e : e = EndOfRequest
    OBVIOUS
  <2>2. EndOfRequest' = e
    BY <1>1, <1>4, <2>1 DEF EndOfRequest, Callback
  <2>3. Knows(host, e)
    BY <2>1 DEF IInv, InStep, InKnowledge
  <2> QED
    BY <2>2, <2>3
<1>10. InCallback'
  BY <1>4 DEF InCallback
<1>11. InKnowledge'
  BY <1>2, <1>9 DEF InKnowledge
<1>12. StateSetup'
  BY <1>2, <1>3, <1>4 DEF StateSetup
<1>13. StateDataIn' /\ StateWaitOut' /\ StateDataOut' /\ StateWaitIn' /\ StateStall'
  BY <1>4 DEF StateDataIn, StateWaitOut, StateDataOut, StateWaitIn, StateStall
<1> QED
  BY <1>5, <1>6, <1>8, <1>10, <1>11, <1>12, <1>13 DEF IInv, InStep

\* The line coding arrives.
LEMMA OutDataKeeps ==
    ASSUME IInv, OutReceived, ctl.state = "DATA_OUT", UNCHANGED host
    PROVE  IInv'
<1>1. PICK p : p = Head(ep0.out)
  OBVIOUS
<1>2. PICK z : z = Zlp
  OBVIOUS
<1>3. /\ ep0.setup = <<>> /\ ep0.out # <<>>
      /\ udc' = [udc EXCEPT !.coding = p.d]
      /\ ep0' = [RaiseTx([Entered EXCEPT !.out = <<>>], z) EXCEPT
                   !.nakOut = FALSE, !.nakOutIrq = TRUE]
      /\ ctl' = [ctl EXCEPT !.cnt = @ + p.len, !.size = ctl.cnt + p.len,
                            !.state = "WAIT_IN_ZLP"]
  BY <1>1, <1>2 DEF OutReceived, OutIsReceived, SendZlpIn
<1>4. ep0 \in EpTypes /\ ctl \in CtlTypes(MaxLen) /\ udc \in UdcTypes /\ host \in HostTypes
  BY StateFields DEF IInv
<1>5. ep0.reset = FALSE /\ Quiet
  BY <1>3, <1>4 DEF IInv, InStep, InReset, Quiet, EpTypes
<1>6. /\ ctl.callback = "coding" /\ ctl.cnt = 0 /\ ctl.req = host.req
      /\ host.st \in Stages /\ host.st \notin Resting
      /\ host.req.op = "setLineCoding" /\ ~ep0.stall
      /\ p = Packet(1, [d |-> host.req.d, n |-> 0])
      /\ ~host.wrong /\ host.st = "dataOut" => ep0.out = <<>>
  BY <1>1, <1>3, <1>5, StateFields DEF IInv, InStep, StateDataOut
<1>7. p.d = host.req.d /\ p.len = 1
  BY <1>6 DEF Packet
<1>8. host.req \in Requests /\ host.req.in = FALSE /\ host.req.d \in Codings /\ host.req.len = 1
  BY <1>6, RequestFields DEF IInv, InStep, InStage
<1>9. ~host.wrong => host.st = "statusIn"
  <2>1. host.st \in {"dataOut", "statusIn"}
    BY <1>6, <1>8 DEF IInv, InStep, InStage
  <2> QED
    BY <1>3, <1>6, <2>1
<1>10. /\ udc' \in UdcTypes /\ udc'.address = udc.address /\ udc'.config = udc.config
       /\ udc'.up = udc.up /\ udc'.open = udc.open /\ udc'.running = udc.running
       /\ udc'.coding = host.req.d
  BY <1>3, <1>4, <1>7, <1>8 DEF UdcTypes
<1>11. /\ ep0'.setup = <<>> /\ ep0'.tx = <<z>> /\ ep0'.out = <<>>
       /\ ep0'.sent = FALSE /\ ep0'.sentIrq = TRUE /\ ep0'.reset = FALSE
       /\ ep0'.stall = ep0.stall /\ ep0'.nakOut = FALSE
  BY <1>3, <1>4, <1>5 DEF Entered, RaiseTx, EpTypes
<1>12. /\ ctl'.state = "WAIT_IN_ZLP" /\ ctl'.callback = "coding" /\ ctl'.req = host.req
  BY <1>3, <1>4, <1>6 DEF CtlTypes
<1>13. ctl' \in CtlTypes(MaxLen)
  <2>1. 1 \in 0..MaxLen
    BY <1>8, MaxLenBound
  <2>0. ctl.cnt + p.len = 1
    BY <1>6, <1>7
  <2>2. ctl' = [ctl EXCEPT !.cnt = 1, !.size = 1, !.state = "WAIT_IN_ZLP"]
    BY <1>3, <2>0
  <2> QED
    BY <1>4, <2>1, <2>2 DEF CtlTypes, CtrlStates
<1>14. <<z>> \in Seq(Packets) /\ Len(<<z>>) = 1 /\ <<z>> # <<>>
  <2>1. z \in Packets
    BY <1>2 DEF Zlp, Packet, Packets, Full, Nothing, Items
  <2> QED
    BY <2>1
<1>15. TypeOK'
  <2>1. <<>> \in Seq(Packets) /\ Len(<<>>) = 0
    BY EmptySeq
  <2>2. ep0' \in EpTypes
    BY <1>3, <1>4, <1>14, <2>1 DEF Entered, RaiseTx, EpTypes
  <2> QED
    BY <1>4, <1>10, <1>11, <1>13, <1>14, <2>1, <2>2 DEF IInv, TypeOK
<1>16. InReset' /\ InStage' /\ InSetup' /\ NotStalled' /\ HostReads' /\ Quiet'
  BY <1>11, ServedKeeps
<1>17. Knows(GivenUp(host), EndOfRequest)' /\ Knows(Succeeded(host), EndOfRequest)'
  <2>1. PICK e : e = EndOfRequest'
    OBVIOUS
  <2>2. e = [udc' EXCEPT !.uart = udc'.coding]
    BY <1>12, <2>1 DEF EndOfRequest, Callback
  <2>3. /\ e.address = udc.address /\ e.config = udc.config /\ e.up = udc.up
        /\ e.open = udc.open /\ e.running = udc.running
        /\ e.coding = host.req.d /\ e.uart = host.req.d
    BY <1>10, <2>2 DEF UdcTypes
  <2>4. PICK f : f = EndOfRequest
    OBVIOUS
  <2>5. /\ f.address = udc.address /\ f.config = udc.config /\ f.up = udc.up
        /\ f.open = udc.open /\ f.running = udc.running
    BY <1>6, <2>4, EndFields
  <2>6. PICK g : g = GivenUp(host)
    OBVIOUS
  <2>7. /\ g.lost = host.lost /\ g.addr = host.addr /\ g.config = host.config
        /\ g.touched = host.touched /\ g.coding = NoItem
    BY <1>4, <1>6, <2>6 DEF GivenUp, HostTypes
  <2>8. Knows(g, f)
    BY <1>6, <2>4, <2>6 DEF IInv, InStep, InKnowledge
  <2>9. Knows(g, e)
    BY <2>3, <2>5, <2>7, <2>8 DEF Knows
  <2>10. PICK s : s = Succeeded(host)
    OBVIOUS
  <2>11. /\ s.lost = host.lost /\ s.addr = host.addr /\ s.config = host.config
         /\ s.touched = host.touched /\ s.coding = host.req.d
    BY <1>4, <1>6, <2>10 DEF Succeeded, HostTypes
  <2>12. Knows(s, e)
    BY <2>3, <2>5, <2>7, <2>8, <2>11 DEF Knows
  <2> QED
    BY <2>1, <2>6, <2>9, <2>10, <2>12
<1>18. ~host.lost => udc'.address = host.addr
  BY <1>5, <1>6, <1>10 DEF IInv, InStep, InKnowledge
<1> USE <1>6, <1>8, <1>11, <1>12, <1>16 DEF IInv, InStep
<1>19. Interfaces(udc)' /\ InCallback'
  BY <1>10 DEF Interfaces, InCallback
<1>20. InKnowledge'
  BY <1>17, <1>18 DEF InKnowledge
<1>21. StateSetup' /\ StateDataIn' /\ StateWaitOut' /\ StateDataOut' /\ StateStall'
  BY DEF StateSetup, StateDataIn, StateWaitOut, StateDataOut, StateStall
<1>22. StateWaitIn'
  <2>1. ep0'.sent = (ep0'.tx = <<>>)
    BY <1>14
  <2> QED
    BY <1>9, <2>1 DEF StateWaitIn
<1> QED
  BY <1>15, <1>16, <1>19, <1>20, <1>21, <1>22

\* The handshake of a read arrives, even if the last packet was not served as sent.
LEMMA OutEndsKeeps ==
    ASSUME IInv, OutReceived, ctl.state \in {"DATA_IN", "WAIT_OUT_ZLP"}, UNCHANGED host
    PROVE  IInv'
<1>1. ep0.setup = <<>> /\ ep0.out # <<>> /\ RequestOver
  BY DEF OutReceived, OutIsReceived
<1>2. Quiet
  BY <1>1 DEF IInv, InStep, InReset, Quiet
<1>3. host.st \in Stages => ep0.out = <<>>
  BY <1>2 DEF IInv, InStep, StateDataIn, StateWaitOut
<1>4. host.st \in Resting
  BY <1>1, <1>3, StateFields DEF IInv
<1> QED
  BY <1>1, <1>2, <1>4, RequestOverKeeps

\* Data instead of the handshake: the request is dropped, and with it the callback
\* that its end would have made, of which the host does not know.
LEMMA OutStallsKeeps ==
    ASSUME IInv, OutReceived, ctl.state \in {"SETUP", "WAIT_IN_ZLP", "STALL_REQ"},
           UNCHANGED host
    PROVE  IInv'
<1>1. /\ ep0.setup = <<>> /\ ep0.out # <<>> /\ ~(ep0.sent /\ ep0.sentIrq)
      /\ ep0' = [FreeEp(Entered) EXCEPT !.stall = TRUE]
      /\ ctl' = FreeRequest(ctl) /\ UNCHANGED udc
  BY DEF OutReceived, OutIsReceived, InIsSent
<1>2. ep0 \in EpTypes /\ ctl \in CtlTypes(MaxLen) /\ udc \in UdcTypes /\ host \in HostTypes
  BY StateFields DEF IInv
<1>3. ep0.reset = FALSE /\ Quiet
  BY <1>1, <1>2 DEF IInv, InStep, InReset, Quiet, EpTypes
<1>4. ctl.state = "WAIT_IN_ZLP"
  BY <1>1, <1>3 DEF IInv, InStep, StateSetup, StateStall
<1>5. ~ep0.sent
  BY <1>1, <1>3, <1>4 DEF IInv, InStep, StateWaitIn
<1>6. host.st \in Stages =>
        /\ host.wrong /\ ctl.req = host.req /\ host.req \in Requests
        /\ host.req.op = "setLineCoding"
  <2>1. ASSUME host.st \in Stages
        PROVE  /\ host.wrong /\ ctl.req = host.req /\ host.req \in Requests
               /\ host.req.op = "setLineCoding"
    <3>1. /\ ctl.req = host.req /\ ~host.req.in
          /\ host.req.len > 0 => host.req.op = "setLineCoding"
          /\ ~host.wrong => ep0.out = <<>>
      BY <1>3, <1>4, <2>1 DEF IInv, InStep, StateWaitIn
    <3>2. host.req \in Requests /\ (~host.req.in /\ host.req.len = 0 => ~host.wrong)
      BY <2>1 DEF IInv, InStep, InStage
    <3>3. host.req.len \in Nat
      BY <3>2, RequestFields
    <3> QED
      BY <1>1, <3>1, <3>2, <3>3
  <2> QED
    BY <2>1
<1>7. host.st \in Resting => host.coding = NoItem /\ ctl.callback # "address"
  BY <1>3, <1>4, <1>5 DEF IInv, InStep, StateWaitIn
<1>8. ctl.callback # "address"
  BY <1>6, <1>7, StateFields DEF IInv, InStep, InCallback
<1>9. /\ ep0'.setup = <<>> /\ ep0'.tx = ep0.tx /\ ep0'.out = <<>>
      /\ ep0'.sentIrq = FALSE /\ ep0'.reset = FALSE /\ ep0'.stall = TRUE
  BY <1>1, <1>2, <1>3 DEF FreeEp, Entered, EpTypes
<1>10. /\ ctl' \in CtlTypes(MaxLen) /\ ctl'.state = "SETUP" /\ ctl'.callback = "none"
  BY <1>1, <1>2, FreeRequestFields
<1>11. TypeOK'
  <2>1. <<>> \in Seq(Packets) /\ Len(<<>>) = 0
    BY EmptySeq
  <2>2. ep0' \in EpTypes
    BY <1>1, <1>2, <2>1 DEF FreeEp, Entered, EpTypes
  <2> QED
    BY <1>1, <1>9, <1>10, <2>1, <2>2 DEF IInv, TypeOK
<1>12. InReset' /\ InStage' /\ InSetup' /\ NotStalled' /\ HostReads' /\ Quiet'
  BY <1>9, ServedKeeps
<1>13. PICK f : f = EndOfRequest
  OBVIOUS
<1>14. /\ f.address = udc.address /\ f.config = udc.config /\ f.up = udc.up
       /\ f.open = udc.open /\ f.running = udc.running
  BY <1>8, <1>13, EndFields
<1>15. ASSUME NEW h, h.coding = NoItem, Knows(h, f)
       PROVE  Knows(h, udc)
  BY <1>14, <1>15 DEF Knows
<1>16. EndOfRequest' = udc
  BY <1>1, <1>10 DEF EndOfRequest, Callback
<1>17. host.st \in Resting => Knows(host, udc)
  BY <1>3, <1>7, <1>13, <1>15 DEF IInv, InStep, InKnowledge
<1>18. host.st \in Stages => Knows(GivenUp(host), udc) /\ Knows(Failed(host), udc)
  <2>1. ASSUME host.st \in Stages
        PROVE  Knows(GivenUp(host), udc) /\ Knows(Failed(host), udc)
    <3>1. PICK g : g = GivenUp(host)
      OBVIOUS
    <3>2. g.coding = NoItem
      BY <1>2, <1>6, <2>1, <3>1 DEF GivenUp, HostTypes
    <3>3. Knows(g, f)
      BY <1>13, <2>1, <3>1 DEF IInv, InStep, InKnowledge
    <3>4. Knows(g, udc)
      BY <1>15, <3>2, <3>3
    <3>5. host.req.in \/ host.req.len > 0
      BY <1>6, <2>1, RequestFields
    <3>6. PICK u : u = udc
      OBVIOUS
    <3>7. Knows(Failed(host), u)
      BY <1>2, <1>6, <2>1, <3>1, <3>4, <3>5, <3>6, FailedLikeGivenUp
    <3> QED
      BY <3>1, <3>4, <3>6, <3>7
  <2> QED
    BY <2>1
<1>19. host.st \in Stages /\ ~host.lost => udc.address = host.addr
  BY <1>3 DEF IInv, InStep, InKnowledge
<1> USE <1>1, <1>6, <1>9, <1>10, <1>12 DEF IInv, InStep
<1>20. Interfaces(udc)' /\ InCallback'
  BY DEF InCallback
<1>21. InKnowledge'
  BY <1>16, <1>17, <1>18, <1>19 DEF InKnowledge
<1>22. StateSetup'
  BY DEF StateSetup
<1>23. StateDataIn' /\ StateWaitOut' /\ StateDataOut' /\ StateWaitIn' /\ StateStall'
  BY DEF StateDataIn, StateWaitOut, StateDataOut, StateWaitIn, StateStall
<1> QED
  BY <1>11, <1>12, <1>20, <1>21, <1>22, <1>23

LEMMA OutReceivedKeeps ==
    ASSUME IInv, OutReceived, UNCHANGED host
    PROVE  IInv'
<1>1. \/ ctl.state = "DATA_OUT" \/ ctl.state \in {"DATA_IN", "WAIT_OUT_ZLP"}
      \/ ctl.state \in {"SETUP", "WAIT_IN_ZLP", "STALL_REQ"}
  BY DEF OutReceived
<1> QED
  BY <1>1, OutDataKeeps, OutEndsKeeps, OutStallsKeeps

\* The next packet of the data: what is left of the payload, or all that fits.
LEMMA SendDataFields ==
    ASSUME NEW e \in EpTypes, NEW c \in CtlTypes(MaxLen), c.cnt <= c.size, c.prev = 0,
           SendData(e, c)
    PROVE  \E p \in Packets :
             /\ ep0' \in EpTypes /\ ep0'.tx = <<p>> /\ ep0'.sent = FALSE /\ ep0'.sentIrq = TRUE
             /\ ep0'.setup = e.setup /\ ep0'.out = e.out /\ ep0'.stall = e.stall
             /\ ep0'.reset = e.reset
             /\ ctl' \in CtlTypes(MaxLen) /\ ctl'.state = c.state /\ ctl'.req = c.req
             /\ ctl'.callback = c.callback /\ ctl'.payload = c.payload /\ ctl'.size = c.size
             /\ ctl'.cnt = c.cnt + p.len /\ ctl'.cnt <= c.size
             /\ ctl'.short = (p.len < Full) /\ (ctl'.short => ctl'.cnt = c.size)
             /\ p.d = c.payload.d /\ p.n = c.payload.n
             /\ ctl'.prev = 0 \/ (ctl'.prev = c.size /\ ctl'.short)
<1>1. /\ c.size \in Nat /\ c.cnt \in Nat /\ c.size <= MaxLen /\ MaxLen \in Nat
      /\ c.prev \in Nat
  BY MaxLenBound DEF CtlTypes
<1>2. PICK rem : rem = c.size - c.cnt
  OBVIOUS
<1>3. rem \in Nat /\ rem = Remaining(c)
  BY <1>1, <1>2 DEF Remaining
<1>4. PICK len : len = Smaller(rem, Full)
  OBVIOUS
<1>5. /\ len \in 0..Full /\ len <= rem /\ (len < Full <=> rem < Full)
      /\ rem < Full => len = rem
  BY <1>3, <1>4 DEF Smaller, Full
<1>6. PICK p : p = Packet(len, c.payload)
  OBVIOUS
<1>7. p.len = len /\ p.d = c.payload.d /\ p.n = c.payload.n /\ p \in Packets
  BY <1>5, <1>6 DEF Packet, Packets, CtlTypes
<1>8. ep0' = [e EXCEPT !.tx = <<p>>, !.sent = FALSE, !.sentIrq = TRUE]
  BY <1>3, <1>4, <1>6 DEF SendData, RaiseTx
<1>9. <<p>> \in Seq(Packets)
  BY <1>7
<1>10. /\ ep0' \in EpTypes /\ ep0'.tx = <<p>> /\ ep0'.sent = FALSE /\ ep0'.sentIrq = TRUE
       /\ ep0'.setup = e.setup /\ ep0'.out = e.out /\ ep0'.stall = e.stall
       /\ ep0'.reset = e.reset
  BY <1>8, <1>9 DEF EpTypes
<1>11. PICK prev : prev = IF rem = 0 THEN c.prev + c.cnt ELSE c.prev
  OBVIOUS
<1>12. PICK short : short = (rem < Full)
  OBVIOUS
<1>13. ctl' = [[c EXCEPT !.prev = prev, !.short = short] EXCEPT !.cnt = @ + len]
  BY <1>3, <1>4, <1>11, <1>12 DEF SendData, Counted
<1>14. PICK cnt : cnt = c.cnt + len
  OBVIOUS
<1>15. ctl' = [c EXCEPT !.prev = prev, !.short = short, !.cnt = cnt]
  BY <1>13, <1>14 DEF CtlTypes
<1>16. /\ cnt \in 0..MaxLen /\ cnt <= c.size /\ (rem < Full => cnt = c.size)
       /\ prev \in 0..2 * MaxLen /\ short \in BOOLEAN
       /\ prev = 0 \/ (prev = c.size /\ rem = 0)
  <2>1. cnt \in 0..MaxLen /\ cnt <= c.size /\ (rem < Full => cnt = c.size)
    BY <1>1, <1>2, <1>3, <1>5, <1>14
  <2>2. CASE rem = 0
    <3>1. prev = c.size
      BY <1>1, <1>2, <1>11, <2>2
    <3> QED
      BY <1>1, <1>12, <2>1, <2>2, <3>1
  <2>3. CASE rem # 0
    BY <1>1, <1>11, <1>12, <2>1, <2>3
  <2> QED
    BY <2>2, <2>3
<1>17. /\ ctl' \in CtlTypes(MaxLen) /\ ctl'.state = c.state /\ ctl'.req = c.req
       /\ ctl'.callback = c.callback /\ ctl'.payload = c.payload /\ ctl'.size = c.size
       /\ ctl'.cnt = cnt /\ ctl'.short = short /\ ctl'.prev = prev
  BY <1>15, <1>16 DEF CtlTypes
<1>18. short = (p.len < Full)
  BY <1>5, <1>7, <1>12
<1>19. short => cnt = c.size
  BY <1>12, <1>16
<1>20. rem = 0 => short = TRUE
  <2>1. rem = 0 => (rem < Full) = TRUE
    BY DEF Full
  <2> QED
    BY <1>12, <2>1, Zenon
<1>21. ctl'.prev = 0 \/ (ctl'.prev = c.size /\ ctl'.short)
  BY <1>16, <1>17, <1>20
<1>22. /\ ctl'.cnt = c.cnt + p.len /\ ctl'.cnt <= c.size
       /\ ctl'.short = (p.len < Full) /\ (ctl'.short => ctl'.cnt = c.size)
  BY <1>7, <1>14, <1>16, <1>17, <1>18, <1>19
<1> QED
  BY <1>7, <1>10, <1>17, <1>21, <1>22

\* The packet of a read has been sent.
LEMMA SentFacts ==
    ASSUME IInv, InIsSent, ctl.state = "DATA_IN"
    PROVE  /\ Quiet /\ ep0.reset = FALSE /\ ep0.setup = <<>> /\ ep0.tx = <<>>
           /\ ep0.stall = FALSE /\ ctl.callback = "none"
           /\ host.st \in Stages \/ host.st = "ok"
           /\ ctl.req = host.req /\ ctl.req.in /\ host.req \in Requests
           /\ host.st \in Stages => ep0.out = <<>> /\ host.st \in {"dataIn", "statusOut"}
           /\ 0 < ctl.size /\ ctl.size <= ctl.req.len /\ ctl.cnt <= ctl.size
           /\ ctl.size \in Nat /\ ctl.cnt \in Nat /\ ctl.prev \in Nat /\ ctl.req.len \in Nat
           /\ ctl.prev = 0 \/ (ctl.prev = ctl.size /\ ctl.short)
           /\ ctl.short => ctl.cnt = ctl.size
           /\ host.st \in Stages /\ ~host.early /\ ~host.wrong => Transferred
           /\ DataEnds(ctl) => ctl.cnt = ctl.size
           /\ DataEnds(ctl) /\ host.st \in Stages /\ ~host.wrong => host.st = "statusOut"
           /\ ~DataEnds(ctl) => ctl.prev = 0
           /\ ~DataEnds(ctl) /\ host.st \in Stages /\ ~host.early /\ ~host.wrong =>
                host.st = "dataIn"
<1>1. ep0 \in EpTypes /\ ctl \in CtlTypes(MaxLen) /\ host \in HostTypes
  BY StateFields DEF IInv
<1>2. /\ ep0.reset = FALSE /\ ep0.setup = <<>> /\ Quiet /\ ep0.sent /\ ep0.sentIrq
  BY <1>1 DEF IInv, InStep, InReset, InIsSent, Quiet, EpTypes
<1>3. /\ ep0.tx = <<>> /\ ctl.callback = "none" /\ ep0.stall = FALSE
      /\ host.st \in Stages \/ host.st = "ok"
      /\ ctl.req = host.req /\ ctl.req.in
      /\ host.st \in Stages => ep0.out = <<>>
      /\ 0 < ctl.size /\ ctl.size <= ctl.req.len /\ ctl.cnt <= ctl.size
      /\ ctl.prev = 0 \/ (ctl.prev = ctl.size /\ ctl.short)
      /\ ctl.short => ctl.cnt = ctl.size
      /\ host.st \in Stages /\ ~host.early /\ ~host.wrong => Transferred
  BY <1>1, <1>2 DEF IInv, InStep, StateDataIn, EpTypes
<1>4. ctl.req \in Requests
  BY <1>1, <1>3 DEF CtlTypes, NoRequest
<1>5. ctl.size \in Nat /\ ctl.cnt \in Nat /\ ctl.prev \in Nat /\ ctl.req.len \in Nat
  BY <1>1, <1>4, RequestFields, MaxLenBound DEF CtlTypes
<1>6. host.st \in Stages =>
        /\ host.st \in {"dataIn", "statusOut"}
        /\ host.st = "dataIn" /\ host.early => host.wrong
  BY <1>3 DEF IInv, InStep, InStage
<1>7. ASSUME Transferred
      PROVE  /\ host.got = ctl.cnt
             /\ host.st = "dataIn" => ~ctl.short /\ ctl.cnt < ctl.req.len
             /\ host.st = "statusOut" => ctl.short \/ ctl.cnt = ctl.req.len
  BY <1>3, <1>7 DEF Transferred
<1>8. DataEnds(ctl) =>
        ctl.cnt = ctl.size /\ (ctl.req.len = ctl.prev + ctl.cnt \/ ctl.short)
  BY <1>5 DEF DataEnds, Remaining
<1>9. ctl.cnt = ctl.size /\ (ctl.req.len = ctl.prev + ctl.cnt \/ ctl.short) => DataEnds(ctl)
  BY <1>5 DEF DataEnds, Remaining
<1>10. ctl.short => DataEnds(ctl)
  BY <1>3, <1>9
<1>11. ~DataEnds(ctl) => ctl.prev = 0
  BY <1>3, <1>10
<1>12. ctl.prev = 0 /\ ctl.cnt = ctl.req.len => DataEnds(ctl)
  <2>1. ctl.cnt = ctl.req.len => ctl.cnt = ctl.size
    BY <1>3, <1>5
  <2>2. ctl.prev = 0 => ctl.prev + ctl.cnt = ctl.cnt
    BY <1>5
  <2> QED
    BY <1>9, <2>1, <2>2
<1>13. ASSUME DataEnds(ctl), host.st \in Stages, ~host.wrong
       PROVE  host.st = "statusOut"
  <2>1. SUFFICES ASSUME host.st = "dataIn" PROVE FALSE
    BY <1>6, <1>13
  <2>2. ~ctl.short /\ ctl.cnt < ctl.req.len
    BY <1>3, <1>6, <1>7, <1>13, <2>1
  <2>3. ctl.prev = 0
    BY <1>3, <2>2
  <2>4. ctl.req.len = ctl.prev + ctl.cnt
    BY <1>8, <1>13, <2>2
  <2> QED
    BY <1>5, <2>2, <2>3, <2>4
<1>14. ASSUME ~DataEnds(ctl), host.st \in Stages, ~host.early, ~host.wrong
       PROVE  host.st = "dataIn"
  <2>1. SUFFICES ASSUME host.st = "statusOut" PROVE FALSE
    BY <1>6, <1>14
  <2>2. ctl.short \/ ctl.cnt = ctl.req.len
    BY <1>3, <1>7, <1>14, <2>1
  <2> QED
    BY <1>10, <1>11, <1>12, <1>14, <2>2
<1> QED
  BY <1>2, <1>3, <1>4, <1>5, <1>6, <1>8, <1>11, <1>13, <1>14

\* The handshake of a request without data, or with data from the host.
LEMMA SentOverKeeps ==
    ASSUME IInv, InSent, ctl.state = "WAIT_IN_ZLP", UNCHANGED host
    PROVE  IInv'
<1>1. RequestOver /\ ep0.setup = <<>> /\ ep0.sent
  BY DEF InSent, InIsSent
<1>2. Quiet
  BY <1>1 DEF IInv, InStep, InReset, Quiet
<1>3. host.st \in Resting
  BY <1>1, <1>2, StateFields DEF IInv, InStep, StateWaitIn
<1> QED
  BY <1>1, <1>2, <1>3, RequestOverKeeps

\* The payload is sent, and with it the whole of what the host wants.
LEMMA SentLastKeeps ==
    ASSUME IInv, InSent, ctl.state = "DATA_IN", DataEnds(ctl), UNCHANGED host
    PROVE  IInv'
<1>1. /\ InIsSent /\ UNCHANGED udc
      /\ ep0' = [[Entered EXCEPT !.sentIrq = FALSE] EXCEPT !.nakIn = FALSE, !.nakInIrq = TRUE]
      /\ ctl' = [[ctl EXCEPT !.prev = @ + ctl.cnt] EXCEPT !.state = "WAIT_OUT_ZLP"]
  BY DEF InSent, NextData, SendZlpOut
<1>3. ep0 \in EpTypes /\ ctl \in CtlTypes(MaxLen)
  BY StateFields DEF IInv
<1>4. /\ ep0'.setup = ep0.setup /\ ep0'.tx = ep0.tx /\ ep0'.out = ep0.out
      /\ ep0'.sentIrq = FALSE /\ ep0'.reset = ep0.reset /\ ep0'.stall = ep0.stall
      /\ ep0'.nakIn = FALSE
  BY <1>1, <1>3 DEF Entered, EpTypes
<1>5. /\ Quiet /\ ep0.reset = FALSE /\ ep0.setup = <<>> /\ ep0.tx = <<>>
      /\ ep0.stall = FALSE /\ ctl.callback = "none"
      /\ host.st \in Stages \/ host.st = "ok"
      /\ ctl.req = host.req /\ ctl.req.in
      /\ host.st \in Stages => ep0.out = <<>>
      /\ 0 < ctl.size /\ ctl.cnt = ctl.size /\ ctl.size \in Nat /\ ctl.prev \in Nat
      /\ ctl.prev = 0 \/ ctl.prev = ctl.size
      /\ host.st \in Stages /\ ~host.early /\ ~host.wrong => Transferred
      /\ host.st \in Stages /\ ~host.wrong => host.st = "statusOut"
  BY <1>1, SentFacts
<1>6. PICK prev : prev = ctl.prev + ctl.cnt
  OBVIOUS
<1>7. ctl' = [ctl EXCEPT !.prev = prev, !.state = "WAIT_OUT_ZLP"]
  BY <1>1, <1>3, <1>6 DEF CtlTypes
<1>8. prev \in 0..2 * MaxLen
  BY <1>3, <1>5, <1>6, MaxLenBound DEF CtlTypes
<1>9. /\ ctl' \in CtlTypes(MaxLen) /\ ctl'.state = "WAIT_OUT_ZLP"
      /\ ctl'.callback = "none" /\ ctl'.req = host.req
  BY <1>3, <1>5, <1>7, <1>8 DEF CtlTypes, CtrlStates
<1>10. TypeOK'
  <2>1. ep0' \in EpTypes
    BY <1>1, <1>3 DEF Entered, EpTypes
  <2> QED
    BY <1>1, <1>4, <1>9, <2>1 DEF IInv, TypeOK
<1>11. InReset' /\ InStage' /\ InSetup' /\ NotStalled' /\ HostReads' /\ Quiet'
  BY <1>4, <1>5, ServedKeeps
<1>12. EndOfRequest' = EndOfRequest
  BY <1>1, <1>5, <1>9 DEF EndOfRequest, Callback
<1>13. ASSUME host.st \in Stages, ~host.early, ~host.wrong
       PROVE  Brings(host, host.what, host.got)
  <2>1. Transferred
    BY <1>5, <1>13
  <2>2. /\ host.got = ctl.cnt /\ (host.got > 0 => host.what = ctl.payload)
        /\ Brings(host, ctl.payload, ctl.size)
    BY <1>5, <2>1 DEF Transferred
  <2>3. host.got = ctl.size /\ host.got > 0
    BY <1>5, <2>2
  <2> QED
    BY <2>2, <2>3
<1> USE <1>1, <1>4, <1>5, <1>9, <1>11 DEF IInv, InStep
<1>14. Interfaces(udc)' /\ InCallback'
  BY DEF InCallback
<1>15. InKnowledge'
  BY <1>12 DEF InKnowledge
<1>16. StateSetup' /\ StateDataIn' /\ StateDataOut' /\ StateWaitIn' /\ StateStall'
  BY DEF StateSetup, StateDataIn, StateDataOut, StateWaitIn, StateStall
<1>17. StateWaitOut'
  BY <1>13 DEF StateWaitOut
<1> QED
  BY <1>10, <1>11, <1>14, <1>15, <1>16, <1>17

\* The host has ended the data phase before the payload was sent.
LEMMA SentEarlyKeeps ==
    ASSUME IInv, InSent, ctl.state = "DATA_IN", ~DataEnds(ctl), ep0.out # <<>>,
           UNCHANGED host
    PROVE  IInv'
<1>1. ep0 \in EpTypes /\ ctl \in CtlTypes(MaxLen)
  BY StateFields DEF IInv
<1>2. /\ InIsSent /\ UNCHANGED udc
      /\ ep0' = [Entered EXCEPT !.sentIrq = FALSE]
      /\ ctl' = [Counted(ctl) EXCEPT !.state = "WAIT_OUT_ZLP"]
  <2>1. [Entered EXCEPT !.sentIrq = FALSE].out = ep0.out
    BY <1>1 DEF Entered, EpTypes
  <2> QED
    BY <2>1 DEF InSent, NextData
<1>3. /\ ep0'.setup = ep0.setup /\ ep0'.tx = ep0.tx /\ ep0'.out = ep0.out
      /\ ep0'.sentIrq = FALSE /\ ep0'.reset = ep0.reset /\ ep0'.stall = ep0.stall
      /\ ep0'.nakInIrq = FALSE
  BY <1>1, <1>2 DEF Entered, EpTypes
<1>4. /\ Quiet /\ ep0.reset = FALSE /\ ep0.setup = <<>> /\ ep0.tx = <<>>
      /\ ep0.stall = FALSE /\ ctl.callback = "none"
      /\ host.st \in Stages \/ host.st = "ok"
      /\ ctl.req = host.req /\ ctl.req.in
      /\ host.st \in Stages => ep0.out = <<>>
      /\ ctl.cnt \in Nat /\ ctl.prev = 0
  BY <1>2, SentFacts
<1>5. host.st = "ok" /\ host.st \notin Stages /\ host.st \in Resting
  BY <1>4 DEF Stages, Resting
<1>6. PICK prev, short : /\ prev \in {ctl.prev, ctl.prev + ctl.cnt} /\ short \in BOOLEAN
                         /\ Counted(ctl) = [ctl EXCEPT !.prev = prev, !.short = short]
  <2>1. PICK prev : prev = IF Remaining(ctl) = 0 THEN ctl.prev + ctl.cnt ELSE ctl.prev
    OBVIOUS
  <2>2. PICK short : short = (Remaining(ctl) < Full)
    OBVIOUS
  <2>3. Counted(ctl) = [ctl EXCEPT !.prev = prev, !.short = short]
    BY <2>1, <2>2 DEF Counted
  <2>4. prev \in {ctl.prev, ctl.prev + ctl.cnt}
    BY <2>1
  <2>5. short \in BOOLEAN
    <3>1. ctl.size \in Int /\ ctl.cnt \in Int
      BY <1>1, MaxLenBound DEF CtlTypes
    <3> QED
      BY <2>2, <3>1 DEF Remaining, Full
  <2> QED
    BY <2>3, <2>4, <2>5, Zenon
<1>7. ctl' = [ctl EXCEPT !.prev = prev, !.short = short, !.state = "WAIT_OUT_ZLP"]
  BY <1>1, <1>2, <1>6 DEF CtlTypes
<1>8. prev \in 0..2 * MaxLen
  BY <1>1, <1>4, <1>6, MaxLenBound DEF CtlTypes
<1>9. /\ ctl' \in CtlTypes(MaxLen) /\ ctl'.state = "WAIT_OUT_ZLP"
      /\ ctl'.callback = "none" /\ ctl'.req = host.req
  BY <1>1, <1>4, <1>6, <1>7, <1>8 DEF CtlTypes, CtrlStates
<1>10. TypeOK'
  <2>1. ep0' \in EpTypes
    BY <1>1, <1>2 DEF Entered, EpTypes
  <2> QED
    BY <1>2, <1>3, <1>9, <2>1 DEF IInv, TypeOK
<1>11. InReset' /\ InStage' /\ InSetup' /\ NotStalled' /\ HostReads' /\ Quiet'
  BY <1>3, <1>4, ServedKeeps
<1>12. EndOfRequest' = EndOfRequest
  BY <1>2, <1>4, <1>9 DEF EndOfRequest, Callback
<1> USE <1>2, <1>3, <1>4, <1>5, <1>9, <1>11 DEF IInv, InStep
<1>14. Interfaces(udc)' /\ InCallback'
  BY DEF InCallback
<1>15. InKnowledge'
  BY <1>12 DEF InKnowledge
<1>16. StateSetup' /\ StateDataIn' /\ StateDataOut' /\ StateWaitIn' /\ StateStall'
  BY DEF StateSetup, StateDataIn, StateDataOut, StateWaitIn, StateStall
<1>17. StateWaitOut'
  BY DEF StateWaitOut
<1> QED
  BY <1>10, <1>11, <1>14, <1>15, <1>16, <1>17

\* The next packet follows.
LEMMA SentNextKeeps ==
    ASSUME IInv, InSent, ctl.state = "DATA_IN", ~DataEnds(ctl), ep0.out = <<>>,
           UNCHANGED host
    PROVE  IInv'
<1>1. ep0 \in EpTypes /\ ctl \in CtlTypes(MaxLen) /\ host \in HostTypes
  BY StateFields DEF IInv
<1>2. PICK e : e = [Entered EXCEPT !.sentIrq = FALSE]
  OBVIOUS
<1>3. PICK c : c = ctl
  OBVIOUS
<1>4. /\ e \in EpTypes /\ e.setup = ep0.setup /\ e.out = ep0.out /\ e.stall = ep0.stall
      /\ e.reset = ep0.reset
  BY <1>1, <1>2 DEF Entered, EpTypes
<1>5. InIsSent /\ UNCHANGED udc /\ SendData(e, c)
  BY <1>2, <1>3, <1>4 DEF InSent, NextData
<1>6. /\ Quiet /\ ep0.reset = FALSE /\ ep0.setup = <<>> /\ ep0.tx = <<>>
      /\ ep0.stall = FALSE /\ ctl.callback = "none"
      /\ host.st \in Stages \/ host.st = "ok"
      /\ ctl.req = host.req /\ ctl.req.in
      /\ 0 < ctl.size /\ ctl.size <= ctl.req.len /\ ctl.cnt <= ctl.size /\ ctl.prev = 0
      /\ host.st \in Stages /\ ~host.early /\ ~host.wrong => Transferred
      /\ host.st \in Stages /\ ~host.early /\ ~host.wrong => host.st = "dataIn"
  BY <1>5, SentFacts
<1>7. PICK p \in Packets :
        /\ ep0' \in EpTypes /\ ep0'.tx = <<p>> /\ ep0'.sent = FALSE /\ ep0'.sentIrq = TRUE
        /\ ep0'.setup = e.setup /\ ep0'.out = e.out /\ ep0'.stall = e.stall
        /\ ep0'.reset = e.reset
        /\ ctl' \in CtlTypes(MaxLen) /\ ctl'.state = c.state /\ ctl'.req = c.req
        /\ ctl'.callback = c.callback /\ ctl'.payload = c.payload /\ ctl'.size = c.size
        /\ ctl'.cnt = c.cnt + p.len /\ ctl'.cnt <= c.size
        /\ ctl'.short = (p.len < Full) /\ (ctl'.short => ctl'.cnt = c.size)
        /\ p.d = c.payload.d /\ p.n = c.payload.n
        /\ ctl'.prev = 0 \/ (ctl'.prev = c.size /\ ctl'.short)
  <2>1. c \in CtlTypes(MaxLen) /\ c.cnt <= c.size /\ c.prev = 0
    BY <1>1, <1>3, <1>6
  <2> QED
    BY <1>4, <1>5, <2>1, SendDataFields
<1>8. <<p>> # <<>> /\ Head(<<p>>) = p /\ Len(<<p>>) = 1
  OBVIOUS
<1>9. TypeOK'
  <2>1. Len(ep0'.setup) <= 1 /\ Len(ep0'.tx) <= 1 /\ Len(ep0'.out) <= 1
    BY <1>4, <1>7, <1>8 DEF IInv, TypeOK
  <2> QED
    BY <1>5, <1>7, <2>1 DEF IInv, TypeOK
<1>10. ep0'.setup = <<>> /\ ep0'.reset = FALSE /\ ep0'.out = <<>> /\ ep0'.stall = FALSE
  BY <1>4, <1>6, <1>7
<1>11. InReset' /\ InStage' /\ InSetup' /\ NotStalled' /\ HostReads' /\ Quiet'
  BY <1>10, ServedKeeps
<1>12. /\ ctl'.state = "DATA_IN" /\ ctl'.req = host.req /\ ctl'.callback = "none"
       /\ ctl'.payload = ctl.payload /\ ctl'.size = ctl.size
  BY <1>3, <1>6, <1>7
<1>13. EndOfRequest' = EndOfRequest
  BY <1>5, <1>6, <1>12 DEF EndOfRequest, Callback
<1>14. ASSUME host.st \in Stages, ~host.early, ~host.wrong
       PROVE  Transferred'
  <2>1. Transferred /\ host.st = "dataIn"
    BY <1>6, <1>14
  <2>2. /\ host.got = ctl.cnt /\ (host.got > 0 => host.what = ctl.payload)
        /\ Brings(host, ctl.payload, ctl.size)
    BY <1>6, <2>1 DEF Transferred
  <2>3. host.got + p.len = ctl'.cnt
    BY <1>3, <1>7, <2>2
  <2>4. Brings(host, ctl.payload, ctl.size)'
    BY <1>12, <2>2 DEF Brings
  <2>5. ep0'.tx # <<>> /\ Head(ep0'.tx) = p
    BY <1>7, <1>8
  <2>6. p.d = ctl'.payload.d /\ p.n = ctl'.payload.n /\ ctl'.short = (p.len < Full)
    BY <1>3, <1>7, <1>12
  <2> QED
    BY <1>12, <2>1, <2>2, <2>3, <2>4, <2>5, <2>6 DEF Transferred
<1>15. Interfaces(udc)' /\ InCallback'
  BY <1>5, <1>12 DEF IInv, InStep, InCallback
<1>16. InKnowledge'
  BY <1>5, <1>6, <1>10, <1>11, <1>12, <1>13 DEF IInv, InStep, InKnowledge
<1>17. StateSetup' /\ StateWaitOut' /\ StateDataOut' /\ StateWaitIn' /\ StateStall'
  BY <1>12 DEF StateSetup, StateWaitOut, StateDataOut, StateWaitIn, StateStall
<1>18. StateDataIn'
  <2>1. ep0'.sentIrq = TRUE /\ ep0'.sent = (ep0'.tx = <<>>)
    BY <1>7, <1>8
  <2>2. /\ 0 < ctl'.size /\ ctl'.size <= ctl'.req.len /\ ctl'.cnt <= ctl'.size
        /\ ctl'.prev = 0 \/ (ctl'.prev = ctl'.size /\ ctl'.short)
        /\ ctl'.short => ctl'.cnt = ctl'.size
    BY <1>3, <1>6, <1>7, <1>12
  <2>3. ctl'.req.in
    BY <1>6, <1>12
  <2> QED
    BY <1>6, <1>10, <1>12, <1>14, <2>1, <2>2, <2>3 DEF StateDataIn
<1> QED
  BY <1>9, <1>11, <1>15, <1>16, <1>17, <1>18 DEF IInv, InStep

LEMMA InSentKeeps ==
    ASSUME IInv, InSent, UNCHANGED host
    PROVE  IInv'
<1>1. ctl.state = "WAIT_IN_ZLP" \/ ctl.state = "DATA_IN"
  BY DEF InSent
<1> QED
  BY <1>1, SentOverKeeps, SentLastKeeps, SentEarlyKeeps, SentNextKeeps

\* A SETUP packet r is served: the device is as u after the request before it, p is
\* what the device makes of r, and e and c are the endpoint and the request before
\* the first answer.
Received(r, u, p, e, c) ==
    /\ r = host.req /\ r \in Requests /\ u = EndOfRequest /\ Knows(host, u)
    /\ host.st \in Stages /\ host.st \notin Resting /\ host.got = 0
    /\ ~host.wrong /\ ~host.early => host.st = FirstStage(r)
    /\ Replied(host, u, r, p)
    /\ p.ok /\ r.in => 0 < p.size /\ p.size <= r.len /\ Brings(host, p.payload, p.size)
    /\ e \in EpTypes /\ e.setup = <<>> /\ e.tx = <<>> /\ e.out = <<>>
    /\ e.sentIrq = FALSE /\ e.stall = FALSE /\ e.reset = FALSE
    /\ c \in CtlTypes(MaxLen) /\ c.state = "SETUP" /\ c.req = r /\ c.callback = p.callback
    /\ c.payload = p.payload /\ c.size = p.size
    /\ udc' = p.udc

Answered(r, p, e, c) ==
    \/ ~p.ok /\ StallData(e, c)
    \/ p.ok /\ r.in /\ SendData(e, StartData(c, "DATA_IN"))
    \/ p.ok /\ ~r.in /\ r.len = 0 /\ SendZlpIn(e, c)
    \/ /\ p.ok /\ ~r.in /\ r.len > 0
       /\ ep0' = [e EXCEPT !.nakIn = FALSE, !.nakInIrq = TRUE]
       /\ ctl' = StartData(c, "DATA_OUT")

LEMMA SetupAnswered ==
    ASSUME IInv, SetupReceived
    PROVE  \E r, u, p, e, c : Received(r, u, p, e, c) /\ Answered(r, p, e, c)
<1>1. ep0 \in EpTypes /\ ctl \in CtlTypes(MaxLen) /\ host \in HostTypes
  BY StateFields DEF IInv
<1>2. /\ ep0.setup # <<>> /\ ep0.setup = <<host.req>> /\ host.st \in Stages
      /\ ep0.stall = FALSE /\ ep0.tx = <<>> /\ host.got = 0 /\ ep0.reset = FALSE
      /\ ~host.wrong /\ ~host.early => host.st = FirstStage(host.req)
      /\ Knows(host, EndOfRequest)
  BY <1>1 DEF SetupReceived, IInv, InStep, InSetup, InReset, EpTypes
<1>3. PICK r : r = host.req
  OBVIOUS
<1>4. r \in Requests /\ Head(ep0.setup) = r
  BY <1>2, <1>3 DEF IInv, InStep, InStage
<1>5. PICK u : u = EndOfRequest
  OBVIOUS
<1>6. u \in UdcTypes /\ Interfaces(u)
  BY <1>5, EndFields
<1>7. PICK p : p = ProcessSetup(u, r)
  OBVIOUS
<1>8. ctl.state = "SETUP" =>
        ctl.callback = "none" /\ EndOfRequest = udc /\ ep0.out = <<>> /\ ep0.sentIrq = FALSE
  BY <1>1, EndFields DEF IInv, InStep, StateSetup, EpTypes
<1>9. p = ProcessSetup(IF ctl.state # "SETUP" THEN HiddenEnd ELSE udc, r)
  BY <1>5, <1>7, <1>8 DEF HiddenEnd
<1>10. PICK e : e = [(IF ctl.state # "SETUP" THEN FreeEp(Entered) ELSE Entered) EXCEPT
                        !.setup = <<>>]
  OBVIOUS
<1>11. /\ e \in EpTypes /\ e.setup = <<>> /\ e.tx = <<>> /\ e.out = <<>>
       /\ e.sentIrq = FALSE /\ e.stall = FALSE /\ e.reset = FALSE
  <2>1. <<>> \in Seq(Requests) /\ <<>> \in Seq(Packets)
    BY EmptySeq
  <2>2. CASE ctl.state = "SETUP"
    <3>1. e = [Entered EXCEPT !.setup = <<>>]
      BY <1>10, <2>2
    <3> QED
      BY <1>1, <1>2, <1>8, <2>1, <2>2, <3>1 DEF Entered, EpTypes
  <2>3. CASE ctl.state # "SETUP"
    <3>1. e = [FreeEp(Entered) EXCEPT !.setup = <<>>]
      BY <1>10, <2>3
    <3> QED
      BY <1>1, <1>2, <2>1, <3>1 DEF FreeEp, Entered, EpTypes
  <2> QED
    BY <2>2, <2>3
<1>12. PICK d : d = IF ctl.state # "SETUP" THEN FreeRequest(ctl) ELSE ctl
  OBVIOUS
<1>13. d \in CtlTypes(MaxLen) /\ d.state = "SETUP"
  BY <1>1, <1>12, FreeRequestFields
<1>14. PICK c : c = [d EXCEPT !.req = r, !.callback = p.callback,
                              !.payload = p.payload, !.size = p.size]
  OBVIOUS
<1>15. Replied(host, u, r, p)
  BY <1>1, <1>2, <1>3, <1>4, <1>5, <1>6, <1>7, ProcessSetupKnows
<1>16. /\ p.payload \in [d : Items, n : 0..1] /\ p.size \in 0..MaxLen
       /\ p.ok /\ r.in => 0 < p.size /\ p.size <= r.len /\ Brings(host, p.payload, p.size)
  BY <1>1, <1>2, <1>3, <1>4, <1>5, <1>6, <1>7, ProcessSetupPayload
<1>17. /\ c \in CtlTypes(MaxLen) /\ c.state = "SETUP" /\ c.req = r
       /\ c.callback = p.callback /\ c.payload = p.payload /\ c.size = p.size
  <2>1. p.callback \in {"none", "address", "coding"}
    BY <1>15 DEF Replied
  <2> QED
    BY <1>4, <1>13, <1>14, <1>16, <2>1 DEF CtlTypes
<1>18. /\ udc' = p.udc
       /\ \/ ~p.ok /\ StallData(e, c)
          \/ p.ok /\ r.in /\ NextData([e EXCEPT !.sentIrq = FALSE], StartData(c, "DATA_IN"))
          \/ p.ok /\ ~r.in /\ r.len = 0 /\ SendZlpIn(e, c)
          \/ /\ p.ok /\ ~r.in /\ r.len > 0
             /\ ep0' = [e EXCEPT !.nakIn = FALSE, !.nakInIrq = TRUE]
             /\ ctl' = StartData(c, "DATA_OUT")
  BY <1>4, <1>9, <1>10, <1>12, <1>14, ZenonT(60) DEF SetupReceived
<1>19. host.st \notin Resting
  BY <1>2, StateFields DEF IInv
<1>20. Received(r, u, p, e, c)
  BY <1>2, <1>3, <1>4, <1>5, <1>11, <1>15, <1>16, <1>17, <1>18, <1>19 DEF Received
<1>21. [e EXCEPT !.sentIrq = FALSE] = e
  BY <1>11 DEF EpTypes
<1>22. p.ok /\ r.in /\ NextData(e, StartData(c, "DATA_IN")) =>
          SendData(e, StartData(c, "DATA_IN"))
  <2>1. ASSUME p.ok, r.in, NextData(e, StartData(c, "DATA_IN"))
        PROVE  SendData(e, StartData(c, "DATA_IN"))
    <3>1. PICK s : s = StartData(c, "DATA_IN")
      OBVIOUS
    <3>2. s.size = p.size /\ s.cnt = 0
      BY <1>17, <3>1 DEF StartData, CtlTypes
    <3>3. p.size \in Nat /\ 0 < p.size
      BY <1>16, <2>1, MaxLenBound
    <3>4. ~DataEnds(s)
      BY <3>2, <3>3 DEF DataEnds, Remaining
    <3>5. NextData(e, s)
      BY <2>1, <3>1
    <3>6. SendData(e, s)
      BY <1>11, <3>4, <3>5 DEF NextData
    <3> QED
      BY <3>1, <3>6
  <2> QED
    BY <2>1
<1>23. Answered(r, p, e, c)
  BY <1>18, <1>21, <1>22 DEF Answered
<1> QED
  BY <1>20, <1>23

\* What every answer leaves to the end of the request.
LEMMA ReceivedKeeps ==
    ASSUME IInv, NEW r, NEW u, NEW p, NEW e, NEW c, Received(r, u, p, e, c),
           UNCHANGED host, ctl'.req = r, ctl'.callback = p.callback
    PROVE  /\ udc' \in UdcTypes /\ Interfaces(udc)' /\ InCallback'
           /\ Knows(GivenUp(host), EndOfRequest)'
           /\ ~p.ok => Knows(Failed(host), EndOfRequest)'
           /\ p.ok /\ ~r.in /\ r.len = 0 => Knows(Succeeded(host), EndOfRequest)'
           /\ ~host.lost => udc'.address = host.addr
           /\ udc'.address = u.address
<1>1. Replied(host, u, r, p) /\ udc' = p.udc /\ r \in Requests /\ Knows(host, u)
  BY DEF Received
<1>2. PICK f : f = Callback(p.udc, p.callback, r)
  OBVIOUS
<1>3. EndOfRequest' = f
  BY <1>1, <1>2 DEF EndOfRequest
<1>4. PICK h : h = host
  OBVIOUS
<1>5. host' = h
  BY <1>4
<1>6. p.callback = "none" => f = p.udc
  BY <1>2 DEF Callback
<1>7. /\ Knows(GivenUp(h), f)
      /\ ~p.ok => Knows(Failed(h), f)
      /\ p.ok /\ ~r.in /\ r.len = 0 => Knows(Succeeded(h), f)
  BY <1>1, <1>2, <1>4, <1>6 DEF Replied
<1>8. /\ Knows(GivenUp(host), EndOfRequest)'
      /\ ~p.ok => Knows(Failed(host), EndOfRequest)'
      /\ p.ok /\ ~r.in /\ r.len = 0 => Knows(Succeeded(host), EndOfRequest)'
  BY <1>3, <1>5, <1>7
<1>9. udc' \in UdcTypes /\ Interfaces(udc)' /\ udc'.address = u.address
  BY <1>1 DEF Replied
<1>10. InCallback'
  BY <1>1 DEF Replied, InCallback
<1>11. ~host.lost => udc'.address = host.addr
  BY <1>1, <1>9 DEF Knows
<1> QED
  BY <1>8, <1>9, <1>10, <1>11

LEMMA StartDataFields ==
    ASSUME NEW c \in CtlTypes(MaxLen), NEW state \in {"DATA_IN", "DATA_OUT"}
    PROVE  /\ StartData(c, state) \in CtlTypes(MaxLen)
           /\ StartData(c, state).state = state /\ StartData(c, state).req = c.req
           /\ StartData(c, state).callback = c.callback
           /\ StartData(c, state).payload = c.payload /\ StartData(c, state).size = c.size
           /\ StartData(c, state).cnt = 0 /\ StartData(c, state).prev = 0
<1>1. 0 \in 0..MaxLen /\ 0 \in 0..2 * MaxLen
  BY MaxLenBound
<1>2. state \in CtrlStates
  BY DEF CtrlStates
<1> QED
  BY <1>1, <1>2 DEF StartData, CtlTypes

\* The request is refused.
LEMMA AnswerStallKeeps ==
    ASSUME IInv, NEW r, NEW u, NEW p, NEW e, NEW c, Received(r, u, p, e, c),
           ~p.ok, StallData(e, c), UNCHANGED host
    PROVE  IInv'
<1>1. /\ r = host.req /\ Replied(host, u, r, p)
      /\ host.st \in Stages /\ host.st \notin Resting
      /\ e \in EpTypes /\ e.setup = <<>> /\ e.tx = <<>> /\ e.out = <<>>
      /\ e.sentIrq = FALSE /\ e.stall = FALSE /\ e.reset = FALSE
      /\ c \in CtlTypes(MaxLen) /\ c.req = r /\ c.callback = p.callback
  BY DEF Received
<1>2. /\ ep0' \in EpTypes /\ ep0'.setup = <<>> /\ ep0'.tx = <<>> /\ ep0'.out = <<>>
      /\ ep0'.sentIrq = FALSE /\ ep0'.stall = TRUE /\ ep0'.reset = FALSE
  BY <1>1 DEF StallData, EpTypes
<1>3. /\ ctl' \in CtlTypes(MaxLen) /\ ctl'.state = "STALL_REQ" /\ ctl'.req = r
      /\ ctl'.callback = p.callback
  BY <1>1 DEF StallData, CtlTypes, CtrlStates
<1>4. /\ p.callback = "none"
      /\ host.addr = u.address => ~Supported(host)
  BY <1>1 DEF Replied
<1>5. /\ udc' \in UdcTypes /\ Interfaces(udc)' /\ InCallback'
      /\ Knows(GivenUp(host), EndOfRequest)' /\ Knows(Failed(host), EndOfRequest)'
      /\ ~host.lost => udc'.address = host.addr
      /\ udc'.address = u.address
  BY <1>3, ReceivedKeeps
<1>6. TypeOK'
  <2>1. Len(<<>>) = 0
    OBVIOUS
  <2> QED
    BY <1>2, <1>3, <1>5, <2>1 DEF IInv, TypeOK
<1>7. InReset' /\ InStage' /\ InSetup' /\ NotStalled' /\ HostReads' /\ Quiet'
  BY <1>2, ServedKeeps
<1>8. InKnowledge'
  BY <1>1, <1>3, <1>5 DEF InKnowledge
<1>9. StateSetup' /\ StateDataIn' /\ StateWaitOut' /\ StateDataOut' /\ StateWaitIn'
  BY <1>3 DEF StateSetup, StateDataIn, StateWaitOut, StateDataOut, StateWaitIn
<1>10. StateStall'
  <2>1. Reached' => ~Supported(host)
    BY <1>4, <1>5 DEF Reached
  <2> QED
    BY <1>2, <1>3, <1>4, <2>1 DEF StateStall
<1> QED
  BY <1>5, <1>6, <1>7, <1>8, <1>9, <1>10 DEF IInv, InStep

\* The first packet of the data of a read.
LEMMA AnswerDataKeeps ==
    ASSUME IInv, NEW r, NEW u, NEW p, NEW e, NEW c, Received(r, u, p, e, c),
           p.ok, r.in, SendData(e, StartData(c, "DATA_IN")), UNCHANGED host
    PROVE  IInv'
<1>1. /\ r = host.req /\ r \in Requests /\ Replied(host, u, r, p)
      /\ host.st \in Stages /\ host.st \notin Resting /\ host.got = 0
      /\ ~host.wrong /\ ~host.early => host.st = FirstStage(r)
      /\ 0 < p.size /\ p.size <= r.len /\ Brings(host, p.payload, p.size)
      /\ e \in EpTypes /\ e.setup = <<>> /\ e.tx = <<>> /\ e.out = <<>>
      /\ e.stall = FALSE /\ e.reset = FALSE
      /\ c \in CtlTypes(MaxLen) /\ c.req = r /\ c.callback = p.callback
      /\ c.payload = p.payload /\ c.size = p.size
  BY DEF Received
<1>2. PICK s : s = StartData(c, "DATA_IN")
  OBVIOUS
<1>3. /\ s \in CtlTypes(MaxLen) /\ s.state = "DATA_IN" /\ s.req = r
      /\ s.callback = p.callback /\ s.payload = p.payload /\ s.size = p.size
      /\ s.cnt = 0 /\ s.prev = 0
  BY <1>1, <1>2, StartDataFields
<1>4. p.size \in Nat
  BY <1>1, MaxLenBound DEF CtlTypes
<1>5. PICK q \in Packets :
        /\ ep0' \in EpTypes /\ ep0'.tx = <<q>> /\ ep0'.sent = FALSE /\ ep0'.sentIrq = TRUE
        /\ ep0'.setup = e.setup /\ ep0'.out = e.out /\ ep0'.stall = e.stall
        /\ ep0'.reset = e.reset
        /\ ctl' \in CtlTypes(MaxLen) /\ ctl'.state = s.state /\ ctl'.req = s.req
        /\ ctl'.callback = s.callback /\ ctl'.payload = s.payload /\ ctl'.size = s.size
        /\ ctl'.cnt = s.cnt + q.len /\ ctl'.cnt <= s.size
        /\ ctl'.short = (q.len < Full) /\ (ctl'.short => ctl'.cnt = s.size)
        /\ q.d = s.payload.d /\ q.n = s.payload.n
        /\ ctl'.prev = 0 \/ (ctl'.prev = s.size /\ ctl'.short)
  <2>1. s.cnt <= s.size
    BY <1>3, <1>4
  <2>2. SendData(e, s)
    BY <1>2
  <2> QED
    BY <1>1, <1>3, <2>1, <2>2, SendDataFields
<1>6. <<q>> # <<>> /\ Head(<<q>>) = q /\ Len(<<q>>) = 1
  OBVIOUS
<1>7. p.callback = "none"
  BY <1>1 DEF Replied
<1>8. /\ ctl'.state = "DATA_IN" /\ ctl'.req = r /\ ctl'.callback = "none"
      /\ ctl'.payload = p.payload /\ ctl'.size = p.size
      /\ ep0'.setup = <<>> /\ ep0'.reset = FALSE /\ ep0'.out = <<>> /\ ep0'.stall = FALSE
  BY <1>1, <1>3, <1>5, <1>7
<1>9. /\ udc' \in UdcTypes /\ Interfaces(udc)' /\ InCallback'
      /\ Knows(GivenUp(host), EndOfRequest)'
      /\ ~host.lost => udc'.address = host.addr
  BY <1>7, <1>8, ReceivedKeeps
<1>10. TypeOK'
  <2>1. Len(ep0'.setup) <= 1 /\ Len(ep0'.tx) <= 1 /\ Len(ep0'.out) <= 1
    BY <1>5, <1>6, <1>8
  <2> QED
    BY <1>5, <1>9, <2>1 DEF IInv, TypeOK
<1>11. InReset' /\ InStage' /\ InSetup' /\ NotStalled' /\ HostReads' /\ Quiet'
  BY <1>8, ServedKeeps
<1>12. InKnowledge'
  BY <1>1, <1>8, <1>9 DEF InKnowledge
<1>13. StateSetup' /\ StateWaitOut' /\ StateDataOut' /\ StateWaitIn' /\ StateStall'
  BY <1>8 DEF StateSetup, StateWaitOut, StateDataOut, StateWaitIn, StateStall
<1>14. ASSUME ~host.early, ~host.wrong
       PROVE  Transferred'
  <2>1. host.st = "dataIn"
    BY <1>1, <1>14 DEF FirstStage
  <2>2. host.got + q.len = ctl'.cnt
    BY <1>1, <1>3, <1>5
  <2>3. Brings(host, ctl.payload, ctl.size)'
    BY <1>1, <1>8 DEF Brings
  <2>4. ep0'.tx # <<>> /\ Head(ep0'.tx) = q
    BY <1>5, <1>6
  <2>5. q.d = ctl'.payload.d /\ q.n = ctl'.payload.n /\ ctl'.short = (q.len < Full)
    BY <1>3, <1>5, <1>8
  <2>6. ~(host'.got > 0)
    BY <1>1
  <2> QED
    BY <2>1, <2>2, <2>3, <2>4, <2>5, <2>6 DEF Transferred
<1>15. StateDataIn'
  <2>1. ep0'.sentIrq = TRUE /\ ep0'.sent = (ep0'.tx = <<>>)
    BY <1>5, <1>6
  <2>2. /\ 0 < ctl'.size /\ ctl'.size <= ctl'.req.len /\ ctl'.cnt <= ctl'.size
        /\ ctl'.prev = 0 \/ (ctl'.prev = ctl'.size /\ ctl'.short)
        /\ ctl'.short => ctl'.cnt = ctl'.size
    BY <1>1, <1>3, <1>5, <1>8
  <2>3. ctl'.req = host'.req /\ ctl'.req.in
    BY <1>1, <1>8
  <2> QED
    BY <1>1, <1>8, <1>14, <2>1, <2>2, <2>3 DEF StateDataIn
<1> QED
  BY <1>9, <1>10, <1>11, <1>12, <1>13, <1>15 DEF IInv, InStep

\* A request without data: the handshake.
LEMMA AnswerHandshakeKeeps ==
    ASSUME IInv, NEW r, NEW u, NEW p, NEW e, NEW c, Received(r, u, p, e, c),
           p.ok, ~r.in, r.len = 0, SendZlpIn(e, c), UNCHANGED host
    PROVE  IInv'
<1>1. /\ r = host.req /\ r \in Requests /\ Replied(host, u, r, p)
      /\ host.st \in Stages /\ host.st \notin Resting
      /\ ~host.wrong /\ ~host.early => host.st = FirstStage(r)
      /\ e \in EpTypes /\ e.setup = <<>> /\ e.tx = <<>> /\ e.out = <<>>
      /\ e.stall = FALSE /\ e.reset = FALSE
      /\ c \in CtlTypes(MaxLen) /\ c.req = r /\ c.callback = p.callback
  BY DEF Received
<1>2. PICK z : z = Zlp
  OBVIOUS
<1>3. <<z>> # <<>> /\ Len(<<z>>) = 1 /\ <<z>> \in Seq(Packets)
  <2>1. z \in Packets
    BY <1>2 DEF Zlp, Packet, Packets, Full, Nothing, Items
  <2> QED
    BY <2>1
<1>4. /\ ep0' = [RaiseTx(e, z) EXCEPT !.nakOut = FALSE, !.nakOutIrq = TRUE]
      /\ ctl' = [c EXCEPT !.state = "WAIT_IN_ZLP"]
  BY <1>2 DEF SendZlpIn
<1>5. /\ ep0' \in EpTypes /\ ep0'.setup = <<>> /\ ep0'.tx = <<z>> /\ ep0'.out = <<>>
      /\ ep0'.sent = FALSE /\ ep0'.sentIrq = TRUE /\ ep0'.stall = FALSE
      /\ ep0'.reset = FALSE /\ ep0'.nakOut = FALSE
  BY <1>1, <1>3, <1>4 DEF RaiseTx, EpTypes
<1>6. /\ ctl' \in CtlTypes(MaxLen) /\ ctl'.state = "WAIT_IN_ZLP" /\ ctl'.req = r
      /\ ctl'.callback = p.callback
  BY <1>1, <1>4 DEF CtlTypes, CtrlStates
<1>7. r.op = "setConfiguration" => r.n <= 1
  BY <1>1 DEF Replied
<1>8. /\ udc' \in UdcTypes /\ Interfaces(udc)' /\ InCallback'
      /\ Knows(GivenUp(host), EndOfRequest)' /\ Knows(Succeeded(host), EndOfRequest)'
      /\ ~host.lost => udc'.address = host.addr
  BY <1>6, ReceivedKeeps
<1>9. TypeOK'
  <2>1. Len(<<>>) = 0
    OBVIOUS
  <2> QED
    BY <1>3, <1>5, <1>6, <1>8, <2>1 DEF IInv, TypeOK
<1>10. InReset' /\ InStage' /\ InSetup' /\ NotStalled' /\ HostReads' /\ Quiet'
  BY <1>5, ServedKeeps
<1>11. InKnowledge'
  BY <1>1, <1>5, <1>6, <1>8 DEF InKnowledge
<1>12. StateSetup' /\ StateDataIn' /\ StateWaitOut' /\ StateDataOut' /\ StateStall'
  BY <1>6 DEF StateSetup, StateDataIn, StateWaitOut, StateDataOut, StateStall
<1>13. ~host.wrong => host.st = "statusIn"
  <2>1. ~host.early
    BY <1>1 DEF IInv, InStep, InStage
  <2> QED
    BY <1>1, <2>1 DEF FirstStage
<1>14. StateWaitIn'
  <2>1. ep0'.sentIrq = TRUE /\ ep0'.sent = (ep0'.tx = <<>>)
    BY <1>3, <1>5
  <2>2. ctl'.req = host'.req /\ ~host'.req.in /\ ~(host'.req.len > 0)
    BY <1>1, <1>6
  <2> QED
    BY <1>1, <1>5, <1>6, <1>7, <1>13, <2>1, <2>2 DEF StateWaitIn
<1> QED
  BY <1>8, <1>9, <1>10, <1>11, <1>12, <1>14 DEF IInv, InStep

\* A request with data from the host.
LEMMA AnswerWaitsKeeps ==
    ASSUME IInv, NEW r, NEW u, NEW p, NEW e, NEW c, Received(r, u, p, e, c),
           p.ok, ~r.in, r.len > 0, UNCHANGED host,
           ep0' = [e EXCEPT !.nakIn = FALSE, !.nakInIrq = TRUE],
           ctl' = StartData(c, "DATA_OUT")
    PROVE  IInv'
<1>1. /\ r = host.req /\ r \in Requests /\ Replied(host, u, r, p)
      /\ host.st \in Stages /\ host.st \notin Resting
      /\ ~host.wrong /\ ~host.early => host.st = FirstStage(r)
      /\ e \in EpTypes /\ e.setup = <<>> /\ e.tx = <<>> /\ e.out = <<>>
      /\ e.sentIrq = FALSE /\ e.stall = FALSE /\ e.reset = FALSE
      /\ c \in CtlTypes(MaxLen) /\ c.req = r /\ c.callback = p.callback
  BY DEF Received
<1>2. /\ ep0' \in EpTypes /\ ep0'.setup = <<>> /\ ep0'.tx = <<>> /\ ep0'.out = <<>>
      /\ ep0'.sentIrq = FALSE /\ ep0'.stall = FALSE /\ ep0'.reset = FALSE
      /\ ep0'.nakIn = FALSE
  BY <1>1 DEF EpTypes
<1>3. /\ ctl' \in CtlTypes(MaxLen) /\ ctl'.state = "DATA_OUT" /\ ctl'.req = r
      /\ ctl'.callback = p.callback /\ ctl'.cnt = 0
  BY <1>1, StartDataFields
<1>4. r.op = "setLineCoding" /\ p.callback = "coding"
  BY <1>1 DEF Replied
<1>5. /\ udc' \in UdcTypes /\ Interfaces(udc)' /\ InCallback'
      /\ Knows(GivenUp(host), EndOfRequest)'
      /\ ~host.lost => udc'.address = host.addr
  BY <1>3, ReceivedKeeps
<1>6. TypeOK'
  <2>1. Len(<<>>) = 0
    OBVIOUS
  <2> QED
    BY <1>2, <1>3, <1>5, <2>1 DEF IInv, TypeOK
<1>7. InReset' /\ InStage' /\ InSetup' /\ NotStalled' /\ HostReads' /\ Quiet'
  BY <1>2, ServedKeeps
<1>8. InKnowledge'
  BY <1>1, <1>2, <1>3, <1>5 DEF InKnowledge
<1>9. StateSetup' /\ StateDataIn' /\ StateWaitOut' /\ StateWaitIn' /\ StateStall'
  BY <1>3 DEF StateSetup, StateDataIn, StateWaitOut, StateWaitIn, StateStall
<1>10. ~host.wrong => host.st = "dataOut"
  <2>1. ~host.early
    BY <1>1 DEF IInv, InStep, InStage
  <2> QED
    BY <1>1, <2>1 DEF FirstStage
<1>11. StateDataOut'
  <2>1. ctl'.req = host'.req /\ ctl'.req.op = "setLineCoding"
    BY <1>1, <1>3, <1>4
  <2> QED
    BY <1>1, <1>2, <1>3, <1>4, <1>10, <2>1 DEF StateDataOut
<1> QED
  BY <1>5, <1>6, <1>7, <1>8, <1>9, <1>11 DEF IInv, InStep

LEMMA SetupReceivedKeeps ==
    ASSUME IInv, SetupReceived, UNCHANGED host
    PROVE  IInv'
<1>1. PICK r, u, p, e, c : Received(r, u, p, e, c) /\ Answered(r, p, e, c)
  BY SetupAnswered
<1>2. CASE ~p.ok /\ StallData(e, c)
  BY <1>1, <1>2, AnswerStallKeeps
<1>3. CASE p.ok /\ r.in /\ SendData(e, StartData(c, "DATA_IN"))
  BY <1>1, <1>3, AnswerDataKeeps
<1>4. CASE p.ok /\ ~r.in /\ r.len = 0 /\ SendZlpIn(e, c)
  BY <1>1, <1>4, AnswerHandshakeKeeps
<1>5. CASE /\ p.ok /\ ~r.in /\ r.len > 0
           /\ ep0' = [e EXCEPT !.nakIn = FALSE, !.nakInIrq = TRUE]
           /\ ctl' = StartData(c, "DATA_OUT")
  BY <1>1, <1>5, AnswerWaitsKeeps
<1> QED
  BY <1>1, <1>2, <1>3, <1>4, <1>5 DEF Answered

-----------------------------------------------------------------------------
(***************************************************************************)
(* The theorems.                                                           *)
(***************************************************************************)

LEMMA InitInvariant == Init => IInv
<1> SUFFICES ASSUME Init PROVE IInv
  OBVIOUS
<1>1. ep0 = EpClear /\ ctl = CtlInit /\ udc = UdcInit /\ HostInit
  BY DEF Init, CtrlBegin
<1>2. /\ ep0.setup = <<>> /\ ep0.tx = <<>> /\ ep0.out = <<>> /\ ep0.sent = FALSE
      /\ ep0.sentIrq = FALSE /\ ep0.reset = FALSE
  BY <1>1 DEF EpClear
<1>3. /\ ctl.state = "SETUP" /\ ctl.callback = "none"
  BY <1>1 DEF CtlInit
<1>4. /\ udc.address = 0 /\ udc.config = 0 /\ udc.running = FALSE /\ udc.open = FALSE
      /\ udc.up = [i \in Ifaces |-> FALSE]
  BY <1>1 DEF UdcInit
<1>5. /\ host.st = "off" /\ host.addr = 0 /\ host.config = 0 /\ host.coding = NoItem
      /\ host.touched = {}
  BY <1>1 DEF HostInit
<1>6. host.st \notin Stages
  BY <1>5 DEF Stages
<1>7. <<>> \in Seq(Requests) /\ <<>> \in Seq(Packets) /\ Len(<<>>) = 0
  BY EmptySeq
<1>8. ep0 \in EpTypes
  BY <1>1, <1>7 DEF EpClear, EpTypes
<1>9. Nothing \in [d : Items, n : 0..1]
  BY DEF Nothing, Items
<1>10. ctl \in CtlTypes(MaxLen)
  <2>1. 0 \in 0..MaxLen /\ 0 \in 0..2 * MaxLen
    BY MaxLenBound
  <2> QED
    BY <1>1, <1>9, <2>1 DEF CtlInit, CtlTypes, CtrlStates
<1>11. udc \in UdcTypes
  <2>1. 0 \in 0..CountMod - 1 /\ Default \in Codings
    BY CountModAssumption, ItemsAssumption DEF CountModAssumption, ItemsAssumption
  <2> QED
    BY <1>1, <2>1 DEF UdcInit, UdcTypes
<1>12. host \in HostTypes
  <2>1. 0 \in 0..MaxFaults /\ 0 \in 0..Unknown
    BY MaxFaultsAssumption DEF MaxFaultsAssumption, Unknown
  <2> QED
    BY <1>1, <1>9, <2>1 DEF HostInit, HostTypes, Resting
<1>13. TypeOK
  BY <1>2, <1>7, <1>8, <1>10, <1>11, <1>12 DEF TypeOK
<1>14. Interfaces(udc)
  BY <1>4 DEF Interfaces, Ifaces, DataIface
<1>15. Knows(host, EndOfRequest)
  <2>1. EndOfRequest = udc
    BY <1>3 DEF EndOfRequest, Callback
  <2>2. udc.config # 1
    BY <1>4
  <2>3. \A i \in Ifaces : udc.up[i] = FALSE
    BY <1>4
  <2>4. \A i \in Ifaces : udc.up[i] = (udc.config = 1)
    BY <2>2, <2>3, Zenon
  <2> QED
    BY <1>4, <1>5, <2>1, <2>4 DEF Knows
<1>16. InReset /\ InStage /\ InSetup /\ InCallback /\ InKnowledge
  BY <1>2, <1>3, <1>6, <1>15 DEF InReset, InStage, InSetup, InCallback, InKnowledge
<1>17. StateSetup
  BY <1>2, <1>3, <1>6 DEF StateSetup
<1>18. StateDataIn /\ StateWaitOut /\ StateDataOut /\ StateWaitIn /\ StateStall
  BY <1>3 DEF StateDataIn, StateWaitOut, StateDataOut, StateWaitIn, StateStall
<1>19. NotStalled /\ HostReads
  BY <1>5 DEF NotStalled, HostReads
<1> QED
  BY <1>13, <1>14, <1>16, <1>17, <1>18, <1>19 DEF IInv, InStep

LEMMA InterruptKeeps ==
    ASSUME IInv, Device
    PROVE  IInv'
<1>1. UNCHANGED host /\ Interrupt
  BY DEF Device
<1>2. CASE SetupReceived
  BY <1>1, <1>2, SetupReceivedKeeps
<1>3. CASE InSent
  BY <1>1, <1>3, InSentKeeps
<1>4. CASE OutReceived
  BY <1>1, <1>4, OutReceivedKeeps
<1>5. CASE Overflow
  BY <1>1, <1>5, OverflowKeeps
<1>6. CASE Underflow
  BY <1>1, <1>6, UnderflowHandshakeKeeps, UnderflowKeeps
<1>7. CASE BusResetEnds
  BY <1>1, <1>7, ResetEndsKeeps
<1> QED
  BY <1>1, <1>2, <1>3, <1>4, <1>5, <1>6, <1>7 DEF Interrupt

LEMMA StutterKeeps ==
    ASSUME IInv, UNCHANGED vars
    PROVE  IInv'
<1>1. UNCHANGED <<ep0, ctl, udc, host>>
  BY DEF vars, ctrlVars
<1>2. TypeOK' /\ NotStalled' /\ HostReads'
  BY <1>1 DEF IInv, TypeOK, NotStalled, HostReads
<1>3. EndOfRequest' = EndOfRequest /\ Quiet' = Quiet
  BY <1>1 DEF EndOfRequest, Quiet
<1>4. Interfaces(udc)' /\ InReset' /\ InStage' /\ InCallback'
  BY <1>1 DEF IInv, InStep, InReset, InStage, InCallback
<1>5. InSetup' /\ InKnowledge'
  BY <1>1, <1>3 DEF IInv, InStep, InSetup, InKnowledge
<1>6. StateSetup' /\ StateWaitOut' /\ StateDataOut' /\ StateWaitIn'
  BY <1>1, <1>3 DEF IInv, InStep, StateSetup, StateWaitOut, StateDataOut, StateWaitIn
<1>7. StateDataIn'
  <2>1. Transferred => Transferred'
    BY <1>1 DEF Transferred
  <2> QED
    BY <1>1, <1>3, <2>1 DEF IInv, InStep, StateDataIn
<1>8. StateStall'
  BY <1>1, <1>3 DEF IInv, InStep, StateStall, Reached
<1> QED
  BY <1>2, <1>4, <1>5, <1>6, <1>7, <1>8 DEF IInv, InStep

\* The types, the two sides in step, and what a request without a fault brings, are
\* kept by every step.
LEMMA Invariant == Spec => []IInv
<1>1. Init => IInv
  BY InitInvariant
<1>2. IInv /\ [Next]_vars => IInv'
  <2> SUFFICES ASSUME IInv, [Next]_vars PROVE IInv'
    OBVIOUS
  <2>1. CASE HostSetup
    BY <2>1, SetupKeeps
  <2>2. CASE HostTakesIn
    BY <2>2, TakesInKeeps
  <2>3. CASE HostSendsOut
    BY <2>3, SendsOutKeeps
  <2>4. CASE HostEndsData
    BY <2>4, EndsDataKeeps
  <2>5. CASE HostErrs
    BY <2>5, ErrsKeeps
  <2>6. CASE HostRefused
    BY <2>6, RefusedKeeps
  <2>7. CASE HostStalled
    BY <2>7, StalledKeeps
  <2>8. CASE HostReset
    BY <2>8, HostResetKeeps
  <2>9. CASE Device
    BY <2>9, InterruptKeeps
  <2>10. CASE UNCHANGED vars
    BY <2>10, StutterKeeps
  <2> QED
    BY <2>1, <2>2, <2>3, <2>4, <2>5, <2>6, <2>7, <2>8, <2>9, <2>10 DEF Next
<1> QED
  BY <1>1, <1>2, PTL DEF Spec

\* Host and device stay in step, whatever the host gives up or gets wrong, and
\* whenever the interrupt is served.
THEOREM SidesAgree == Spec => []InStep
<1>1. IInv => InStep
  BY DEF IInv
<1> QED
  BY <1>1, Invariant, PTL

\* The state of the endpoint, of the request and of the device has its types, and
\* the counters of the payload stay within the longest request.
THEOREM TypeCorrect == Spec => []TypeOK
<1>1. IInv => TypeOK
  BY DEF IInv
<1> QED
  BY <1>1, Invariant, PTL

\* A request that the device supports is not stalled.
THEOREM SupportedNotStalled == Spec => []NotStalled
<1>1. IInv => NotStalled
  BY DEF IInv
<1> QED
  BY <1>1, Invariant, PTL

\* A read that succeeds has brought all of what was asked for.
THEOREM ReadsBring == Spec => []HostReads
<1>1. IInv => HostReads
  BY DEF IInv
<1> QED
  BY <1>1, Invariant, PTL

\* With nothing pending, the end of the last request has been served, as far as the
\* host knows of it.
LEMMA NothingPending ==
    ASSUME IInv, ~Pending
    PROVE  /\ Quiet
           /\ host.st \in Resting =>
                /\ ctl.callback # "address" /\ Knows(host, EndOfRequest)
                /\ host.coding # NoItem => EndOfRequest = udc
<1>1. Quiet /\ ~(ep0.sent /\ ep0.sentIrq) /\ ~ep0.reset
  BY DEF Pending, Quiet
<1>2. ASSUME host.st \in Resting
      PROVE  /\ ctl.callback # "address"
             /\ host.coding # NoItem => ctl.callback = "none"
  <2>1. ctl.state \in CtrlStates /\ host.st \notin Stages
    BY <1>2, StateFields DEF IInv, TypeOK, CtlTypes
  <2>2. ctl.state # "DATA_OUT"
    BY <1>1, <2>1 DEF IInv, InStep, StateDataOut
  <2>3. ctl.state \in {"SETUP", "DATA_IN", "WAIT_OUT_ZLP", "STALL_REQ"} =>
           ctl.callback = "none"
    BY DEF IInv, InStep, StateSetup, StateDataIn, StateWaitOut, StateStall
  <2>4. ctl.state = "WAIT_IN_ZLP" => host.coding = NoItem /\ ctl.callback # "address"
    BY <1>1, <1>2 DEF IInv, InStep, StateWaitIn
  <2>5. ctl.state \in {"SETUP", "DATA_IN", "WAIT_OUT_ZLP", "STALL_REQ", "WAIT_IN_ZLP"}
    BY <2>1, <2>2 DEF CtrlStates
  <2> QED
    BY <2>3, <2>4, <2>5
<1>3. host.st \in Resting => Knows(host, EndOfRequest)
  BY <1>1 DEF IInv, InStep, InKnowledge
<1> QED
  BY <1>1, <1>2, <1>3, EndFields

\* Host and device agree on the address, with the end of SET_ADDRESS hidden by the
\* next request or not.
THEOREM AddressAgreement == Spec => []AddressAgrees
<1>1. IInv => AddressAgrees
  <2> SUFFICES ASSUME IInv, ~Pending, ~host.lost PROVE udc.address = host.addr
    BY DEF AddressAgrees
  <2>1. CASE host.st \in Stages
    BY <2>1, NothingPending DEF IInv, InStep, InKnowledge
  <2>2. CASE host.st \in Resting
    BY <2>2, NothingPending, EndFields DEF Knows
  <2> QED
    BY <2>1, <2>2, StateFields DEF IInv
<1> QED
  BY <1>1, Invariant, PTL

\* The line coding of the host is that of the UART.
THEOREM CodingAgreement == Spec => []CodingApplied
<1>1. IInv => CodingApplied
  <2> SUFFICES ASSUME IInv, ~Pending, host.st \in Resting, host.coding # NoItem
               PROVE  udc.coding = host.coding /\ udc.uart = host.coding
    BY DEF CodingApplied
  <2> QED
    BY NothingPending DEF Knows
<1> QED
  BY <1>1, Invariant, PTL

\* The configuration of the host is that of the device, with its interfaces.
THEOREM ConfigAgreement == Spec => []ConfigAgrees
<1>1. IInv => ConfigAgrees
  <2> SUFFICES ASSUME IInv PROVE ConfigAgrees
    OBVIOUS
  <2>1. udc.running = udc.up[DataIface]
    BY DEF IInv, InStep, Interfaces
  <2>2. ASSUME ~Pending, host.st \in Resting, host.config # Unknown
        PROVE  /\ udc.config = host.config
               /\ \A i \in Ifaces \ host.touched : udc.up[i] = (udc.config = 1)
               /\ host.touched = {} => udc.open = udc.running
    BY <2>2, NothingPending, EndFields DEF Knows
  <2> QED
    BY <2>1, <2>2 DEF ConfigAgrees
<1> QED
  BY <1>1, Invariant, PTL
=============================================================================
