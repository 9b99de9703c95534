---------------------------- MODULE MCUsbControl ----------------------------
(***************************************************************************)
(* Descriptors of exactly one packet, and of one packet and a half; a read *)
(* ends with wLength, with an empty packet, or with a short one.           *)
(***************************************************************************)
EXTENDS UsbControl

CONSTANTS dFull, dLong, rate, slow

MCSize == [d \in {dFull, dLong} |->
             IF d = dFull THEN 2 ELSE 3]

Get(op, len, d) == [op |-> op, in |-> TRUE, len |-> len, n |-> 0, i |-> Comm, d |-> d]
Set(op, n, i) == [op |-> op, in |-> FALSE, len |-> 0, n |-> n, i |-> i, d |-> NoItem]

MCRequests ==
    { Set("setAddress", 5, 0),
      Set("setConfiguration", 1, 0), Set("setConfiguration", 0, 0),
      Set("setInterface", 0, Comm), Set("setInterface", 0, DataIface),
      Set("setInterface", 1, DataIface), Set("setLineState", 1, Comm),
      Get("getConfiguration", 1, NoItem),
      Get("getDescriptor", 2, dFull), Get("getDescriptor", 4, dFull),
      Get("getDescriptor", 4, dLong),
      Get("getLineCoding", 1, NoItem),
      [Get("getLineCoding", 1, NoItem) EXCEPT !.i = DataIface],
      Get("getInterface", 1, NoItem),
      [op |-> "setLineCoding", in |-> FALSE, len |-> 1, n |-> 0, i |-> Comm, d |-> slow] }
=============================================================================
