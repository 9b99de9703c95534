----------------------------- MODULE ByteStream -----------------------------
(***************************************************************************)
(* What a CDC data pipe promises (udi_cdc.h, "Reads and gets a value on    *)
(* CDC line"): a byte stream.  Bytes are numbered in the order they are    *)
(* written; the reader gets them in that order, each once, without gaps.   *)
(* Bytes still inside may be lost only while the interface is down.        *)
(***************************************************************************)
EXTENDS Integers

VARIABLES
    written,    \* number of the last byte written
    delivered,  \* number of the last byte read, or given up
    up          \* the interface is enabled

vars == <<written, delivered, up>>

Init == written = 0 /\ delivered = 0 /\ up = FALSE

Write ==
    /\ written' \in Nat /\ written' > written
    /\ UNCHANGED <<delivered, up>>

Deliver ==
    /\ delivered' \in (delivered + 1) .. written
    /\ UNCHANGED <<written, up>>

Close == up /\ up' = FALSE /\ UNCHANGED <<written, delivered>>

Drop == ~up /\ delivered' = written /\ UNCHANGED <<written, up>>

Open == ~up /\ up' = TRUE /\ UNCHANGED <<written, delivered>>

Next == Write \/ Deliver \/ Close \/ Drop \/ Open

Spec == Init /\ [][Next]_vars
=============================================================================
