--------------------------- MODULE MCMassStorage ---------------------------
(***************************************************************************)
(* Three blocks and two cards, the second as a write of the first would    *)
(* leave it.  The commands are those of the thirteen cases of the          *)
(* bulk-only transport: the host (H) expects none (n), in (i) or out (o)   *)
(* data, the device (D) moves as much, less, more or the other way.        *)
(***************************************************************************)
EXTENDS MassStorage

CONSTANTS c1, c2

MCContents ==
    [c \in {c1, c2} |-> [b \in {0, 1, 2} |-> IF c = c2 /\ b # 1 THEN 1 ELSE 0]]

Cmd(op, in, len, a, n, data) ==
    [op |-> op, in |-> in, len |-> len, a |-> a, n |-> n, data |-> data]

Simple(op, in, len) == Cmd(op, in, len, 0, 0, <<0, 0>>)

MCCommands ==
    { Simple("testUnit", FALSE, 0),   \* Hn = Dn
      Simple("testUnit", TRUE, 2),    \* Hi > Dn
      Simple("unknown", FALSE, 2),    \* Ho > Dn
      Simple("sense", TRUE, 1),       \* Hi = Di
      Simple("info", TRUE, 2),        \* Hi > Di
      Simple("capacity", TRUE, 1),
      Simple("capacity", FALSE, 2),   \* Ho <> Di
      Simple("load", FALSE, 0),
      Simple("eject", FALSE, 0),
      Simple("bad", TRUE, 2),
      Cmd("read", TRUE, 6, 0, 3, <<>>),
      Cmd("read", TRUE, 4, 1, 1, <<>>),         \* Hi > Di
      Cmd("read", TRUE, 0, 0, 2, <<>>),         \* Hn < Di
      Cmd("read", TRUE, 2, 0, 2, <<>>),         \* Hi < Di
      Cmd("write", FALSE, 0, 0, 1, <<1>>),      \* Hn < Do
      Cmd("write", FALSE, 6, 0, 3, <<1, 0, 1>>),
      Cmd("write", FALSE, 4, 0, 1, <<1, 0>>),   \* Ho > Do
      Cmd("write", FALSE, 2, 0, 2, <<1, 1>>),   \* Ho < Do
      Cmd("write", TRUE, 2, 1, 1, <<0>>) }       \* Hi <> Do
=============================================================================
