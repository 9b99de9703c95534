---------------------------- MODULE MCBootUpdate ----------------------------
(***************************************************************************)
(* BootUpdate on small instances: images of two to four pages, one head    *)
(* with an offset (the host's file begins with the bootloader), one with a *)
(* wrong CRC, one with the CRC of the image and what fills its frame up,   *)
(* and one that packge_head_process refuses.                               *)
(***************************************************************************)
EXTENDS BootUpdate

CONSTANTS b1, b2, b3, b4

MCBlocks == {b1, b2, b3, b4}

HeadOf(image, offset) ==
    [image |-> image, crc |-> image, offset |-> offset, startOk |-> TRUE]

\* Images that lie within the pages the bootloader erases.
SmallHeads ==
    {HeadOf(<<b1, b2, b3>>, 1), HeadOf(<<b3>>, 0),
     [HeadOf(<<b3>>, 0) EXCEPT !.crc = <<>>],
     [HeadOf(<<b3>>, 0) EXCEPT !.crc = <<b3, b4>>],
     [HeadOf(<<b3>>, 0) EXCEPT !.startOk = FALSE]}

\* An image that fills FLASH_BIN_MAX_SIZE.
LargeHeads == {HeadOf(<<b1, b2, b3, b4>>, 0)}

\* An image of two equal pages.
RepeatingHeads == {HeadOf(<<b1, b1>>, 0)}
=============================================================================
