------------------------------- MODULE SdMmc -------------------------------
(***************************************************************************)
(* One slot of the SD/MMC stack (sd_mmc.c) and the control interface above *)
(* it (sd_mmc_mem.c): the card in the slot, what the stack believes of it, *)
(* and the block transfer that is open on it.  The end of the debounce     *)
(* ("late") and the success of the exchange that initialises a card ("ok") *)
(* are choices.                                                            *)
(***************************************************************************)
EXTENDS Naturals, Sequences

CONSTANTS Cards,     \* the cards somebody may put in the slot
          NoCard,    \* an empty slot
          Blocks,    \* block addresses of a card
          Data,      \* contents of a block
          Contents   \* what the cards hold at the start

ASSUME CardsAssumption ==
    /\ NoCard \notin Cards
    /\ Blocks \subseteq Nat
    /\ Contents \in [Cards -> [Blocks -> Data]]

VARIABLES
    card,       \* what is in the slot
    media,      \* the contents of every card
    slot,       \* sd_mmc_cards[].state
    live,       \* the card, if it has been initialised since it was inserted
    ejected,    \* sd_mmc_ejected[]
    remaining   \* sd_mmc_nb_block_remaining

sdVars == <<card, media, slot, live, ejected, remaining>>

SlotStates == {"ready", "debounce", "init", "unusable", "noCard"}

SdTypeOK ==
    /\ card \in Cards \cup {NoCard}
    /\ media \in [Cards -> [Blocks -> Data]]
    /\ slot \in SlotStates
    /\ live \in Cards \cup {NoCard}
    /\ ejected \in BOOLEAN
    /\ remaining \in Nat

SdInit ==
    /\ card \in Cards \cup {NoCard}
    /\ media = Contents
    /\ slot = "noCard"
    /\ live = NoCard
    /\ ejected = FALSE
    /\ remaining = 0

-----------------------------------------------------------------------------
\* The people around the board.

InsertCard ==
    /\ card = NoCard
    /\ card' \in Cards
    /\ UNCHANGED <<media, slot, live, ejected, remaining>>

RemoveCard ==
    /\ card # NoCard
    /\ card' = NoCard
    /\ live' = NoCard
    /\ UNCHANGED <<media, slot, ejected, remaining>>

-----------------------------------------------------------------------------
\* sd_mmc_select_slot, called first by every function of the stack: the state
\* of the slot it leaves and, from that, what it returns.
Selected(s, late) ==
    CASE card = NoCard                      -> "noCard"
      [] card # NoCard /\ s = "noCard"      -> "debounce"
      [] card # NoCard /\ s = "debounce" /\ late -> "init"
      [] OTHER                              -> s

\* sd_mmc_check: a card that the selection wants initialised is initialised
\* here, and that is reported once as INIT_ONGOING.
Checked(s, ok) ==
    IF s # "init" THEN s ELSE IF ok THEN "ready" ELSE "unusable"

\* Mutant: a card that was just initialised is simply ready.
QuietStatus(s, ok) ==
    CASE s \in {"ready", "init"} /\ ok /\ ~ejected -> "good"
      [] s \in {"noCard", "debounce"} \/ ejected   -> "notPresent"
      [] OTHER                                     -> "fail"

\* sd_mmc_test_unit_ready, from the state s that the selection left.
UnitStatus(s, ok) ==
    CASE s = "ready" /\ ~ejected           -> "good"
      [] s = "ready" /\ ejected            -> "notPresent"
      [] s = "init" /\ ok                -> "busy"
      [] s \in {"noCard", "debounce"}      -> "notPresent"
      [] OTHER                             -> "fail"

TestUnitReady(s, ok) ==
    /\ slot' = Checked(s, ok)
    /\ live' = IF s = "init" /\ ok THEN card ELSE live
    /\ ejected' = (ejected /\ s \notin {"noCard", "debounce"})
    /\ UNCHANGED <<card, media, remaining>>

\* sd_mmc_unload
Unload(unload) ==
    /\ ejected' = unload
    /\ UNCHANGED <<card, media, slot, live, remaining>>

\* The driver reaches a card that it initialised: one that was put in since
\* does not answer to the relative address and has no transfer open.
Reachable == card # NoCard /\ card = live

\* sd_mmc_init_read_blocks and sd_mmc_init_write_blocks.
OpenStatus(s) ==
    CASE s \in {"noCard", "debounce"}  -> "notPresent"
      [] s = "ready" /\ Reachable      -> "good"
      [] OTHER                         -> "fail"

OpenBlocks(s, n) ==
    /\ slot' = s
    /\ remaining' = IF OpenStatus(s) = "good" THEN n ELSE remaining
    /\ UNCHANGED <<card, media, live, ejected>>

\* sd_mmc_start_read_blocks and sd_mmc_start_write_blocks, one block.
StartBlock ==
    /\ remaining' = IF Reachable THEN remaining - 1 ELSE 0
    /\ UNCHANGED <<card, media, slot, live, ejected>>

\* sd_mmc_wait_end_of_read_blocks, sd_mmc_wait_end_of_write_blocks: the count
\* of an aborted transfer is cleared only when the driver reaches the card.
WaitEnd(abort) == remaining' = IF abort /\ Reachable THEN 0 ELSE remaining

\* Nobody reads the count between two transfers (the assertion on it in
\* sd_mmc_select_slot is compiled out), so what a failure leaves is dropped.
CloseBlocks ==
    /\ remaining' = 0
    /\ UNCHANGED <<card, media, slot, live, ejected>>
=============================================================================
