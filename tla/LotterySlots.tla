---------------------------- MODULE LotterySlots ----------------------------
(***************************************************************************)
(* The slot arithmetic of the lottery (lottery.cpp): one height is one     *)
(* slot of SLOT_SECONDS, counted from the genesis block's slot.            *)
(***************************************************************************)
EXTENDS Integers

CONSTANTS
    SlotLen,         \* SLOT_SECONDS
    GenesisTime,     \* nTime of the genesis block
    MaxFutureSlots   \* MAX_FUTURE_SLOTS

ASSUME SlotAssumption ==
    /\ SlotLen \in Nat \ {0}
    /\ GenesisTime \in Nat
    /\ MaxFutureSlots \in Nat

SlotFromTime(t) == IF t < 0 THEN 0 ELSE t \div SlotLen

\* Mutant: the first block shares the genesis block's slot.
MutantSlotFromHeight(h) ==
    SlotFromTime(GenesisTime) + (IF h <= 0 THEN 0 ELSE h - 1)

SlotFromHeight(h) ==
    SlotFromTime(GenesisTime) + (IF h <= 0 THEN 0 ELSE h)

SlotStartTime(h) == SlotFromHeight(h) * SlotLen

\* On main and test a block's time lies in the slot of its height, and that slot
\* is at most MAX_FUTURE_SLOTS ahead of the local clock.
CheckBlockTime(h, t, now) ==
    h > 0 =>
        /\ t >= SlotStartTime(h) /\ t < SlotStartTime(h) + SlotLen
        /\ SlotFromHeight(h) <= SlotFromTime(now) + MaxFutureSlots

\* The time the producer stamps: now, moved into the slot, then after the
\* median time past.
ClampTimeToSlot(h, now, mtp) ==
    LET start == SlotStartTime(h)
        t == IF now < start THEN start
             ELSE IF now >= start + SlotLen THEN start + SlotLen - 1
             ELSE now
    IN  IF t <= mtp THEN mtp + 1 ELSE t
=============================================================================
