-------------------------- MODULE LotteryProducer --------------------------
(***************************************************************************)
(* The block producer of the baked seed on main and test: the loop of      *)
(* ProducerThread and ProduceOneBlock (lottery.cpp), the template it asks  *)
(* for (CreateNewBlock, miner.cpp) and the checks its block must pass      *)
(* (validation.cpp), against a chain that peers, the operator and crashes  *)
(* change between any two of its steps.                                    *)
(*                                                                         *)
(* The loop reads the clock and the tip once at its head, and both again   *)
(* when the template is made, when the block's time is stamped and when    *)
(* the latches are set; cs_main is released in between.                    *)
(*                                                                         *)
(* A block's hash is a number, so that "smaller hash" is "<".  Only the    *)
(* seed can sign a block, so what peers have is what it emitted.           *)
(***************************************************************************)
EXTENDS LotterySlots, FiniteSets

CONSTANTS
    Main,        \* NetworkIDString() is MAIN; otherwise TEST
    Settle,      \* SETTLE_SECONDS
    MedianSpan,  \* nMedianTimeSpan
    Hash,        \* the hashes blocks may get; 0 is the genesis block's
    NoBlock,
    MaxClock     \* bound: the clock stops here

ASSUME ProducerAssumption ==
    /\ Main \in BOOLEAN
    /\ Settle \in Nat /\ Settle < SlotLen
    /\ SlotLen > 1 /\ GenesisTime % SlotLen = 0   \* both genesis blocks'
    /\ MedianSpan \in Nat \ {0}
    /\ Hash \subseteq Nat /\ 0 \in Hash
    /\ MaxClock \in Nat

Block == [parent : Hash, height : Nat, time : Nat, chain : SUBSET Hash]

ASSUME NoBlockAssumption == NoBlock \notin Block

VARIABLES
    clock,        \* GetTime(), and GetAdjustedTime() with no offset
    block,        \* every block ever emitted, by hash; peers keep them all
    have,         \* the blocks of mapBlockIndex with BLOCK_HAVE_DATA
    failed,       \* those with BLOCK_FAILED_VALID
    tip,          \* chainActive.Tip()
    disk,         \* `have` and `failed` as last flushed
    hat,          \* ComputeDraw finds a stamped active id
    pc,           \* where the producer thread is
    now,          \* its `now`
    base,         \* its `tip`, read once at the head of the loop
    draft,        \* the block it assembles: parent, height, nTime, coinbase height
    lastSlot,     \* lastProducedSlot
    lastMinute,   \* lastProducedWallMinute
    pace          \* "free", or how a steady loop stands in this second

\* History, read by properties only: the blocks this process emitted, and the
\* minute of the last one.
VARIABLES mine, lastEmit

history == <<mine, lastEmit>>

chainVars == <<block, have, failed, tip, disk>>
loopVars  == <<now, base, draft>>
latches   == <<lastSlot, lastMinute>>
vars == <<clock, chainVars, hat, pc, loopVars, latches, pace, history>>

\* The environment is chosen at the start.  In a steady one the hat is never empty,
\* nothing fails, and an iteration of the loop takes place in every second and
\* within it: it is "due", and then it "ran".
Steady == pace # "free"

-----------------------------------------------------------------------------
(* The chain.                                                              *)

Height(b) == block[b].height

Minute(t) == t \div SlotLen

\* Mutant: the wrong middle of an even number.
MutantMedianHeight(h) ==
    LET low == IF h < MedianSpan THEN 0 ELSE h - MedianSpan + 1
    IN  low + ((h - low) \div 2)

\* GetMedianTimePast: of the last MedianSpan blocks up to b, sorted by time, the
\* one at index n \div 2.  Times rise with the height, slot by slot, so that it is
\* found by its height.
MedianHeight(h) ==
    LET low == IF h < MedianSpan THEN 0 ELSE h - MedianSpan + 1
    IN  low + ((h - low + 1) \div 2)

MedianTimePast(b) ==
    block[CHOOSE a \in block[b].chain : Height(a) = MedianHeight(Height(b))].time

\* The tips FindMostWorkChain may choose: no failed block below them.
Candidates(hv, fl, bl) == {b \in hv : bl[b].chain \cap fl = {}}

\* PreferLotteryFork: longer, or as long and of smaller hash.
PreferLotteryFork(b, c, bl) ==
    \/ bl[b].height > bl[c].height
    \/ bl[b].height = bl[c].height /\ b < c

\* ActivateBestChain makes b the tip.
IsBest(b, hv, fl, bl) ==
    /\ b \in Candidates(hv, fl, bl)
    /\ \A c \in Candidates(hv, fl, bl) : ~PreferLotteryFork(c, b, bl)

-----------------------------------------------------------------------------
(* The producer's loop.                                                    *)

\* A second's sleep ends the iteration and the scope of its variables.
NoDraft == [parent |-> 0, height |-> 0, time |-> 0, cbHeight |-> 0]

Sleep ==
    /\ pc' = "asleep"
    /\ now' = 0 /\ base' = 0 /\ draft' = NoDraft
    /\ pace' = IF Steady THEN "ran" ELSE pace

GoOn(step) == pc' = step /\ UNCHANGED pace

\* The loop head reads the clock.
Wake ==
    /\ pc = "asleep"
    /\ pace # "ran"
    /\ now' = clock
    /\ GoOn("awake")
    /\ UNCHANGED <<clock, chainVars, hat, base, draft, latches, history>>

\* Mutant: the wall-minute latch is not consulted.
MutantMayTryNoLatch(slot) == slot # lastSlot

\* Before anything is looked up: on main the wall-minute latch, on test the slot
\* has begun and settled; and nothing was produced for the slot.
MayTry(slot) ==
    /\ IF Main
       THEN Minute(clock) # lastMinute
       ELSE /\ SlotFromTime(now) >= slot
            /\ now >= slot * SlotLen + Settle
    /\ slot # lastSlot

ReadTip ==
    /\ pc = "awake"
    /\ \/ /\ MayTry(SlotFromHeight(Height(tip) + 1))
          /\ base' = tip
          /\ GoOn("look")
          /\ UNCHANGED <<now, draft>>
       \/ /\ ~MayTry(SlotFromHeight(Height(tip) + 1))
          /\ Sleep
    /\ UNCHANGED <<clock, chainVars, hat, latches, history>>

\* The height of the tip read at the loop head is already taken.
HeightTaken ==
    \/ Height(tip) >= Height(base) + 1
    \/ \E b \in have : b # 0 /\ block[b].parent = base

LookForSibling ==
    /\ pc = "look"
    /\ \/ /\ HeightTaken
          /\ lastSlot' = SlotFromHeight(Height(base) + 1)
          /\ Sleep
       \/ /\ ~HeightTaken
          /\ GoOn("draw")
          /\ UNCHANGED <<lastSlot, loopVars>>
    /\ UNCHANGED <<clock, chainVars, hat, lastMinute, history>>

ComputeDraw ==
    /\ pc = "draw"
    /\ \/ hat /\ GoOn("create") /\ UNCHANGED loopVars
       \/ ~hat /\ Sleep
    /\ UNCHANGED <<clock, chainVars, hat, latches, history>>

\* UpdateTime of a template on the tip.
TemplateTime ==
    IF clock > MedianTimePast(tip) THEN clock ELSE MedianTimePast(tip) + 1

\* ContextualCheckBlockHeader, for a block at height h on b.
HeaderOK(h, b, t) == CheckBlockTime(h, t, clock) /\ t > MedianTimePast(b)

\* Mutant: the template's time is not checked.
MutantTemplateValid == hat

\* TestBlockValidity of the template: its draw is made anew and pays somebody,
\* and its time, which is still the wall clock's, lies in the slot.
TemplateValid == hat /\ HeaderOK(Height(tip) + 1, tip, TemplateTime)

\* CreateNewBlock on the tip as it is now; it throws when the template is bad.
CreateNewBlock ==
    /\ pc = "create"
    /\ \/ /\ TemplateValid
          /\ draft' = [parent |-> tip, height |-> Height(tip) + 1,
                       time |-> TemplateTime, cbHeight |-> Height(tip) + 1]
          /\ GoOn("stamp")
          /\ UNCHANGED <<now, base>>
       \/ /\ ~TemplateValid
          /\ Sleep
    /\ UNCHANGED <<clock, chainVars, hat, latches, history>>

\* IncrementExtraNonce and ClampTimeToSlot, for the tip as it is now.
StampTime ==
    /\ pc = "stamp"
    /\ draft' = [draft EXCEPT
           !.cbHeight = Height(tip) + 1,
           !.time = ClampTimeToSlot(Height(tip) + 1, clock, MedianTimePast(tip))]
    /\ GoOn("process")
    /\ UNCHANGED <<clock, chainVars, hat, now, base, latches, history>>

\* AcceptBlockHeader and ContextualCheckBlock of the draft.
DraftAccepted ==
    /\ Candidates({draft.parent}, failed, block) # {}
    /\ HeaderOK(draft.height, draft.parent, draft.time)
    /\ draft.cbHeight = draft.height

\* Every hash but the genesis block's and those taken is possible.
Emit(b) ==
    /\ block[b] = NoBlock
    /\ block' = [block EXCEPT ![b] =
           [parent |-> draft.parent, height |-> draft.height, time |-> draft.time,
            chain |-> block[draft.parent].chain \cup {b}]]
    /\ have' = have \cup {b}
    /\ \E t \in have' : IsBest(t, have', failed, block') /\ tip' = t
    /\ mine' = mine \cup {b}
    /\ lastEmit' = Minute(clock)

\* ProcessNewBlock: the block is stored and relayed and the best chain active.
ProcessNewBlock ==
    /\ pc = "process"
    /\ \/ /\ DraftAccepted
          /\ \E b \in Hash : Emit(b)
          /\ GoOn("latch")
          /\ UNCHANGED loopVars
       \/ /\ ~DraftAccepted
          /\ Sleep
          /\ UNCHANGED <<block, have, tip, history>>
    /\ UNCHANGED <<clock, failed, disk, hat, latches>>

\* Mutant: the latch names the next minute.
MutantSetLatches ==
    /\ pc = "latch"
    /\ lastSlot' = SlotFromHeight(Height(base) + 1)
    /\ lastMinute' = Minute(clock) + 1
    /\ Sleep
    /\ UNCHANGED <<clock, chainVars, hat, history>>

\* ProduceOneBlock returned true.
SetLatches ==
    /\ pc = "latch"
    /\ lastSlot' = SlotFromHeight(Height(base) + 1)
    /\ lastMinute' = Minute(clock)
    /\ Sleep
    /\ UNCHANGED <<clock, chainVars, hat, history>>

-----------------------------------------------------------------------------
(* Peers, operator, process and time.                                      *)

\* A peer returns a block this node has lost.
PeerBlock(b) ==
    /\ block[b] # NoBlock /\ b \notin have
    /\ block[b].parent \in have
    /\ Candidates({block[b].parent}, failed, block) # {}
    /\ HeaderOK(Height(b), block[b].parent, block[b].time)
    /\ have' = have \cup {b}
    /\ \E t \in have' : IsBest(t, have', failed, block) /\ tip' = t
    /\ UNCHANGED <<clock, block, failed, disk, hat, pc, loopVars, latches, pace, history>>

\* RPC invalidateblock, any block but the genesis block.
InvalidateBlock(b) ==
    /\ ~Steady
    /\ b \in have \ (failed \cup {0})
    /\ failed' = failed \cup {b}
    /\ \E t \in have : IsBest(t, have, failed', block) /\ tip' = t
    /\ UNCHANGED <<clock, block, have, disk, hat, pc, loopVars, latches, pace, history>>

\* FlushStateToDisk: once an hour, and at a clean stop.
FlushStateToDisk ==
    /\ ~Steady
    /\ disk' = [have |-> have, failed |-> failed]
    /\ UNCHANGED <<clock, block, have, failed, tip, hat, pc, loopVars, latches, pace, history>>

\* Mutant: the tip is not chosen again from the index that was read.
MutantRestart ==
    /\ ~Steady
    /\ clock < MaxClock
    /\ clock' = clock + 1
    /\ have' = disk.have
    /\ failed' = disk.failed
    /\ Sleep
    /\ lastSlot' = -1 /\ lastMinute' = -1
    /\ hat' = FALSE
    /\ mine' = {} /\ lastEmit' = -1
    /\ UNCHANGED <<block, disk, tip>>

\* The process ends and starts again, which takes a second at least; the block
\* index is what was flushed; the registry is empty and the latches are new.
Restart ==
    /\ ~Steady
    /\ clock < MaxClock
    /\ clock' = clock + 1
    /\ have' = disk.have
    /\ failed' = disk.failed
    /\ \E t \in have' : IsBest(t, have', failed', block) /\ tip' = t
    /\ Sleep
    /\ lastSlot' = -1 /\ lastMinute' = -1
    /\ hat' = FALSE
    /\ mine' = {} /\ lastEmit' = -1
    /\ UNCHANGED <<block, disk>>

\* Stamped nodes come and go.
HatChanges ==
    /\ ~Steady
    /\ hat' = ~hat
    /\ UNCHANGED <<clock, chainVars, pc, loopVars, latches, pace, history>>

Tick ==
    /\ clock < MaxClock
    /\ Steady => pc = "asleep" /\ pace = "ran"
    /\ clock' = clock + 1
    /\ pace' = IF Steady THEN "due" ELSE pace
    /\ UNCHANGED <<chainVars, hat, pc, loopVars, latches, history>>

-----------------------------------------------------------------------------
Genesis == [parent |-> 0, height |-> 0, time |-> GenesisTime, chain |-> {0}]

Init ==
    /\ clock = GenesisTime
    /\ block = [b \in Hash |-> IF b = 0 THEN Genesis ELSE NoBlock]
    /\ have = {0}
    /\ failed = {}
    /\ tip = 0
    /\ disk = [have |-> {0}, failed |-> {}]
    /\ pace \in {"free", "due"}
    /\ hat \in BOOLEAN /\ (Steady => hat)
    /\ pc = "asleep"
    /\ now = 0
    /\ base = 0
    /\ draft = NoDraft
    /\ lastSlot = -1 /\ lastMinute = -1
    /\ mine = {} /\ lastEmit = -1

Produce ==
    \/ Wake \/ ReadTip \/ LookForSibling \/ ComputeDraw \/ CreateNewBlock
    \/ StampTime \/ ProcessNewBlock \/ SetLatches

Next ==
    \/ Produce
    \/ \E b \in Hash : PeerBlock(b)
    \/ \E b \in Hash : InvalidateBlock(b)
    \/ FlushStateToDisk
    \/ Restart
    \/ HatChanges
    \/ Tick

Spec == Init /\ [][Next]_vars

\* The thread is not starved and time goes on.
FairSpec == Spec /\ WF_vars(Produce) /\ WF_vars(Tick)

-----------------------------------------------------------------------------
(* Properties.                                                             *)

Emitted == {b \in Hash : block[b] # NoBlock}

\* The types of the variables; the tip is a block of the index, the loop's copy of
\* it and the draft's parent are blocks that were emitted, and what is on disk is
\* part of the index, also after a crash that lost the rest of it.
TypeOK ==
    /\ clock \in Nat
    /\ block \in [Hash -> Block \cup {NoBlock}]
    /\ have \subseteq Emitted
    /\ failed \subseteq have
    /\ tip \in have
    /\ disk \in [have : SUBSET have, failed : SUBSET failed]
    /\ disk.failed \subseteq disk.have
    /\ hat \in BOOLEAN /\ pace \in {"free", "due", "ran"}
    /\ pc \in {"asleep", "awake", "look", "draw", "create", "stamp", "process", "latch"}
    /\ now \in Nat
    /\ base \in Emitted
    /\ draft \in [parent : Emitted, height : Nat, time : Int, cbHeight : Nat]
    /\ lastSlot \in Int /\ lastMinute \in Int
    /\ mine \subseteq Emitted
    /\ lastEmit \in Int

\* The median found by height is the one GetMedianTimePast sorts out: as many of
\* the last blocks' times are below it as there are entries before index n \div 2.
MedianIsMedian ==
    \A b \in Emitted :
        LET last == {a \in block[b].chain : Height(a) > Height(b) - MedianSpan}
            below == {a \in last : block[a].time < MedianTimePast(b)}
        IN  Cardinality(below) = Cardinality(last) \div 2

\* The producer's clamp never has to leave the slot for the median time past:
\* whatever was emitted late or early, a child's slot begins after it.
MedianBelowSlot ==
    \A b \in Emitted : MedianTimePast(b) < SlotStartTime(Height(b) + 1)

\* "Wall-clock slot >= height slot" (FORK-CHOICE.md:23).  On main no guard of the
\* producer says so; three readings of the tip and of the clock lie between its
\* checks and its block.
EmitNotEarly ==
    [][\A b \in Hash : block[b] = NoBlock /\ block'[b] # NoBlock
          => SlotFromTime(clock) >= SlotFromHeight(block'[b].height)]_vars

\* "At most one block per wall-clock minute" (LOTTERY.md:233), in one life of the
\* process, although the latch is set from a clock read after the block is out.
OneEmitPerMinute ==
    [][Main /\ block' # block => Minute(clock) > lastEmit]_vars

\* "A node that already accepted a valid block for height h must not emit another"
\* (FORK-CHOICE.md:3): on main it holds of what one life of the process emits,
\* also when the operator invalidates the first block, or a peer brings another
\* branch, while the loop stands between its sibling check and its template.
NeverTwiceAtHeight ==
    Main => \A b, c \in mine : Height(b) = Height(c) => b = c

\* Every height's minute has passed and no template made in time is under way.
Missed ==
    /\ \A b \in Emitted : SlotFromTime(clock) > SlotFromHeight(Height(b) + 1)
    /\ pc \notin {"stamp", "process"}

\* A missed minute is final: a template carries the wall clock's time, which is
\* outside the slot of the next height from then on, so that CreateNewBlock
\* throws for ever: no restart, peer or stamped node brings another block.
MissedMinuteIsFinal == [][Missed => Missed' /\ block' = block]_vars

\* One height is one slot: while nodes are stamped and the loop runs every second
\* the main chain has the block of the current slot within its first second.
KeepsPace ==
    Main /\ pace = "ran" => SlotFromHeight(Height(tip)) = SlotFromTime(clock)

-----------------------------------------------------------------------------
(* What the documentation says and the code does not do.                   *)

\* LOTTERY.md:234: catch-up may target an older lottery slot.
CatchesUp ==
    \A h \in 0..Cardinality(Hash) :
        (Height(tip) = h /\ SlotFromTime(clock) > SlotFromHeight(h + 1))
            ~> (Height(tip) # h \/ ~hat)
=============================================================================
