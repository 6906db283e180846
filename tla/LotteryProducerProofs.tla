----------------------- MODULE LotteryProducerProofs -----------------------
(***************************************************************************)
(* Proofs about LotteryProducer.                                           *)
(***************************************************************************)
EXTENDS LotteryProducer, FiniteSetTheorems, FunctionTheorems, TLAPS

-----------------------------------------------------------------------------
(* Slot arithmetic.                                                        *)

\* What integer division by the slot length does.
LEMMA DivMod ==
    ASSUME NEW t \in Nat
    PROVE  /\ t \div SlotLen \in Nat
           /\ (t \div SlotLen) * SlotLen <= t
           /\ t < (t \div SlotLen) * SlotLen + SlotLen
  BY SlotAssumption, SMT

\* Multiplication by the slot length is monotone.
LEMMA TimesMono ==
    ASSUME NEW m \in Int, NEW n \in Int, m <= n
    PROVE  /\ m * SlotLen \in Int /\ n * SlotLen \in Int
           /\ m * SlotLen <= n * SlotLen
  BY SlotAssumption, SMT

LEMMA TimesSucc ==
    ASSUME NEW m \in Int
    PROVE  (m + 1) * SlotLen = m * SlotLen + SlotLen
  BY SlotAssumption, SMT

\* Minutes pass in order.
LEMMA MinuteMono ==
    ASSUME NEW s \in Nat, NEW t \in Nat, s <= t
    PROVE  s \div SlotLen <= t \div SlotLen
<1>1. SUFFICES ASSUME s \div SlotLen >= (t \div SlotLen) + 1 PROVE FALSE
  BY DivMod
<1>2. ((t \div SlotLen) + 1) * SlotLen <= (s \div SlotLen) * SlotLen
  BY <1>1, DivMod, TimesMono
<1>3. ((t \div SlotLen) + 1) * SlotLen = (t \div SlotLen) * SlotLen + SlotLen
  BY DivMod, TimesSucc
<1> QED
  BY <1>2, <1>3, DivMod, TimesMono, SlotAssumption

\* One height is one slot.
LEMMA SlotFacts ==
    ASSUME NEW h \in Nat
    PROVE  /\ SlotFromHeight(h) \in Nat /\ SlotFromHeight(h + 1) = SlotFromHeight(h) + 1
           /\ SlotStartTime(h) \in Nat /\ SlotStartTime(h + 1) = SlotStartTime(h) + SlotLen
<1>1. SlotFromTime(GenesisTime) \in Nat
  BY DivMod, SlotAssumption DEF SlotFromTime
<1>2. SlotFromHeight(h) \in Nat /\ SlotFromHeight(h + 1) = SlotFromHeight(h) + 1
  BY <1>1 DEF SlotFromHeight
<1>3. SlotStartTime(h + 1) = SlotStartTime(h) + SlotLen
  BY <1>2, TimesSucc DEF SlotStartTime
<1>4. 0 * SlotLen = 0
  BY SlotAssumption, SMT
<1>5. SlotStartTime(h) \in Nat
  BY <1>2, <1>4, TimesMono DEF SlotStartTime
<1> QED
  BY <1>2, <1>3, <1>5

LEMMA SlotStartMono ==
    ASSUME NEW g \in Nat, NEW h \in Nat, g <= h
    PROVE  SlotStartTime(g) <= SlotStartTime(h)
<1>1. SlotFromTime(GenesisTime) \in Nat
  BY DivMod, SlotAssumption DEF SlotFromTime
<1>2. SlotFromHeight(g) <= SlotFromHeight(h)
  BY <1>1 DEF SlotFromHeight
<1> QED
  BY <1>2, SlotFacts, TimesMono DEF SlotStartTime

\* A time is in or after a slot exactly when its minute is.
LEMMA SlotOfTime ==
    ASSUME NEW t \in Nat, NEW h \in Nat
    PROVE  /\ SlotFromTime(t) = Minute(t) /\ Minute(t) \in Nat
           /\ Minute(t) >= SlotFromHeight(h) <=> t >= SlotStartTime(h)
<1>1. SlotFromTime(t) = Minute(t) /\ Minute(t) \in Nat
  BY DivMod DEF SlotFromTime, Minute
<1>2. ASSUME Minute(t) >= SlotFromHeight(h) PROVE t >= SlotStartTime(h)
  <2>1. SlotFromHeight(h) * SlotLen <= Minute(t) * SlotLen
    BY <1>1, <1>2, SlotFacts, TimesMono
  <2> QED
    BY <2>1, <1>1, DivMod, SlotFacts, TimesMono DEF SlotStartTime, Minute
<1>3. ASSUME Minute(t) < SlotFromHeight(h) PROVE t < SlotStartTime(h)
  <2>1. Minute(t) + 1 <= SlotFromHeight(h)
    BY <1>1, <1>3, SlotFacts
  <2>2. (Minute(t) + 1) * SlotLen <= SlotFromHeight(h) * SlotLen
    BY <2>1, <1>1, SlotFacts, TimesMono
  <2>3. (Minute(t) + 1) * SlotLen = Minute(t) * SlotLen + SlotLen
    BY <1>1, TimesSucc
  <2> QED
    BY <2>2, <2>3, <1>1, DivMod, SlotFacts, SlotAssumption, TimesMono DEF SlotStartTime, Minute
<1> QED
  BY <1>1, <1>2, <1>3, SlotFacts

\* The genesis block lies in its slot, and more than a second before the next.
LEMMA GenesisInSlot ==
    /\ GenesisTime >= SlotStartTime(0)
    /\ GenesisTime + 1 < SlotStartTime(1)
<1>1. SlotStartTime(0) = (GenesisTime \div SlotLen) * SlotLen
  BY SlotAssumption, DivMod DEF SlotStartTime, SlotFromHeight, SlotFromTime
<1>2. (GenesisTime \div SlotLen) * SlotLen = GenesisTime
  BY SlotAssumption, ProducerAssumption, SMT
<1>3. SlotStartTime(1) = SlotStartTime(0) + SlotLen
  BY SlotFacts
<1> QED
  BY <1>1, <1>2, <1>3, SlotAssumption, ProducerAssumption

-----------------------------------------------------------------------------
(* The block tree.                                                         *)

\* A block's chain leads down to the genesis block height by height.
ChainOK(b) ==
    /\ b \in block[b].chain
    /\ block[b].chain \subseteq Emitted
    /\ \A a \in block[b].chain : Height(a) <= Height(b)
    /\ \A a, c \in block[b].chain : Height(a) = Height(c) => a = c
    /\ \A k \in 0..Height(b) : \E a \in block[b].chain : Height(a) = k

\* A block's time is in the slot of its height.
InSlot(b) ==
    /\ block[b].time >= SlotStartTime(Height(b))
    /\ block[b].time < SlotStartTime(Height(b)) + SlotLen

GenesisKept ==
    /\ 0 \in disk.have /\ 0 \notin failed
    /\ block[0] = Genesis

DraftOK == pc \in {"stamp", "process"} => draft.height = Height(draft.parent) + 1

TreeInv ==
    /\ TypeOK
    /\ GenesisKept
    /\ \A b \in Emitted : ChainOK(b) /\ InSlot(b)
    /\ DraftOK

\* What holds of the variables of an emitted block.
LEMMA EmittedBlock ==
    ASSUME TypeOK, NEW b \in Emitted
    PROVE  /\ b \in Hash /\ block[b] \in Block
           /\ Height(b) \in Nat /\ block[b].time \in Nat /\ block[b].chain \subseteq Hash
  BY DEF TypeOK, Emitted, Block, Height

LEMMA MedianHeightInRange ==
    ASSUME NEW h \in Nat
    PROVE  MedianHeight(h) \in 0..h
<1>1. CASE h < MedianSpan
  BY <1>1, ProducerAssumption DEF MedianHeight
<1>2. CASE ~(h < MedianSpan)
  BY <1>2, ProducerAssumption DEF MedianHeight
<1> QED
  BY <1>1, <1>2

\* The median time past is the time of a block below, so it comes before the
\* child's slot.
LEMMA MedianFacts ==
    ASSUME TypeOK, NEW b \in Emitted, \A a \in Emitted : ChainOK(a) /\ InSlot(a)
    PROVE  /\ MedianTimePast(b) \in Nat
           /\ MedianTimePast(b) < SlotStartTime(Height(b) + 1)
           /\ \E a \in block[b].chain : MedianTimePast(b) = block[a].time
<1> DEFINE m == CHOOSE a \in block[b].chain : Height(a) = MedianHeight(Height(b))
<1>1. MedianHeight(Height(b)) \in 0..Height(b)
  BY EmittedBlock, MedianHeightInRange
<1>2. \E a \in block[b].chain : Height(a) = MedianHeight(Height(b))
  BY <1>1 DEF ChainOK
<1>3. m \in block[b].chain /\ m \in Emitted /\ Height(m) <= Height(b)
  BY <1>2 DEF ChainOK
<1>4. MedianTimePast(b) = block[m].time
  BY DEF MedianTimePast
<1>5. SlotStartTime(Height(m)) <= SlotStartTime(Height(b))
  BY <1>3, EmittedBlock, SlotStartMono
<1> HIDE DEF m
<1>6. block[m].time \in Nat /\ block[m].time < SlotStartTime(Height(m)) + SlotLen
  BY <1>3, EmittedBlock DEF InSlot
<1>7. SlotStartTime(Height(b) + 1) = SlotStartTime(Height(b)) + SlotLen
  BY EmittedBlock, SlotFacts
<1> QED
  BY <1>3, <1>4, <1>5, <1>6, <1>7, EmittedBlock, SlotFacts, SlotAssumption

LEMMA TreeInit == Init => TreeInv
<1> SUFFICES ASSUME Init PROVE TreeInv
  OBVIOUS
<1>1. Genesis \in Block /\ Genesis # NoBlock
  BY SlotAssumption, ProducerAssumption, NoBlockAssumption DEF Genesis, Block
<1>2. block[0] = Genesis /\ Emitted = {0} /\ Height(0) = 0
  BY <1>1, ProducerAssumption DEF Init, Emitted, Height, Genesis
<1>3. TypeOK
  <2>1. NoDraft \in [parent : Emitted, height : Nat, time : Int, cbHeight : Nat]
    BY <1>2 DEF NoDraft
  <2>2. block \in [Hash -> Block \cup {NoBlock}]
    BY <1>1 DEF Init
  <2>3. disk \in [have : SUBSET have, failed : SUBSET failed] /\ disk.failed \subseteq disk.have
    BY DEF Init
  <2>4. hat \in BOOLEAN /\ pace \in {"free", "due", "ran"}
    BY DEF Init
  <2>5. pc = "asleep" /\ have = {0} /\ failed = {} /\ tip = 0 /\ base = 0 /\ mine = {}
    BY DEF Init
  <2>6. clock \in Nat /\ now \in Nat /\ lastSlot \in Int /\ lastMinute \in Int /\ lastEmit \in Int
    BY SlotAssumption DEF Init
  <2>7. draft = NoDraft
    BY DEF Init
  <2> QED
    BY <1>2, <2>1, <2>2, <2>3, <2>4, <2>5, <2>6, <2>7 DEF TypeOK
<1>4. ChainOK(0)
  BY <1>2 DEF ChainOK, Genesis, Height
<1>5. InSlot(0)
  BY <1>2, GenesisInSlot, SlotFacts, SlotAssumption DEF InSlot, Genesis
<1> QED
  BY <1>2, <1>3, <1>4, <1>5 DEF TreeInv, GenesisKept, DraftOK, Init

\* Most steps leave the tree as it is.
LEMMA TreeUnchanged ==
    ASSUME TreeInv, UNCHANGED block
    PROVE  /\ Emitted' = Emitted
           /\ \A b \in Emitted' : ChainOK(b)' /\ InSlot(b)'
           /\ \A b : Height(b)' = Height(b)
<1>1. Emitted' = Emitted
  BY DEF Emitted
<1>2. \A b : Height(b)' = Height(b)
  BY DEF Height
<1> QED
  BY <1>1, <1>2 DEF TreeInv, ChainOK, InSlot

\* An accepted draft is a block in its slot, on top of its parent's chain.
LEMMA TreeEmit ==
    ASSUME TreeInv, pc = "process", DraftAccepted, NEW b \in Hash, Emit(b)
    PROVE  /\ Emitted' = Emitted \cup {b} /\ b \notin Emitted
           /\ block' \in [Hash -> Block \cup {NoBlock}]
           /\ \A a \in Emitted' : ChainOK(a)' /\ InSlot(a)'
           /\ \A a \in Emitted : Height(a)' = Height(a) /\ block'[a] = block[a]
           /\ Height(b)' = draft.height /\ block'[b].time = draft.time
<1> DEFINE new == [parent |-> draft.parent, height |-> draft.height, time |-> draft.time,
                   chain |-> block[draft.parent].chain \cup {b}]
<1>1. /\ draft \in [parent : Emitted, height : Nat, time : Int, cbHeight : Nat]
      /\ draft.height = Height(draft.parent) + 1
      /\ draft.parent \in Hash /\ Height(draft.parent) \in Nat
      /\ block[draft.parent].chain \subseteq Hash
  BY EmittedBlock DEF TreeInv, TypeOK, DraftOK
<1>2. /\ draft.time >= SlotStartTime(draft.height)
      /\ draft.time < SlotStartTime(draft.height) + SlotLen
      /\ draft.time \in Nat
  BY <1>1, SlotFacts DEF DraftAccepted, HeaderOK, CheckBlockTime
<1>3. new \in Block /\ new # NoBlock
  BY <1>1, <1>2, NoBlockAssumption DEF Block
<1>4. block \in [Hash -> Block \cup {NoBlock}] /\ block[b] = NoBlock /\ b \notin Emitted
  BY DEF Emit, Emitted, TreeInv, TypeOK
<1>5. block' = [block EXCEPT ![b] = new]
  BY DEF Emit
<1> HIDE DEF new
<1>6. block'[b] = new /\ \A a \in Hash \ {b} : block'[a] = block[a]
  BY <1>4, <1>5
<1>7. Emitted' = Emitted \cup {b}
  BY <1>3, <1>4, <1>6 DEF Emitted
<1>8. \A a \in Emitted : Height(a)' = Height(a) /\ block'[a] = block[a]
  BY <1>4, <1>6 DEF Emitted, Height
<1>9. Height(b)' = draft.height /\ block'[b].time = draft.time
      /\ block'[b].chain = block[draft.parent].chain \cup {b}
  BY <1>6 DEF new, Height
<1>10. ASSUME NEW a \in Emitted PROVE ChainOK(a)' /\ InSlot(a)'
  BY <1>7, <1>8 DEF TreeInv, ChainOK, InSlot
<1>11. InSlot(b)'
  BY <1>2, <1>9 DEF InSlot
<1>12. ChainOK(b)'
  <2>1. ChainOK(draft.parent) /\ draft.parent \in Emitted
    BY <1>1 DEF TreeInv
  <2>2. block'[b].chain \subseteq Emitted'
    BY <1>7, <1>9, <2>1 DEF ChainOK
  <2>3. ASSUME NEW a \in block'[b].chain PROVE Height(a)' <= Height(b)' /\ (Height(a)' = Height(b)' => a = b)
    BY <1>1, <1>8, <1>9, <2>1, EmittedBlock DEF ChainOK, TreeInv
  <2>5. ASSUME NEW a \in block'[b].chain, NEW c \in block'[b].chain, Height(a)' = Height(c)'
        PROVE  a = c
    <3>1. CASE a = b \/ c = b
      BY <2>3, <2>5, <3>1
    <3>2. CASE a # b /\ c # b
      <4>1. a \in block[draft.parent].chain /\ c \in block[draft.parent].chain
        BY <3>2, <1>9
      <4>2. Height(a)' = Height(a) /\ Height(c)' = Height(c)
        BY <4>1, <2>1, <1>8 DEF ChainOK
      <4> QED
        BY <4>1, <4>2, <2>1, <2>5 DEF ChainOK
    <3> QED
      BY <3>1, <3>2
  <2>4. ASSUME NEW k \in 0..draft.height
        PROVE  \E a \in block'[b].chain : Height(a)' = k
    <3>1. CASE k = draft.height
      BY <3>1, <1>9
    <3>2. CASE k # draft.height
      <4>1. k \in 0..Height(draft.parent)
        BY <3>2, <1>1
      <4>2. PICK a \in block[draft.parent].chain : Height(a) = k
        BY <4>1, <2>1 DEF ChainOK
      <4>3. a \in Emitted
        BY <2>1 DEF ChainOK
      <4> QED
        BY <4>2, <4>3, <1>8, <1>9
    <3> QED
      BY <3>1, <3>2
  <2> QED
    BY <2>2, <2>3, <2>4, <2>5, <1>9 DEF ChainOK
<1> QED
  BY <1>3, <1>4, <1>5, <1>7, <1>8, <1>9, <1>10, <1>11, <1>12

\* The steps of the loop that emit nothing.
QuietLoop ==
    Wake \/ ReadTip \/ LookForSibling \/ ComputeDraw \/ CreateNewBlock \/ StampTime \/ SetLatches

\* A clamped time is a whole number.
LEMMA ClampType ==
    ASSUME NEW h \in Nat, NEW t \in Nat, NEW m \in Nat
    PROVE  ClampTimeToSlot(h, t, m) \in Nat
  BY SlotFacts, SlotAssumption DEF ClampTimeToSlot

LEMMA SleepType ==
    ASSUME TreeInv, Sleep, UNCHANGED block
    PROVE  /\ pc' = "asleep" /\ now' \in Nat /\ base' \in Emitted'
           /\ draft' \in [parent : Emitted', height : Nat, time : Int, cbHeight : Nat]
           /\ pace' \in {"free", "due", "ran"}
<1>1. 0 \in Emitted /\ Emitted' = Emitted
  BY TreeUnchanged DEF TreeInv, TypeOK, GenesisKept
<1>2. NoDraft \in [parent : Emitted', height : Nat, time : Int, cbHeight : Nat]
  BY <1>1 DEF NoDraft
<1>3. pc' = "asleep" /\ now' \in Nat /\ base' \in Emitted' /\ draft' = NoDraft
  BY <1>1 DEF Sleep
<1>4. pace' \in {"free", "due", "ran"}
  BY DEF Sleep, TreeInv, TypeOK
<1> QED
  BY <1>2, <1>3, <1>4

\* What those steps do to the thread's variables.
LEMMA QuietLoopType ==
    ASSUME TreeInv, QuietLoop
    PROVE  /\ UNCHANGED <<clock, chainVars, hat, history>>
           /\ pc' \in {"asleep", "awake", "look", "draw", "create", "stamp", "process", "latch"}
           /\ now' \in Nat /\ base' \in Emitted'
           /\ draft' \in [parent : Emitted', height : Nat, time : Int, cbHeight : Nat]
           /\ lastSlot' \in Int /\ lastMinute' \in Int /\ pace' \in {"free", "due", "ran"}
           /\ DraftOK'
<1> DEFINE Drafts == [parent : Emitted, height : Nat, time : Int, cbHeight : Nat]
<1>0. /\ TypeOK /\ tip \in Emitted /\ Height(tip) \in Nat /\ Height(base) \in Nat
      /\ draft \in Drafts /\ MedianTimePast(tip) \in Nat
      /\ clock \in Nat /\ pace \in {"free", "due", "ran"}
      /\ Height(tip) + 1 \in Nat /\ Height(base) + 1 \in Nat
  BY EmittedBlock, MedianFacts DEF TreeInv, TypeOK
<1>1. UNCHANGED <<clock, chainVars, hat, history>>
  BY DEF QuietLoop, Wake, ReadTip, LookForSibling, ComputeDraw, CreateNewBlock, StampTime, SetLatches
<1>2. UNCHANGED block
  BY <1>1 DEF chainVars
<1>3. Emitted' = Emitted /\ \A b : Height(b)' = Height(b)
  BY <1>2, TreeUnchanged
<1>4. SlotFromHeight(Height(base) + 1) \in Int /\ Minute(clock) \in Int
  BY <1>0, SlotFacts, SlotOfTime
<1>5. CASE Sleep
  <2>1. lastSlot' \in Int /\ lastMinute' \in Int
    BY <1>0, <1>4, <1>5 DEF QuietLoop, Wake, ReadTip, LookForSibling, ComputeDraw, CreateNewBlock,
       StampTime, SetLatches, TypeOK, latches, Sleep, GoOn
  <2> QED
    BY <2>1, <1>1, <1>2, <1>5, SleepType DEF DraftOK
<1>6. CASE ~Sleep
  <2>1. CASE Wake
    BY <2>1, <1>0, <1>1, <1>3 DEF Wake, GoOn, TypeOK, latches, DraftOK
  <2>2. CASE ReadTip
    BY <2>2, <1>6, <1>0, <1>1, <1>3 DEF ReadTip, GoOn, TypeOK, latches, DraftOK
  <2>3. CASE LookForSibling
    BY <2>3, <1>6, <1>0, <1>1, <1>3 DEF LookForSibling, GoOn, TypeOK, loopVars, DraftOK
  <2>4. CASE ComputeDraw
    BY <2>4, <1>6, <1>0, <1>1, <1>3 DEF ComputeDraw, GoOn, TypeOK, latches, loopVars, DraftOK
  <2>5. CASE CreateNewBlock
    <3>1. TemplateTime \in Nat
      BY <1>0 DEF TemplateTime
    <3>2. /\ draft' = [parent |-> tip, height |-> Height(tip) + 1,
                       time |-> TemplateTime, cbHeight |-> Height(tip) + 1]
          /\ pc' = "stamp" /\ UNCHANGED <<pace, now, base, lastSlot, lastMinute>>
      BY <2>5, <1>6 DEF CreateNewBlock, GoOn, latches
    <3>3. draft' \in Drafts
      BY <3>1, <3>2, <1>0
    <3> QED
      BY <3>2, <3>3, <1>0, <1>1, <1>3 DEF TypeOK, DraftOK
  <2>6. CASE StampTime
    <3>1. ClampTimeToSlot(Height(tip) + 1, clock, MedianTimePast(tip)) \in Nat
      BY <1>0, ClampType
    <3>2. /\ draft' = [draft EXCEPT !.cbHeight = Height(tip) + 1,
                          !.time = ClampTimeToSlot(Height(tip) + 1, clock, MedianTimePast(tip))]
          /\ pc = "stamp" /\ pc' = "process"
          /\ UNCHANGED <<pace, now, base, lastSlot, lastMinute>>
      BY <2>6 DEF StampTime, GoOn, latches
    <3>3. /\ draft' \in Drafts
          /\ draft'.parent = draft.parent /\ draft'.height = draft.height
      <4> DEFINE c == ClampTimeToSlot(Height(tip) + 1, clock, MedianTimePast(tip))
                 g == Height(tip) + 1
      <4>1. c \in Int /\ g \in Nat /\ draft \in Drafts
            /\ draft' = [draft EXCEPT !.cbHeight = g, !.time = c]
        BY <3>1, <3>2, <1>0
      <4> HIDE DEF c, g
      <4> QED
        BY <4>1
    <3>4. draft.height = Height(draft.parent) + 1
      BY <3>2 DEF TreeInv, DraftOK
    <3> QED
      BY <3>2, <3>3, <3>4, <1>0, <1>1, <1>3 DEF TypeOK, DraftOK
  <2>7. CASE SetLatches
    BY <2>7, <1>6 DEF SetLatches
  <2> QED
    BY <2>1, <2>2, <2>3, <2>4, <2>5, <2>6, <2>7 DEF QuietLoop
<1> QED
  BY <1>5, <1>6

\* The steps of peers, operator, process and time leave the tree alone and keep
\* the genesis block.
Surroundings ==
    \/ \E b \in Hash : PeerBlock(b)
    \/ \E b \in Hash : InvalidateBlock(b)
    \/ FlushStateToDisk \/ Restart \/ HatChanges \/ Tick

\* have, failed, disk and tip stay within the tree.
IndexOK ==
    /\ have \subseteq Emitted /\ failed \subseteq have /\ tip \in have
    /\ disk \in [have : SUBSET have, failed : SUBSET failed]
    /\ disk.failed \subseteq disk.have
    /\ 0 \in disk.have /\ 0 \notin failed

LEMMA SurroundingsIndex ==
    ASSUME TreeInv, Surroundings
    PROVE  UNCHANGED block /\ IndexOK'
<1>0. IndexOK
  BY DEF TreeInv, TypeOK, GenesisKept, IndexOK
<1>1. UNCHANGED block
  BY DEF Surroundings, PeerBlock, InvalidateBlock, FlushStateToDisk, Restart, HatChanges, Tick, chainVars
<1>2. Emitted' = Emitted
  BY <1>1, TreeUnchanged
<1>3. ASSUME NEW b \in Hash, PeerBlock(b) PROVE IndexOK'
  BY <1>0, <1>2, <1>3 DEF PeerBlock, IndexOK, Emitted
<1>4. ASSUME NEW b \in Hash, InvalidateBlock(b) PROVE IndexOK'
  BY <1>0, <1>2, <1>4 DEF InvalidateBlock, IndexOK
<1>5. CASE FlushStateToDisk
  BY <1>0, <1>2, <1>5 DEF FlushStateToDisk, IndexOK
<1>6. CASE Restart
  <2>1. have' = disk.have /\ failed' = disk.failed /\ disk' = disk /\ tip' \in have'
    BY <1>6 DEF Restart
  <2>2. /\ disk.have \subseteq have /\ disk.failed \subseteq failed
        /\ disk = [have |-> disk.have, failed |-> disk.failed]
    BY <1>0 DEF IndexOK
  <2>3. disk' \in [have : SUBSET have', failed : SUBSET failed']
    BY <2>1, <2>2
  <2>4. have' \subseteq Emitted' /\ failed' \subseteq have' /\ tip' \in have' /\ 0 \notin failed'
    BY <1>0, <1>2, <2>1, <2>2 DEF IndexOK
  <2>5. (disk.failed)' \subseteq (disk.have)' /\ 0 \in (disk.have)'
    BY <1>0, <2>1 DEF IndexOK
  <2> QED
    BY <1>1, <2>3, <2>4, <2>5 DEF IndexOK
<1>7. CASE HatChanges
  BY <1>0, <1>2, <1>7 DEF HatChanges, IndexOK, chainVars
<1>8. CASE Tick
  BY <1>0, <1>2, <1>8 DEF Tick, IndexOK, chainVars
<1> QED
  BY <1>1, <1>3, <1>4, <1>5, <1>6, <1>7, <1>8 DEF Surroundings

LEMMA SurroundingsType ==
    ASSUME TreeInv, Surroundings
    PROVE  TypeOK' /\ DraftOK'
<1>0. TypeOK /\ DraftOK
  BY DEF TreeInv
<1>1. UNCHANGED block /\ IndexOK' /\ Emitted' = Emitted /\ \A b : Height(b)' = Height(b)
  BY SurroundingsIndex, TreeUnchanged
<1>2. block' \in [Hash -> Block \cup {NoBlock}]
  BY <1>0, <1>1 DEF TypeOK
<1>3. CASE Restart
  <2>1. /\ pc' = "asleep" /\ now' \in Nat /\ base' \in Emitted'
        /\ draft' \in [parent : Emitted', height : Nat, time : Int, cbHeight : Nat]
        /\ pace' \in {"free", "due", "ran"}
    BY <1>1, <1>3, SleepType DEF Restart
  <2>2. clock' \in Nat /\ hat' = FALSE /\ lastSlot' \in Int /\ lastMinute' \in Int
        /\ mine' = {} /\ lastEmit' \in Int
    BY <1>0, <1>3 DEF Restart, TypeOK
  <2> QED
    BY <1>1, <1>2, <2>1, <2>2 DEF TypeOK, DraftOK, IndexOK
<1>4. CASE ~Restart
  <2>1. UNCHANGED <<pc, now, base, draft, lastSlot, lastMinute, mine, lastEmit>>
    BY <1>4 DEF Surroundings, PeerBlock, InvalidateBlock, FlushStateToDisk, HatChanges, Tick,
       loopVars, latches, history
  <2>2. clock' \in Nat
    <3>1. clock' = clock \/ clock' = clock + 1
      BY <1>4 DEF Surroundings, PeerBlock, InvalidateBlock, FlushStateToDisk, HatChanges, Tick
    <3> QED
      BY <3>1, <1>0 DEF TypeOK
  <2>3. hat' \in BOOLEAN /\ pace' \in {"free", "due", "ran"}
    BY <1>0, <1>4 DEF Surroundings, PeerBlock, InvalidateBlock, FlushStateToDisk, HatChanges,
       Tick, TypeOK
  <2> QED
    BY <1>0, <1>1, <1>2, <2>1, <2>2, <2>3 DEF TypeOK, DraftOK, IndexOK
<1> QED
  BY <1>3, <1>4

LEMMA TreeStep == TreeInv /\ [Next]_vars => TreeInv'
<1> SUFFICES ASSUME TreeInv, [Next]_vars PROVE TreeInv'
  OBVIOUS
<1>1. CASE UNCHANGED vars
  BY <1>1 DEF TreeInv, TypeOK, GenesisKept, DraftOK, ChainOK, InSlot, Emitted, Height,
     vars, chainVars, loopVars, latches, history
<1>2. CASE QuietLoop
  <2>1. UNCHANGED <<clock, block, have, failed, tip, disk, hat, mine, lastEmit>>
    BY <1>2, QuietLoopType DEF chainVars, history
  <2>2. TypeOK'
    BY <1>2, <2>1, QuietLoopType, TreeUnchanged DEF TreeInv, TypeOK
  <2> QED
    BY <1>2, <2>1, <2>2, QuietLoopType, TreeUnchanged DEF TreeInv, GenesisKept
<1>3. CASE ProcessNewBlock
  <2>1. CASE DraftAccepted
    <3>1. PICK b \in Hash : Emit(b)
      BY <1>3, <2>1 DEF ProcessNewBlock
    <3>2. /\ pc = "process" /\ pc' = "latch"
          /\ UNCHANGED <<pace, now, base, draft, clock, failed, disk, hat, lastSlot, lastMinute>>
      BY <1>3, <2>1 DEF ProcessNewBlock, GoOn, loopVars, latches
    <3>3. /\ Emitted' = Emitted \cup {b} /\ b \notin Emitted
          /\ block' \in [Hash -> Block \cup {NoBlock}]
          /\ \A a \in Emitted' : ChainOK(a)' /\ InSlot(a)'
          /\ \A a \in Emitted : block'[a] = block[a]
      BY <2>1, <3>1, <3>2, TreeEmit
    <3>4. have' = have \cup {b} /\ tip' \in have' /\ mine' = mine \cup {b} /\ lastEmit' = Minute(clock)
      BY <3>1 DEF Emit
    <3>5. lastEmit' \in Int
      BY <3>4, SlotOfTime DEF TreeInv, TypeOK
    <3>6. TypeOK'
      BY <3>2, <3>3, <3>4, <3>5 DEF TreeInv, TypeOK
    <3>7. GenesisKept'
      BY <3>2, <3>3 DEF TreeInv, TypeOK, GenesisKept
    <3> QED
      BY <3>2, <3>3, <3>6, <3>7 DEF TreeInv, DraftOK
  <2>2. CASE ~DraftAccepted
    <3>1. /\ Sleep /\ UNCHANGED <<block, have, tip, mine, lastEmit, clock, failed, disk, hat,
                                  lastSlot, lastMinute>>
      BY <1>3, <2>2 DEF ProcessNewBlock, history, latches
    <3>2. TypeOK'
      BY <3>1, SleepType, TreeUnchanged DEF TreeInv, TypeOK
    <3> QED
      BY <3>1, <3>2, SleepType, TreeUnchanged DEF TreeInv, GenesisKept, DraftOK
  <2> QED
    BY <2>1, <2>2
<1>4. CASE Surroundings
  BY <1>4, SurroundingsIndex, SurroundingsType, TreeUnchanged DEF TreeInv, GenesisKept, IndexOK
<1> QED
  BY <1>1, <1>2, <1>3, <1>4 DEF Next, Produce, QuietLoop, Surroundings

LEMMA TreeInvariant == Spec => []TreeInv
  BY TreeInit, TreeStep, PTL DEF Spec

\* The variables keep their types: the tip, the loop's own tip and the draft are
\* blocks that exist, through crashes that lose part of the index and races that
\* change the chain under the loop.
THEOREM ProducerTypeCorrect == Spec => []TypeOK
<1>1. TreeInv => TypeOK
  BY DEF TreeInv
<1> QED
  BY <1>1, TreeInvariant, PTL

\* Every block's median time past comes before the slot of a child, so that
\* ClampTimeToSlot never leaves the slot.
THEOREM MedianStaysBelow == Spec => []MedianBelowSlot
<1>1. TreeInv => MedianBelowSlot
  BY MedianFacts DEF TreeInv, MedianBelowSlot
<1> QED
  BY <1>1, TreeInvariant, PTL

\* A chain has one block at each height, so as many of a range of heights as the
\* range is long.
LEMMA HeightsCounted ==
    ASSUME TreeInv, NEW b \in Emitted, NEW lo \in Nat, NEW hi \in Int, hi <= Height(b)
    PROVE  Cardinality({a \in block[b].chain : Height(a) \in lo..hi})
               = IF lo > hi THEN 0 ELSE hi - lo + 1
<1> DEFINE S == {a \in block[b].chain : Height(a) \in lo..hi}
           F == [a \in S |-> Height(a)]
<1>1. ChainOK(b) /\ Height(b) \in Nat
  BY EmittedBlock DEF TreeInv
<1>2. F \in [S -> lo..hi]
  OBVIOUS
<1>3. \A x, y \in S : F[x] = F[y] => x = y
  BY <1>1 DEF ChainOK
<1>4. \A k \in lo..hi : \E x \in S : F[x] = k
  BY <1>1 DEF ChainOK
<1> HIDE DEF S, F
<1>5. F \in Bijection(S, lo..hi)
  BY <1>2, <1>3, <1>4, Fun_IsBij
<1>6. ExistsBijection(S, lo..hi)
  BY <1>5, Fun_ExistsBij
<1>7. ExistsBijection(lo..hi, S)
  BY <1>6, Fun_ExistsBijSymmetric
<1>8. IsFiniteSet(lo..hi) /\ Cardinality(lo..hi) = IF lo > hi THEN 0 ELSE hi - lo + 1
  BY FS_Interval
<1>9. Cardinality(S) = Cardinality(lo..hi)
  BY <1>7, <1>8, FS_Bijection
<1> QED
  BY <1>8, <1>9 DEF S

\* In a chain times are ordered as heights are.
LEMMA TimesOrdered ==
    ASSUME TreeInv, NEW a \in Emitted, NEW c \in Emitted, Height(a) < Height(c)
    PROVE  block[a].time < block[c].time
<1>1. /\ Height(a) \in Nat /\ Height(c) \in Nat
      /\ block[a].time \in Nat /\ block[c].time \in Nat
  BY EmittedBlock DEF TreeInv
<1>2. SlotStartTime(Height(a) + 1) <= SlotStartTime(Height(c))
  BY <1>1, SlotStartMono
<1>3. /\ SlotStartTime(Height(a) + 1) = SlotStartTime(Height(a)) + SlotLen
      /\ SlotStartTime(Height(a)) \in Nat /\ SlotStartTime(Height(c)) \in Nat
  BY <1>1, SlotFacts
<1>4. InSlot(a) /\ InSlot(c)
  BY DEF TreeInv
<1> QED
  BY <1>1, <1>2, <1>3, <1>4, SlotAssumption DEF InSlot

\* The middle of a range of heights, by the halves on its two sides.
LEMMA MedianSplits ==
    ASSUME NEW h \in Nat
    PROVE  \E low \in Nat :
               /\ low <= h
               /\ \A k \in Int : k \in 0..h => (k > h - MedianSpan <=> k \in low..h)
               /\ low <= MedianHeight(h)
               /\ MedianHeight(h) - low = (h - low + 1) \div 2
<1> DEFINE low == IF h < MedianSpan THEN 0 ELSE h - MedianSpan + 1
<1>1. low \in Nat /\ low <= h
  BY ProducerAssumption
<1>2. \A k \in Int : k \in 0..h => (k > h - MedianSpan <=> k \in low..h)
  BY ProducerAssumption
<1>3. MedianHeight(h) = low + ((h - low + 1) \div 2)
  BY DEF MedianHeight
<1> HIDE DEF low
<1>4. (h - low + 1) \div 2 \in Nat
  BY <1>1
<1> QED
  BY <1>1, <1>2, <1>3, <1>4

\* The median time past, which the model finds by its height, is the entry at index
\* n \div 2 of the last n times sorted, as GetMedianTimePast has it.
THEOREM MedianIsTheMiddle == Spec => []MedianIsMedian
<1>1. TreeInv => MedianIsMedian
  <2> SUFFICES ASSUME TreeInv, NEW b \in Emitted
               PROVE  LET last == {a \in block[b].chain : Height(a) > Height(b) - MedianSpan}
                          below == {a \in last : block[a].time < MedianTimePast(b)}
                      IN  Cardinality(below) = Cardinality(last) \div 2
    BY DEF MedianIsMedian
  <2> DEFINE last == {a \in block[b].chain : Height(a) > Height(b) - MedianSpan}
             below == {a \in last : block[a].time < MedianTimePast(b)}
             m == CHOOSE a \in block[b].chain : Height(a) = MedianHeight(Height(b))
  <2>1. ChainOK(b) /\ Height(b) \in Nat /\ MedianHeight(Height(b)) \in 0..Height(b)
    BY EmittedBlock, MedianHeightInRange DEF TreeInv
  <2>2. m \in block[b].chain /\ Height(m) = MedianHeight(Height(b))
    BY <2>1 DEF ChainOK
  <2>3. MedianTimePast(b) = block[m].time
    BY DEF MedianTimePast
  <2>4. PICK low \in Nat :
             /\ low <= Height(b)
             /\ \A k \in Int : k \in 0..Height(b) =>
                    (k > Height(b) - MedianSpan <=> k \in low..Height(b))
             /\ low <= MedianHeight(Height(b))
             /\ MedianHeight(Height(b)) - low = (Height(b) - low + 1) \div 2
    BY <2>1, MedianSplits
  <2>5. \A a \in block[b].chain : a \in Emitted /\ Height(a) \in 0..Height(b)
    BY <2>1, EmittedBlock DEF ChainOK, TreeInv
  <2>6. last = {a \in block[b].chain : Height(a) \in low..Height(b)}
    BY <2>4, <2>5
  <2> HIDE DEF m
  <2>7. \A a \in block[b].chain : block[a].time < block[m].time <=> Height(a) < Height(m)
    <3> SUFFICES ASSUME NEW a \in block[b].chain
                 PROVE  block[a].time < block[m].time <=> Height(a) < Height(m)
      OBVIOUS
    <3>1. /\ a \in Emitted /\ m \in Emitted /\ Height(a) \in Nat /\ Height(m) \in Nat
          /\ block[a].time \in Nat /\ block[m].time \in Nat
      BY <2>2, <2>5, EmittedBlock DEF TreeInv
    <3>2. Height(a) = Height(m) => a = m
      BY <2>1, <2>2 DEF ChainOK
    <3> QED
      BY <3>1, <3>2, TimesOrdered
  <2>8. below = {a \in block[b].chain : Height(a) \in low..(MedianHeight(Height(b)) - 1)}
    BY <2>1, <2>2, <2>3, <2>4, <2>5, <2>6, <2>7
  <2>9. Cardinality(last) = Height(b) - low + 1
    BY <2>1, <2>4, <2>6, HeightsCounted
  <2>10. Cardinality(below) = MedianHeight(Height(b)) - low
    <3> DEFINE hi == MedianHeight(Height(b)) - 1
    <3>1. hi \in Int /\ hi <= Height(b) /\ below = {a \in block[b].chain : Height(a) \in low..hi}
      BY <2>1, <2>8
    <3> HIDE DEF hi, below
    <3>2. Cardinality(below) = IF low > hi THEN 0 ELSE hi - low + 1
      BY <3>1, HeightsCounted
    <3> QED
      BY <2>1, <2>4, <3>2 DEF hi
  <2> QED
    BY <2>4, <2>9, <2>10
<1> QED
  BY <1>1, TreeInvariant, PTL

-----------------------------------------------------------------------------
(* Minutes and slots at which blocks are emitted.                          *)

\* What a step does to the tree, the clock and the place in the loop.
LEMMA StepShape ==
    ASSUME TreeInv, [Next]_vars
    PROVE  /\ clock' = clock \/ clock' = clock + 1
           /\ block' # block => ProcessNewBlock /\ DraftAccepted
           /\ pc' = "stamp" /\ pc # "stamp" => CreateNewBlock /\ TemplateValid
           /\ pc' = "process" /\ pc # "process" => StampTime
<1>1. CASE UNCHANGED vars
  BY <1>1 DEF vars, chainVars
<1>2. CASE Produce
  <2>1. clock' = clock
    BY <1>2 DEF Produce, Wake, ReadTip, LookForSibling, ComputeDraw, CreateNewBlock, StampTime,
       ProcessNewBlock, SetLatches
  <2>2. block' # block => ProcessNewBlock /\ DraftAccepted
    BY <1>2 DEF Produce, Wake, ReadTip, LookForSibling, ComputeDraw, CreateNewBlock, StampTime,
       ProcessNewBlock, SetLatches, chainVars
  <2>3. /\ pc' = "stamp" /\ pc # "stamp" => CreateNewBlock /\ TemplateValid
        /\ pc' = "process" /\ pc # "process" => StampTime
    BY <1>2 DEF Produce, Wake, ReadTip, LookForSibling, ComputeDraw, CreateNewBlock, StampTime,
       ProcessNewBlock, SetLatches, Sleep, GoOn
  <2> QED
    BY <2>1, <2>2, <2>3
<1>3. CASE Surroundings
  <2>1. clock' = clock \/ clock' = clock + 1
    BY <1>3 DEF Surroundings, PeerBlock, InvalidateBlock, FlushStateToDisk, Restart, HatChanges, Tick
  <2>2. pc' = pc \/ pc' = "asleep"
    BY <1>3 DEF Surroundings, PeerBlock, InvalidateBlock, FlushStateToDisk, Restart, HatChanges,
       Tick, Sleep
  <2> QED
    BY <1>3, <2>1, <2>2, SurroundingsIndex
<1> QED
  BY <1>1, <1>2, <1>3 DEF Next, Surroundings

\* A template in time: it is not made once the minute of its height has passed.
LEMMA TemplateInTime ==
    ASSUME TreeInv, TemplateValid
    PROVE  Minute(clock) <= SlotFromHeight(Height(tip) + 1)
<1> DEFINE h == Height(tip) + 1
<1>1. tip \in Emitted /\ Height(tip) \in Nat /\ h \in Nat /\ clock \in Nat /\ MedianTimePast(tip) \in Nat
  BY EmittedBlock, MedianFacts DEF TreeInv, TypeOK
<1>2. clock <= TemplateTime /\ TemplateTime \in Nat
  BY <1>1 DEF TemplateTime
<1>3. TemplateTime < SlotStartTime(h) + SlotLen
  BY <1>1 DEF TemplateValid, HeaderOK, CheckBlockTime
<1>4. SlotStartTime(h + 1) = SlotStartTime(h) + SlotLen /\ SlotFromHeight(h + 1) = SlotFromHeight(h) + 1
      /\ SlotFromHeight(h) \in Nat /\ SlotStartTime(h) \in Nat
  BY <1>1, SlotFacts
<1>5. ~(Minute(clock) >= SlotFromHeight(h + 1)) /\ Minute(clock) \in Nat
  <2>1. h + 1 \in Nat
    BY <1>1
  <2> HIDE DEF h
  <2>2. ~(clock >= SlotStartTime(h + 1))
    BY <1>1, <1>2, <1>3, <1>4, SlotAssumption
  <2> QED
    BY <2>1, <2>2, <1>1, SlotOfTime
<1> HIDE DEF h
<1>6. Minute(clock) <= SlotFromHeight(h)
  BY <1>4, <1>5
<1> QED
  BY <1>6 DEF h

\* A missed minute is final: no step of the loop, of a peer, of the operator or
\* of a restart leads out of a state in which every block's next minute has gone
\* by, and none of them emits a block.
THEOREM MissedForEver == Spec => MissedMinuteIsFinal
<1>1. TreeInv /\ [Next]_vars => [Missed => Missed' /\ block' = block]_vars
  <2> SUFFICES ASSUME TreeInv, [Next]_vars, Missed PROVE Missed' /\ block' = block
    OBVIOUS
  <2>1. block' = block
    BY StepShape DEF Missed, ProcessNewBlock
  <2>2. Emitted' = Emitted /\ \A b : Height(b)' = Height(b)
    BY <2>1, TreeUnchanged
  <2>3. clock \in Nat /\ clock' \in Nat /\ clock <= clock'
    BY StepShape DEF TreeInv, TypeOK
  <2>4. /\ Minute(clock) <= Minute(clock') /\ Minute(clock) \in Nat /\ Minute(clock') \in Nat
        /\ SlotFromTime(clock) = Minute(clock) /\ SlotFromTime(clock') = Minute(clock')
    BY <2>3, MinuteMono, SlotOfTime DEF Minute
  <2>5. ASSUME NEW b \in Emitted
        PROVE  SlotFromTime(clock') > SlotFromHeight(Height(b) + 1)
    <3>1. SlotFromHeight(Height(b) + 1) \in Nat
      BY EmittedBlock, SlotFacts DEF TreeInv
    <3>2. SlotFromTime(clock) > SlotFromHeight(Height(b) + 1)
      BY DEF Missed
    <3> QED
      BY <3>1, <3>2, <2>4
  <2>6. pc' \notin {"stamp", "process"}
    <3>1. ~TemplateValid
      <4>1. tip \in Emitted /\ SlotFromHeight(Height(tip) + 1) \in Nat
        BY EmittedBlock, SlotFacts DEF TreeInv, TypeOK
      <4>2. Minute(clock) > SlotFromHeight(Height(tip) + 1)
        BY <4>1, <2>4 DEF Missed
      <4> QED
        BY <4>1, <4>2, <2>4, TemplateInTime
    <3> QED
      BY <3>1, StepShape DEF Missed, StampTime
  <2> QED
    BY <2>1, <2>2, <2>5, <2>6 DEF Missed
<1> QED
  BY <1>1, TreeInvariant, PTL DEF Spec, MissedMinuteIsFinal

\* The wall-minute latch is behind the clock, and strictly so from the moment the
\* loop has consulted it; it covers the last block except while it is being set.
Busy == pc \in {"look", "draw", "create", "stamp", "process"}

MinuteInv ==
    /\ lastEmit <= Minute(clock)
    /\ lastMinute <= Minute(clock)
    /\ pc # "latch" => lastEmit <= lastMinute
    /\ Main /\ Busy => lastMinute < Minute(clock)

LEMMA MinuteInit == Init => MinuteInv
  BY SlotAssumption, SlotOfTime DEF Init, MinuteInv, Busy

LEMMA MinuteStep == TreeInv /\ MinuteInv /\ [Next]_vars => MinuteInv'
<1> SUFFICES ASSUME TreeInv, MinuteInv, [Next]_vars PROVE MinuteInv'
  OBVIOUS
<1>0. /\ clock \in Nat /\ clock' \in Nat /\ clock <= clock'
      /\ Minute(clock) \in Nat /\ Minute(clock') \in Nat /\ Minute(clock) <= Minute(clock')
      /\ lastEmit \in Int /\ lastMinute \in Int
  <2>1. clock \in Nat /\ clock' \in Nat /\ clock <= clock' /\ lastEmit \in Int /\ lastMinute \in Int
    BY StepShape DEF TreeInv, TypeOK
  <2> QED
    BY <2>1, MinuteMono, SlotOfTime DEF Minute
<1>1. ASSUME UNCHANGED <<lastEmit, lastMinute>>, pc' = "latch" => pc = "latch", Busy' => Busy,
             pc = "latch" => pc' = "latch"
      PROVE  MinuteInv'
  BY <1>0, <1>1 DEF MinuteInv
<1>2. CASE UNCHANGED vars
  BY <1>1, <1>2 DEF vars, history, latches, Busy
<1>3. CASE Wake
  BY <1>1, <1>3 DEF Wake, GoOn, latches, history, Busy
<1>4. CASE ReadTip
  <2>1. CASE MayTry(SlotFromHeight(Height(tip) + 1))
    BY <1>0, <1>4, <2>1 DEF ReadTip, MayTry, GoOn, latches, history, MinuteInv, Busy
  <2>2. CASE ~MayTry(SlotFromHeight(Height(tip) + 1))
    BY <1>1, <1>4, <2>2 DEF ReadTip, Sleep, latches, history, Busy
  <2> QED
    BY <2>1, <2>2
<1>5. CASE LookForSibling
  BY <1>1, <1>5 DEF LookForSibling, Sleep, GoOn, history, Busy
<1>6. CASE ComputeDraw
  BY <1>1, <1>6 DEF ComputeDraw, Sleep, GoOn, latches, history, Busy
<1>7. CASE CreateNewBlock
  BY <1>1, <1>7 DEF CreateNewBlock, Sleep, GoOn, latches, history, Busy
<1>8. CASE StampTime
  BY <1>1, <1>8 DEF StampTime, GoOn, latches, history, Busy
<1>9. CASE ProcessNewBlock
  <2>1. CASE DraftAccepted
    <3>1. pc' = "latch" /\ lastEmit' = Minute(clock) /\ UNCHANGED <<clock, lastMinute>>
      BY <1>9, <2>1 DEF ProcessNewBlock, Emit, GoOn, latches
    <3> QED
      BY <3>1, <1>0 DEF MinuteInv, Busy
  <2>2. CASE ~DraftAccepted
    BY <1>1, <1>9, <2>2 DEF ProcessNewBlock, Sleep, latches, history, Busy
  <2> QED
    BY <2>1, <2>2
<1>10. CASE SetLatches
  <2>1. pc' = "asleep" /\ lastMinute' = Minute(clock) /\ UNCHANGED <<clock, lastEmit>>
    BY <1>10 DEF SetLatches, Sleep, history
  <2> QED
    BY <2>1, <1>0 DEF MinuteInv, Busy
<1>11. CASE Restart
  <2>1. pc' = "asleep" /\ lastMinute' = -1 /\ lastEmit' = -1
    BY <1>11 DEF Restart, Sleep
  <2> QED
    BY <2>1, <1>0 DEF MinuteInv, Busy
<1>12. CASE Surroundings /\ ~Restart
  <2>1. UNCHANGED <<pc, lastMinute, lastEmit>>
    BY <1>12 DEF Surroundings, PeerBlock, InvalidateBlock, FlushStateToDisk, HatChanges, Tick,
       latches, history
  <2> QED
    BY <1>1, <2>1 DEF Busy
<1> QED
  BY <1>2, <1>3, <1>4, <1>5, <1>6, <1>7, <1>8, <1>9, <1>10, <1>11, <1>12
  DEF Next, Produce, Surroundings

LEMMA MinuteInvariant == Spec => [](TreeInv /\ MinuteInv)
  BY TreeInit, TreeStep, MinuteInit, MinuteStep, PTL DEF Spec

\* On main one life of the process emits at most one block in a wall-clock
\* minute: the latch, although set from a clock read after the block is out, is
\* never behind the block's minute when the loop consults it again.
THEOREM OneBlockAMinute == Spec => OneEmitPerMinute
<1>1. TreeInv /\ MinuteInv /\ [Next]_vars => [Main /\ block' # block => Minute(clock) > lastEmit]_vars
  <2> SUFFICES ASSUME TreeInv, MinuteInv, [Next]_vars, Main, block' # block
               PROVE  Minute(clock) > lastEmit
    OBVIOUS
  <2>1. pc = "process"
    BY StepShape DEF ProcessNewBlock
  <2>2. lastEmit \in Int /\ lastMinute \in Int /\ Minute(clock) \in Nat
    BY SlotOfTime DEF TreeInv, TypeOK
  <2> QED
    BY <2>1, <2>2 DEF MinuteInv, Busy
<1> QED
  BY <1>1, MinuteInvariant, PTL DEF Spec, OneEmitPerMinute

\* No block is from the future, and one that is not in the index is from the past.
TimesPast ==
    \A b \in Emitted : block[b].time <= clock /\ (b \notin have => block[b].time < clock)

\* On main a block of this very second is the last one of this process.
LatchedSecond ==
    Main => \A b \in Emitted \ {0} : block[b].time = clock => Minute(clock) <= lastEmit

\* On test the slot of the tip read has begun, and no block of this very second
\* has come on top of it.
BaseSettled ==
    ~Main /\ pc \in {"look", "draw", "create"} =>
        /\ now >= SlotStartTime(Height(base) + 1)
        /\ \A b \in Candidates(have, failed, block) :
               block[b].time = clock => Height(b) <= Height(base)

\* The template was not early, nor is the time stamped in it.
DraftInTime ==
    /\ pc \in {"stamp", "process"} => clock >= SlotStartTime(draft.height)
    /\ pc = "process" /\ draft.cbHeight = draft.height => draft.time <= clock

TimeInv ==
    /\ TimesPast
    /\ IsBest(tip, have, failed, block)
    /\ now <= clock
    /\ LatchedSecond
    /\ BaseSettled
    /\ DraftInTime

LEMMA TimeInit == Init => TimeInv
<1> SUFFICES ASSUME Init PROVE TimeInv
  OBVIOUS
<1>1. Emitted = {0} /\ block[0] = Genesis
  BY ProducerAssumption, SlotAssumption, NoBlockAssumption DEF Init, Emitted, Genesis, Block
<1>2. TimesPast /\ LatchedSecond
  BY <1>1, SlotAssumption DEF Init, Genesis, TimesPast, LatchedSecond
<1>3. IsBest(tip, have, failed, block)
  BY <1>1 DEF Init, IsBest, Candidates, PreferLotteryFork, Genesis
<1>4. now <= clock /\ BaseSettled /\ DraftInTime
  BY SlotAssumption DEF Init, BaseSettled, DraftInTime
<1> QED
  BY <1>2, <1>3, <1>4 DEF TimeInv

\* A template that TestBlockValidity lets pass is not early, although its time may
\* be a second ahead of the clock: that takes a tip stamped in this second, and
\* the latch on main and the settle check on test keep the loop from it.
LEMMA TemplateNotEarly ==
    ASSUME TreeInv, MinuteInv, TimeInv, pc = "create", TemplateValid
    PROVE  clock >= SlotStartTime(Height(tip) + 1)
<1> DEFINE h == Height(tip) + 1
<1>1. /\ tip \in Emitted /\ Height(tip) \in Nat /\ h \in Nat /\ clock \in Nat
      /\ MedianTimePast(tip) \in Nat /\ MedianTimePast(tip) < SlotStartTime(h)
      /\ SlotStartTime(h) \in Nat /\ SlotStartTime(Height(tip)) \in Nat
      /\ SlotStartTime(h) = SlotStartTime(Height(tip)) + SlotLen
  BY EmittedBlock, MedianFacts, SlotFacts DEF TreeInv, TypeOK
<1>2. TemplateTime >= SlotStartTime(h)
  BY <1>1 DEF TemplateValid, HeaderOK, CheckBlockTime
<1> SUFFICES ASSUME clock < SlotStartTime(h) PROVE FALSE
  BY <1>1
<1> HIDE DEF h
<1>3. clock <= MedianTimePast(tip) /\ MedianTimePast(tip) + 1 >= SlotStartTime(h)
  BY <1>1, <1>2 DEF TemplateTime
<1>4. PICK a \in block[tip].chain : MedianTimePast(tip) = block[a].time
  BY <1>1, MedianFacts DEF TreeInv
<1>5. /\ a \in Emitted /\ Height(a) \in Nat /\ Height(a) <= Height(tip)
      /\ Height(a) = Height(tip) => a = tip
  BY <1>1, EmittedBlock DEF TreeInv, ChainOK
<1>6. block[a].time = clock /\ clock + 1 = SlotStartTime(h)
  BY <1>1, <1>3, <1>4, <1>5 DEF TimeInv, TimesPast
<1>7. a = tip
  <2> SUFFICES ASSUME Height(a) < Height(tip) PROVE FALSE
    BY <1>1, <1>5
  <2>1. Height(a) + 1 \in Nat /\ Height(a) + 1 <= Height(tip)
    BY <1>1, <1>5
  <2>2. SlotStartTime(Height(a) + 1) <= SlotStartTime(Height(tip))
    BY <1>1, <2>1, SlotStartMono
  <2>3. /\ SlotStartTime(Height(a) + 1) = SlotStartTime(Height(a)) + SlotLen
        /\ SlotStartTime(Height(a)) \in Nat
    BY <1>5, SlotFacts
  <2>4. block[a].time < SlotStartTime(Height(a)) + SlotLen
    BY <1>5 DEF TreeInv, InSlot
  <2> QED
    BY <1>1, <1>6, <2>2, <2>3, <2>4, SlotAssumption, ProducerAssumption
<1>8. tip # 0
  BY <1>1, <1>6, <1>7, GenesisInSlot DEF TreeInv, GenesisKept, Genesis, Height, h
<1>9. CASE Main
  <2>1. Minute(clock) <= lastEmit
    BY <1>1, <1>6, <1>7, <1>8, <1>9 DEF TimeInv, LatchedSecond
  <2>2. lastEmit \in Int /\ lastMinute \in Int /\ Minute(clock) \in Nat
    BY SlotOfTime DEF TreeInv, TypeOK
  <2> QED
    BY <1>9, <2>1, <2>2 DEF MinuteInv, Busy
<1>10. CASE ~Main
  <2>1. tip \in Candidates(have, failed, block)
    BY DEF TimeInv, IsBest
  <2>2. Height(tip) <= Height(base) /\ now >= SlotStartTime(Height(base) + 1)
    BY <1>6, <1>7, <1>10, <2>1 DEF TimeInv, BaseSettled
  <2>3. Height(base) \in Nat /\ now \in Nat
    BY EmittedBlock DEF TreeInv, TypeOK
  <2>4. h <= Height(base) + 1
    BY <1>1, <2>2, <2>3 DEF h
  <2>5. SlotStartTime(h) <= SlotStartTime(Height(base) + 1) /\ SlotStartTime(Height(base) + 1) \in Nat
    BY <1>1, <2>3, <2>4, SlotStartMono, SlotFacts
  <2> QED
    BY <1>1, <2>2, <2>3, <2>5 DEF TimeInv
<1> QED
  BY <1>9, <1>10

\* A time clamped inside a slot that has begun is not in the future.
LEMMA ClampNotLate ==
    ASSUME NEW h \in Nat, NEW t \in Nat, NEW m \in Nat,
           t >= SlotStartTime(h), m < SlotStartTime(h)
    PROVE  ClampTimeToSlot(h, t, m) <= t
  BY SlotFacts, SlotAssumption DEF ClampTimeToSlot

\* The draft a step of the loop leaves is in time.
LEMMA DraftTimeStep ==
    ASSUME TreeInv, MinuteInv, TimeInv, [Next]_vars
    PROVE  DraftInTime'
<1>0. /\ clock \in Nat /\ clock' \in Nat /\ clock <= clock' /\ tip \in Emitted
      /\ Height(tip) + 1 \in Nat /\ draft.height \in Nat /\ draft.time \in Int
      /\ SlotStartTime(Height(tip) + 1) \in Nat /\ SlotStartTime(draft.height) \in Nat
      /\ MedianTimePast(tip) \in Nat /\ MedianTimePast(tip) < SlotStartTime(Height(tip) + 1)
  BY StepShape, EmittedBlock, MedianFacts, SlotFacts DEF TreeInv, TypeOK
<1>1. CASE pc' \notin {"stamp", "process"}
  BY <1>1 DEF DraftInTime
<1>2. CASE CreateNewBlock /\ TemplateValid
  <2>1. clock' = clock /\ pc' = "stamp" /\ draft'.height = Height(tip) + 1
    BY <1>2 DEF CreateNewBlock, GoOn
  <2>2. clock >= SlotStartTime(Height(tip) + 1)
    BY <1>2, TemplateNotEarly DEF CreateNewBlock
  <2> QED
    BY <2>1, <2>2 DEF DraftInTime
<1>3. CASE StampTime
  <2> DEFINE c == ClampTimeToSlot(Height(tip) + 1, clock, MedianTimePast(tip))
             g == Height(tip) + 1
  <2>1. /\ pc = "stamp" /\ pc' = "process" /\ clock' = clock
        /\ draft' = [draft EXCEPT !.cbHeight = g, !.time = c]
        /\ draft \in [parent : Emitted, height : Nat, time : Int, cbHeight : Nat]
    BY <1>3 DEF StampTime, GoOn, TreeInv, TypeOK
  <2>2. g = draft.height /\ clock >= SlotStartTime(draft.height) => c <= clock
    BY <1>0, ClampNotLate
  <2> HIDE DEF c, g
  <2>3. draft'.height = draft.height /\ draft'.cbHeight = g /\ draft'.time = c
    BY <2>1
  <2>4. clock >= SlotStartTime(draft.height)
    BY <2>1 DEF TimeInv, DraftInTime
  <2> QED
    BY <2>1, <2>2, <2>3, <2>4 DEF DraftInTime
<1>4. CASE UNCHANGED <<pc, draft>>
  BY <1>0, <1>4 DEF TimeInv, DraftInTime
<1>5. \/ pc' \notin {"stamp", "process"} \/ (CreateNewBlock /\ TemplateValid) \/ StampTime
      \/ UNCHANGED <<pc, draft>>
  BY DEF Next, Produce, Wake, ReadTip, LookForSibling, ComputeDraw, CreateNewBlock, StampTime,
     ProcessNewBlock, SetLatches, Sleep, GoOn, PeerBlock, InvalidateBlock, FlushStateToDisk, Restart,
     HatChanges, Tick, vars, loopVars
<1> QED
  BY <1>1, <1>2, <1>3, <1>4, <1>5

\* The rest of TimeInv, for a step that emits a block.
LEMMA TimeEmit ==
    ASSUME TreeInv, MinuteInv, TimeInv, ProcessNewBlock, DraftAccepted
    PROVE  TimesPast' /\ IsBest(tip, have, failed, block)' /\ (now <= clock)' /\ LatchedSecond'
           /\ BaseSettled'
<1>1. PICK b \in Hash : Emit(b)
  BY DEF ProcessNewBlock
<1>2. pc = "process" /\ pc' = "latch" /\ UNCHANGED <<clock, failed, now>>
  BY DEF ProcessNewBlock, GoOn, loopVars
<1>3. /\ Emitted' = Emitted \cup {b} /\ \A a \in Emitted : block'[a] = block[a]
      /\ block'[b].time = draft.time
  BY <1>1, <1>2, TreeEmit
<1>4. have' = have \cup {b} /\ lastEmit' = Minute(clock)
  BY <1>1 DEF Emit
<1>5. draft.time <= clock
  BY <1>2 DEF DraftAccepted, TimeInv, DraftInTime
<1>6. TimesPast'
  BY <1>2, <1>3, <1>4, <1>5 DEF TimeInv, TimesPast
<1>7. IsBest(tip, have, failed, block)'
  BY <1>1, <1>2 DEF Emit
<1>8. LatchedSecond'
  BY <1>2, <1>4, SlotOfTime DEF LatchedSecond, TreeInv, TypeOK
<1> QED
  BY <1>2, <1>6, <1>7, <1>8 DEF BaseSettled, TimeInv

\* For a second that passes: no block is of the new second.
LEMMA TimePasses ==
    ASSUME TreeInv, TimeInv, [Next]_vars, clock' = clock + 1, UNCHANGED block
    PROVE  /\ \A b \in Emitted' : block'[b].time < clock'
           /\ TimesPast' /\ LatchedSecond'
<1>1. Emitted' = Emitted /\ clock \in Nat /\ \A b \in Emitted : block[b].time \in Nat
  BY TreeUnchanged, EmittedBlock DEF TreeInv, TypeOK
<1>2. \A b \in Emitted' : block'[b].time < clock'
  BY <1>1 DEF TimeInv, TimesPast
<1> QED
  BY <1>1, <1>2 DEF TimesPast, LatchedSecond

\* For the steps of the loop that emit nothing.
LEMMA TimeQuiet ==
    ASSUME TreeInv, TimeInv, UNCHANGED <<clock, block, have, failed, tip, lastEmit>>,
           now' = now \/ now' = 0 \/ now' = clock
    PROVE  TimesPast' /\ IsBest(tip, have, failed, block)' /\ (now <= clock)' /\ LatchedSecond'
<1>1. Emitted' = Emitted
  BY TreeUnchanged
<1>2. TimesPast' /\ LatchedSecond'
  BY <1>1 DEF TimeInv, TimesPast, LatchedSecond
<1>3. IsBest(tip, have, failed, block)'
  BY DEF TimeInv
<1>4. (now <= clock)'
  BY DEF TimeInv, TreeInv, TypeOK
<1> QED
  BY <1>2, <1>3, <1>4

\* Nothing that could come on top of the tip the loop has read is of this second.
LEMMA BaseStep ==
    ASSUME TreeInv, TimeInv, [Next]_vars
    PROVE  BaseSettled'
<1> SUFFICES ASSUME ~Main, pc' \in {"look", "draw", "create"}
             PROVE  BaseSettled'
  BY DEF BaseSettled
<1>0. /\ clock \in Nat /\ clock' \in Nat /\ block' = block /\ Emitted' = Emitted
      /\ \A b : Height(b)' = Height(b)
  <2>1. block' = block
    BY StepShape DEF ProcessNewBlock, GoOn
  <2> QED
    BY <2>1, StepShape, TreeUnchanged DEF TreeInv, TypeOK
<1>1. CASE ReadTip
  <2>1. /\ MayTry(SlotFromHeight(Height(tip) + 1)) /\ base' = tip
        /\ UNCHANGED <<now, clock, have, failed>>
    BY <1>1 DEF ReadTip, Sleep, GoOn, chainVars
  <2>2. now >= SlotStartTime(Height(tip) + 1)
    <3>1. SlotStartTime(Height(tip) + 1) \in Nat /\ now \in Nat
      BY EmittedBlock, SlotFacts DEF TreeInv, TypeOK
    <3> QED
      BY <2>1, <3>1, ProducerAssumption DEF MayTry, SlotStartTime
  <2>3. ASSUME NEW b \in Candidates(have, failed, block) PROVE Height(b) <= Height(tip)
    <3>1. Height(b) \in Nat /\ Height(tip) \in Nat
      BY EmittedBlock DEF TreeInv, TypeOK, Candidates
    <3>2. ~PreferLotteryFork(b, tip, block)
      BY DEF TimeInv, IsBest
    <3> QED
      BY <3>1, <3>2 DEF PreferLotteryFork, Height
  <2> QED
    BY <1>0, <2>1, <2>2, <2>3 DEF BaseSettled
<1>2. CASE Tick
  <2>1. clock' = clock + 1 /\ UNCHANGED <<pc, now, base, have, failed>>
    BY <1>2 DEF Tick, loopVars, chainVars
  <2>2. \A b \in Emitted' : block'[b].time < clock'
    BY <1>0, <2>1, TimePasses
  <2>3. \A b \in Candidates(have, failed, block) : b \in Emitted /\ block[b].time \in Nat
    BY EmittedBlock DEF TreeInv, TypeOK, Candidates
  <2> QED
    BY <1>0, <2>1, <2>2, <2>3 DEF TimeInv, BaseSettled
<1>3. ASSUME NEW c \in Hash, PeerBlock(c) PROVE BaseSettled'
  <2>1. have' = have \cup {c} /\ UNCHANGED <<clock, pc, now, base, failed>>
    BY <1>3 DEF PeerBlock, loopVars
  <2>2. block[c].time < clock /\ block[c].time \in Nat
    BY <1>3, EmittedBlock DEF PeerBlock, TimeInv, TimesPast, Emitted, TreeInv
  <2>3. Candidates(have, failed, block)' \subseteq Candidates(have, failed, block) \cup {c}
    BY <1>0, <2>1 DEF Candidates
  <2> QED
    BY <1>0, <2>1, <2>2, <2>3 DEF TimeInv, BaseSettled
<1>4. ASSUME NEW c \in Hash, InvalidateBlock(c) PROVE BaseSettled'
  <2>1. failed' = failed \cup {c} /\ UNCHANGED <<clock, pc, now, base, have>>
    BY <1>4 DEF InvalidateBlock, loopVars
  <2>2. Candidates(have, failed, block)' \subseteq Candidates(have, failed, block)
    BY <1>0, <2>1 DEF Candidates
  <2> QED
    BY <1>0, <2>1, <2>2 DEF TimeInv, BaseSettled
<1>5. CASE UNCHANGED <<clock, now, base, have, failed>> /\ pc \in {"look", "draw", "create"}
  BY <1>0, <1>5 DEF TimeInv, BaseSettled
<1>6. \/ ReadTip \/ Tick \/ (\E c \in Hash : PeerBlock(c)) \/ (\E c \in Hash : InvalidateBlock(c))
      \/ UNCHANGED <<clock, now, base, have, failed>> /\ pc \in {"look", "draw", "create"}
  BY DEF Next, Produce, Wake, ReadTip, LookForSibling, ComputeDraw, CreateNewBlock, StampTime,
     ProcessNewBlock, SetLatches, Sleep, GoOn, FlushStateToDisk, Restart, HatChanges, vars,
     loopVars, chainVars
<1> QED
  BY <1>1, <1>2, <1>3, <1>4, <1>5, <1>6

LEMMA TimeStep == TreeInv /\ MinuteInv /\ TimeInv /\ [Next]_vars => TimeInv'
<1> SUFFICES ASSUME TreeInv, MinuteInv, TimeInv, [Next]_vars PROVE TimeInv'
  OBVIOUS
<1> DEFINE Rest == TimesPast' /\ IsBest(tip, have, failed, block)' /\ (now <= clock)' /\ LatchedSecond'
<1>1. ASSUME ProcessNewBlock /\ DraftAccepted PROVE Rest
  BY <1>1, TimeEmit
<1>2. ASSUME QuietLoop \/ (ProcessNewBlock /\ ~DraftAccepted) \/ UNCHANGED vars PROVE Rest
  <2>1. UNCHANGED <<clock, block, have, failed, tip, lastEmit>>
    BY <1>2, QuietLoopType DEF ProcessNewBlock, vars, chainVars, history
  <2>2. now' = now \/ now' = 0 \/ now' = clock
    BY <1>2 DEF QuietLoop, Wake, ReadTip, LookForSibling, ComputeDraw, CreateNewBlock, StampTime,
       SetLatches, ProcessNewBlock, Sleep, loopVars, vars
  <2> QED
    BY <2>1, <2>2, TimeQuiet
<1>3. ASSUME NEW c \in Hash, PeerBlock(c) PROVE Rest
  <2>1. have' = have \cup {c} /\ UNCHANGED <<block, clock, now, failed, lastEmit>>
    BY <1>3 DEF PeerBlock, loopVars, history
  <2>2. IsBest(tip, have, failed, block)'
    BY <1>3, <2>1 DEF PeerBlock
  <2> QED
    BY <2>1, <2>2, TreeUnchanged DEF TimeInv, TimesPast, LatchedSecond
<1>4. ASSUME NEW c \in Hash, InvalidateBlock(c) PROVE Rest
  <2>1. UNCHANGED <<have, block, clock, now, lastEmit>>
    BY <1>4 DEF InvalidateBlock, loopVars, history
  <2>2. IsBest(tip, have, failed, block)'
    BY <1>4, <2>1 DEF InvalidateBlock
  <2> QED
    BY <2>1, <2>2, TreeUnchanged DEF TimeInv, TimesPast, LatchedSecond
<1>5. ASSUME FlushStateToDisk \/ HatChanges PROVE Rest
  BY <1>5, TimeQuiet DEF FlushStateToDisk, HatChanges, chainVars, loopVars, history
<1>6. ASSUME Tick PROVE Rest
  <2>1. clock' = clock + 1 /\ UNCHANGED <<block, have, failed, tip, now>>
    BY <1>6 DEF Tick, chainVars, loopVars
  <2>2. (now <= clock)' /\ IsBest(tip, have, failed, block)'
    BY <2>1 DEF TimeInv, TreeInv, TypeOK
  <2> QED
    BY <2>1, <2>2, TimePasses
<1>7. ASSUME Restart PROVE Rest
  <2>1. clock' = clock + 1 /\ now' = 0 /\ UNCHANGED block
    BY <1>7 DEF Restart, Sleep
  <2>2. (now <= clock)' /\ IsBest(tip, have, failed, block)'
    BY <1>7, <2>1 DEF Restart, TreeInv, TypeOK
  <2> QED
    BY <2>1, <2>2, TimePasses
<1>8. Rest
  BY <1>1, <1>2, <1>3, <1>4, <1>5, <1>6, <1>7 DEF Next, Produce, QuietLoop
<1> QED
  BY <1>8, BaseStep, DraftTimeStep DEF TimeInv

LEMMA TimeInvariant == Spec => [](TreeInv /\ MinuteInv /\ TimeInv)
  BY MinuteInvariant, TimeInit, TimeStep, PTL DEF Spec

\* No block is emitted before the slot of its height: on main although no guard
\* of the producer says so, because a template whose time would lie ahead of the
\* clock needs a tip of this very second, which the latch excludes.
THEOREM NeverEarly == Spec => EmitNotEarly
<1>1. TreeInv /\ MinuteInv /\ TimeInv /\ [Next]_vars =>
        [\A b \in Hash : block[b] = NoBlock /\ block'[b] # NoBlock
            => SlotFromTime(clock) >= SlotFromHeight(block'[b].height)]_vars
  <2> SUFFICES ASSUME TreeInv, MinuteInv, TimeInv, [Next]_vars,
                      NEW b \in Hash, block[b] = NoBlock, block'[b] # NoBlock
               PROVE  SlotFromTime(clock) >= SlotFromHeight(block'[b].height)
    OBVIOUS
  <2>1. ProcessNewBlock /\ DraftAccepted
    BY StepShape
  <2>2. PICK c \in Hash : Emit(c)
    BY <2>1 DEF ProcessNewBlock
  <2>3. pc = "process"
    BY <2>1 DEF ProcessNewBlock
  <2>4. /\ Emitted' = Emitted \cup {c} /\ Height(c)' = draft.height
    BY <2>1, <2>2, <2>3, TreeEmit
  <2>5. b = c /\ block'[b].height = draft.height
    BY <2>4 DEF Emitted, Height
  <2>6. clock >= SlotStartTime(draft.height) /\ clock \in Nat /\ draft.height \in Nat
    BY <2>3 DEF TimeInv, DraftInTime, TreeInv, TypeOK
  <2> QED
    BY <2>5, <2>6, SlotOfTime
<1> QED
  BY <1>1, TimeInvariant, PTL DEF Spec, EmitNotEarly

-----------------------------------------------------------------------------
(* One block per height in one life of the process.                        *)

\* Every block of this life is of a slot not after the minute of the last one,
\* and a draft is of a later slot.
HeightInv ==
    Main => /\ \A b \in mine : SlotFromHeight(Height(b)) <= lastEmit
            /\ pc \in {"stamp", "process"} => lastEmit < SlotFromHeight(draft.height)
            /\ \A b, c \in mine : Height(b) = Height(c) => b = c

LEMMA HeightStep ==
    TreeInv /\ MinuteInv /\ TimeInv /\ HeightInv /\ [Next]_vars => HeightInv'
<1> SUFFICES ASSUME TreeInv, MinuteInv, TimeInv, HeightInv, [Next]_vars, Main PROVE HeightInv'
  BY DEF HeightInv
<1>0. /\ lastEmit \in Int /\ lastMinute \in Int /\ clock \in Nat /\ Minute(clock) \in Nat
      /\ draft.height \in Nat /\ mine \subseteq Emitted
      /\ \A b \in Emitted : Height(b) \in Nat /\ SlotFromHeight(Height(b)) \in Nat
  BY EmittedBlock, SlotFacts, SlotOfTime DEF TreeInv, TypeOK
<1>1. CASE ProcessNewBlock /\ DraftAccepted
  <2>1. PICK c \in Hash : Emit(c)
    BY <1>1 DEF ProcessNewBlock
  <2>2. pc = "process" /\ pc' = "latch" /\ mine' = mine \cup {c} /\ lastEmit' = Minute(clock)
    BY <1>1, <2>1 DEF ProcessNewBlock, GoOn, Emit
  <2>3. /\ Emitted' = Emitted \cup {c} /\ c \notin Emitted
        /\ \A a \in Emitted : Height(a)' = Height(a)
        /\ Height(c)' = draft.height
    BY <1>1, <2>1, <2>2, TreeEmit
  <2>4. SlotFromHeight(draft.height) <= Minute(clock) /\ SlotFromHeight(draft.height) \in Nat
    BY <1>0, <2>2, SlotOfTime, SlotFacts DEF TimeInv, DraftInTime
  <2>5. lastEmit < SlotFromHeight(draft.height)
    BY <2>2 DEF HeightInv
  <2>6. \A b \in mine : SlotFromHeight(Height(b)) <= lastEmit /\ SlotFromHeight(Height(b)) \in Nat
    BY <1>0 DEF HeightInv
  <2>7. \A b \in mine : Height(b) # draft.height
    BY <1>0, <2>4, <2>5, <2>6
  <2>8. \A b \in mine' : SlotFromHeight(Height(b)') <= lastEmit'
    BY <1>0, <2>2, <2>3, <2>4, <2>5, <2>6
  <2>9. \A a, b \in mine' : Height(a)' = Height(b)' => a = b
    BY <1>0, <2>2, <2>3, <2>7 DEF HeightInv
  <2> QED
    BY <2>2, <2>8, <2>9 DEF HeightInv
<1>2. CASE ~(ProcessNewBlock /\ DraftAccepted)
  <2>1. \A b : Height(b)' = Height(b)
    BY <1>2, StepShape, TreeUnchanged
  <2>2. (mine' = mine /\ lastEmit' = lastEmit) \/ (mine' = {} /\ pc' = "asleep")
    BY <1>2 DEF Next, Produce, Wake, ReadTip, LookForSibling, ComputeDraw, CreateNewBlock, StampTime,
       ProcessNewBlock, SetLatches, Sleep, PeerBlock, InvalidateBlock, FlushStateToDisk, Restart,
       HatChanges, Tick, vars, history
  <2>3. CASE mine' = {} /\ pc' = "asleep"
    BY <2>3 DEF HeightInv
  <2>4. CASE mine' = mine /\ lastEmit' = lastEmit
    <3>1. ASSUME pc' \in {"stamp", "process"} PROVE lastEmit < SlotFromHeight(draft'.height)
      <4>1. CASE CreateNewBlock /\ TemplateValid
        <5>1. draft'.height = Height(tip) + 1 /\ pc = "create"
          BY <4>1 DEF CreateNewBlock
        <5>2. Minute(clock) <= SlotFromHeight(Height(tip) + 1) /\ SlotFromHeight(Height(tip) + 1) \in Nat
          BY <4>1, <1>0, TemplateInTime, SlotFacts DEF TreeInv, TypeOK
        <5>3. lastEmit < Minute(clock)
          BY <1>0, <5>1 DEF MinuteInv, Busy
        <5> QED
          BY <1>0, <5>1, <5>2, <5>3
      <4>2. CASE pc \in {"stamp", "process"} /\ draft'.height = draft.height
        BY <4>2 DEF HeightInv
      <4>3. CASE StampTime
        <5>1. pc = "stamp" /\ draft'.height = draft.height
          <6> DEFINE c == ClampTimeToSlot(Height(tip) + 1, clock, MedianTimePast(tip))
                     g == Height(tip) + 1
          <6>1. /\ pc = "stamp" /\ draft' = [draft EXCEPT !.cbHeight = g, !.time = c]
                /\ draft \in [parent : Emitted, height : Nat, time : Int, cbHeight : Nat]
            BY <4>3 DEF StampTime, TreeInv, TypeOK
          <6> HIDE DEF c, g
          <6> QED
            BY <6>1
        <5> QED
          BY <5>1, <4>2
      <4>4. CASE UNCHANGED <<pc, draft>>
        BY <3>1, <4>2, <4>4
      <4>5. \/ (CreateNewBlock /\ TemplateValid) \/ StampTime \/ UNCHANGED <<pc, draft>>
        BY <3>1 DEF Next, Produce, Wake, ReadTip, LookForSibling, ComputeDraw, CreateNewBlock,
           StampTime, ProcessNewBlock, SetLatches, Sleep, GoOn, PeerBlock, InvalidateBlock,
           FlushStateToDisk, Restart, HatChanges, Tick, vars, loopVars
      <4> QED
        BY <4>1, <4>3, <4>4, <4>5
    <3> QED
      BY <2>1, <2>4, <3>1 DEF HeightInv
  <2> QED
    BY <2>2, <2>3, <2>4
<1> QED
  BY <1>1, <1>2

\* On main one life of the process emits no two blocks of one height, whatever
\* peers and the operator do to the chain between the steps of its loop.
THEOREM OneBlockAHeight == Spec => []NeverTwiceAtHeight
<1>1. Init => HeightInv
  BY DEF Init, HeightInv
<1>2. HeightInv => NeverTwiceAtHeight
  BY DEF HeightInv, NeverTwiceAtHeight
<1> QED
  BY <1>1, <1>2, HeightStep, TimeInvariant, PTL DEF Spec

-----------------------------------------------------------------------------
(* The pace of the main chain while nodes are stamped and nothing fails.   *)

TipSlot == SlotFromHeight(Height(tip))

\* Nothing is lost or invalidated, and every block is one above its parent.
OneIndex ==
    /\ failed = {} /\ have = Emitted
    /\ \A b \in Emitted \ {0} :
           block[b].parent \in Emitted /\ Height(b) = Height(block[b].parent) + 1

\* The loop works on the tip.
OnTip ==
    /\ hat
    /\ Busy => base = tip
    /\ pc \in {"stamp", "process"} => draft.parent = tip
    /\ pc = "latch" => SlotFromHeight(Height(base) + 1) = TipSlot

\* The tip is of the current minute or of the one before; the latches name nothing
\* later than the tip; a template was made in the minute of its height.
OnTime ==
    /\ TipSlot <= Minute(clock) /\ Minute(clock) <= TipSlot + 1
    /\ lastSlot <= TipSlot /\ lastMinute <= TipSlot
    /\ pc \in {"stamp", "process"} => Minute(clock) = TipSlot + 1
    /\ pc = "process" => draft.time = clock /\ draft.cbHeight = draft.height
    /\ pc = "latch" => Minute(clock) = TipSlot
    /\ pace = "ran" => pc = "asleep" /\ Minute(clock) = TipSlot

Pace == OneIndex /\ OnTip /\ OnTime

LEMMA PaceInit ==
    ASSUME Init, Steady
    PROVE  Pace
<1>1. TreeInv /\ Emitted = {0} /\ Height(0) = 0
  <2>1. block[0] = Genesis /\ Emitted = {0}
    BY ProducerAssumption, SlotAssumption, NoBlockAssumption DEF Init, Emitted, Genesis, Block
  <2> QED
    BY <2>1, TreeInit DEF Height, Genesis
<1>2. OneIndex /\ OnTip
  BY <1>1 DEF Init, OneIndex, OnTip, Busy
<1>3. tip = 0 /\ clock = GenesisTime
  BY DEF Init
<1>4. Minute(clock) = TipSlot /\ Minute(clock) \in Nat
  BY <1>1, <1>3, SlotAssumption, SlotOfTime DEF TipSlot, SlotFromHeight
<1>5. lastSlot = -1 /\ lastMinute = -1 /\ pc = "asleep"
  BY DEF Init
<1>6. OnTime
  BY <1>4, <1>5 DEF OnTime
<1> QED
  BY <1>2, <1>6 DEF Pace

\* A second leads to the next minute at most.
LEMMA MinuteNext ==
    ASSUME NEW t \in Nat
    PROVE  Minute(t + 1) \in Nat /\ Minute(t) <= Minute(t + 1) /\ Minute(t + 1) <= Minute(t) + 1
<1>1. Minute(t) \in Nat /\ Minute(t + 1) \in Nat
  BY SlotOfTime
<1>2. Minute(t) <= Minute(t + 1)
  BY MinuteMono DEF Minute
<1>3. SUFFICES ASSUME Minute(t) + 2 <= Minute(t + 1) PROVE FALSE
  BY <1>1, <1>2
<1>4. (Minute(t) + 2) * SlotLen <= Minute(t + 1) * SlotLen
  BY <1>1, <1>3, TimesMono
<1>5. (Minute(t) + 1) * SlotLen = Minute(t) * SlotLen + SlotLen
  BY <1>1, TimesSucc
<1>6. (Minute(t) + 2) * SlotLen = (Minute(t) + 1) * SlotLen + SlotLen
  <2>1. Minute(t) + 1 \in Int /\ (Minute(t) + 1) + 1 = Minute(t) + 2
    BY <1>1
  <2> QED
    BY <2>1, TimesSucc
<1>7. Minute(t + 1) * SlotLen <= t + 1 /\ t < Minute(t) * SlotLen + SlotLen
  BY DivMod DEF Minute
<1>8. /\ Minute(t) * SlotLen \in Int /\ Minute(t + 1) * SlotLen \in Int
      /\ (Minute(t) + 1) * SlotLen \in Int /\ (Minute(t) + 2) * SlotLen \in Int
  BY <1>1, TimesMono
<1> QED
  BY <1>4, <1>5, <1>6, <1>7, <1>8, SlotAssumption, ProducerAssumption

\* What the proofs below need of the types.
LEMMA PaceTypes ==
    ASSUME TreeInv
    PROVE  /\ clock \in Nat /\ Minute(clock) \in Nat /\ SlotFromTime(clock) = Minute(clock)
           /\ tip \in Emitted /\ Height(tip) \in Nat /\ Height(tip) + 1 \in Nat
           /\ TipSlot \in Nat /\ SlotFromHeight(Height(tip) + 1) = TipSlot + 1
           /\ lastSlot \in Int /\ lastMinute \in Int
           /\ MedianTimePast(tip) \in Nat
           /\ MedianTimePast(tip) < SlotStartTime(Height(tip) + 1)
           /\ SlotStartTime(Height(tip) + 1) \in Nat
<1>1. clock \in Nat /\ tip \in Emitted /\ lastSlot \in Int /\ lastMinute \in Int
  BY DEF TreeInv, TypeOK
<1>2. Height(tip) \in Nat /\ Height(tip) + 1 \in Nat
  BY <1>1, EmittedBlock DEF TreeInv
<1>3. /\ TipSlot \in Nat /\ SlotFromHeight(Height(tip) + 1) = TipSlot + 1
      /\ SlotStartTime(Height(tip) + 1) \in Nat
  BY <1>2, SlotFacts DEF TipSlot
<1>4. Minute(clock) \in Nat /\ SlotFromTime(clock) = Minute(clock)
  BY <1>1, SlotOfTime
<1>5. MedianTimePast(tip) \in Nat /\ MedianTimePast(tip) < SlotStartTime(Height(tip) + 1)
  BY <1>1, MedianFacts DEF TreeInv
<1> QED
  BY <1>1, <1>2, <1>3, <1>4, <1>5

\* In the minute of the next height the clock's own time passes every check.
LEMMA ClockFits ==
    ASSUME TreeInv, Minute(clock) = TipSlot + 1
    PROVE  /\ SlotStartTime(Height(tip) + 1) <= clock
           /\ clock < SlotStartTime(Height(tip) + 1) + SlotLen
           /\ HeaderOK(Height(tip) + 1, tip, clock)
           /\ TemplateTime = clock
           /\ ClampTimeToSlot(Height(tip) + 1, clock, MedianTimePast(tip)) = clock
<1> DEFINE h == Height(tip) + 1
<1>1. /\ h \in Nat /\ SlotFromHeight(h) = TipSlot + 1 /\ TipSlot \in Nat /\ clock \in Nat
      /\ SlotStartTime(h) \in Nat /\ MedianTimePast(tip) \in Nat
      /\ MedianTimePast(tip) < SlotStartTime(h) /\ SlotFromTime(clock) = Minute(clock)
  BY PaceTypes
<1>2. TemplateTime = IF clock > MedianTimePast(tip) THEN clock ELSE MedianTimePast(tip) + 1
  BY DEF TemplateTime
<1>3. HeaderOK(h, tip, clock) = (CheckBlockTime(h, clock, clock) /\ clock > MedianTimePast(tip))
  BY DEF HeaderOK
<1> HIDE DEF h
<1>4. SlotStartTime(h) <= clock
  BY <1>1, SlotOfTime
<1>5. clock < SlotStartTime(h) + SlotLen
  <2>1. /\ h + 1 \in Nat /\ SlotFromHeight(h + 1) = SlotFromHeight(h) + 1
        /\ SlotStartTime(h + 1) = SlotStartTime(h) + SlotLen
    BY <1>1, SlotFacts
  <2>2. ~(Minute(clock) >= SlotFromHeight(h + 1))
    BY <1>1, <2>1
  <2>3. ~(clock >= SlotStartTime(h + 1))
    BY <1>1, <2>1, <2>2, SlotOfTime
  <2> QED
    BY <1>1, <2>1, <2>3, SlotAssumption
<1>6. CheckBlockTime(h, clock, clock)
  BY <1>1, <1>4, <1>5, SlotAssumption DEF CheckBlockTime
<1>7. clock > MedianTimePast(tip)
  BY <1>1, <1>4
<1>8. ClampTimeToSlot(h, clock, MedianTimePast(tip)) = clock
  BY <1>1, <1>4, <1>5, <1>7, SlotAssumption DEF ClampTimeToSlot
<1> QED
  BY <1>2, <1>3, <1>4, <1>5, <1>6, <1>7, <1>8 DEF h

\* No block is above the tip, so nobody has taken the height the loop works on.
LEMMA TipHighest ==
    ASSUME TreeInv, TimeInv, OneIndex
    PROVE  /\ \A b \in Emitted : Height(b) <= Height(tip)
           /\ base = tip => ~HeightTaken
<1>1. ASSUME NEW b \in Emitted PROVE Height(b) <= Height(tip)
  <2>1. b \in Candidates(have, failed, block)
    BY DEF Candidates, OneIndex
  <2>2. ~PreferLotteryFork(b, tip, block)
    BY <2>1 DEF TimeInv, IsBest
  <2>3. Height(b) \in Nat /\ Height(tip) \in Nat
    BY EmittedBlock, PaceTypes DEF TreeInv
  <2> QED
    BY <2>2, <2>3 DEF PreferLotteryFork, Height
<1>2. ASSUME base = tip, HeightTaken PROVE FALSE
  <2>1. Height(tip) \in Nat
    BY PaceTypes
  <2>2. PICK b \in have : b # 0 /\ block[b].parent = tip
    BY <1>2, <2>1 DEF HeightTaken
  <2>3. b \in Emitted /\ Height(b) = Height(tip) + 1
    BY <2>2 DEF OneIndex
  <2> QED
    BY <1>1, <2>1, <2>3
<1> QED
  BY <1>1, <1>2

\* A step that changes nothing but the loop's own variables and goes to sleep.
LEMMA PaceSleeps ==
    ASSUME Pace, Sleep, UNCHANGED <<clock, block, have, failed, tip, hat>>,
           Minute(clock) = TipSlot, TipSlot \in Nat,
           lastSlot' <= TipSlot, lastMinute' <= TipSlot
    PROVE  Pace'
<1>1. /\ Emitted' = Emitted /\ TipSlot' = TipSlot /\ \A b : Height(b)' = Height(b)
      /\ Minute(clock)' = Minute(clock)
  BY DEF Emitted, TipSlot, Height, Minute
<1>2. pc' = "asleep"
  BY DEF Sleep
<1>3. OneIndex' /\ OnTip'
  BY <1>1, <1>2 DEF Pace, OneIndex, OnTip, Busy
<1>4. OnTime'
  BY <1>1, <1>2 DEF OnTime
<1> QED
  BY <1>3, <1>4 DEF Pace

\* The steps of the loop that emit nothing.
LEMMA PaceQuiet ==
    ASSUME TreeInv, MinuteInv, TimeInv, Pace, Main, Steady, QuietLoop
    PROVE  Pace'
<1>0. /\ clock \in Nat /\ Minute(clock) \in Nat
      /\ tip \in Emitted /\ Height(tip) \in Nat /\ Height(tip) + 1 \in Nat
      /\ TipSlot \in Nat /\ SlotFromHeight(Height(tip) + 1) = TipSlot + 1
      /\ lastSlot \in Int /\ lastMinute \in Int
  BY PaceTypes
<1>1. OneIndex /\ OnTip /\ OnTime
  BY DEF Pace
<1>2. UNCHANGED <<clock, block, have, failed, tip, hat>>
  BY QuietLoopType DEF chainVars
<1>3. /\ Emitted' = Emitted /\ TipSlot' = TipSlot /\ \A b : Height(b)' = Height(b)
      /\ Minute(clock)' = Minute(clock) /\ OneIndex'
  BY <1>1, <1>2 DEF Emitted, TipSlot, Height, Minute, OneIndex
<1>4. CASE Wake
  <2>1. pc = "asleep" /\ pc' = "awake" /\ pace # "ran" /\ UNCHANGED <<pace, lastSlot, lastMinute>>
    BY <1>4 DEF Wake, GoOn, latches
  <2> QED
    BY <1>1, <1>2, <1>3, <2>1 DEF Pace, OnTip, OnTime, Busy
<1>5. CASE ReadTip
  <2>1. CASE MayTry(TipSlot + 1)
    <3>1. pc = "awake" /\ pc' = "look" /\ base' = tip /\ UNCHANGED <<pace, lastSlot, lastMinute>>
      BY <1>0, <1>5, <2>1 DEF ReadTip, GoOn, latches
    <3> QED
      BY <1>1, <1>2, <1>3, <3>1 DEF Pace, OnTip, OnTime, Busy
  <2>2. CASE ~MayTry(TipSlot + 1)
    <3>1. Sleep /\ UNCHANGED <<lastSlot, lastMinute>>
      BY <1>0, <1>5, <2>2 DEF ReadTip, latches
    <3>2. Minute(clock) = lastMinute \/ TipSlot + 1 = lastSlot
      BY <2>2 DEF MayTry
    <3>3. /\ TipSlot <= Minute(clock) /\ lastSlot <= TipSlot /\ lastMinute <= TipSlot
      BY <1>1 DEF OnTime
    <3>4. Minute(clock) = TipSlot
      BY <1>0, <3>2, <3>3
    <3> QED
      BY <1>0, <1>2, <3>1, <3>3, <3>4, PaceSleeps
  <2> QED
    BY <2>1, <2>2
<1>6. CASE LookForSibling
  <2>1. base = tip
    BY <1>1, <1>6 DEF LookForSibling, OnTip, Busy
  <2>2. pc = "look" /\ pc' = "draw" /\ UNCHANGED <<pace, base, lastSlot, lastMinute>>
    BY <1>1, <1>6, <2>1, TipHighest DEF LookForSibling, GoOn, loopVars
  <2> QED
    BY <1>1, <1>2, <1>3, <2>1, <2>2 DEF Pace, OnTip, OnTime, Busy
<1>7. CASE ComputeDraw
  <2>1. pc = "draw" /\ pc' = "create" /\ UNCHANGED <<pace, base, lastSlot, lastMinute>>
    BY <1>1, <1>7 DEF ComputeDraw, OnTip, GoOn, loopVars, latches
  <2> QED
    BY <1>1, <1>2, <1>3, <2>1 DEF Pace, OnTip, OnTime, Busy
<1>8. CASE CreateNewBlock
  <2>1. pc = "create" /\ base = tip /\ hat
    BY <1>1, <1>8 DEF CreateNewBlock, OnTip, Busy
  <2>2. TipSlot <= Minute(clock) /\ Minute(clock) <= TipSlot + 1
        /\ lastSlot <= TipSlot /\ lastMinute <= TipSlot
    BY <1>1 DEF OnTime
  <2>3. CASE TemplateValid
    <3>1. Minute(clock) >= TipSlot + 1
      BY <1>0, <2>1, <2>3, TemplateNotEarly, SlotOfTime
    <3>2. /\ pc' = "stamp" /\ UNCHANGED <<pace, base, lastSlot, lastMinute>>
          /\ draft' = [parent |-> tip, height |-> Height(tip) + 1,
                       time |-> TemplateTime, cbHeight |-> Height(tip) + 1]
      BY <1>8, <2>3 DEF CreateNewBlock, GoOn, latches
    <3>3. draft'.parent = tip
      BY <3>2
    <3>4. OnTip'
      BY <1>1, <1>2, <2>1, <3>2, <3>3 DEF OnTip, Busy
    <3>5. pace # "ran"
      BY <1>1, <2>1 DEF OnTime
    <3>6. OnTime'
      BY <1>0, <1>3, <2>2, <3>1, <3>2, <3>5 DEF OnTime
    <3> QED
      BY <1>3, <3>4, <3>6 DEF Pace
  <2>4. CASE ~TemplateValid
    <3>1. Sleep /\ UNCHANGED <<lastSlot, lastMinute>>
      BY <1>8, <2>4 DEF CreateNewBlock, latches
    <3>2. Minute(clock) # TipSlot + 1
      BY <2>1, <2>4, ClockFits DEF TemplateValid
    <3>3. Minute(clock) = TipSlot
      BY <1>0, <2>2, <3>2
    <3> QED
      BY <1>0, <1>2, <2>2, <3>1, <3>3, PaceSleeps
  <2> QED
    BY <2>3, <2>4
<1>9. CASE StampTime
  <2> DEFINE c == ClampTimeToSlot(Height(tip) + 1, clock, MedianTimePast(tip))
             g == Height(tip) + 1
  <2>1. /\ pc = "stamp" /\ pc' = "process" /\ UNCHANGED <<pace, base, lastSlot, lastMinute>>
        /\ draft' = [draft EXCEPT !.cbHeight = g, !.time = c]
        /\ draft \in [parent : Emitted, height : Nat, time : Int, cbHeight : Nat]
    BY <1>9 DEF StampTime, GoOn, latches, TreeInv, TypeOK
  <2>2. draft.parent = tip /\ base = tip /\ Minute(clock) = TipSlot + 1 /\ pace # "ran"
    BY <1>1, <2>1 DEF OnTip, OnTime, Busy
  <2>3. c = clock /\ g = draft.height
    BY <2>1, <2>2, ClockFits DEF TreeInv, DraftOK
  <2> HIDE DEF c, g
  <2>4. draft'.parent = tip /\ draft'.time = clock /\ draft'.cbHeight = draft'.height
    BY <2>1, <2>2, <2>3
  <2>5. OnTip'
    BY <1>1, <1>2, <2>1, <2>2, <2>4 DEF OnTip, Busy
  <2>6. OnTime'
    BY <1>1, <1>2, <1>3, <2>1, <2>2, <2>4 DEF OnTime
  <2> QED
    BY <1>3, <2>5, <2>6 DEF Pace
<1>10. CASE SetLatches
  <2>1. /\ pc = "latch" /\ Sleep /\ lastMinute' = Minute(clock)
        /\ lastSlot' = SlotFromHeight(Height(base) + 1)
    BY <1>10 DEF SetLatches
  <2>2. SlotFromHeight(Height(base) + 1) = TipSlot /\ Minute(clock) = TipSlot
    BY <1>1, <2>1 DEF OnTip, OnTime
  <2> QED
    BY <1>0, <1>2, <2>1, <2>2, PaceSleeps
<1> QED
  BY <1>4, <1>5, <1>6, <1>7, <1>8, <1>9, <1>10 DEF QuietLoop

\* The draft of a steady loop is accepted and becomes the tip.
LEMMA PaceEmits ==
    ASSUME TreeInv, MinuteInv, TimeInv, Pace, Main, Steady, ProcessNewBlock
    PROVE  Pace'
<1>0. /\ clock \in Nat /\ Minute(clock) \in Nat
      /\ tip \in Emitted /\ Height(tip) \in Nat /\ Height(tip) + 1 \in Nat
      /\ TipSlot \in Nat /\ SlotFromHeight(Height(tip) + 1) = TipSlot + 1
      /\ lastSlot \in Int /\ lastMinute \in Int
  BY PaceTypes
<1>1. OneIndex /\ OnTip /\ OnTime
  BY DEF Pace
<1>2. /\ pc = "process" /\ base = tip /\ draft.parent = tip /\ Minute(clock) = TipSlot + 1
      /\ draft.time = clock /\ draft.cbHeight = draft.height /\ pace # "ran"
  BY <1>1 DEF ProcessNewBlock, OnTip, OnTime, Busy
<1>3. draft.height = Height(tip) + 1
  BY <1>2 DEF TreeInv, DraftOK
<1>4. DraftAccepted
  <2>1. HeaderOK(draft.height, draft.parent, draft.time)
    BY <1>2, <1>3, ClockFits
  <2>2. tip \in Candidates({draft.parent}, failed, block)
    BY <1>1, <1>2 DEF Candidates, OneIndex
  <2> QED
    BY <1>2, <2>1, <2>2 DEF DraftAccepted
<1>5. PICK b \in Hash : Emit(b)
  BY <1>4 DEF ProcessNewBlock
<1>6. /\ Emitted' = Emitted \cup {b} /\ b \notin Emitted
      /\ \A a \in Emitted : Height(a)' = Height(a) /\ block'[a] = block[a]
      /\ Height(b)' = draft.height
  BY <1>2, <1>4, <1>5, TreeEmit
<1>7. /\ pc' = "latch"
      /\ UNCHANGED <<pace, base, draft, clock, failed, hat, lastSlot, lastMinute>>
  BY <1>4 DEF ProcessNewBlock, GoOn, loopVars, latches
<1>8. have' = have \cup {b} /\ block'[b].parent = draft.parent
  BY <1>5 DEF Emit, TreeInv, TypeOK
<1>9. tip' = b
  <2>1. tip' \in have' /\ IsBest(tip', have', failed, block')
    BY <1>5 DEF Emit
  <2>2. b \in Candidates(have', failed, block')
    BY <1>1, <1>8 DEF Candidates, OneIndex
  <2>3. ~PreferLotteryFork(b, tip', block')
    BY <2>1, <2>2 DEF IsBest
  <2>4. tip' \in Emitted \cup {b}
    BY <1>1, <1>8, <2>1 DEF OneIndex
  <2> SUFFICES ASSUME tip' \in Emitted PROVE FALSE
    BY <2>4
  <2>5. Height(tip') <= Height(tip) /\ Height(tip') \in Nat
    BY <1>1, TipHighest, EmittedBlock DEF TreeInv
  <2>6. block'[tip'].height = Height(tip') /\ block'[b].height = Height(tip) + 1
    BY <1>3, <1>6 DEF Height
  <2> QED
    BY <1>0, <2>3, <2>5, <2>6 DEF PreferLotteryFork
<1>10. OneIndex'
  <2>1. have' = Emitted' /\ failed' = {}
    BY <1>1, <1>6, <1>7, <1>8 DEF OneIndex
  <2>2. ASSUME NEW a \in Emitted' \ {0}
        PROVE  block'[a].parent \in Emitted' /\ Height(a)' = block'[block'[a].parent].height + 1
    <3>1. CASE a = b
      BY <1>0, <1>2, <1>3, <1>6, <1>8, <3>1 DEF Height
    <3>2. CASE a # b
      <4>1. a \in Emitted \ {0} /\ block'[a] = block[a] /\ Height(a)' = Height(a)
        BY <1>6, <3>2
      <4>2. block[a].parent \in Emitted /\ Height(a) = Height(block[a].parent) + 1
        BY <1>1, <4>1 DEF OneIndex
      <4> QED
        BY <1>6, <4>1, <4>2 DEF Height
    <3> QED
      BY <3>1, <3>2
  <2> QED
    BY <2>1, <2>2 DEF OneIndex, Height
<1>11. Height(tip)' = Height(tip) + 1 /\ TipSlot' = TipSlot + 1
  BY <1>0, <1>3, <1>6, <1>9 DEF TipSlot, Height
<1>12. OnTip'
  <2>1. Height(base)' = Height(tip)
    BY <1>0, <1>2, <1>6, <1>7 DEF Height
  <2> QED
    BY <1>0, <1>1, <1>7, <1>11, <2>1 DEF OnTip, Busy
<1>13. OnTime'
  <2>1. Minute(clock)' = Minute(clock)
    BY <1>7 DEF Minute
  <2> QED
    BY <1>0, <1>1, <1>2, <1>7, <1>11, <2>1 DEF OnTime
<1> QED
  BY <1>10, <1>12, <1>13 DEF Pace

LEMMA PaceStep ==
    ASSUME TreeInv, MinuteInv, TimeInv, Pace, Main, Steady, [Next]_vars
    PROVE  Pace'
<1>0. OneIndex /\ OnTip /\ OnTime
  BY DEF Pace
<1>1. CASE UNCHANGED vars
  BY <1>0, <1>1 DEF vars, chainVars, loopVars, latches, Pace, OneIndex, OnTip, OnTime, Busy, Emitted,
     TipSlot, Height, Minute
<1>2. CASE Tick
  <2>1. /\ clock' = clock + 1 /\ pace = "ran" /\ pc = "asleep" /\ pace' = "due"
        /\ UNCHANGED <<block, have, failed, tip, hat, pc, base, draft, lastSlot, lastMinute>>
    BY <1>2 DEF Tick, Steady, chainVars, loopVars, latches
  <2>2. Emitted' = Emitted /\ TipSlot' = TipSlot /\ \A b : Height(b)' = Height(b)
    BY <2>1 DEF Emitted, TipSlot, Height
  <2>3. OneIndex' /\ OnTip'
    BY <1>0, <2>1, <2>2 DEF OneIndex, OnTip, Busy
  <2>4. /\ Minute(clock)' \in Nat /\ Minute(clock) <= Minute(clock)'
        /\ Minute(clock)' <= Minute(clock) + 1
    BY <2>1, MinuteNext, PaceTypes DEF Minute
  <2>5. Minute(clock) = TipSlot /\ TipSlot \in Nat
    BY <1>0, <2>1, PaceTypes DEF OnTime
  <2>6. OnTime'
    BY <1>0, <2>1, <2>2, <2>4, <2>5 DEF OnTime
  <2> QED
    BY <2>3, <2>6 DEF Pace
<1>3. ASSUME NEW b \in Hash, PeerBlock(b) PROVE FALSE
  BY <1>0, <1>3 DEF PeerBlock, OneIndex, Emitted
<1>4. ~(\E b \in Hash : InvalidateBlock(b)) /\ ~FlushStateToDisk /\ ~Restart /\ ~HatChanges
  BY DEF InvalidateBlock, FlushStateToDisk, Restart, HatChanges
<1> QED
  BY <1>1, <1>2, <1>3, <1>4, PaceQuiet, PaceEmits DEF Next, Produce, QuietLoop

\* Nothing makes a free environment a steady one.
LEMMA StaysSteady ==
    ASSUME [Next]_vars, Steady'
    PROVE  Steady
<1>1. SUFFICES ASSUME pace = "free" PROVE pace' = "free"
  BY DEF Steady
<1>2. Sleep \/ Tick => pace' = "free"
  BY <1>1 DEF Sleep, Tick, Steady
<1>3. CASE QuietLoop
  BY <1>1, <1>2, <1>3 DEF QuietLoop, Wake, ReadTip, LookForSibling, ComputeDraw,
     CreateNewBlock, StampTime, SetLatches, GoOn
<1>4. CASE ProcessNewBlock
  BY <1>1, <1>2, <1>4 DEF ProcessNewBlock, GoOn
<1>5. CASE Restart
  BY <1>2, <1>5 DEF Restart
<1>6. CASE HatChanges \/ FlushStateToDisk \/ UNCHANGED vars
  BY <1>1, <1>6 DEF HatChanges, FlushStateToDisk, vars
<1>7. ASSUME NEW b \in Hash, PeerBlock(b) \/ InvalidateBlock(b) PROVE pace' = "free"
  BY <1>1, <1>7 DEF PeerBlock, InvalidateBlock
<1> QED
  BY <1>2, <1>3, <1>4, <1>5, <1>6, <1>7 DEF Next, Produce, QuietLoop

\* While nodes are stamped and an iteration of the loop takes place in every
\* second and within it, the main chain has the block of the current slot as soon
\* as the second's iteration has ended: the clock the loop reads four times, the
\* latches and the template's checks never make it lose a minute, however long it
\* runs.
THEOREM ChainKeepsPace == Spec => []KeepsPace
<1> DEFINE PaceInv == Main /\ Steady => Pace
<1>1. Init => PaceInv
  BY PaceInit
<1>2. TreeInv /\ MinuteInv /\ TimeInv /\ PaceInv /\ [Next]_vars => PaceInv'
  <2> SUFFICES ASSUME TreeInv, MinuteInv, TimeInv, PaceInv, [Next]_vars, Main, Steady' PROVE Pace'
    OBVIOUS
  <2>1. Steady
    BY StaysSteady
  <2> QED
    BY <2>1, PaceStep
<1>3. TreeInv /\ PaceInv => KeepsPace
  BY PaceTypes DEF Pace, OnTime, TipSlot, KeepsPace, Steady
<1> HIDE DEF PaceInv
<1> QED
  BY <1>1, <1>2, <1>3, TimeInvariant, PTL DEF Spec
=============================================================================
