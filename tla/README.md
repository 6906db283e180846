# TLA+ models of X Coin

X Coin is a fork of Ravencoin in which blocks are not mined. Once a minute the
"baked seed" (the node that holds the attestor key) draws winners among the
nodes that run a wallet, are signed in with X, carry a blue check, and have sent
a heartbeat lately; the coinbase of the minute's block pays them. This directory
models that lottery: the registry of active nodes, the slot arithmetic, the
block producer and the chain it works on, and the draw with the coinbase rules;
and what X Coin builds on it: root assets claimed by X accounts, the share of
lottery wins that a host passes on to guests, and the book of asset asks that
nodes gossip. The code inherited from Ravencoin is modelled only where these
hook into it.

Paths below are relative to the repository's root; the core is `src/lottery.cpp`.

## 1. Inventory

| Component | State it keeps | Operations | What makes it correct |
|---|---|---|---|
| Active-node registry (`lottery.cpp`, class Registry) | `nodes` (id to lastSeen, joined, handle), `byHandle`, local script and X identity | Heartbeat, HeartbeatLocal, SetLocalScript, pruning on read, registeractivenode | one X account, one ticket; a live ticket is neither taken over nor lost; the size is bounded |
| `xhb` handler and relay (`net_processing.cpp`) | last relay time per id | receive, check, heartbeat, relay; push its own every 30 s | only signed heartbeats count; repetition and delay keep nobody alive for ever |
| Blue-check stamps and X lookup (`lottery.cpp`, `xlookup.cpp`) | `g_attest`, answer cache (positive and negative) | LookupHandle, LookupAndAttest, StoreAttestation, CacheStampsFromXva | nobody unstamped is drawn; a lost blue check stops new stamps |
| Operator invite list (`lottery.cpp`, class Allowlist) | handles, payout pins, the file | LoadFile, Remove, Persist | a pinned handle is used by its payout only |
| X session (`xsession.cpp`) | `xsession.json`, token, verified flag | sign in, refresh, clear, bind to the lottery | the local ticket follows the signed-in account |
| Slots and block times (`lottery.cpp`, `validation.cpp`) | none | SlotFromTime, SlotFromHeight, ClampTimeToSlot, CheckBlockTime | one height, one slot; the time clamp stays inside it |
| Block producer (`lottery.cpp`, `miner.cpp`) | `lastProducedSlot`, `lastProducedWallMinute`, copies of clock and tip | the loop, ProduceOneBlock, CreateNewBlock | never early, one block a minute and a height, one block for every minute |
| Fork choice (`validation.cpp`) | block index, failed marks, candidates, tip, each caller's target, what is flushed | PreferLotteryFork, ActivateBestChain, invalidateblock, flush, restart | every node picks the same tip |
| Draw and coinbase (`lottery.cpp`) | none | SelectWinners, SplitReward, ApplyCoinbasePayouts, CheckLotteryCoinbase | a fair draw, paid exactly, accepted by everybody; nothing else accepted |
| X-account claims (`assets/xaccount.cpp`, `assets/assets.cpp`, `coins.cpp`, `txmempool.cpp`) | map from handle to root in memory and in the asset database, the mempool's claims | connect, disconnect, dry run, admit, evict, claim from the wallet, flush, restart | one root per account and one account per root; map, mempool and chain agree; a restart succeeds |
| Host share (`hostshare.cpp`) | switch, percent, guest list and shared wins, in memory and in a file | change settings, scan, share a win, mark it, load | a win is shared once, by the percent, and none is forgotten |
| Ask book (`xmarket.cpp`, `rpc/market.cpp`) | asks with their arrival times, wallet locks | post, receive and relay, push on connect, take, cancel, prune, evict | one ask per coin; the book is bounded; peers agree; gossip ends |
| Release feed, price ticker, Qt pages | display data | fetch, show | presentation |
| Inherited node, hash algorithms | UTXO set, wallet, peers | Bitcoin/Ravencoin | not this project's subject; proof of work always succeeds here |

How they interact. The message thread, the producer thread, RPC workers and the GUI
all call `Registry::Heartbeat`, which checks pins, stamps and perhaps makes an
HTTPS request without the registry lock and then updates the maps under it. The
producer thread heartbeats for the local node, then reads the tip, looks for a
sibling, draws, asks `CreateNewBlock` for a template (which draws again,
calls `SetLocalScript` and heartbeats), stamps the time and hands the block to
`ProcessNewBlock`; `cs_main` is released between all of these. Validation reads
the coinbase's commitments and caches the stamps they carry, which feeds the
next draw. Claims of root assets live in a map beside the chain: `ConnectBlock`
and `DisconnectBlock` write it, and block validation, mempool admission, the
wallet and the guest list of the host share read it. The lottery loop also runs
the host share's scan; `listguests` runs the same scan in an RPC thread.

What is hard about it: checks made before a lock and used after it; three
readings of the tip and five of the clock in one iteration of the producer; a
block index that reaches the disk once an hour while the latches never do;
signed messages that may be repeated and delayed for ten minutes; caches that
outlive the truth; entries erased from one map and not from the other; a map
that is written at once beside a chain that is written hourly; dry runs with
side effects; books that nodes fill for each other over lost connections;
boundaries (180 s, 600 s, the slot's ends, 1024 and 4096 ids, a subsidy of 0).
`PROJECT.json` lists these hazards line by line with the properties that watch them.

## 2. Modules

| Module | Models |
|---|---|
| `LotteryRegistry` | the registry with everything that feeds it: gossip, own heartbeat, RPC, sign-in, pins, stamps, lookup cache, restart |
| `LotterySlots` | slot arithmetic and the time rule of a block |
| `LotteryProducer` | the producer thread's loop on a chain that peers, the operator and crashes change (extends `LotterySlots`) |
| `LotteryCoinbase` | draw, split, coinbase and its check |
| `ClaimChain` | one node's branches of blocks, its mempool, the map of claims, templates, flushes and restarts |
| `RootLedger` | what the claims promise, without a chain: the abstract specification that `ClaimChain` implements |
| `HostShare` | settings and file of the host share, and the scans that pay the guests |
| `XMarket` | the books of all nodes, the gossip between them, and the market's RPCs |
| `Ordering` | the order in which a `std::map` is read: the numbers of a set, the smallest first (used by `LotteryCoinbase` and `XMarket`) |
| `*Proofs` | theorems about the module of that name (`LotteryRegistry`, `LotteryProducer`, `Ordering`, `LotteryCoinbase`, `ClaimChain`, `RootLedger`, `HostShare`, `XMarket`) |
| `MC*` | instances for TLC; the `.cfg` files hold the constants |

### LotteryRegistry

A node id is the hash of its payout script and the two are identified. `nodes`
and `byHandle` are the code's two maps; `call[t]` is the `Heartbeat` call thread
`t` is in: its arguments and the `now` it read when it began. A call takes
three steps, entering (`XhbReceive`, `HeartbeatLocalBegin`, `RegisterActiveNode`,
`ApplyCoinbasePayouts`, `SignIn`), the checks without the lock (`XhbChecks`,
`HeartbeatLocalChecks`) and the locked part (`HeartbeatLocked`). The last is one
action with all it does: sticky handle, release of a dead binding, refusal of a
live id under a new handle, insertion, eviction. Pruning of dead nodes when the
registry is read is modelled by the `Live` test at every read, which gives the
same answers. Signatures cannot be forged: a message is in `sent` because its
owner signed it, and a stamp in `stamps` because the attestor did. Messages in
`sent` may be received any number of times, in any order, as long as the window
of 600 s (`MaxSkew`) admits them.

`LiveTicketKept` names the ways in which a live ticket can go: the node changes its
local script; the process restarts; the registry is full and evicts the least recently seen; or the
registry is over its limit and the node's own heartbeat, which waited for the lock
with an old time, sets its ticket back and then evicts it (`TurnedBack`). Other than
by these a ticket keeps its handle and the time it joined. `SeedRegistryBounded` is
about a seed whose templates pay its own wallet; elsewhere the limit can be
exceeded (see the findings).

### LotteryProducer

`pc` runs through the loop: clock read, tip read and latches, sibling check,
draw, template, time stamp, `ProcessNewBlock`, latches. Every step reads the
clock and the tip as they are then. A block is its parent, height, time and the
set of its ancestors; its hash is a number because fork choice compares hashes.
`block` holds every block ever emitted, whoever has it; `have`, `failed` and `tip`
are this node's index, `disk` what was last flushed. Only the seed can sign, so the blocks
that peers return (`PeerBlock`) are ones it emitted and, after a crash, lost.
`Restart` reads the flushed index and forgets the latches. The median time past
is computed by height, which is right as long as times rise along a chain;
`MedianIsMedian` says that it is the sorted median. `pace` is the environment,
chosen at the start: in the "free" one everything happens at any time; in the steady one
nodes are stamped, nothing disturbs the chain, and each second has one iteration of
the loop, which ends within it ("due", then "ran").

### LotteryCoinbase

Ids are numbers, ordered as the code orders them. The hash stream of a draw is an
arbitrary sequence of numbers. The XHB1, XVA1 and XSD1 outputs are the id lists
they name. Between `ComputeDraw` and `ApplyCoinbasePayouts` a ticket may be
dropped, since the lock is not held. `CheckLotteryCoinbase` judges the node's own coinbase
and then one that another node presents, out of every small one. Whether the
network signs its draws, and whether the node holds the attestor's key (`baked`),
is part of the initial state. Only the seed's producer runs where draws are signed
(`MayProduceBlock`), but any node assembles a template when an RPC asks for one
(miner.cpp:180); without the key it leaves XSD1 out (lottery.cpp:1541-1543), and
`signed` is then what the seed signed elsewhere (`SeedSigned`). `OwnBlockAccepted` is an
equivalence: it says when a node takes its own coinbase and that it does not
otherwise. The partial shuffle is written without recursion: `Pools` is the
sequence of what the hat looks like after each round. `DrawIsFair` counts: of the streams that
a draw can tell apart, exactly one gives each arrangement of winners.

### ClaimChain and RootLedger

A block is a model value with a parent, a hash, at most one claim (a handle and
the root it is given), and a flag for all other rules together (`Good`).
Several threads bring blocks (`CheckBlock` without `cs_main`, then `AcceptBlock`) and
call `ActivateBestChain`, by themselves too (`CallActivateBestChain`: RPCs, and the
message thread before it serves a block). `target[t]` is the caller's `pindexMostWork`: chosen
by `FindMostWorkChain` when it is null, kept from one iteration to the next, and null again
after an invalid block. `holder` is the thread that has `cs_main` for a step:
from `ActivateBestChain` to `ActivateStepEnds` one `ActivateBestChainStep` runs block by block,
and only `CheckBlock`, a flush and a crash come in between; the lock is then free, and
other threads may do anything before the caller's next iteration. `candidates` is
`setBlockIndexCandidates` with its pruning (`NotWorse`), so that a block worse than a former
tip is not looked at again. `roots` is
`mapXAccountToAsset` and at the same time its copy in the database, since every
change is written at once; `disk` is what the last flush wrote of everything
else. Actions that test a block without connecting it (`CreateNewBlock`,
`TestProposal`) and blocks that fail after their claim (`ConnectTipFails`)
write `roots` as the code does.

`RootLedger` has one variable, the root of each handle, and two actions: a handle
that has none gets a free root, and a set of handles loses theirs.
`ImplementsLedger` maps the ledger to the claims along the active chain, not to
`roots`: dry runs must not show, and they do not.

`SafeCrash` restricts crashes to moments at which the chain on disk is a prefix of the
chain in memory, that is, no block has been disconnected since the last flush.
Without the restriction the properties fail (see the findings); with it they hold.

Left out: header-only entries other than the ancestors of blocks whose data came early
(`Early`); what `preciousblock` and `reconsiderblock` do to the candidates; the
depth limit of reorganizations (`-maxreorg`); `invalidateblock`, which is in
`LotteryProducer`; `ReplayBlocks` after a crash inside a flush; VerifyDB's
level 4. A clean shutdown is a flush followed by a crash. Disconnected claims
are offered to the mempool in any order.

### HostShare

`scan[t]` holds what thread `t` has read so far: percent and local script,
then the guests with a holder address, then the unmarked mature wins. Each is
read under its own lock, and payments follow, one win at a time, in the order
of transaction ids. `PersistLocked` may fail or cut the file off, and nobody looks
at the result. `paid` is a history variable with every share transaction.
`indexed` says whether the asset index is ready and a wallet loaded; it is settled at each start.
`local` is the lottery's local script: the key file's after a start, the wallet's once the
loop has adopted it, and another when a template is made for another. A win matures
and stays mature: that a reorganization makes its coin immature again is left out.
`coin` says what became of the win's output: a share transaction may spend that
coin only, because coin control without `fAllowOtherInputs` takes nothing else.

### XMarket

Each node has its book, its wallet's locks, and its chain's coins: `seen` are
those the chain has made, `spent` those it has seen spent. Chains differ: a coin reaches each
node with a block of its own (`ConnectBlock`), and a reorganization takes coins and
spends back (`DisconnectBlock`). `ValidateAsk` refuses an ask whose coin is
not there, spent or not yet made. `missed[n]` are the asks that node `n` was offered, or had, while its chain
lacked the coin, and has not entered since. `wire` holds the messages of each connection in order. An ask is a number
(the order of the hashes, in which books are pushed) that gets its coin when it is
signed; two asks of one coin are a relisting. `calm` remembers whether an ask was
ever replaced, dropped for want of room, kept out by the rate limit or left out of a push:
the agreement of books is promised only without these, and not of `missed` asks.

## 3. What is checked

| Run | Question | Result |
|---|---|---|
| `registry_seed` | On the baked seed, with a full registry, a fickle blue check, repeated and delayed messages and restarts: are tickets signed for, is the registry bounded, is everybody in the draw stamped, do stamps stop after a loss, is a live ticket kept? | holds |
| `registry_regtest` | A node with two scripts, two accounts and a peer, all entry points interleaved: is there one ticket per handle, is it indexed, is a live binding sticky, and is a live ticket kept, in a registry that outgrows its limit too? | holds |
| `registry_pins` | Pins loaded, half loaded, removed and read back while calls are in flight on a test-network node with an encrypted wallet: is a pin honoured? | holds |
| `producer_main` | Surrounded by crashes, peers, invalidation and a moving clock: never early, one block a minute and a height in one life, the clamp inside the slot, a missed minute final? And left in peace with stamped nodes, does the chain have every minute's block? | holds |
| `producer_catchup` | Does the producer catch up after a missed minute? | violated: finding |
| `coinbase` | With signed draws, on the seed and elsewhere, and without: when exactly does a node accept its own coinbase, does it accept of others' only the signed draw; is the draw fair, the subsidy split to the last unit, nobody paid twice? | holds |
| `claims` | Two threads; two branches that give one handle different roots, a block that would give a root a second holder, one that would give a handle a second root, one that breaks another rule, claims in the mempool and from the wallet, dry runs, flushes, a crash: is there one root per handle and one handle per root, is every confirmed claim recorded, does every pending claim fit the next block, does a restart succeed, does the node end on the best branch when calls do not overlap, does all this implement the ledger? | holds |
| `claims_fork` | Does the node accept every block of a valid branch whose parent it has? | violated: finding |
| `claims_crash` | Does a restart succeed after a crash at any moment? | violated: finding |
| `claims_race` | Does the node end on the best branch when calls of `ActivateBestChain` overlap? | violated: finding |
| `hostshare` | Two scanning threads, two wins paid to different scripts, settings that change under way, an asset index that may not be ready, lost writes, a refused transaction, a crash: is a win shared at most once and by the percent, and is every mature win dealt with in the end? | holds |
| `market` | Three nodes, a cycle, a late joiner, a chain that lags, relisted asks, full books, blocks and reorganizations, restarts, connections lost and made again: does every book keep its limit and one ask per coin, do peers agree on the asks they were not offered too early, does the gossip end? | holds |

Bounds, and why they are enough for the cases meant.

* Registry: three scripts (on the seed four, two of them its own) and two handles
  give a binding that moves to another script, a script that changes its handle
  and an eviction. `MaxActive` is 1, so that a full registry and one over its limit
  both occur; TTL, skew and negative cache of one second and a positive
  cache of two put every comparison on both of its sides and on its boundary
  within a clock of 2 or 3. `MaxSent` bounds the signed heartbeats, not their
  receptions. In `registry_pins` one handle is enough, since a pin concerns one.
  One worker thread and the message thread make two calls overlap. No symmetry
  is used: the scripts play different parts.
* Producer: slots of two or three seconds (a first and a last second, and one in
  between), a median over three blocks, four or five hashes with every order of
  arrival, and a clock that ends after three slots or more. A missed minute, a
  crash inside a minute, two siblings, and a block that takes across a minute's
  end all occur. `MaxClock` only stops time.
* Coinbase: up to four ids with one, two or three winners, a hat larger than
  the commitment that is read (`MaxCommit` 3), heights 1, 3 and 5 with an initial subsidy
  of 3, so that it halves to 1 and to 0, every stream up to the size that tells the draws apart; for peers every commitment of at most two ids, sorted or
  not, with every payout of at most two outputs, wrong values included. Where the
  node is not the seed, the seed has signed one set of two ids.
* Claims: two handles, two names, and six blocks on two branches of length two,
  the least in which a reorganization meets each kind of conflict (handle, name,
  other rule) at its last block and must go back. Equal lengths make the hash
  decide, unequal ones the length. Two threads: one brings b1, as the node's producer
  would, and the other what peers send (`Brings`); in `claims_race` either brings any block. The data of one block
  may come before its parent's (`Early`), so that a step can end half way to its
  target. One crash at any moment, and flushes only until it has happened, since only a
  restart reads what they write. In `claims_race` no claim, bad block or crash is in
  the way. The wallet of one
  handle claims, with both names derivable; one foreign claim is broadcast, and one
  block is submitted as a proposal.
* Host share: guest list limit 2 with three guests to invite, a file that holds one
  of two wins, one fault and two changes of settings or surroundings, which
  suffices for every pair of a scan in flight and a change; one guest's root may move (`Mover`). The values 107 and
  109 make both the percent and the division round. `Percents` holds 100, which
  leaves no room for the fee, beside the default of 20.
* Market: books of one or two asks (`AskLimits`, both tried), a push of one ask on
  connect, so that limits are met with two asks. One spend, and two events (a
  connection made or lost, a restart, a disconnected block, a message over the rate), so that a restart or
  a lost connection is followed by a reconnection, and a reorganization by another; two nodes
  are connected at the start, and the third joins either. The coin of one ask has
  not reached the other node's chain at the start. The real limits are 200 and 50.

`CHECK_DEADLOCK FALSE` is set everywhere because the models end where the clock
does, after the last verdict (coinbase), when VerifyDB has refused (claims), or
when nothing is left to scan, post or deliver.

Fairness. `producer_catchup` uses weak fairness of the producer's
steps (the thread is never starved and never exits) and of `Tick` (time passes).
Both are the least a running process has, so that the violation is not the
scheduler's doing; and because time stops at a bound there, the theorem
`MissedForEver` says the same without a bound. `KeepsPace` is stated as an invariant of the steady environment, in which an
iteration of the loop takes place in each second and within it. `claims` and `claims_race`
use weak fairness of each thread that has called `ActivateBestChain`, or brought a block, until it returns
(`GoesOn`): it waits for nothing but `cs_main`, which its holder gives back after a step.
Nobody owes a block, a claim or a call. `hostshare` uses weak fairness of the lottery
loop's scan, which runs once a second; the loop need not adopt a script, and nobody has to call `listguests`. `market` uses weak fairness of handling
messages that have arrived. `SettlesOnBest` is conditional on the node being up and
on calls that do not overlap, or no longer do with another one made after;
`WinsGetHandled` on settings that stay such that sharing is possible, which includes
the asset index; and `GossipEnds` on `calm`. `SettlesOnBest` speaks of the candidates, as `FindMostWorkChain` does: a
block that records its claim and then fails can make the former tip fail too when it is
reconnected, and what was worse than that tip is no longer a candidate.

### Findings

* **A missed minute stops the chain** (`producer_catchup`, proved as
  `MissedForEver`). `CreateNewBlock` gives a template the wall clock's time and
  validates it before `ProduceOneBlock` clamps it. Once the clock has left the
  next height's slot no template is valid, ever, although LOTTERY.md speaks of
  catching up. A hat that is empty for a minute is enough; so is a block whose
  processing crosses the minute's end, because the latch is then set from the
  new minute and bars it. A network whose genesis lies in the past
  without blocks can therefore not begin at all.
* **Blocks of a valid branch are refused** (`claims_fork`). Whether a claim is
  allowed is looked up in the one map of the process and in the mempool, not in
  the branch the block is on. A node that connected a block giving `h` the root
  `n1`, or holds such a claim in its mempool, refuses every block that gives
  `h` another root, and so never changes to a longer branch that starts
  with one, although validation.cpp:722 says that it accepts the blocks other
  nodes consider valid.
* **A crash after a reorganization stops the node** (`claims_crash`). The map
  is written at once and the chain hourly. (The reorganization itself needs both branches' blocks to
  have passed `CheckBlock` before either was connected, on two threads.) If the crash undoes a disconnect, the chain on disk may carry a
  claim that the map contradicts, and VerifyDB reports a corrupted database. If
  the new branch gave the handle nothing, the restart succeeds with a confirmed
  claim that the map has forgotten, and the handle can be given a second
  root. `SafeCrash` excludes both, and is the hypothesis of the theorems.
* **Overlapping calls leave the node off the best branch** (`claims_race`).
  `ActivateBestChain` keeps the target it chose while `cs_main` is released between
  its steps (validation.cpp:3639, 3654, 3667-3673, 3693). A thread half way to `a2` goes back from
  the better `x2`, which another thread has activated meanwhile, connects `a2` and returns: the node rests there
  until somebody calls `ActivateBestChain` again, although 3629-3630 promise an
  activated best chain. When the target is chosen anew in every iteration, the
  property holds on the same instance. What the overlap does not touch are the claims:
  one root per handle, the map and the mempool hold in any interleaving of any number of threads (proved).

Met while modelling, and not given a run of their own:

* A crash inside a minute gives a second block: the only memory of the first is an index
  flushed hourly and two latches on the stack (FORK-CHOICE.md:3 says that a node
  which accepted a block for a height "must not emit another").
  `NeverTwiceAtHeight` is about one life of the process.
* With a subsidy of 0 `SplitReward` returns no parts and `CheckLotteryCoinbase`
  (lottery.cpp:1656) indexes them; on regtest that is height 5850.
  `OwnBlockAccepted` has the case: such a block is not accepted.
* The producer commits up to 4096 ids and `ParseActiveSetCommitment` reads
  1024 (lottery.cpp:1488): with more stamped nodes its own block is invalid.
  `OwnBlockAccepted` has this case too.
* The registry can outgrow `MAX_ACTIVE_NODES`. An insertion into a full registry evicts the
  least recently seen node unless that is the local one, and then nobody
  (lottery.cpp:1121-1131). Over the limit a heartbeat for a node that is there
  already evicts as well, and one that waited for the lock can make
  its own live ticket the oldest and drop it.
* `SetLocalScript` leaves a `byHandle` entry behind (lottery.cpp:1029). When that
  script later carries another handle, a handle that nobody holds is refused as already bound.
* Host share: a scan by `listguests` before the loop has adopted the wallet's script
  finds the wins not paid to the local script and marks them as shared. A guest removed, or the share switched off, while a scan is under
  way is still paid by it. A win paid to an earlier local script is marked and
  never shared. At 100 percent nothing is left for the fee, and the win is tried
  again at every scan. Marks that the file lost let a win that was kept (no guests at the
  time) be shared later.
* Market: two asks of one coin that circulate replace each other at every node
  and are relayed each time, as are asks that compete for the last place of a
  book; only the limit of 30 messages a minute slows them. A seller's own ask can
  be dropped from its book for want of room; `cancelask` then does not find it
  and the coin stays locked until a restart. A node whose chain lags drops the
  ask of a coin it does not know yet and nobody sends it again (`missed`), unless it connects to
  a node that has it. A peer that
  connects is sent 50 of up to 200 asks.
* On main the settle delay of 5 seconds (FORK-CHOICE.md:50) is not applied: it is
  in the branch for the other networks, and a block goes out in second 0.
* "Active" is 180 seconds after a heartbeat *arrives*, and it may arrive up to
  600 s after it was signed (LOTTERY.md:148 gives 180 s). `SeedTicketsSigned` states
  the bound that does hold, the sum of the two.
* `ActiveIdsForSlot` lets an id in that was dead at the slot's opening and
  heartbeats during the slot (FORK-CHOICE.md:49 says "still alive at open").
* A template asked for by `getblocktemplate` without `-miningaddress` makes
  OP_TRUE the local payout script (LOTTERY.md:155 speaks of the wallet's).
* On test, where the wall-minute latch is not consulted, one life of the process can
  put two blocks on one parent: after crashes, with the loop's copy of the tip
  older than two siblings that peers return and the operator invalidates in
  turn. `NeverTwiceAtHeight` is therefore stated for main.

## 4. What is proved

For all values of the constants that satisfy the named ASSUMEs: any set of scripts, handles,
threads and hashes, any time constants, slot length and median span. The
assumptions restrict little: local scripts are scripts, absent values are not
values; for the producer a slot has more than one second, the settle delay is
shorter than a slot and the genesis time is a multiple of the slot length, as
both genesis blocks' are.

Registry (`LotteryRegistryProofs`). `RegistryInv` is the inductive invariant:
types, `HandleIndexed` (every registered node is found by `byHandle` under its handle)
and `NotAhead` (no call and no node carries a time still to come).

* `TypeCorrect`, `AlwaysIndexed`.
* `OneTicket`: no two tickets for one handle. It is not inductive by itself. A
  stale `byHandle` entry could let a second ticket in; `HandleIndexed` excludes it.
* `HandleSticks`: a live binding is not taken over. It needs `NotAhead`, because
  a waiting call judges liveness by a clock it read earlier.
* `PinsHold`: with `CallsPinned` (what a call past its check knows of the pin).
* `DrawIsStamped`: with `StampsGenuine` (stored and carried stamps were signed).
* `SeedTicketsAreSigned`: with `TicketsSigned`, which dates the signature behind
  every ticket and every call.
* `LiveTicketIsKept`: with `FiniteRegistry`. Among finitely many nodes there is a least
  recently seen one, and only that is evicted.
* `SeedRegistryIsBounded`: by counting. An insertion adds one and
  evicts one; the invariant `SeedOutOfHat` says that on such a seed no heartbeat is ever signed for
  a local script, so that none has a ticket and the exception for the local node never applies.
* `StampsStop`: with `CacheHonest`, which dates every cached answer: a positive one
  ends at the latest `CacheTTL` from now, and `CacheTTL` after the loss if the check is lost.

Producer (`LotteryProducerProofs`), five layers, each using those before it.

* `TreeInv`: types, and every block lies in the slot of its height with a full
  chain of ancestors below it. Gives `ProducerTypeCorrect`, `MedianStaysBelow`,
  `MissedForEver`, and `MedianIsTheMiddle`: heights number the ancestors of a block
  without gaps and times rise with them, so that the one at the middle height
  has as many below and above as the median needs, for every median span.
* `MinuteInv`: how the latch relates to the last emission and the clock.
  Gives `OneBlockAMinute`.
* `TimeInv`: block times are past, the tip is the best candidate, and what the
  loop's copies of clock, tip and draft still guarantee after the world moved on.
  Gives `NeverEarly`: although no guard says so on main, a block is never out before its slot.
* `HeightInv`: a draft's slot is later than the last emission. Gives `OneBlockAHeight`.
* `Pace`, in the steady environment on main: one chain and nothing failed (`OneIndex`), the loop
  works on its tip (`OnTip`), and the tip's slot is the running minute's or, until
  the loop has run in this second, the one before (`OnTime`). Gives `ChainKeepsPace`, for any number of minutes.

Order (`OrderingProofs`). The prover cannot instantiate induction over a predicate;
it can use induction over a *set* of numbers. `LeastNumber` (a nonempty set of numbers
has a least element, from the library's `NatLessThanWellFounded`) gives `Upward` (a
set with 0 and with the successor of each of its numbers below `k` holds `0..k`), and `Iterated` gives the existence of a
function defined by recursion on numbers. `InOrderSorts`: `InOrder` lists a finite
set of numbers strictly rising and completely.

Draw and coinbase (`LotteryCoinbaseProofs`), for any finite set of ids, heights,
fees, subsidy and interval. The lemmas say what the folds and
the shuffle compute: sums of payments, the parts of `SplitReward`, and `PoolContents` (a
round loses nobody from the hat).
`CoinbaseInv` is inductive: types; `DrawInv` (the active set is sorted, without
repetition and stamped, and the winners are drawn from it); `OwnInv` (what the node's own coinbase claims, commits
to and pays, or that it commits to nothing without winners); `VerdictInv` (what a
verdict has looked at).

* `FairDraw`: two streams that differ draw different arrangements (`AllRounds`), and
  for every arrangement a stream is constructed (`EveryArrangement`).
* `OwnBlocksAreAccepted`: both directions; where draws are signed, for the seed and for
  nobody else.
* `OnlySignedDraws`, `WinnersArePaidOnce`, `SplitIsEven`: of any accepted coinbase,
  whoever assembled it.

Claims (`ClaimChainProofs`), for every tree of blocks and any number of threads, whose calls
may overlap, with `SafeCrash` as hypothesis except for `TypeCorrect`. The inductive invariant `IInv` is TypeOK, `OneRootPerHandle`,
`ConfirmedIsRecorded`, `PoolInv` (the claims of the mempool agree with `roots`
and with each other, and issue no root of the chain) and `up`. None of the
parts is inductive alone. `OneRootPerHandle` needs `ConfirmedIsRecorded`: the
check of a new block consults only the map for the handle. A disconnect keeps `ConfirmedIsRecorded` only because
no other block of the branch carries the handle, which is `OneRootPerHandle`.
A template's dry run keeps `PoolInv` only because the pool's claims do not
conflict. The lemma `CheckedIsFresh` (a claim that passes `CheckTxAssets`
shares neither handle nor name with the branch) carries the step of `ConnectTip`.

* `ChainOneRootPerHandle`, `ChainConfirmedIsRecorded`, `ChainPoolFitsNextBlock`,
  `ChainRestartSucceeds`.
* `ChainImplementsLedger`: `Spec => Ledger!Spec`. The initial chain has no claims;
  `ConnectTip` is `Assign` or a stutter, `DisconnectTip` and `CrashAndRestart`
  are `Release`, and every other action leaves the tip alone.
* `RootLedgerProofs`: `LedgerOneHolder`, what the ledger is for.

Host share (`HostShareProofs`): `IInv` is `SettingsOK` (ranges, and a file that
holds nothing else), `WorldOK`, `ScanOK` (what a scan remembers was once true),
`CoinOK` (a win has been paid from at most once, and then its coin is no longer unspent) and
`PaysThePercent`. Gives `HostTypeCorrect`, `HostSharedAtMostOnce` and
`HostPaysThePercent`; the latter from the lemmas `PotIsThePercent` and
`PartsOfThePot` on integer division.

Market (`XMarketProofs`), for any network, limits and asks: `MarketTypeCorrect` (with
`InOrderSorts` for the pushed book), `BookAlwaysSound` from `BookInv`, and
`PeersComeToAgree` from `GossipInv`: while `calm`, an unspent ask in a node's
book is, for each of its connections, in the peer's book, on the wire to it, or among those
the peer has missed (`Met`), and what is on a wire its sender offers or has seen go. The
last disjunct is needed: a peer refuses the ask of a coin its chain lacks, and a
reorganization can take the coin from a peer that had accepted the ask.

Every safety invariant and action property of the passing runs is thus proved.
Only model-checked: liveness under fairness (`CatchesUp`, `SettlesOnBest`, `ActivatesBest`,
`WinsGetHandled`, `GossipEnds`), which is out of the prover's reach, and what the
other two violation runs refute (`AcceptsValidBlocks`, and `RestartSucceeds` without `SafeCrash`).

## 5. Not modelled

The 15 s relay throttle, and the map it keeps of every id ever relayed; the
syntax of the invite file, and `Persist` overwriting it; OAuth and token refresh;
transaction selection in templates, claims aside; header-only index entries,
`preciousblock`, `reconsiderblock` and the depth limit of reorganizations;
`hostshare::EnableAssetIndex` (it edits the configuration file and leaves a
marker for a reindex); message sizes and ban scores in the market; reorganizations that make a win immature again, or take it back; clock offsets between nodes (`GetAdjustedTime` is `GetTime`);
a clock that goes backwards; release feed, price ticker and Qt pages; everything
inherited that the lottery, the claims, the host share and the market do not touch, which is by far
most of the repository (script and UTXO validation, wallet, restricted assets,
messages and rewards, hash algorithms). Hash collisions and forged signatures do not occur.

## 6. Plan

1. Proofs: the safety part of the liveness properties, that is, measures that
   the fair steps decrease and no other step raises (blocks between tip and goal,
   unmarked mature wins, messages on the wires).
2. The block index with header-only entries and `reconsiderblock`, on two nodes
   that receive the same blocks in different orders: convergence of the tips.
3. The invite file: `Persist` after a partial load, restart.
4. A composition of `ClaimChain` with two nodes, in which `AcceptsValidBlocks`
   would be stated as agreement of their chains.
