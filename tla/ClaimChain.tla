----------------------------- MODULE ClaimChain -----------------------------
(***************************************************************************)
(* One node's chain of blocks and the claims of root assets in it: which   *)
(* branch the node follows (validation.cpp), the claims its mempool holds, *)
(* the template it tests, and the map from X handle to root asset that     *)
(* xaccount.cpp keeps beside the chain, in memory and in the asset         *)
(* database, and that decides whether a block is valid.                    *)
(*                                                                         *)
(* A claim is the transaction that issues root name n to handle h.  A      *)
(* block carries at most one.  What else a block must satisfy is the set   *)
(* Good.  Several threads bring blocks and activate branches; the one that *)
(* has cs_main for a step of ActivateBestChain is the variable holder, and *)
(* nobody else then takes a step that needs the lock.                      *)
(***************************************************************************)
EXTENDS Naturals, Sequences, FiniteSets

CONSTANTS
    Handle, Name, NoName,
    Block,       \* blocks that somebody may make, the genesis block aside
    Genesis,
    NoBlock,
    Thread,      \* threads that call ActivateBestChain
    NoThread,
    Brings,      \* the blocks that a thread calls ProcessNewBlock with
    Importer,    \* the thread that loads and activates blocks at the start
    Outside,     \* the state of a thread that is not in ActivateBestChain
    Early,       \* blocks whose data may come before that of their parents
    Parent,      \* [Block -> Block \cup {Genesis}]
    Anc,         \* the blocks of the branch that ends with a block
    Hash,        \* [Block \cup {Genesis} -> Nat], the order of block hashes
    Claim,       \* the claim a block carries, or NoClaim
    NoClaim,
    Good,        \* blocks that satisfy every rule that is not about claims
    LooseClaim,  \* claims that users broadcast
    Proposal,    \* blocks that somebody submits to getblocktemplate
    SignedIn,    \* handles that sign in with X at this node
    Derivable,   \* [Handle -> Seq(Name)]: the mapped name, then its suffixes
    SafeCrash,   \* a crash never undoes an unflushed disconnect
    MaxCrashes

Root == Block \cup {Genesis}
ClaimTx == [h : Handle, n : Name]

ASSUME NameAssumption == NoName \notin Name
ASSUME BlockAssumption ==
    /\ Genesis \notin Block
    /\ NoBlock \notin Root
    /\ IsFiniteSet(Block)
    /\ Early \subseteq Block
ASSUME ThreadAssumption ==
    /\ Importer \in Thread
    /\ Brings \in [Thread -> SUBSET Block]
    /\ NoThread \notin Thread
    /\ Outside \notin Root \cup {NoBlock}
ASSUME TreeAssumption ==
    /\ Parent \in [Block -> Root]
    /\ Anc \in [Root -> SUBSET Block]
    /\ Anc[Genesis] = {}
    /\ \A b \in Block : /\ b \notin Anc[Parent[b]]
                        /\ Anc[b] = Anc[Parent[b]] \cup {b}
    /\ \A b \in Root : \A c \in Anc[b] : Anc[c] \subseteq Anc[b]
ASSUME ClaimAssumption ==
    /\ NoClaim \notin ClaimTx
    /\ Claim \in [Block -> ClaimTx \cup {NoClaim}]
    /\ LooseClaim \subseteq ClaimTx
    /\ Proposal \subseteq Block
    /\ SignedIn \subseteq Handle
ASSUME DerivableAssumption == Derivable \in [Handle -> Seq(Name)]
ASSUME HashAssumption ==
    /\ Hash \in [Root -> Nat]
    /\ \A a, b \in Root : Hash[a] = Hash[b] => a = b
ASSUME CrashAssumption == SafeCrash \in BOOLEAN /\ MaxCrashes \in Nat

VARIABLES
    stored,    \* blocks whose data is in the block files (BLOCK_HAVE_DATA)
    failed,    \* blocks with BLOCK_FAILED_VALID
    candidates,\* setBlockIndexCandidates
    tip,       \* chainActive.Tip()
    target,    \* each thread's pindexMostWork; NoBlock is nullptr
    holder,    \* the thread that is in a step of ActivateBestChain
    oldTip,    \* pindexOldTip of that step
    dropped,   \* the claims in disconnectpool
    roots,     \* mapXAccountToAsset, and its copy in the asset database
    pool,      \* the claims in the mempool
    inbox,     \* blocks that passed CheckBlock and wait for cs_main
    disk,      \* tip and index as FlushStateToDisk last wrote them
    crashes,
    up         \* FALSE: VerifyDB refused the database at start

vars == <<stored, failed, candidates, tip, target, holder, oldTip, dropped,
          roots, pool, inbox, disk, crashes, up>>

-----------------------------------------------------------------------------
ClaimsOf(S) == {Claim[b] : b \in S} \ {NoClaim}

(* The root assets of the branch that ends with t: what the asset cache    *)
(* holds when t is the tip.                                                *)
RootsIssued(t) == {c.n : c \in ClaimsOf(Anc[t])}

Idle == holder = NoThread

Calling(t) == target[t] # Outside

(* The map first, then the mempool.                                        *)
AssignedName(h) ==
    IF roots[h] # NoName THEN roots[h]
    ELSE IF \E c \in pool : c.h = h THEN (CHOOSE c \in pool : c.h = h).n
    ELSE NoName

(* The rule of CheckTransaction: it reads map and mempool, and not the     *)
(* branch that the block belongs to.                                       *)
VerifyNewAsset(c) == c # NoClaim => AssignedName(c.h) \in {NoName, c.n}

(* Mutated: the name is not looked up in the asset cache.                  *)
MutantCheckTxAssetsName(c, t) == VerifyNewAsset(c)

(* Mutated: relies on what CheckBlock said when the block came in.         *)
MutantCheckTxAssetsHandle(c, t) == c # NoClaim => c.n \notin RootsIssued(t)

CheckTxAssets(c, t) == VerifyNewAsset(c) /\ (c # NoClaim => c.n \notin RootsIssued(t))

(* Another root of the handle is not overwritten; the block goes on.       *)
AddXAccountAssignment(c) ==
    IF c # NoClaim /\ roots[c.h] \in {NoName, c.n} THEN [roots EXCEPT ![c.h] = c.n] ELSE roots

RemoveXAccountAssignment(c) ==
    IF c = NoClaim THEN roots ELSE [roots EXCEPT ![c.h] = NoName]

-----------------------------------------------------------------------------
(* Fork choice.                                                            *)

Height(b) == Cardinality(Anc[b])

PreferLotteryFork(a, b) ==
    \/ Height(a) > Height(b)
    \/ Height(a) = Height(b) /\ Hash[a] < Hash[b]

(* Blocks that are in the chain are not looked at again.                   *)
Usable(b) == b \in candidates /\ (Anc[b] \ Anc[tip]) \cap failed = {}

FindMostWorkChain(b) ==
    Usable(b) /\ \A c \in candidates : Usable(c) => ~PreferLotteryFork(c, b)

(* ReceivedBlockTransactions: b and the blocks that waited for it.         *)
Linked(b) ==
    {c \in stored \cup {b} : b \in Anc[c] /\ Anc[c] \subseteq stored \cup {b}}

NotWorse(S, t) == {c \in S : ~PreferLotteryFork(t, c)}

-----------------------------------------------------------------------------
Init ==
    /\ stored = {}
    /\ failed = {}
    /\ candidates = {Genesis}
    /\ tip = Genesis
    /\ target = [t \in Thread |-> Outside]
    /\ holder = NoThread
    /\ oldTip = Genesis
    /\ dropped = {}
    /\ roots = [h \in Handle |-> NoName]
    /\ pool = {}
    /\ inbox = [t \in Thread |-> NoBlock]
    /\ disk = [tip |-> Genesis, stored |-> {}, failed |-> {}]
    /\ crashes = 0
    /\ up = TRUE

(* ProcessNewBlock calls CheckBlock before it takes cs_main.  The result   *)
(* is kept in the block object.                                            *)
CheckBlock(t, b) ==
    /\ up
    /\ ~Calling(t)
    /\ inbox[t] = NoBlock
    /\ b \notin stored \cup failed
    /\ Parent[b] \in stored \cup {Genesis} \/ b \in Early
    /\ VerifyNewAsset(Claim[b])
    /\ inbox' = [inbox EXCEPT ![t] = b]
    /\ UNCHANGED <<stored, failed, candidates, tip, target, holder, oldTip, dropped, roots, pool, disk, crashes, up>>

(* A block on a failed branch is refused.  One that nobody asked for is    *)
(* kept only if it beats the tip; kept or not, ActivateBestChain follows.  *)
AcceptBlock(t, fRequested) ==
    LET b == inbox[t]
    IN  /\ up
        /\ Idle
        /\ b # NoBlock
        /\ inbox' = [inbox EXCEPT ![t] = NoBlock]
        /\ target' = IF Anc[b] \cap failed = {} THEN [target EXCEPT ![t] = NoBlock] ELSE target
        /\ IF /\ Anc[b] \cap failed = {}
              /\ b \notin stored
              /\ fRequested \/ PreferLotteryFork(b, tip)
           THEN /\ stored' = stored \cup {b}
                /\ candidates' = candidates \cup NotWorse(Linked(b), tip)
           ELSE UNCHANGED <<stored, candidates>>
        /\ UNCHANGED <<failed, tip, holder, oldTip, dropped, roots, pool, disk, crashes, up>>

(* The others that call ActivateBestChain: RPCs, and the message thread    *)
(* before it serves a block or answers getheaders.                         *)
CallActivateBestChain(t) ==
    /\ up
    /\ ~Calling(t)
    /\ inbox[t] = NoBlock
    /\ target' = [target EXCEPT ![t] = NoBlock]
    /\ UNCHANGED <<stored, failed, candidates, tip, holder, oldTip, dropped, roots, pool, inbox, disk, crashes, up>>

(* The target is kept from one iteration to the next.                      *)
MostWork(t, b) == IF target[t] = NoBlock THEN FindMostWorkChain(b) ELSE b = target[t]

(* An iteration of the loop takes cs_main for one ActivateBestChainStep.   *)
ActivateBestChain(t, b) ==
    /\ up
    /\ Idle
    /\ Calling(t)
    /\ MostWork(t, b)
    /\ b # tip
    /\ target' = [target EXCEPT ![t] = b]
    /\ holder' = t
    /\ oldTip' = tip
    /\ UNCHANGED <<stored, failed, candidates, tip, dropped, roots, pool, inbox, disk, crashes, up>>

NothingToDo(t) ==
    /\ up
    /\ Idle
    /\ Calling(t)
    /\ \A b \in Root : MostWork(t, b) => b = tip
    /\ target' = [target EXCEPT ![t] = Outside]
    /\ UNCHANGED <<stored, failed, candidates, tip, holder, oldTip, dropped, roots, pool, inbox, disk, crashes, up>>

(* The target of the step; NoBlock once one of its blocks has failed.      *)
Goal == target[holder]

OnGoalsBranch == tip = Genesis \/ tip \in Anc[Goal]

(* Mutated: puts the transaction of a block without a claim in the pool.   *)
MutantDisconnectTip ==
    /\ ~Idle
    /\ Goal # NoBlock
    /\ ~OnGoalsBranch
    /\ tip' = Parent[tip]
    /\ roots' = RemoveXAccountAssignment(Claim[tip])
    /\ dropped' = dropped \cup {Claim[tip]}
    /\ UNCHANGED <<stored, failed, candidates, target, holder, oldTip, pool, inbox, disk, crashes, up>>

DisconnectTip ==
    /\ ~Idle
    /\ Goal # NoBlock
    /\ ~OnGoalsBranch
    /\ tip' = Parent[tip]
    /\ roots' = RemoveXAccountAssignment(Claim[tip])
    /\ dropped' = dropped \cup ({Claim[tip]} \ {NoClaim})
    /\ UNCHANGED <<stored, failed, candidates, target, holder, oldTip, pool, inbox, disk, crashes, up>>

(* The step ends at its goal, after a block that could not be connected,   *)
(* and as soon as the node is better off than before.                      *)
StepOver ==
    Goal # NoBlock => OnGoalsBranch /\ (tip = Goal \/ Height(tip) > Height(oldTip))

(* removeForBlock: the claim itself, what spends the same dummy prevout    *)
(* and what issues the same name leave the mempool.                        *)
Conflicts(c, d) == c # NoClaim /\ (d.h = c.h \/ d.n = c.n)

(* Mutated: only the claim itself leaves the mempool.                      *)
MutantConnectTip(b) ==
    /\ ~Idle
    /\ ~StepOver
    /\ OnGoalsBranch
    /\ b \in Anc[Goal]
    /\ Parent[b] = tip
    /\ CheckTxAssets(Claim[b], tip)
    /\ b \in Good
    /\ tip' = b
    /\ candidates' = NotWorse(candidates, b)
    /\ roots' = AddXAccountAssignment(Claim[b])
    /\ pool' = pool \ {Claim[b]}
    /\ dropped' = dropped \ {Claim[b]}
    /\ UNCHANGED <<stored, failed, target, holder, oldTip, inbox, disk, crashes, up>>

ConnectTip(b) ==
    /\ ~Idle
    /\ ~StepOver
    /\ OnGoalsBranch
    /\ b \in Anc[Goal]
    /\ Parent[b] = tip
    /\ CheckTxAssets(Claim[b], tip)
    /\ b \in Good
    /\ tip' = b
    /\ candidates' = NotWorse(candidates, b)
    /\ roots' = AddXAccountAssignment(Claim[b])
    /\ pool' = {d \in pool : ~Conflicts(Claim[b], d)}
    /\ dropped' = dropped \ {Claim[b]}
    /\ UNCHANGED <<stored, failed, target, holder, oldTip, inbox, disk, crashes, up>>

(* Mutated: the claim of a block that fails is always taken back.          *)
MutantConnectTipFailsUndo(b) ==
    /\ ~Idle
    /\ ~StepOver
    /\ OnGoalsBranch
    /\ b \in Anc[Goal]
    /\ Parent[b] = tip
    /\ ~CheckTxAssets(Claim[b], tip) \/ b \notin Good
    /\ roots' = RemoveXAccountAssignment(Claim[b])
    /\ failed' = failed \cup {b}
    /\ candidates' = candidates \ {b}
    /\ target' = [target EXCEPT ![holder] = NoBlock]
    /\ UNCHANGED <<stored, tip, holder, oldTip, dropped, pool, inbox, disk, crashes, up>>

(* Mutated: InvalidBlockFound does not mark the block.                     *)
MutantConnectTipFailsUnmarked(b) ==
    /\ ~Idle
    /\ ~StepOver
    /\ OnGoalsBranch
    /\ b \in Anc[Goal]
    /\ Parent[b] = tip
    /\ ~CheckTxAssets(Claim[b], tip) \/ b \notin Good
    /\ target' = [target EXCEPT ![holder] = NoBlock]
    /\ UNCHANGED <<stored, failed, candidates, tip, holder, oldTip, dropped, roots, pool, inbox, disk, crashes, up>>

(* ConnectBlock fails.  If what fails comes after the claim, the claim has *)
(* been recorded and stays.  The step gives up where it is.                *)
ConnectTipFails(b) ==
    /\ ~Idle
    /\ ~StepOver
    /\ OnGoalsBranch
    /\ b \in Anc[Goal]
    /\ Parent[b] = tip
    /\ \/ ~CheckTxAssets(Claim[b], tip) /\ roots' = roots
       \/ /\ CheckTxAssets(Claim[b], tip)
          /\ b \notin Good
          /\ roots' \in {roots, AddXAccountAssignment(Claim[b])}
    /\ failed' = failed \cup {b}
    /\ candidates' = candidates \ {b}
    /\ target' = [target EXCEPT ![holder] = NoBlock]
    /\ UNCHANGED <<stored, tip, holder, oldTip, dropped, pool, inbox, disk, crashes, up>>

-----------------------------------------------------------------------------
(* AcceptToMemoryPool: no claim of the pool may share handle (they spend   *)
(* the same dummy prevout) or name.                                        *)
Admits(c) ==
    /\ \A d \in pool : ~Conflicts(c, d)
    /\ CheckTxAssets(c, tip)

(* UpdateMempoolForReorg offers the disconnected claims to the mempool.    *)
UpdateMempoolForReorg(c) ==
    /\ ~Idle
    /\ StepOver
    /\ c \in dropped
    /\ pool' = IF Admits(c) THEN pool \cup {c} ELSE pool \ {c}
    /\ dropped' = dropped \ {c}
    /\ UNCHANGED <<stored, failed, candidates, tip, target, holder, oldTip, roots, inbox, disk, crashes, up>>

ActivateStepEnds ==
    /\ ~Idle
    /\ StepOver
    /\ dropped = {}
    /\ holder' = NoThread
    /\ target' = [target EXCEPT ![holder] = IF tip = @ THEN Outside ELSE @]
    /\ UNCHANGED <<stored, failed, candidates, tip, oldTip, dropped, roots, pool, inbox, disk, crashes, up>>

AcceptToMemoryPool(c) ==
    /\ up
    /\ Idle
    /\ Admits(c)
    /\ pool' = pool \cup {c}
    /\ UNCHANGED <<stored, failed, candidates, tip, target, holder, oldTip, dropped, roots, inbox, disk, crashes, up>>

(* Eviction and expiry.                                                    *)
RemoveUnchecked(c) ==
    /\ up
    /\ Idle
    /\ pool' = pool \ {c}
    /\ UNCHANGED <<stored, failed, candidates, tip, target, holder, oldTip, dropped, roots, inbox, disk, crashes, up>>

NameTaken(n) == n \in RootsIssued(tip) \/ \E d \in pool : d.n = n

(* The first of the handle's names that nobody has taken.                  *)
DeriveMainAssetName(h) ==
    LET free == {i \in DOMAIN Derivable[h] : ~NameTaken(Derivable[h][i])}
    IN  IF free = {} THEN NoName
        ELSE Derivable[h][CHOOSE i \in free : \A j \in free : i <= j]

(* The signed-in user's wallet builds a claim and sends it; a handle that  *)
(* has a root, confirmed or pending, gets that answer and nothing changes. *)
AssignLinkedUserMainAsset(h) ==
    LET c == [h |-> h, n |-> DeriveMainAssetName(h)]
    IN  /\ up
        /\ Idle
        /\ AssignedName(h) = NoName
        /\ c.n # NoName
        /\ Admits(c)
        /\ pool' = pool \cup {c}
        /\ UNCHANGED <<stored, failed, candidates, tip, target, holder, oldTip, dropped, roots, inbox, disk, crashes, up>>

(* CreateNewBlock tests its template with ConnectBlock(fJustCheck), which  *)
(* records the template's claims as if the block had been connected; a     *)
(* claim that fails is removed from the mempool.  Which claims make it     *)
(* into the template depends on their proofs and on the block's size.      *)
CreateNewBlock(S) ==
    /\ up
    /\ Idle
    /\ S \subseteq pool
    /\ roots' = [h \in Handle |->
                   IF \E c \in S : c.h = h /\ CheckTxAssets(c, tip)
                   THEN (CHOOSE c \in S : c.h = h /\ CheckTxAssets(c, tip)).n
                   ELSE roots[h]]
    /\ pool' = pool \ {c \in S : ~CheckTxAssets(c, tip)}
    /\ UNCHANGED <<stored, failed, candidates, tip, target, holder, oldTip, dropped, inbox, disk, crashes, up>>

(* getblocktemplate in proposal mode tests a block that somebody built on  *)
(* the tip and that need not become one.                                   *)
TestProposal(b) ==
    /\ up
    /\ Idle
    /\ b \notin stored \cup failed
    /\ Parent[b] = tip
    /\ CheckTxAssets(Claim[b], tip)
    /\ roots' = AddXAccountAssignment(Claim[b])
    /\ UNCHANGED <<stored, failed, candidates, tip, target, holder, oldTip, dropped, pool, inbox, disk, crashes, up>>

-----------------------------------------------------------------------------
(* Hourly, when the caches are full, and at shutdown.  Only a restart      *)
(* reads what is on disk, so that nothing is lost with the bound.          *)
FlushStateToDisk ==
    /\ up
    /\ crashes < MaxCrashes
    /\ disk' = [tip |-> tip, stored |-> stored, failed |-> failed]
    /\ UNCHANGED <<stored, failed, candidates, tip, target, holder, oldTip, dropped, roots, pool, inbox, crashes, up>>

(* VerifyDB runs CheckBlock on the last blocks of the chain it loaded.     *)
VerifyDB(t) == \A c \in ClaimsOf(Anc[t]) : roots[c.h] \in {NoName, c.n}

(* The process ends and starts again from what is on disk.  The map's      *)
(* entries were written one by one as they were made.                      *)
CrashAndRestart ==
    /\ up
    /\ crashes < MaxCrashes
    /\ SafeCrash => Anc[disk.tip] \subseteq Anc[tip]
    /\ crashes' = crashes + 1
    /\ stored' = disk.stored
    /\ failed' = disk.failed
    /\ tip' = disk.tip
    /\ candidates' = NotWorse({b \in disk.stored \cup {Genesis} :
                                   /\ Anc[b] \subseteq disk.stored
                                   /\ Anc[b] \cap disk.failed = {}}, disk.tip)
    /\ target' = [t \in Thread |-> IF t = Importer THEN NoBlock ELSE Outside]
    /\ holder' = NoThread
    /\ oldTip' = disk.tip
    /\ dropped' = {}
    /\ pool' = {}
    /\ inbox' = [t \in Thread |-> NoBlock]
    /\ up' = VerifyDB(disk.tip)
    /\ UNCHANGED <<roots, disk>>

ActivateBestChainStep ==
    \/ DisconnectTip
    \/ \E b \in Block : ConnectTip(b)
    \/ \E b \in Block : ConnectTipFails(b)
    \/ \E c \in ClaimTx : UpdateMempoolForReorg(c)
    \/ ActivateStepEnds

Next ==
    \/ \E t \in Thread : \E b \in Brings[t] : CheckBlock(t, b)
    \/ \E t \in Thread, fRequested \in BOOLEAN : AcceptBlock(t, fRequested)
    \/ \E t \in Thread : CallActivateBestChain(t)
    \/ \E t \in Thread, b \in Root : ActivateBestChain(t, b)
    \/ \E t \in Thread : NothingToDo(t)
    \/ ActivateBestChainStep
    \/ \E c \in LooseClaim : AcceptToMemoryPool(c)
    \/ \E c \in pool : RemoveUnchecked(c)
    \/ \E h \in SignedIn : AssignLinkedUserMainAsset(h)
    \/ \E S \in SUBSET pool : CreateNewBlock(S)
    \/ \E b \in Proposal : TestProposal(b)
    \/ FlushStateToDisk
    \/ CrashAndRestart

Spec == Init /\ [][Next]_vars

(* What a thread does between its call and its return.                     *)
GoesOn(t) ==
    \/ \E fRequested \in BOOLEAN : AcceptBlock(t, fRequested)
    \/ \E b \in Root : ActivateBestChain(t, b)
    \/ NothingToDo(t)
    \/ holder = t /\ ActivateBestChainStep

(* A thread goes on until it returns; it waits for nothing but cs_main,    *)
(* which every holder gives back.                                          *)
FairSpec == Spec /\ \A t \in Thread : WF_vars(GoesOn(t))
-----------------------------------------------------------------------------
TypeOK ==
    /\ stored \subseteq Block
    /\ failed \subseteq Block
    /\ tip \in Root
    /\ candidates \subseteq Root
    /\ target \in [Thread -> Root \cup {NoBlock, Outside}]
    /\ holder \in Thread \cup {NoThread}
    /\ holder # NoThread => Calling(holder)
    /\ oldTip \in Root
    /\ dropped \subseteq ClaimTx
    /\ roots \in [Handle -> Name \cup {NoName}]
    /\ pool \subseteq ClaimTx
    /\ inbox \in [Thread -> Block \cup {NoBlock}]
    /\ disk \in [tip : Root, stored : SUBSET Block, failed : SUBSET Block]
    /\ crashes \in 0..MaxCrashes
    /\ up \in BOOLEAN

(* No two claims of the branch share their handle or their root.           *)
ClaimsAgree(t) ==
    \A a, b \in Anc[t] :
        (a # b /\ Claim[a] # NoClaim /\ Claim[b] # NoClaim) =>
            ~Conflicts(Claim[a], Claim[b])

(* docs/ASSETS.md: one X account, one root.  Along the active chain no     *)
(* handle is given a second root and no root a second handle, through any  *)
(* reorganization, dry run and restart.                                    *)
OneRootPerHandle == ClaimsAgree(tip)

(* Every confirmed claim is in the map: the map is what keeps the handle   *)
(* from a second root, and what the wallet shows as the user's root.       *)
ConfirmedIsRecorded ==
    \A c \in ClaimsOf(Anc[tip]) : roots[c.h] = c.n

(* A claim that the mempool holds can go into the next block, whatever was *)
(* connected, disconnected or tested since it was admitted: CreateNewBlock *)
(* never has to throw its template away, which would cost the minute.      *)
PoolFitsNextBlock ==
    \A c \in pool : /\ CheckTxAssets(c, tip)
                   /\ \A d \in pool : c # d => ~Conflicts(c, d)

(* validation.cpp, CheckBlock: "We want to make sure when nodes shutdown   *)
(* and restart that they still verify the blocks in the database           *)
(* correctly".                                                             *)
RestartSucceeds == up

(* No step is under way, and of the branches that the node may choose from *)
(* it is on the best.                                                      *)
OnBest == Idle /\ \A b \in candidates : Usable(b) => ~PreferLotteryFork(b, tip)

(* At most one thread is in ActivateBestChain.                             *)
Alone == \A s, t \in Thread : Calling(s) /\ Calling(t) => s = t

(* FORK-CHOICE.md: the longest valid lottery chain wins, the smaller hash  *)
(* at equal length.  If calls of ActivateBestChain never overlap the node  *)
(* ends on the best branch, also after branches that turned out to be      *)
(* invalid and after a crash in the middle of a reorganization; and where  *)
(* calls did overlap, it is there again once they no longer do and another *)
(* one is made.                                                            *)
SettlesOnBest ==
    []Alone \/ (<>[]Alone /\ []<>(\E t \in Thread : Calling(t)))
        => []<>(up => OnBest)

(* validation.cpp, ActivateBestChain: "The result is either failure or an  *)
(* activated best chain".  Whatever calls overlap, the node does not stay  *)
(* off the best branch for ever.                                           *)
ActivatesBest == []<>(up => OnBest)

(* The claims along a branch agree with each other, and its blocks are     *)
(* good: the branch is valid for every node that starts from nothing.      *)
ValidBranch(t) == Anc[t] \subseteq Good /\ ClaimsAgree(t)

(* validation.cpp, AcceptToMemoryPoolWorker: "this node still accepts      *)
(* blocks other nodes consider valid".  A block of a valid branch whose    *)
(* parent the node has passes CheckBlock.                                  *)
AcceptsValidBlocks ==
    \A b \in Block :
        (up /\ Idle /\ Parent[b] \in stored \cup {Genesis} /\ ValidBranch(b)) =>
            VerifyNewAsset(Claim[b])

(* The roots along the branch that ends with t, and along the active one.  *)
LedgerAt(t) ==
    [h \in Handle |->
        IF \E c \in ClaimsOf(Anc[t]) : c.h = h
        THEN (CHOOSE c \in ClaimsOf(Anc[t]) : c.h = h).n
        ELSE NoName]

ChainLedger == LedgerAt(tip)

Ledger == INSTANCE RootLedger WITH ledger <- ChainLedger

(* The chain implements the ledger: a connected claim assigns a free root  *)
(* to a handle that has none, a disconnected block or a restart takes      *)
(* roots back, and everything else leaves them alone.                      *)
ImplementsLedger == Ledger!Spec
=============================================================================
