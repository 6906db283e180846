-------------------------- MODULE ClaimChainProofs --------------------------
(***************************************************************************)
(* One X account, one root, for every tree of blocks, set of claims and    *)
(* number of crashes, as long as a crash does not undo an unflushed        *)
(* disconnect; and the chain implements RootLedger.                        *)
(***************************************************************************)
EXTENDS ClaimChain, WellFoundedInduction, TLAPS

(* The claims in the mempool fit the map, the chain and each other.        *)
PoolInv ==
    \A c \in pool :
        /\ roots[c.h] \in {NoName, c.n}
        /\ c.n \notin RootsIssued(tip)
        /\ \A d \in pool : (d.h = c.h \/ d.n = c.n) => d = c

IInv == TypeOK /\ OneRootPerHandle /\ ConfirmedIsRecorded /\ PoolInv /\ up

-----------------------------------------------------------------------------
(* Facts about the tree of blocks and the claims in it.                    *)

LEMMA ClaimType == ASSUME NEW S \in SUBSET Block PROVE ClaimsOf(S) \subseteq ClaimTx
BY ClaimAssumption DEF ClaimsOf

LEMMA AncType == ASSUME NEW t \in Root PROVE Anc[t] \in SUBSET Block
BY TreeAssumption

(* A block adds its own claim to those of its parent's branch.             *)
LEMMA ClaimsOfChild ==
    ASSUME NEW b \in Block
    PROVE  /\ Parent[b] \in Root
           /\ ClaimsOf(Anc[b]) = ClaimsOf(Anc[Parent[b]]) \cup ({Claim[b]} \ {NoClaim})
           /\ Anc[Parent[b]] \subseteq Anc[b]
BY TreeAssumption DEF ClaimsOf, Root

LEMMA ClaimsOfMono ==
    ASSUME NEW S, NEW T, S \subseteq T
    PROVE  ClaimsOf(S) \subseteq ClaimsOf(T)
BY DEF ClaimsOf

(* Claims of one branch that agree are the same if they share anything.    *)
LEMMA AgreeSame ==
    ASSUME NEW t \in Root, ClaimsAgree(t),
           NEW c \in ClaimsOf(Anc[t]), NEW d \in ClaimsOf(Anc[t]),
           c.h = d.h \/ c.n = d.n
    PROVE  c = d
BY DEF ClaimsAgree, ClaimsOf, Conflicts

(* What CheckTxAssets lets through does not touch the confirmed claims.    *)
LEMMA CheckedIsFresh ==
    ASSUME TypeOK, ConfirmedIsRecorded, NEW c \in ClaimTx, CheckTxAssets(c, tip)
    PROVE  \A e \in ClaimsOf(Anc[tip]) : e.h # c.h /\ e.n # c.n
<1> SUFFICES ASSUME NEW e \in ClaimsOf(Anc[tip]), e.h = c.h \/ e.n = c.n PROVE FALSE
  OBVIOUS
<1>1. c # NoClaim
  BY ClaimAssumption
<1>2. c.n \notin RootsIssued(tip) /\ AssignedName(c.h) \in {NoName, c.n}
  BY <1>1 DEF CheckTxAssets, VerifyNewAsset
<1>3. e.n # c.n
  BY <1>2 DEF RootsIssued
<1>4. e \in ClaimTx
  BY AncType, ClaimType DEF TypeOK
<1>5. roots[e.h] = e.n /\ e.n # NoName
  BY <1>4, NameAssumption DEF ConfirmedIsRecorded, ClaimTx
<1>6. AssignedName(c.h) = e.n
  BY <1>3, <1>5 DEF AssignedName
<1>7. QED
  BY <1>2, <1>3, <1>5, <1>6

LEMMA CheckedIsFree ==
    ASSUME NEW c, c # NoClaim, CheckTxAssets(c, tip)
    PROVE  roots[c.h] \in {NoName, c.n}
BY DEF CheckTxAssets, VerifyNewAsset, AssignedName

(* A recorded claim that passed the check keeps map and mempool in step.   *)
LEMMA CheckedFitsPool ==
    ASSUME TypeOK, PoolInv, NEW c \in ClaimTx, CheckTxAssets(c, tip),
           NEW d \in pool, d.h = c.h
    PROVE  d.n = c.n
<1>1. c # NoClaim /\ AssignedName(c.h) \in {NoName, c.n}
  BY ClaimAssumption DEF CheckTxAssets, VerifyNewAsset
<1>2. d \in ClaimTx /\ d.n # NoName
  BY NameAssumption DEF TypeOK, ClaimTx
<1>3. CASE roots[c.h] # NoName
  <2>1. AssignedName(c.h) = roots[c.h]
    BY <1>3 DEF AssignedName
  <2>2. QED
    BY <2>1, <1>1, <1>3 DEF PoolInv
<1>4. CASE roots[c.h] = NoName
  <2>1. \A f \in pool : f.h = c.h => f = d
    BY DEF PoolInv
  <2>2. (CHOOSE f \in pool : f.h = c.h) = d
    BY <2>1
  <2>3. AssignedName(c.h) = d.n
    BY <2>2, <1>4 DEF AssignedName
  <2>4. QED
    BY <2>3, <1>1, <1>2
<1>5. QED
  BY <1>3, <1>4

-----------------------------------------------------------------------------
(* Types.                                                                  *)

LEMMA AddType ==
    ASSUME TypeOK, NEW c \in ClaimTx \cup {NoClaim}
    PROVE  /\ AddXAccountAssignment(c) \in [Handle -> Name \cup {NoName}]
           /\ RemoveXAccountAssignment(c) \in [Handle -> Name \cup {NoName}]
<1>1. CASE c = NoClaim
  BY <1>1 DEF TypeOK, AddXAccountAssignment, RemoveXAccountAssignment
<1>2. CASE c # NoClaim
  <2>1. c.h \in Handle /\ c.n \in Name
    BY <1>2 DEF ClaimTx
  <2>2. QED
    BY <1>2, <2>1 DEF TypeOK, AddXAccountAssignment, RemoveXAccountAssignment
<1>3. QED
  BY <1>1, <1>2

LEMMA BlockClaimType == ASSUME NEW b \in Block PROVE Claim[b] \in ClaimTx \cup {NoClaim}
BY ClaimAssumption

(* While a step is under way off the goal's branch the tip is a block that *)
(* can be disconnected.                                                    *)
LEMMA OffBranchTip ==
    ASSUME TypeOK, ~OnGoalsBranch
    PROVE  tip \in Block /\ Parent[tip] \in Root
BY TreeAssumption DEF TypeOK, OnGoalsBranch, Root

(* A set of numbers that is not empty has a least one.                     *)
LEMMA LeastIndex ==
    ASSUME NEW S \in SUBSET Nat, S # {}
    PROVE  \E i \in S : \A j \in S : i <= j
<1> DEFINE R == OpToRel(<, Nat)
<1>1. IsWellFoundedOn(R, Nat)
  BY NatLessThanWellFounded
<1>2. \A i, j \in Nat : <<j, i>> \notin R => i <= j
  BY DEF OpToRel
<1> HIDE DEF R
<1>3. PICK i \in S : \A j \in S : <<j, i>> \notin R
  BY <1>1, WFMin
<1>4. QED
  BY <1>2, <1>3

LEMMA DeriveType ==
    ASSUME NEW h \in Handle, DeriveMainAssetName(h) # NoName
    PROVE  DeriveMainAssetName(h) \in Name
<1> DEFINE free == {i \in DOMAIN Derivable[h] : ~NameTaken(Derivable[h][i])}
           i0 == CHOOSE i \in free : \A j \in free : i <= j
<1>1. Derivable[h] \in Seq(Name)
  BY DerivableAssumption
<1>2. free # {}
  BY DEF DeriveMainAssetName
<1>3. free \subseteq 1..Len(Derivable[h])
  BY <1>1
<1>4. \E i \in free : \A j \in free : i <= j
  <2>1. free \subseteq Nat
    BY <1>3
  <2>2. QED
    BY <2>1, <1>2, LeastIndex
<1>5. i0 \in free
  <2> HIDE DEF free
  <2>1. QED
    BY <1>4
<1>6. DeriveMainAssetName(h) = Derivable[h][i0]
  BY <1>2 DEF DeriveMainAssetName
<1>7. i0 \in 1..Len(Derivable[h])
  BY <1>3, <1>5
<1> HIDE DEF i0
<1>8. QED
  BY <1>1, <1>6, <1>7

(* The state of the chain, the pool and the map has its types, with or     *)
(* without safe crashes.                                                   *)
THEOREM TypeCorrect == Spec => []TypeOK
<1>1. Init => TypeOK
  BY CrashAssumption, ThreadAssumption DEF Init, TypeOK, Root
<1>2. TypeOK /\ [Next]_vars => TypeOK'
  <2> SUFFICES ASSUME TypeOK, [Next]_vars PROVE TypeOK'
    OBVIOUS
  <2>1. CASE UNCHANGED vars
    BY <2>1 DEF vars, TypeOK, Calling
  <2>2. ASSUME NEW t \in Thread, NEW b \in Brings[t], CheckBlock(t, b) PROVE TypeOK'
    <3>1. b \in Block
      BY ThreadAssumption
    <3>2. QED
      BY <2>2, <3>1 DEF CheckBlock, TypeOK, Calling
  <2>3. ASSUME NEW t \in Thread, NEW fRequested \in BOOLEAN, AcceptBlock(t, fRequested) PROVE TypeOK'
    <3>1. inbox[t] \in Block /\ holder = NoThread
      BY <2>3 DEF AcceptBlock, TypeOK, Idle
    <3>2. /\ stored' \subseteq Block /\ candidates' \subseteq Root
          /\ UNCHANGED <<failed, tip, holder, oldTip, dropped, roots, pool, disk, crashes, up>>
      BY <2>3, <3>1 DEF AcceptBlock, TypeOK, Linked, NotWorse, Root
    <3>3. target' \in [Thread -> Root \cup {NoBlock, Outside}]
      BY <2>3 DEF AcceptBlock, TypeOK, Calling
    <3>4. inbox' \in [Thread -> Block \cup {NoBlock}]
      BY <2>3 DEF AcceptBlock, TypeOK, Calling
    <3>5. QED
      BY <3>1, <3>2, <3>3, <3>4 DEF TypeOK, Calling
  <2>4. ASSUME NEW t \in Thread, NEW b \in Root, ActivateBestChain(t, b) PROVE TypeOK'
    BY <2>4, ThreadAssumption DEF ActivateBestChain, TypeOK, Calling
  <2>18. ASSUME NEW t \in Thread, CallActivateBestChain(t) PROVE TypeOK'
    BY <2>18, ThreadAssumption DEF CallActivateBestChain, TypeOK, Calling
  <2>19. ASSUME NEW t \in Thread, NothingToDo(t) PROVE TypeOK'
    BY <2>19 DEF NothingToDo, TypeOK, Calling, Idle
  <2>5. CASE DisconnectTip
    <3>1. tip \in Block /\ Parent[tip] \in Root
      BY <2>5, OffBranchTip DEF DisconnectTip
    <3>2. Claim[tip] \in ClaimTx \cup {NoClaim}
      BY <3>1, BlockClaimType
    <3>3. roots' \in [Handle -> Name \cup {NoName}]
      BY <2>5, <3>2, AddType DEF DisconnectTip
    <3>4. dropped' \subseteq ClaimTx
      BY <2>5, <3>2 DEF DisconnectTip, TypeOK, Calling
    <3>5. QED
      BY <2>5, <3>1, <3>3, <3>4 DEF DisconnectTip, TypeOK, Calling
  <2>6. ASSUME NEW b \in Block, ConnectTip(b) PROVE TypeOK'
    <3>1. roots' \in [Handle -> Name \cup {NoName}]
      BY <2>6, BlockClaimType, AddType DEF ConnectTip
    <3>2. /\ tip' \in Root /\ pool' \subseteq ClaimTx /\ dropped' \subseteq ClaimTx
          /\ candidates' \subseteq Root
      BY <2>6 DEF ConnectTip, TypeOK, Root, NotWorse
    <3>3. QED
      BY <2>6, <3>1, <3>2 DEF ConnectTip, TypeOK, Calling
  <2>7. ASSUME NEW b \in Block, ConnectTipFails(b) PROVE TypeOK'
    <3>1. AddXAccountAssignment(Claim[b]) \in [Handle -> Name \cup {NoName}]
      BY BlockClaimType, AddType
    <3>2. roots' \in [Handle -> Name \cup {NoName}]
      BY <2>7, <3>1 DEF ConnectTipFails, TypeOK, Calling
    <3>3. failed' \subseteq Block /\ candidates' \subseteq Root
      BY <2>7 DEF ConnectTipFails, TypeOK, Calling
    <3>4. QED
      BY <2>7, <3>2, <3>3, ThreadAssumption DEF ConnectTipFails, TypeOK, Calling, Idle
  <2>8. ASSUME NEW c \in ClaimTx, UpdateMempoolForReorg(c) PROVE TypeOK'
    BY <2>8 DEF UpdateMempoolForReorg, TypeOK, Calling
  <2>9. CASE ActivateStepEnds
    BY <2>9 DEF ActivateStepEnds, TypeOK, Idle
  <2>10. ASSUME NEW c \in LooseClaim, AcceptToMemoryPool(c) PROVE TypeOK'
    BY <2>10, ClaimAssumption DEF AcceptToMemoryPool, TypeOK, Calling
  <2>11. ASSUME NEW c \in pool, RemoveUnchecked(c) PROVE TypeOK'
    BY <2>11 DEF RemoveUnchecked, TypeOK, Calling
  <2>12. ASSUME NEW h \in SignedIn, AssignLinkedUserMainAsset(h) PROVE TypeOK'
    <3>1. h \in Handle /\ DeriveMainAssetName(h) \in Name
      BY <2>12, ClaimAssumption, DeriveType DEF AssignLinkedUserMainAsset
    <3>2. [h |-> h, n |-> DeriveMainAssetName(h)] \in ClaimTx
      BY <3>1 DEF ClaimTx
    <3>3. QED
      BY <2>12, <3>2 DEF AssignLinkedUserMainAsset, TypeOK, Calling
  <2>13. ASSUME NEW S \in SUBSET pool, CreateNewBlock(S) PROVE TypeOK'
    <3>1. roots' \in [Handle -> Name \cup {NoName}]
      <4> SUFFICES ASSUME NEW h \in Handle
                   PROVE  (IF \E c \in S : c.h = h /\ CheckTxAssets(c, tip)
                           THEN (CHOOSE c \in S : c.h = h /\ CheckTxAssets(c, tip)).n
                           ELSE roots[h]) \in Name \cup {NoName}
        BY <2>13 DEF CreateNewBlock
      <4>1. \A c \in S : c.n \in Name
        BY DEF TypeOK, ClaimTx
      <4>2. roots[h] \in Name \cup {NoName}
        BY DEF TypeOK, Calling
      <4>3. QED
        BY <4>1, <4>2
    <3>2. QED
      BY <2>13, <3>1 DEF CreateNewBlock, TypeOK, Calling
  <2>14. ASSUME NEW b \in Proposal, TestProposal(b) PROVE TypeOK'
    <3>1. roots' \in [Handle -> Name \cup {NoName}]
      BY <2>14, BlockClaimType, AddType, ClaimAssumption DEF TestProposal
    <3>2. QED
      BY <2>14, <3>1 DEF TestProposal, TypeOK, Calling
  <2>15. CASE FlushStateToDisk
    BY <2>15 DEF FlushStateToDisk, TypeOK, Calling
  <2>16. CASE CrashAndRestart
    <3>1. up' \in BOOLEAN
      BY <2>16 DEF CrashAndRestart, VerifyDB
    <3>2. crashes' \in 0..MaxCrashes
      BY <2>16, CrashAssumption DEF CrashAndRestart, TypeOK, Calling
    <3>3. candidates' \subseteq Root
      BY <2>16 DEF CrashAndRestart, TypeOK, NotWorse, Root
    <3>4. QED
      BY <2>16, <3>1, <3>2, <3>3, ThreadAssumption DEF CrashAndRestart, TypeOK, Calling
  <2>17. QED
    BY <2>1, <2>2, <2>3, <2>4, <2>5, <2>6, <2>7, <2>8, <2>9, <2>10, <2>11,
       <2>12, <2>13, <2>14, <2>15, <2>16, <2>18, <2>19 DEF Next, ActivateBestChainStep
<1>3. QED
  BY <1>1, <1>2, PTL DEF Spec

-----------------------------------------------------------------------------
(* The inductive invariant.  Nothing the state function of an action       *)
(* leaves alone can disturb it.                                            *)

LEMMA KeepsIInv ==
    ASSUME IInv, TypeOK', UNCHANGED <<tip, roots, pool, up>>
    PROVE  IInv'
BY DEF IInv, OneRootPerHandle, ClaimsAgree, ConfirmedIsRecorded, PoolInv, ClaimsOf, RootsIssued

(* A claim that the mempool admits keeps the pool consistent.              *)
LEMMA AdmitKeepsIInv ==
    ASSUME IInv, TypeOK', UNCHANGED <<tip, roots, up>>,
           NEW c \in ClaimTx, Admits(c), pool' = pool \cup {c}
    PROVE  IInv'
<1>1. c # NoClaim
  BY ClaimAssumption
<1>2. \A d \in pool : d.h # c.h /\ d.n # c.n
  BY <1>1 DEF Admits, Conflicts
<1>3. c.n \notin RootsIssued(tip) /\ AssignedName(c.h) \in {NoName, c.n}
  BY <1>1 DEF Admits, CheckTxAssets, VerifyNewAsset
<1>4. roots[c.h] \in {NoName, c.n}
  BY <1>3 DEF AssignedName
<1>5. PoolInv'
  BY <1>2, <1>3, <1>4 DEF IInv, PoolInv, RootsIssued, ClaimsOf
<1>6. QED
  BY <1>5 DEF IInv, OneRootPerHandle, ClaimsAgree, ConfirmedIsRecorded, ClaimsOf

(* Fewer claims in the pool do no harm.                                    *)
LEMMA ShrinkKeepsIInv ==
    ASSUME IInv, TypeOK', UNCHANGED <<tip, roots, up>>, pool' \subseteq pool
    PROVE  IInv'
BY DEF IInv, OneRootPerHandle, ClaimsAgree, ConfirmedIsRecorded, PoolInv, ClaimsOf, RootsIssued

(* A checked claim may be recorded without being confirmed: by a block     *)
(* that fails later, by a proposal.                                        *)
LEMMA RecordKeepsIInv ==
    ASSUME IInv, TypeOK', UNCHANGED <<tip, pool, up>>,
           NEW c \in ClaimTx \cup {NoClaim}, CheckTxAssets(c, tip),
           roots' = AddXAccountAssignment(c)
    PROVE  IInv'
<1>1. CASE c = NoClaim
  BY <1>1, KeepsIInv DEF AddXAccountAssignment
<1>2. CASE c # NoClaim
  <2>1. c \in ClaimTx /\ c.h \in Handle
    BY <1>2 DEF ClaimTx
  <2>2. roots' = [roots EXCEPT ![c.h] = c.n]
    BY <1>2, CheckedIsFree DEF AddXAccountAssignment
  <2>3. \A h \in Handle : roots'[h] = IF h = c.h THEN c.n ELSE roots[h]
    BY <2>1, <2>2 DEF IInv, TypeOK
  <2>4. ConfirmedIsRecorded'
    <3>1. \A e \in ClaimsOf(Anc[tip]) : e.h # c.h /\ e.h \in Handle
      BY <2>1, CheckedIsFresh, AncType, ClaimType DEF IInv, TypeOK, ClaimTx
    <3>2. QED
      BY <3>1, <2>3 DEF IInv, ConfirmedIsRecorded, ClaimsOf
  <2>5. PoolInv'
    <3>1. \A d \in pool : d.h \in Handle /\ (d.h = c.h => d.n = c.n)
      BY <2>1, CheckedFitsPool DEF IInv, TypeOK, ClaimTx
    <3>2. \A d \in pool : roots'[d.h] \in {NoName, d.n}
      BY <3>1, <2>3 DEF IInv, PoolInv
    <3>3. QED
      BY <3>2 DEF IInv, PoolInv, RootsIssued, ClaimsOf
  <2>6. QED
    BY <2>4, <2>5 DEF IInv, OneRootPerHandle, ClaimsAgree
<1>3. QED
  BY <1>1, <1>2

LEMMA ConnectKeepsIInv ==
    ASSUME IInv, TypeOK', NEW b \in Block, ConnectTip(b)
    PROVE  IInv'
<1> DEFINE c == Claim[b]
<1>1. Parent[b] = tip /\ tip' = b /\ up' = up /\ CheckTxAssets(c, tip)
  BY DEF ConnectTip
<1>2. ClaimsOf(Anc[b]) = ClaimsOf(Anc[tip]) \cup ({c} \ {NoClaim})
  BY <1>1, ClaimsOfChild
<1>3. Anc[b] = Anc[tip] \cup {b} /\ b \notin Anc[tip]
  BY <1>1, TreeAssumption
<1>4. CASE c = NoClaim
  <2>1. roots' = roots /\ pool' = pool
    BY <1>4 DEF ConnectTip, AddXAccountAssignment, Conflicts
  <2>2. ClaimsOf(Anc[tip'])  = ClaimsOf(Anc[tip])
    BY <1>1, <1>2, <1>4
  <2>3. ClaimsAgree(b)
    BY <1>3, <1>4 DEF IInv, OneRootPerHandle, ClaimsAgree
  <2>4. QED
    BY <1>1, <2>1, <2>2, <2>3
       DEF IInv, OneRootPerHandle, ClaimsAgree, ConfirmedIsRecorded, PoolInv, ClaimsOf, RootsIssued
<1>5. CASE c # NoClaim
  <2>1. c \in ClaimTx /\ c.h \in Handle /\ c.n \in Name
    BY <1>5, BlockClaimType DEF ClaimTx
  <2>2. \A e \in ClaimsOf(Anc[tip]) : e.h # c.h /\ e.n # c.n
    BY <1>1, <2>1, CheckedIsFresh DEF IInv
  <2>3. roots' = [roots EXCEPT ![c.h] = c.n]
    BY <1>1, <1>5, CheckedIsFree DEF ConnectTip, AddXAccountAssignment
  <2>4. \A h \in Handle : roots'[h] = IF h = c.h THEN c.n ELSE roots[h]
    BY <2>1, <2>3 DEF IInv, TypeOK
  <2>5. \A d \in pool' : d \in pool /\ d.h # c.h /\ d.n # c.n
    BY <1>5 DEF ConnectTip, Conflicts
  <2>6. ClaimsAgree(b)
    <3> SUFFICES ASSUME NEW x \in Anc[b], NEW y \in Anc[b], x # y,
                        Claim[x] # NoClaim, Claim[y] # NoClaim
                 PROVE  ~Conflicts(Claim[x], Claim[y])
      BY DEF ClaimsAgree
    <3>1. CASE x \in Anc[tip] /\ y \in Anc[tip]
      BY <3>1 DEF IInv, OneRootPerHandle, ClaimsAgree
    <3>2. CASE x = b
      <4>1. y \in Anc[tip]
        BY <1>3, <3>2
      <4>2. Claim[y] \in ClaimsOf(Anc[tip])
        BY <4>1 DEF ClaimsOf
      <4>3. QED
        BY <4>2, <3>2, <2>2 DEF Conflicts
    <3>3. CASE y = b
      <4>1. x \in Anc[tip]
        BY <1>3, <3>3
      <4>2. Claim[x] \in ClaimsOf(Anc[tip])
        BY <4>1 DEF ClaimsOf
      <4>3. QED
        BY <4>2, <3>3, <2>2 DEF Conflicts
    <3>4. QED
      BY <3>1, <3>2, <3>3, <1>3
  <2>7. OneRootPerHandle'
    BY <1>1, <2>6 DEF OneRootPerHandle, ClaimsAgree
  <2>8. ConfirmedIsRecorded'
    <3>1. \A e \in ClaimsOf(Anc[tip]) : e.h \in Handle
      BY AncType, ClaimType DEF IInv, TypeOK, ClaimTx
    <3>2. \A e \in ClaimsOf(Anc[tip]) : roots'[e.h] = e.n
      BY <3>1, <2>2, <2>4 DEF IInv, ConfirmedIsRecorded
    <3>3. \A e \in ClaimsOf(Anc[b]) : roots'[e.h] = e.n
      BY <3>2, <2>1, <2>4, <1>2
    <3>4. QED
      BY <3>3, <1>1 DEF ConfirmedIsRecorded, ClaimsOf
  <2>9. PoolInv'
    <3>1. \A d \in pool' : roots'[d.h] \in {NoName, d.n}
      BY <2>5, <2>4 DEF IInv, PoolInv, TypeOK, ClaimTx
    <3>2. \A d \in pool' : d.n \notin RootsIssued(b)
      BY <2>5, <1>2 DEF IInv, PoolInv, RootsIssued
    <3>3. \A d \in pool', f \in pool' : (f.h = d.h \/ f.n = d.n) => f = d
      BY <2>5 DEF IInv, PoolInv
    <3>4. QED
      BY <3>1, <3>2, <3>3, <1>1 DEF PoolInv, RootsIssued, ClaimsOf
  <2>10. QED
    BY <1>1, <2>7, <2>8, <2>9 DEF IInv
<1>6. QED
  BY <1>4, <1>5

LEMMA DisconnectKeepsIInv ==
    ASSUME IInv, TypeOK', DisconnectTip
    PROVE  IInv'
<1> DEFINE c == Claim[tip]
<1>1. tip \in Block /\ tip' = Parent[tip] /\ UNCHANGED <<pool, up>>
  BY OffBranchTip DEF IInv, DisconnectTip
<1>2. /\ Parent[tip] \in Root
      /\ ClaimsOf(Anc[tip]) = ClaimsOf(Anc[Parent[tip]]) \cup ({c} \ {NoClaim})
      /\ Anc[Parent[tip]] \subseteq Anc[tip]
  BY <1>1, ClaimsOfChild
<1>3. tip \notin Anc[Parent[tip]] /\ tip \in Anc[tip]
  BY <1>1, TreeAssumption
<1>4. \A h \in Handle : roots'[h] = roots[h] \/ (c # NoClaim /\ h = c.h /\ roots'[h] = NoName)
  BY DEF IInv, TypeOK, DisconnectTip, RemoveXAccountAssignment
<1>5. OneRootPerHandle'
  BY <1>1, <1>2 DEF IInv, OneRootPerHandle, ClaimsAgree
<1>6. ConfirmedIsRecorded'
  <2> SUFFICES ASSUME NEW e \in ClaimsOf(Anc[Parent[tip]]) PROVE roots'[e.h] = e.n
    BY <1>1 DEF ConfirmedIsRecorded, ClaimsOf
  <2>1. e \in ClaimsOf(Anc[tip]) /\ e.h \in Handle
    BY <1>1, <1>2, AncType, ClaimType DEF ClaimTx
  <2>2. roots[e.h] = e.n
    BY <2>1 DEF IInv, ConfirmedIsRecorded
  <2>3. ASSUME c # NoClaim PROVE e.h # c.h
    <3>1. PICK x \in Anc[Parent[tip]] : e = Claim[x] /\ Claim[x] # NoClaim
      BY DEF ClaimsOf
    <3>2. x # tip /\ x \in Anc[tip]
      BY <1>2, <1>3
    <3>3. ~Conflicts(Claim[x], c)
      BY <2>3, <3>1, <3>2, <1>3 DEF IInv, OneRootPerHandle, ClaimsAgree
    <3>4. QED
      BY <3>1, <3>3 DEF Conflicts
  <2>4. QED
    BY <2>1, <2>2, <2>3, <1>4
<1>7. PoolInv'
  <2>1. \A d \in pool : d.h \in Handle
    BY DEF IInv, TypeOK, ClaimTx
  <2>2. \A d \in pool : roots'[d.h] \in {NoName, d.n}
    BY <2>1, <1>4 DEF IInv, PoolInv
  <2>3. RootsIssued(Parent[tip]) \subseteq RootsIssued(tip)
    BY <1>2 DEF RootsIssued
  <2>4. QED
    BY <2>2, <2>3, <1>1 DEF IInv, PoolInv, RootsIssued, ClaimsOf
<1>8. QED
  BY <1>1, <1>5, <1>6, <1>7 DEF IInv

LEMMA TemplateKeepsIInv ==
    ASSUME IInv, TypeOK', NEW S \in SUBSET pool, CreateNewBlock(S)
    PROVE  IInv'
<1>1. UNCHANGED <<tip, up>> /\ pool' \subseteq pool
  BY DEF CreateNewBlock
<1>2. \A h \in Handle :
         \/ roots'[h] = roots[h]
         \/ \E c \in S : c.h = h /\ CheckTxAssets(c, tip) /\ roots'[h] = c.n
  <2> SUFFICES ASSUME NEW h \in Handle, \E c \in S : c.h = h /\ CheckTxAssets(c, tip)
               PROVE  \E c \in S : c.h = h /\ CheckTxAssets(c, tip) /\ roots'[h] = c.n
    BY DEF CreateNewBlock
  <2> DEFINE c0 == CHOOSE c \in S : c.h = h /\ CheckTxAssets(c, tip)
  <2>1. c0 \in S /\ c0.h = h /\ CheckTxAssets(c0, tip)
    OBVIOUS
  <2>2. roots'[h] = c0.n
    BY DEF CreateNewBlock
  <2> HIDE DEF c0
  <2>3. QED
    BY <2>1, <2>2
<1>3. \A d \in pool : d \in ClaimTx /\ d.h \in Handle
  BY DEF IInv, TypeOK, ClaimTx
<1>4. ConfirmedIsRecorded'
  <2> SUFFICES ASSUME NEW e \in ClaimsOf(Anc[tip]) PROVE roots'[e.h] = e.n
    BY <1>1 DEF ConfirmedIsRecorded, ClaimsOf
  <2>1. e.h \in Handle /\ roots[e.h] = e.n
    BY AncType, ClaimType DEF IInv, TypeOK, ClaimTx, ConfirmedIsRecorded
  <2>2. \A c \in S : CheckTxAssets(c, tip) => e.h # c.h
    BY <1>3, CheckedIsFresh DEF IInv
  <2>3. QED
    BY <2>1, <2>2, <1>2
<1>5. PoolInv'
  <2>1. \A d \in pool : roots'[d.h] \in {NoName, d.n}
    <3> SUFFICES ASSUME NEW d \in pool PROVE roots'[d.h] \in {NoName, d.n}
      OBVIOUS
    <3>1. \A c \in S : c.h = d.h => c = d
      BY DEF IInv, PoolInv
    <3>2. roots[d.h] \in {NoName, d.n}
      BY DEF IInv, PoolInv
    <3>3. QED
      BY <3>1, <3>2, <1>2, <1>3
  <2>2. QED
    BY <2>1, <1>1 DEF IInv, PoolInv, RootsIssued, ClaimsOf
<1>6. QED
  BY <1>1, <1>4, <1>5 DEF IInv, OneRootPerHandle, ClaimsAgree

(* The chain on disk is part of the active one, so its claims are recorded *)
(* and VerifyDB passes.                                                    *)
LEMMA CrashKeepsIInv ==
    ASSUME SafeCrash, IInv, TypeOK', CrashAndRestart
    PROVE  IInv'
<1>1. tip' = disk.tip /\ roots' = roots /\ pool' = {} /\ up' = VerifyDB(disk.tip)
  BY DEF CrashAndRestart
<1>2. Anc[disk.tip] \subseteq Anc[tip]
  BY DEF CrashAndRestart
<1>3. ClaimsOf(Anc[disk.tip]) \subseteq ClaimsOf(Anc[tip])
  BY <1>2, ClaimsOfMono
<1>4. \A e \in ClaimsOf(Anc[disk.tip]) : roots[e.h] = e.n
  BY <1>3 DEF IInv, ConfirmedIsRecorded
<1>5. ConfirmedIsRecorded'
  BY <1>1, <1>4 DEF ConfirmedIsRecorded, ClaimsOf
<1>6. up'
  BY <1>1, <1>4 DEF VerifyDB
<1>7. OneRootPerHandle'
  BY <1>1, <1>2 DEF IInv, OneRootPerHandle, ClaimsAgree
<1>8. PoolInv'
  BY <1>1 DEF PoolInv
<1>9. QED
  BY <1>5, <1>6, <1>7, <1>8 DEF IInv

LEMMA StepKeepsIInv ==
    ASSUME SafeCrash, IInv, TypeOK', [Next]_vars
    PROVE  IInv'
<1>1. CASE UNCHANGED vars
  BY <1>1, KeepsIInv DEF vars
<1>2. ASSUME NEW t \in Thread, NEW b \in Brings[t], CheckBlock(t, b) PROVE IInv'
  BY <1>2, KeepsIInv DEF CheckBlock
<1>3. ASSUME NEW t \in Thread, NEW fRequested \in BOOLEAN, AcceptBlock(t, fRequested) PROVE IInv'
  BY <1>3, KeepsIInv DEF AcceptBlock
<1>4. ASSUME NEW t \in Thread, NEW b \in Root, ActivateBestChain(t, b) PROVE IInv'
  BY <1>4, KeepsIInv DEF ActivateBestChain
<1>18. ASSUME NEW t \in Thread, CallActivateBestChain(t) \/ NothingToDo(t) PROVE IInv'
  BY <1>18, KeepsIInv DEF CallActivateBestChain, NothingToDo
<1>5. CASE DisconnectTip
  BY <1>5, DisconnectKeepsIInv
<1>6. ASSUME NEW b \in Block, ConnectTip(b) PROVE IInv'
  BY <1>6, ConnectKeepsIInv
<1>7. ASSUME NEW b \in Block, ConnectTipFails(b) PROVE IInv'
  <2>1. UNCHANGED <<tip, pool, up>>
    BY <1>7 DEF ConnectTipFails
  <2>2. \/ roots' = roots
        \/ CheckTxAssets(Claim[b], tip) /\ roots' = AddXAccountAssignment(Claim[b])
    BY <1>7 DEF ConnectTipFails
  <2>3. QED
    BY <2>1, <2>2, BlockClaimType, KeepsIInv, RecordKeepsIInv
<1>8. ASSUME NEW c \in ClaimTx, UpdateMempoolForReorg(c) PROVE IInv'
  <2>1. UNCHANGED <<tip, roots, up>>
    BY <1>8 DEF UpdateMempoolForReorg
  <2>2. CASE Admits(c)
    BY <1>8, <2>1, <2>2, AdmitKeepsIInv DEF UpdateMempoolForReorg
  <2>3. CASE ~Admits(c)
    BY <1>8, <2>1, <2>3, ShrinkKeepsIInv DEF UpdateMempoolForReorg
  <2>4. QED
    BY <2>2, <2>3
<1>9. CASE ActivateStepEnds
  BY <1>9, KeepsIInv DEF ActivateStepEnds
<1>10. ASSUME NEW c \in LooseClaim, AcceptToMemoryPool(c) PROVE IInv'
  BY <1>10, AdmitKeepsIInv, ClaimAssumption DEF AcceptToMemoryPool
<1>11. ASSUME NEW c \in pool, RemoveUnchecked(c) PROVE IInv'
  BY <1>11, ShrinkKeepsIInv DEF RemoveUnchecked
<1>12. ASSUME NEW h \in SignedIn, AssignLinkedUserMainAsset(h) PROVE IInv'
  <2> DEFINE c == [h |-> h, n |-> DeriveMainAssetName(h)]
  <2>1. h \in Handle /\ DeriveMainAssetName(h) \in Name
    BY <1>12, ClaimAssumption, DeriveType DEF AssignLinkedUserMainAsset
  <2>2. c \in ClaimTx
    BY <2>1 DEF ClaimTx
  <2>3. Admits(c) /\ pool' = pool \cup {c} /\ UNCHANGED <<tip, roots, up>>
    BY <1>12 DEF AssignLinkedUserMainAsset
  <2> HIDE DEF c
  <2>4. QED
    BY <2>2, <2>3, AdmitKeepsIInv
<1>13. ASSUME NEW S \in SUBSET pool, CreateNewBlock(S) PROVE IInv'
  BY <1>13, TemplateKeepsIInv
<1>14. ASSUME NEW b \in Proposal, TestProposal(b) PROVE IInv'
  BY <1>14, RecordKeepsIInv, BlockClaimType, ClaimAssumption DEF TestProposal
<1>15. CASE FlushStateToDisk
  BY <1>15, KeepsIInv DEF FlushStateToDisk
<1>16. CASE CrashAndRestart
  BY <1>16, CrashKeepsIInv
<1>17. QED
  BY <1>1, <1>2, <1>3, <1>4, <1>5, <1>6, <1>7, <1>8, <1>9, <1>10, <1>11,
     <1>12, <1>13, <1>14, <1>15, <1>16, <1>18 DEF Next, ActivateBestChainStep

LEMMA InitIInv == ASSUME Init, TypeOK PROVE IInv
<1>1. Anc[tip] = {}
  BY TreeAssumption DEF Init
<1>2. QED
  BY <1>1 DEF Init, IInv, OneRootPerHandle, ClaimsAgree, ConfirmedIsRecorded, ClaimsOf, PoolInv

(* Everything IInv says holds as long as crashes are safe.                 *)
LEMMA Invariance == ASSUME SafeCrash PROVE Spec => []IInv
<1>1. Init /\ TypeOK => IInv
  BY InitIInv
<1>2. IInv /\ TypeOK' /\ [Next]_vars => IInv'
  BY StepKeepsIInv
<1>3. QED
  BY <1>1, <1>2, TypeCorrect, PTL DEF Spec

-----------------------------------------------------------------------------
(* Along the active chain no handle has two roots and no root has two      *)
(* handles, through every reorganization, failed block, dry run and        *)
(* restart, if a crash never undoes a disconnect that was not flushed.     *)
THEOREM ChainOneRootPerHandle == ASSUME SafeCrash PROVE Spec => []OneRootPerHandle
<1>1. IInv => OneRootPerHandle
  BY DEF IInv
<1>2. QED
  BY <1>1, Invariance, PTL

(* The map that mapXAccountToAsset keeps has every confirmed claim.        *)
THEOREM ChainConfirmedIsRecorded == ASSUME SafeCrash PROVE Spec => []ConfirmedIsRecorded
<1>1. IInv => ConfirmedIsRecorded
  BY DEF IInv
<1>2. QED
  BY <1>1, Invariance, PTL

(* Every claim in the mempool can go into the next block, so CreateNewBlock *)
(* never throws its template away for one.                                 *)
THEOREM ChainPoolFitsNextBlock == ASSUME SafeCrash PROVE Spec => []PoolFitsNextBlock
<1>1. IInv => PoolFitsNextBlock
  <2> SUFFICES ASSUME IInv, NEW c \in pool
               PROVE  /\ CheckTxAssets(c, tip)
                      /\ \A d \in pool : c # d => ~Conflicts(c, d)
    BY DEF PoolFitsNextBlock
  <2>1. c.n \notin RootsIssued(tip) /\ roots[c.h] \in {NoName, c.n}
    BY DEF IInv, PoolInv
  <2>2. \A d \in pool : (d.h = c.h \/ d.n = c.n) => d = c
    BY DEF IInv, PoolInv
  <2>3. (CHOOSE d \in pool : d.h = c.h) = c
    BY <2>2
  <2>4. AssignedName(c.h) \in {NoName, c.n}
    BY <2>1, <2>3 DEF AssignedName
  <2>5. QED
    BY <2>1, <2>2, <2>4 DEF CheckTxAssets, VerifyNewAsset, Conflicts
<1>2. QED
  BY <1>1, Invariance, PTL

(* VerifyDB accepts the database after every safe crash.                   *)
THEOREM ChainRestartSucceeds == ASSUME SafeCrash PROVE Spec => []RestartSucceeds
<1>1. IInv => RestartSucceeds
  BY DEF IInv, RestartSucceeds
<1>2. QED
  BY <1>1, Invariance, PTL

-----------------------------------------------------------------------------
(* Refinement of RootLedger.                                               *)

(* The roots along a branch whose claims agree are its claims.             *)
LEMMA LedgerIs ==
    ASSUME NEW t \in Root, ClaimsAgree(t)
    PROVE  /\ LedgerAt(t) \in [Handle -> Name \cup {NoName}]
           /\ \A c \in ClaimsOf(Anc[t]) : c.h \in Handle /\ c.n \in Name /\ LedgerAt(t)[c.h] = c.n
           /\ \A h \in Handle : (~\E c \in ClaimsOf(Anc[t]) : c.h = h) => LedgerAt(t)[h] = NoName
<1>1. \A c \in ClaimsOf(Anc[t]) : c.h \in Handle /\ c.n \in Name
  BY AncType, ClaimType DEF ClaimTx
<1>2. ASSUME NEW c \in ClaimsOf(Anc[t]) PROVE LedgerAt(t)[c.h] = c.n
  <2>1. \A d \in ClaimsOf(Anc[t]) : d.h = c.h => d = c
    BY AgreeSame
  <2>2. (CHOOSE d \in ClaimsOf(Anc[t]) : d.h = c.h) = c
    BY <2>1
  <2>3. QED
    BY <2>2, <1>1 DEF LedgerAt
<1>3. \A h \in Handle : (~\E c \in ClaimsOf(Anc[t]) : c.h = h) => LedgerAt(t)[h] = NoName
  BY DEF LedgerAt
<1>4. \A h \in Handle : LedgerAt(t)[h] \in Name \cup {NoName}
  BY <1>1, <1>2, <1>3
<1>5. QED
  BY <1>1, <1>2, <1>3, <1>4 DEF LedgerAt

(* Going back to a shorter branch releases the handles that lose theirs.   *)
LEMMA ShorterReleases ==
    ASSUME NEW t \in Root, NEW u \in Root, ClaimsAgree(t), ClaimsAgree(u),
           Anc[u] \subseteq Anc[t]
    PROVE  \E S \in SUBSET Handle :
              LedgerAt(u) = [h \in Handle |-> IF h \in S THEN NoName ELSE LedgerAt(t)[h]]
<1> DEFINE S == {h \in Handle : ~\E c \in ClaimsOf(Anc[u]) : c.h = h}
<1>1. ASSUME NEW h \in Handle
      PROVE  LedgerAt(u)[h] = IF h \in S THEN NoName ELSE LedgerAt(t)[h]
  <2>1. CASE h \in S
    BY <2>1, LedgerIs
  <2>2. CASE h \notin S
    <3>1. PICK c \in ClaimsOf(Anc[u]) : c.h = h
      BY <2>2
    <3>2. c \in ClaimsOf(Anc[t])
      BY ClaimsOfMono
    <3>3. QED
      BY <3>1, <3>2, <2>2, LedgerIs
  <2>3. QED
    BY <2>1, <2>2
<1>2. LedgerAt(u) = [h \in Handle |-> IF h \in S THEN NoName ELSE LedgerAt(t)[h]]
  BY <1>1 DEF LedgerAt
<1> HIDE DEF S
<1>3. S \in SUBSET Handle
  BY DEF S
<1>4. QED
  BY <1>2, <1>3

(* Connecting a claim assigns a free root to a handle that has none.       *)
LEMMA ConnectAssigns ==
    ASSUME IInv, IInv', NEW b \in Block, ConnectTip(b)
    PROVE  Ledger!Next \/ UNCHANGED ChainLedger
<1> DEFINE c == Claim[b]
<1>1. Parent[b] = tip /\ tip' = b /\ CheckTxAssets(c, tip) /\ b \in Root /\ tip \in Root
  BY DEF ConnectTip, IInv, TypeOK, Root
<1>2. ClaimsOf(Anc[b]) = ClaimsOf(Anc[tip]) \cup ({c} \ {NoClaim})
  BY <1>1, ClaimsOfChild
<1>3. ClaimsAgree(tip) /\ ClaimsAgree(b)
  BY <1>1 DEF IInv, OneRootPerHandle, ClaimsAgree
<1>4. ChainLedger = LedgerAt(tip) /\ ChainLedger' = LedgerAt(b)
  BY <1>1 DEF ChainLedger, LedgerAt, ClaimsOf
<1>5. CASE c = NoClaim
  BY <1>2, <1>4, <1>5 DEF LedgerAt
<1>6. CASE c # NoClaim
  <2>1. c \in ClaimTx /\ c.h \in Handle /\ c.n \in Name /\ c.n # NoName
    BY <1>6, BlockClaimType, NameAssumption DEF ClaimTx
  <2>2. \A e \in ClaimsOf(Anc[tip]) : e.h # c.h /\ e.n # c.n
    BY <1>1, <2>1, CheckedIsFresh DEF IInv
  <2>3. LedgerAt(tip)[c.h] = NoName
    BY <2>1, <2>2, <1>1, <1>3, LedgerIs
  <2>4. ASSUME NEW g \in Handle PROVE LedgerAt(tip)[g] # c.n
    <3>1. CASE \E e \in ClaimsOf(Anc[tip]) : e.h = g
      BY <3>1, <2>2, <1>1, <1>3, LedgerIs
    <3>2. CASE ~\E e \in ClaimsOf(Anc[tip]) : e.h = g
      BY <3>2, <2>1, <1>1, <1>3, LedgerIs
    <3>3. QED
      BY <3>1, <3>2
  <2>5. ASSUME NEW g \in Handle
        PROVE  LedgerAt(b)[g] = IF g = c.h THEN c.n ELSE LedgerAt(tip)[g]
    <3>1. CASE g = c.h
      <4>1. c \in ClaimsOf(Anc[b])
        BY <1>2, <1>6
      <4>2. QED
        BY <3>1, <4>1, <1>1, <1>3, LedgerIs
    <3>2. CASE g # c.h /\ \E e \in ClaimsOf(Anc[tip]) : e.h = g
      <4>1. PICK e \in ClaimsOf(Anc[tip]) : e.h = g
        BY <3>2
      <4>2. e \in ClaimsOf(Anc[b])
        BY <1>2
      <4>3. LedgerAt(b)[g] = e.n /\ LedgerAt(tip)[g] = e.n
        BY <4>1, <4>2, <1>1, <1>3, LedgerIs
      <4>4. QED
        BY <4>3, <3>2
    <3>3. CASE g # c.h /\ ~\E e \in ClaimsOf(Anc[tip]) : e.h = g
      <4>1. ~\E e \in ClaimsOf(Anc[b]) : e.h = g
        BY <3>3, <1>2
      <4>2. LedgerAt(b)[g] = NoName /\ LedgerAt(tip)[g] = NoName
        BY <4>1, <3>3, <1>1, <1>3, LedgerIs
      <4>3. QED
        BY <4>2, <3>3
    <3>4. QED
      BY <3>1, <3>2, <3>3
  <2>6. LedgerAt(b) = [LedgerAt(tip) EXCEPT ![c.h] = c.n]
    BY <2>5 DEF LedgerAt
  <2>7. Ledger!Assign(c.h, c.n)
    BY <2>3, <2>4, <2>6, <1>4 DEF Ledger!Assign
  <2>8. QED
    BY <2>1, <2>7 DEF Ledger!Next
<1>7. QED
  BY <1>5, <1>6

LEMMA BackReleases ==
    ASSUME IInv, IInv', Anc[tip'] \subseteq Anc[tip]
    PROVE  Ledger!Next
<1>1. tip \in Root /\ tip' \in Root
  BY DEF IInv, TypeOK
<1>2. ClaimsAgree(tip) /\ ClaimsAgree(tip')
  BY DEF IInv, OneRootPerHandle, ClaimsAgree
<1>3. ChainLedger = LedgerAt(tip) /\ ChainLedger' = LedgerAt(tip')
  BY DEF ChainLedger, LedgerAt, ClaimsOf
<1>4. PICK S \in SUBSET Handle :
         LedgerAt(tip') = [h \in Handle |-> IF h \in S THEN NoName ELSE LedgerAt(tip)[h]]
  BY <1>1, <1>2, ShorterReleases
<1>5. Ledger!Release(S)
  BY <1>3, <1>4 DEF Ledger!Release
<1>6. QED
  BY <1>5 DEF Ledger!Next

(* Every step of the node is a step of the ledger or leaves it alone.      *)
LEMMA StepImplements ==
    ASSUME SafeCrash, IInv, IInv', [Next]_vars
    PROVE  Ledger!Next \/ UNCHANGED ChainLedger
<1>1. CASE UNCHANGED tip
  BY <1>1 DEF ChainLedger, LedgerAt, ClaimsOf
<1>2. CASE DisconnectTip
  <2>1. tip \in Block /\ tip' = Parent[tip]
    BY <1>2, OffBranchTip DEF IInv, DisconnectTip
  <2>2. Anc[tip'] \subseteq Anc[tip]
    BY <2>1, ClaimsOfChild
  <2>3. QED
    BY <2>2, BackReleases
<1>3. ASSUME NEW b \in Block, ConnectTip(b) PROVE Ledger!Next \/ UNCHANGED ChainLedger
  BY <1>3, ConnectAssigns
<1>4. CASE CrashAndRestart
  <2>1. Anc[tip'] \subseteq Anc[tip]
    BY <1>4 DEF CrashAndRestart
  <2>2. QED
    BY <2>1, BackReleases
<1>5. \/ UNCHANGED tip
      \/ DisconnectTip
      \/ \E b \in Block : ConnectTip(b)
      \/ CrashAndRestart
  BY DEF Next, ActivateBestChainStep, vars, CheckBlock, AcceptBlock, CallActivateBestChain,
         ActivateBestChain, NothingToDo, ConnectTipFails,
         UpdateMempoolForReorg, ActivateStepEnds, AcceptToMemoryPool, RemoveUnchecked,
         AssignLinkedUserMainAsset, CreateNewBlock, TestProposal, FlushStateToDisk
<1>6. QED
  BY <1>1, <1>2, <1>3, <1>4, <1>5

(* The chain, with its pool, map, reorganizations and safe crashes,        *)
(* implements the ledger of roots.                                         *)
THEOREM ChainImplementsLedger == ASSUME SafeCrash PROVE Spec => ImplementsLedger
<1>1. Init => Ledger!Init
  <2>1. ASSUME Init PROVE ClaimsOf(Anc[tip]) = {}
    BY <2>1, TreeAssumption DEF Init, ClaimsOf
  <2>2. QED
    BY <2>1 DEF Ledger!Init, ChainLedger, LedgerAt
<1>2. IInv /\ IInv' /\ [Next]_vars => [Ledger!Next]_ChainLedger
  BY StepImplements
<1>3. QED
  BY <1>1, <1>2, Invariance, PTL DEF Spec, ImplementsLedger, Ledger!Spec
=============================================================================
