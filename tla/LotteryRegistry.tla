--------------------------- MODULE LotteryRegistry ---------------------------
(***************************************************************************)
(* The active-node registry of one X Coin node (lottery.cpp): which payout *)
(* scripts hold a lottery ticket, for which X handle, and since when; with *)
(* everything that feeds it: the `xhb` gossip handler, the producer        *)
(* thread's own heartbeat, the registeractivenode RPC, Sign in with X, the *)
(* operator's payout pins, the blue-check stamps (attestations) and the X  *)
(* lookup cache behind them.                                               *)
(*                                                                         *)
(* A node id is Hash160(script); the model identifies the two.  A call of  *)
(* Registry::Heartbeat reads the clock, then checks things without the     *)
(* registry lock (a blocking HTTPS lookup among them), then updates the    *)
(* maps under the lock: the three parts are separate steps here, so that   *)
(* calls of different threads interleave as they do in the program.        *)
(***************************************************************************)
EXTENDS Integers, FiniteSets

CONSTANTS
    Script,          \* payout scripts, equivalently node ids
    LocalScripts,    \* the scripts whose keys this node's wallet holds
    FileScript,      \* the one kept in lottery-payout.key
    Handle,          \* normalised X handles
    NoScript, NoHandle, NoNode, NoCall,   \* "absent"
    Worker,          \* threads that heartbeat for this node: the producer, RPC
                     \* workers, the GUI
    TTL,             \* HEARTBEAT_TTL_SECONDS
    MaxSkew,         \* an xhb is accepted when its timestamp is this close
    CacheTTL,        \* how long xlookup remembers VERIFIED
    NegCacheTTL,     \* ... and NOT_VERIFIED
    MaxActive,       \* MAX_ACTIVE_NODES
    SlotLen,         \* SLOT_SECONDS
    RequireAttest,   \* RequireXAttestation(): main and test, not regtest
    BakedSeed,       \* IsBakedSeed(): holds the consensus attestor key
    LookupNode,      \* IsXLookupNode(): an attestor key and an X bearer
    Encrypted,       \* the wallet is encrypted, so that it may be locked
    Accounts,        \* X accounts the user of this node may sign in with
    TemplateScripts, \* scripts a block template may be asked for
    Pinnable,        \* handles the operator's invite file may pin
    Fickle,          \* handles whose blue check X may grant or revoke
    InitBlue,        \* handles with a blue check at the start
    MaxClock,        \* bound: the clock stops here
    MaxSent          \* bound: heartbeats signed in one behaviour

ASSUME ScriptAssumption ==
    /\ LocalScripts \subseteq Script
    /\ FileScript \in LocalScripts
    /\ TemplateScripts \subseteq Script
    /\ NoScript \notin Script

ASSUME HandleAssumption ==
    /\ NoHandle \notin Handle
    /\ Accounts \subseteq Handle
    /\ Pinnable \subseteq Handle
    /\ Fickle \subseteq Handle
    /\ InitBlue \subseteq Handle

ASSUME TimeAssumption ==
    /\ TTL \in Nat /\ MaxSkew \in Nat
    /\ CacheTTL \in Nat /\ NegCacheTTL \in Nat
    /\ SlotLen \in Nat \ {0}
    /\ MaxClock \in Nat /\ MaxSent \in Nat /\ MaxActive \in Nat

ASSUME ModeAssumption ==
    /\ {RequireAttest, BakedSeed, LookupNode, Encrypted} \subseteq BOOLEAN
    /\ "net" \notin Worker

\* The threads that call Registry::Heartbeat; "net" is the message handler.
Thread == Worker \cup {"net"}

\* struct ActiveNode; id and script are the index it is stored under.
Node == [lastSeen : Nat, joined : Nat, handle : Handle]

ASSUME NoNodeAssumption == NoNode \notin Node

\* A call in progress: `now` was read when it began; "entered" is before the
\* checks made without the lock, "checked" is after them, waiting for LOCK(cs).
Call == [pc : {"entered", "checked"}, script : Script, handle : Handle,
         now : Nat, stamp : BOOLEAN]

ASSUME NoCallAssumption == NoCall \notin Call

\* A signed `xhb` on the wire.
Xhb == [ts : Nat, script : Script, handle : Handle]

VARIABLES
    clock,        \* GetTime()
    nodes,        \* Registry::nodes
    byHandle,     \* Registry::byHandle
    localScript,  \* Registry::localScript / localId
    localHandle,  \* Registry::localX.handle
    session,      \* xsession.json: absent, not X Verified, X Verified
    unlocked,     \* WalletAllowsHeartbeat()
    pins,         \* Allowlist::pins
    pinFile,      \* the pins verified-x-accounts.txt holds
    attest,       \* g_attest: the handle an id is stamped for
    cache,        \* xlookup g_cache
    blue,         \* what X answers: the handles with a blue check now
    stamps,       \* every <<id, handle>> the attestor key has ever signed
    sent,         \* every xhb ever signed; the network keeps and repeats them
    call          \* per thread, the Heartbeat call in progress

\* History, read by properties only: when each handle was last pinned, and when
\* it last lost its blue check.
VARIABLES pinnedAt, lostAt

vars == <<clock, nodes, byHandle, localScript, localHandle, session, unlocked,
          pins, pinFile, attest, cache, blue, stamps, sent, call, pinnedAt, lostAt>>

registry == <<nodes, byHandle>>
identity == <<localScript, localHandle, session, unlocked>>
stamping == <<attest, cache, stamps>>
pinning  == <<pins, pinFile, pinnedAt>>
checks   == <<blue, lostAt>>

-----------------------------------------------------------------------------
(* Reading the registry.                                                   *)

Registered == {s \in Script : nodes[s] # NoNode}

\* now - lastSeen <= HEARTBEAT_TTL_SECONDS
Live(s, t) == nodes[s] # NoNode /\ t - nodes[s].lastSeen <= TTL

ActiveIds(t) == {s \in Script : Live(s, t)}

\* Tickets frozen when the slot opened: joined before it, not dead before it.
FrozenIds(slot) ==
    {s \in Registered :
        /\ nodes[s].joined < slot * SlotLen
        /\ \/ nodes[s].lastSeen >= slot * SlotLen
           \/ slot * SlotLen - nodes[s].lastSeen <= TTL}

\* With nobody frozen, whoever is live now.
ActiveIdsForSlot(slot) ==
    IF FrozenIds(slot) # {} THEN FrozenIds(slot) ELSE ActiveIds(clock)

HasAttestation(s) == attest[s] # NoHandle

\* ComputeDraw: on main and test only stamped ids are drawn from.
DrawActive(slot) ==
    {s \in ActiveIdsForSlot(slot) : RequireAttest => HasAttestation(s)}

LocalEligible ==
    /\ localScript # NoScript /\ localHandle # NoHandle
    /\ session = "verified"
    /\ unlocked

-----------------------------------------------------------------------------
(* The locked part of Registry::Heartbeat, for call c.                     *)

\* The handle is bound to another id, by byHandle.
BoundElsewhere(c) == byHandle[c.handle] \notin {NoScript, c.script}

\* Mutant: the handle counts as dead one second early.
MutantSticky(c) ==
    /\ BoundElsewhere(c)
    /\ nodes[byHandle[c.handle]] # NoNode
    /\ c.now - nodes[byHandle[c.handle]].lastSeen < TTL

\* ... whose node is live: the binding is sticky and the call returns false.
Sticky(c) == BoundElsewhere(c) /\ Live(byHandle[c.handle], c.now)

\* Mutant: the dead node of a rebound handle is not erased.
MutantNodesReleased(c) == nodes

\* Otherwise that binding, and the node it names, are dropped.
NodesReleased(c) ==
    IF BoundElsewhere(c) THEN [nodes EXCEPT ![byHandle[c.handle]] = NoNode]
                         ELSE nodes

HandlesReleased(c) ==
    IF BoundElsewhere(c) THEN [byHandle EXCEPT ![c.handle] = NoScript]
                         ELSE byHandle

\* The id holds a ticket under another handle.
Renames(c) == nodes[c.script] # NoNode /\ nodes[c.script].handle # c.handle

\* Mutants: joined is backdated; every heartbeat joins anew.
MutantJoinedBackdated(c) == c.now - TTL
MutantJoinedAnew(c) == c.now

Joined(c) == IF nodes[c.script] # NoNode /\ ~Renames(c)
             THEN nodes[c.script].joined ELSE c.now

NodesInserted(c) ==
    [NodesReleased(c) EXCEPT ![c.script] =
        [lastSeen |-> c.now, joined |-> Joined(c), handle |-> c.handle]]

HandlesInserted(c) ==
    LET free == IF Renames(c)
                THEN [HandlesReleased(c) EXCEPT ![nodes[c.script].handle] = NoScript]
                ELSE HandlesReleased(c)
    IN  [free EXCEPT ![c.handle] = c.script]

Oldest(ns) ==
    {s \in Script : /\ ns[s] # NoNode
                    /\ \A r \in Script : ns[r] # NoNode => ns[s].lastSeen <= ns[r].lastSeen}

\* Mutant: off by one.
MutantOverCapacity(ns) == Cardinality({s \in Script : ns[s] # NoNode}) > MaxActive + 1

OverCapacity(ns) == Cardinality({s \in Script : ns[s] # NoNode}) > MaxActive

\* The oldest node makes room, unless it is the local one: then none does.
\* Among equally old nodes the code takes the first in id order.
Accept(c) ==
    LET ns == NodesInserted(c)
        bh == HandlesInserted(c)
    IN  \/ /\ OverCapacity(ns)
           /\ \E o \in Oldest(ns) \ {localScript} :
                /\ nodes' = [ns EXCEPT ![o] = NoNode]
                /\ byHandle' = [bh EXCEPT ![ns[o].handle] = NoScript]
        \/ /\ OverCapacity(ns) => localScript \in Oldest(ns)
           /\ nodes' = ns
           /\ byHandle' = bh

\* Heartbeat: refused by a sticky handle; refused by a live id under another
\* handle, which leaves the released binding released; or accepted.
Heartbeat(c) ==
    \/ /\ Sticky(c)
       /\ UNCHANGED registry
    \/ /\ ~Sticky(c)
       /\ Renames(c) /\ Live(c.script, c.now)
       /\ nodes' = NodesReleased(c)
       /\ byHandle' = HandlesReleased(c)
    \/ /\ ~Sticky(c)
       /\ ~(Renames(c) /\ Live(c.script, c.now))
       /\ Accept(c)

\* Mutant: the pin is not looked up.
MutantMayHeartbeat(s, h) == ~(BakedSeed /\ s = localScript)

\* The part before LOCK(cs): the printer stays out of the hat, pins hold.
MayHeartbeat(s, h) ==
    /\ ~(BakedSeed /\ s = localScript)
    /\ pins[h] \in {NoScript, s}

HeartbeatLocked(t) ==
    /\ call[t] # NoCall /\ call[t].pc = "checked"
    /\ Heartbeat(call[t])
    /\ call' = [call EXCEPT ![t] = NoCall]
    /\ UNCHANGED <<clock, identity, pinning, stamping, checks, sent>>

-----------------------------------------------------------------------------
(* Blue-check stamps.                                                      *)

\* What xlookup remembers of a handle.
Answer == [status : {"VERIFIED", "NOT_VERIFIED"}, expiresAt : Nat]

Forgotten == [status |-> "NOT_VERIFIED", expiresAt |-> 0]

\* Mutant: an entry is still used in the second it expires.
MutantLookupHandle(h, st) ==
    IF cache[h].expiresAt >= clock
    THEN st = cache[h].status /\ UNCHANGED cache
    ELSE /\ st = IF h \in blue THEN "VERIFIED" ELSE "NOT_VERIFIED"
         /\ cache' = [cache EXCEPT ![h] = [status |-> st, expiresAt |-> clock + CacheTTL]]

\* xlookup::LookupHandle answers st: what it remembers while that lasts, else
\* what X says (remembered) or a failed request (not remembered).
LookupHandle(h, st) ==
    IF cache[h].expiresAt > clock
    THEN st = cache[h].status /\ UNCHANGED cache
    ELSE \/ st = "LOOKUP_FAILED" /\ UNCHANGED cache
         \/ /\ st = IF h \in blue THEN "VERIFIED" ELSE "NOT_VERIFIED"
            /\ cache' = [cache EXCEPT ![h] =
                   [status |-> st,
                    expiresAt |-> clock + (IF st = "VERIFIED" THEN CacheTTL ELSE NegCacheTTL)]]

\* LookupAndAttest returns ok.  A stamp already stored decides, else a lookup
\* node asks X and signs.  Its key is the consensus one on a baked seed only;
\* a signature by another key is not stored.
LookupAndAttest(s, h, ok) ==
    \/ /\ HasAttestation(s) \/ ~LookupNode
       /\ ok = (attest[s] = h)
       /\ UNCHANGED stamping
    \/ /\ ~HasAttestation(s) /\ LookupNode
       /\ \E st \in {"VERIFIED", "NOT_VERIFIED", "LOOKUP_FAILED"} :
            /\ LookupHandle(h, st)
            /\ ok = (st = "VERIFIED")
       /\ attest' = IF ok /\ BakedSeed THEN [attest EXCEPT ![s] = h] ELSE attest
       /\ stamps' = IF ok /\ BakedSeed THEN stamps \cup {<<s, h>>} ELSE stamps

-----------------------------------------------------------------------------
(* The xhb handler of the message thread.                                  *)

\* Mutant: old messages are accepted.
MutantXhbReceive(m, stamp) ==
    /\ call["net"] = NoCall
    /\ m.ts <= clock + MaxSkew
    /\ stamp => <<m.script, m.handle>> \in stamps
    /\ call' = [call EXCEPT !["net"] =
                   [pc |-> "entered", script |-> m.script, handle |-> m.handle,
                    now |-> clock, stamp |-> stamp]]
    /\ UNCHANGED <<clock, registry, identity, pinning, stamping, checks, sent>>

\* The message is in the time window and its signature is the script's.  A
\* stamp it carries is valid when the attestor signed that id and handle.
XhbReceive(m, stamp) ==
    /\ call["net"] = NoCall
    /\ m.ts <= clock + MaxSkew /\ m.ts >= clock - MaxSkew
    /\ stamp => <<m.script, m.handle>> \in stamps
    /\ call' = [call EXCEPT !["net"] =
                   [pc |-> "entered", script |-> m.script, handle |-> m.handle,
                    now |-> clock, stamp |-> stamp]]
    /\ UNCHANGED <<clock, registry, identity, pinning, stamping, checks, sent>>

\* The call goes on to the locked part, or ends, as the checks say.
GoOn(t, ok) ==
    call' = [call EXCEPT ![t] = IF ok THEN [@ EXCEPT !.pc = "checked"] ELSE NoCall]

\* Stamp from the message, else from a lookup, else one already stored for
\* the id; then the checks Heartbeat makes before its lock.
XhbChecks ==
    /\ call["net"] # NoCall /\ call["net"].pc = "entered"
    /\ LET s   == call["net"].script
           h   == call["net"].handle
           may == MayHeartbeat(s, h)
       IN  \/ /\ call["net"].stamp
              /\ attest' = [attest EXCEPT ![s] = h]
              /\ UNCHANGED <<cache, stamps>>
              /\ GoOn("net", may)
           \/ /\ ~call["net"].stamp /\ ~RequireAttest
              /\ UNCHANGED stamping
              /\ GoOn("net", may)
           \/ /\ ~call["net"].stamp /\ RequireAttest
              /\ \E ok \in BOOLEAN :
                   /\ LookupAndAttest(s, h, ok)
                   /\ GoOn("net", may /\ (ok \/ (~LookupNode /\ HasAttestation(s))))
    /\ UNCHANGED <<clock, registry, identity, pinning, checks, sent>>

-----------------------------------------------------------------------------
(* The local node's own ticket.                                            *)

\* HeartbeatLocal(GetTime()) on thread t: it takes script s and handle h, the
\* local ones, and returns at once on the seed and while nobody is signed in.
BeginHeartbeatLocal(t, s, h) ==
    call' = IF BakedSeed \/ h = NoHandle THEN call
            ELSE [call EXCEPT ![t] =
                     [pc |-> "entered", script |-> s, handle |-> h,
                      now |-> clock, stamp |-> FALSE]]

\* The producer's loop, about once a second.
HeartbeatLocalBegin(t) ==
    /\ call[t] = NoCall
    /\ BeginHeartbeatLocal(t, localScript, localHandle)
    /\ UNCHANGED <<clock, registry, identity, pinning, stamping, checks, sent>>

HeartbeatLocalChecks(t) ==
    /\ call[t] # NoCall /\ call[t].pc = "entered"
    /\ LET s   == call[t].script
           h   == call[t].handle
           may == MayHeartbeat(s, h)
           run == session = "verified" /\ unlocked
       IN  \/ /\ run /\ RequireAttest => HasAttestation(s)
              /\ UNCHANGED stamping
              /\ GoOn(t, run /\ may)
           \/ /\ run /\ RequireAttest /\ ~HasAttestation(s)
              /\ \E ok \in BOOLEAN :
                   /\ LookupAndAttest(s, h, ok)
                   /\ GoOn(t, ok /\ may)
    /\ UNCHANGED <<clock, registry, identity, pinning, checks, sent>>

\* RPC registeractivenode: any payout, the signed-in handle, no stamp asked.
RegisterActiveNode(t, s) ==
    /\ call[t] = NoCall
    /\ ~BakedSeed /\ session = "verified" /\ localHandle # NoHandle
    /\ MayHeartbeat(s, localHandle)
    /\ call' = [call EXCEPT ![t] =
                   [pc |-> "checked", script |-> s, handle |-> localHandle,
                    now |-> clock, stamp |-> FALSE]]
    /\ UNCHANGED <<clock, registry, identity, pinning, stamping, checks, sent>>

\* Mutant: byHandle is cleaned up under the local handle, whoever holds it.
MutantSetLocalScript(s) ==
    /\ nodes' = IF localScript # s THEN [nodes EXCEPT ![localScript] = NoNode] ELSE nodes
    /\ localScript' = s
    /\ byHandle' = IF localScript # s /\ localHandle # NoHandle
                   THEN [byHandle EXCEPT ![localHandle] = NoScript] ELSE byHandle

\* The ticket of the previous local script goes; its byHandle entry stays.
SetLocalScript(s) ==
    /\ nodes' = IF localScript # s /\ localScript # NoScript
                THEN [nodes EXCEPT ![localScript] = NoNode] ELSE nodes
    /\ localScript' = s
    /\ UNCHANGED byHandle

\* A block template for script s begins: the producer's, generate's or
\* getblocktemplate's, for any script its caller names.  (The producer adopting
\* the wallet's script takes the same two steps.)
ApplyCoinbasePayouts(t, s) ==
    /\ call[t] = NoCall
    /\ SetLocalScript(s)
    /\ BeginHeartbeatLocal(t, s, localHandle)
    /\ UNCHANGED <<clock, localHandle, session, unlocked, pinning, stamping, checks, sent>>

\* BindLotteryFromSession, for the session sess of account h: the seed ignores a
\* verified one; anyone else's verified one is a heartbeat.
BindLotteryFromSession(t, sess, h) ==
    /\ localHandle' = IF sess = "none" \/ (BakedSeed /\ sess = "verified")
                      THEN NoHandle ELSE h
    /\ IF sess = "verified" THEN BeginHeartbeatLocal(t, localScript, h)
                            ELSE UNCHANGED call

\* Sign in with X: SaveSession, then BindLotteryFromSession.
SignIn(t, h, sess) ==
    /\ call[t] = NoCall
    /\ session' = sess
    /\ BindLotteryFromSession(t, sess, h)
    /\ UNCHANGED <<clock, registry, localScript, unlocked, pinning, stamping, checks, sent>>

\* A GUI clean quit deletes the session file while the other threads still run;
\* localX stays as it was.
ClearSession ==
    /\ session # "none"
    /\ session' = "none"
    /\ UNCHANGED <<clock, registry, localScript, localHandle, unlocked, pinning,
                   stamping, checks, sent, call>>

\* walletpassphrase / walletlock
LockWallet(u) ==
    /\ Encrypted
    /\ unlocked' = u
    /\ UNCHANGED <<clock, registry, localScript, localHandle, session, pinning,
                   stamping, checks, sent, call>>

\* The xhb pushed after verack and about every 30 seconds, if the wallet can
\* sign for the script.
PushLocalXhb ==
    /\ LocalEligible
    /\ localScript \in LocalScripts
    /\ Cardinality(sent) < MaxSent
    /\ sent' = sent \cup {[ts |-> clock, script |-> localScript, handle |-> localHandle]}
    /\ UNCHANGED <<clock, registry, identity, pinning, stamping, checks, call>>

-----------------------------------------------------------------------------
(* Operator, process, and the world outside.                               *)

\* loadxverified of a file that pins h to s.  The list is written back if all of
\* the file parses; a bad line further down leaves the pin in memory only.
LoadPin(h, s, parses) ==
    /\ h \in Pinnable
    /\ pins' = [pins EXCEPT ![h] = s]
    /\ pinFile' = IF parses THEN pins' ELSE pinFile
    /\ pinnedAt' = [pinnedAt EXCEPT ![h] = clock]
    /\ UNCHANGED <<clock, registry, identity, stamping, checks, sent, call>>

\* removexverified h
RemovePin(h) ==
    /\ pins[h] # NoScript
    /\ pins' = [pins EXCEPT ![h] = NoScript]
    /\ pinFile' = pins'
    /\ UNCHANGED <<pinnedAt, clock, registry, identity, stamping, checks, sent, call>>

\* The process stops and StartProducer runs again: the maps, the stamps and the
\* lookup cache are gone, the session file and the pin file are read back, an
\* encrypted wallet is locked.
Restart ==
    /\ nodes' = [s \in Script |-> NoNode]
    /\ byHandle' = [h \in Handle |-> NoScript]
    /\ attest' = [s \in Script |-> NoHandle]
    /\ cache' = [h \in Handle |-> Forgotten]
    /\ call' = [t \in Thread |-> NoCall]
    /\ localScript' = FileScript
    /\ localHandle' = IF session = "none" THEN NoHandle ELSE localHandle
    /\ unlocked' = ~Encrypted
    /\ pins' = pinFile
    /\ UNCHANGED <<clock, session, pinFile, pinnedAt, checks, stamps, sent>>

\* Another node signs a heartbeat with its own payout key.
PeerSigns(s, h) ==
    /\ s \notin LocalScripts
    /\ Cardinality(sent) < MaxSent
    /\ sent' = sent \cup {[ts |-> clock, script |-> s, handle |-> h]}
    /\ UNCHANGED <<clock, registry, identity, pinning, stamping, checks, call>>

\* A seed elsewhere stamps a peer (this node is not the seed).
SeedStamps(s, h) ==
    /\ RequireAttest /\ ~BakedSeed /\ h \in blue
    /\ stamps' = stamps \cup {<<s, h>>}
    /\ UNCHANGED <<clock, registry, identity, pinning, attest, cache, checks, sent, call>>

\* Mutant: StoreAttestation does not verify.
MutantCacheStampsFromXva(s, h) ==
    /\ attest' = [attest EXCEPT ![s] = h]
    /\ UNCHANGED <<clock, registry, identity, pinning, cache, stamps, checks, sent, call>>

\* A block is accepted: CacheStampsFromXva stores the stamps of its XVA1.
CacheStampsFromXva(s, h) ==
    /\ <<s, h>> \in stamps
    /\ attest' = [attest EXCEPT ![s] = h]
    /\ UNCHANGED <<clock, registry, identity, pinning, cache, stamps, checks, sent, call>>

\* X grants or revokes a blue check.
BlueCheck(h) ==
    /\ h \in Fickle
    /\ blue' = IF h \in blue THEN blue \ {h} ELSE blue \cup {h}
    /\ lostAt' = IF h \in blue THEN [lostAt EXCEPT ![h] = clock] ELSE lostAt
    /\ UNCHANGED <<clock, registry, identity, pinning, stamping, sent, call>>

Tick ==
    /\ clock < MaxClock
    /\ clock' = clock + 1
    /\ UNCHANGED <<registry, identity, pinning, stamping, checks, sent, call>>

-----------------------------------------------------------------------------
Init ==
    /\ clock = 0
    /\ nodes = [s \in Script |-> NoNode]
    /\ byHandle = [h \in Handle |-> NoScript]
    /\ localScript = FileScript
    /\ localHandle = NoHandle
    /\ session = "none"
    /\ unlocked = ~Encrypted
    /\ pins = [h \in Handle |-> NoScript]
    /\ pinFile = pins
    /\ attest = [s \in Script |-> NoHandle]
    /\ cache = [h \in Handle |-> Forgotten]
    /\ blue = InitBlue
    /\ stamps = {}
    /\ sent = {}
    /\ call = [t \in Thread |-> NoCall]
    /\ pinnedAt = [h \in Handle |-> 0]
    /\ lostAt = [h \in Handle |-> 0 - CacheTTL]

Next ==
    \/ \E t \in Thread : HeartbeatLocked(t)
    \/ \E m \in sent, stamp \in BOOLEAN : XhbReceive(m, stamp)
    \/ XhbChecks
    \/ \E t \in Worker : HeartbeatLocalBegin(t)
    \/ \E t \in Worker : HeartbeatLocalChecks(t)
    \/ \E t \in Worker, s \in Script : RegisterActiveNode(t, s)
    \/ \E t \in Worker, s \in TemplateScripts : ApplyCoinbasePayouts(t, s)
    \/ \E t \in Worker, h \in Accounts, sess \in {"unverified", "verified"} :
            SignIn(t, h, sess)
    \/ ClearSession
    \/ \E u \in BOOLEAN : LockWallet(u)
    \/ PushLocalXhb
    \/ \E h \in Handle, s \in Script, parses \in BOOLEAN : LoadPin(h, s, parses)
    \/ \E h \in Handle : RemovePin(h)
    \/ Restart
    \/ \E s \in Script, h \in Handle : PeerSigns(s, h)
    \/ \E s \in Script, h \in Handle : SeedStamps(s, h)
    \/ \E s \in Script, h \in Handle : CacheStampsFromXva(s, h)
    \/ \E h \in Handle : BlueCheck(h)
    \/ Tick

Spec == Init /\ [][Next]_vars

-----------------------------------------------------------------------------
(* Properties.                                                             *)

\* The types of the variables; the times of a ticket are not negative, and the
\* local script is never absent once the producer has started.
TypeOK ==
    /\ clock \in Nat
    /\ nodes \in [Script -> Node \cup {NoNode}]
    /\ byHandle \in [Handle -> Script \cup {NoScript}]
    /\ localScript \in Script
    /\ localHandle \in Handle \cup {NoHandle}
    /\ session \in {"none", "unverified", "verified"}
    /\ unlocked \in BOOLEAN
    /\ pins \in [Handle -> Script \cup {NoScript}]
    /\ pinFile \in [Handle -> Script \cup {NoScript}]
    /\ attest \in [Script -> Handle \cup {NoHandle}]
    /\ cache \in [Handle -> Answer]
    /\ blue \in SUBSET Handle
    /\ stamps \in SUBSET (Script \X Handle)
    /\ sent \in SUBSET Xhb
    /\ call \in [Thread -> Call \cup {NoCall}]
    /\ pinnedAt \in [Handle -> Nat]
    /\ lostAt \in [Handle -> Int]

\* One X account, one active node (lottery.h:37): however gossip, the local
\* heartbeat, rotation of the local script, eviction and restarts interleave,
\* no two tickets carry the same handle.
OneTicketPerHandle ==
    \A s, r \in Registered : nodes[s].handle = nodes[r].handle => s = r

\* The reason: byHandle finds the ticket of every registered handle.  (The
\* converse fails: SetLocalScript leaves entries without a ticket.)
HandleIndexed ==
    \A s \in Registered : byHandle[nodes[s].handle] = s

\* A live handle cannot be rebound to another script (lottery.h:39), also not
\* by a call that read the clock long before it got the registry lock.
LiveHandleSticky ==
    [][\A s, r \in Script :
          /\ s # r /\ Live(s, clock)
          /\ nodes'[r] # NoNode
          => nodes'[r].handle # nodes[s].handle]_vars

\* A heartbeat of s itself, whose clock reading is older than the one on record,
\* gets the lock now and turns the ticket's lastSeen back.
TurnedBack(s) ==
    \E t \in Thread :
        /\ HeartbeatLocked(t)
        /\ call[t].script = s /\ call[t].now < nodes[s].lastSeen

\* Nobody verified and running can be excluded (lottery.h:28): a live ticket
\* keeps its handle and its seniority; it goes only when the local script is
\* replaced, when the process restarts, when the registry is full and every
\* ticket that stays was seen at least as recently, or, in a registry that
\* already outgrew its limit, by its own late heartbeat.
LiveTicketKept ==
    [][~Restart =>
       \A s \in Script : Live(s, clock) =>
          IF nodes'[s] = NoNode
          THEN \/ s = localScript /\ localScript' # s
               \/ /\ Cardinality(Registered) >= MaxActive
                  /\ \A r \in Script : nodes'[r] # NoNode
                                         => nodes[s].lastSeen <= nodes'[r].lastSeen
               \/ Cardinality(Registered) > MaxActive /\ TurnedBack(s)
          ELSE /\ nodes'[s].handle = nodes[s].handle
               /\ nodes'[s].joined = nodes[s].joined]_vars

\* "Only this payout may heartbeat as" a pinned handle (LOTTERY.md:123): a
\* ticket of another payout was last refreshed before the pin was loaded, so
\* it is dead at the latest TTL seconds after that.
PinHonoured ==
    \A s \in Registered :
        LET h == nodes[s].handle
        IN  pins[h] \notin {NoScript, s} => nodes[s].lastSeen <= pinnedAt[h]

\* On the seed every live ticket goes back to a heartbeat its owner signed, for
\* that handle, no longer ago than the TTL and the accepted clock skew together:
\* relayed, repeated and delayed messages cannot keep a silent node alive longer.
SeedTicketsSigned ==
    BakedSeed =>
        \A s \in ActiveIds(clock) :
            \E m \in sent : /\ m.script = s /\ m.handle = nodes[s].handle
                            /\ clock - m.ts <= TTL + MaxSkew

\* The seed's registry never outgrows MAX_ACTIVE_NODES while its blocks are made
\* for scripts of its own wallet.  (Elsewhere, and on a seed asked for a template
\* that pays a registered peer, it can: a stale local node is the oldest, and then
\* nobody is dropped.)
SeedRegistryBounded ==
    BakedSeed /\ TemplateScripts \subseteq LocalScripts
        => Cardinality(Registered) <= MaxActive

\* No stamp, not in the hat (LOTTERY.md:40): every id that main and test draw
\* from is stamped by the attestor key for the handle on record.
StampedDraw ==
    RequireAttest =>
        \A s \in DrawActive(clock \div SlotLen) : <<s, attest[s]>> \in stamps

\* A handle that lost its blue check gets no new stamp once the lookup cache
\* has expired.
StampsStopAfterLoss ==
    [][\A p \in stamps' \ stamps :
          p[2] \in blue \/ clock < lostAt[p[2]] + CacheTTL]_vars

=============================================================================
