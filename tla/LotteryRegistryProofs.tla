------------------------ MODULE LotteryRegistryProofs ------------------------
(***************************************************************************)
(* What holds of LotteryRegistry for every set of scripts, handles and     *)
(* threads, every time constant and every mode.                            *)
(***************************************************************************)
EXTENDS LotteryRegistry, FiniteSetTheorems, TLAPS

-----------------------------------------------------------------------------
(* The locked part of Heartbeat.                                           *)

\* A call in progress has a script, a handle and a time.
LEMMA CallType ==
    ASSUME TypeOK, NEW t \in Thread, call[t] # NoCall
    PROVE  call[t] \in Call
BY DEF TypeOK

\* What Registry::Heartbeat leaves in the maps has their types: the binding is
\* released, the node inserted, the oldest one dropped.
LEMMA HeartbeatType ==
    ASSUME TypeOK, NEW c \in Call, Heartbeat(c)
    PROVE  /\ nodes' \in [Script -> Node \cup {NoNode}]
           /\ byHandle' \in [Handle -> Script \cup {NoScript}]
<1>0. /\ nodes \in [Script -> Node \cup {NoNode}]
      /\ byHandle \in [Handle -> Script \cup {NoScript}]
      /\ c.script \in Script /\ c.handle \in Handle /\ c.now \in Nat
  BY DEF TypeOK, Call
<1>1. /\ NodesReleased(c) \in [Script -> Node \cup {NoNode}]
      /\ HandlesReleased(c) \in [Handle -> Script \cup {NoScript}]
  BY <1>0 DEF NodesReleased, HandlesReleased
<1>2. nodes[c.script] # NoNode => nodes[c.script] \in Node
  BY <1>0
<1>3. Joined(c) \in Nat
  BY <1>0, <1>2 DEF Joined, Node
<1>4. [lastSeen |-> c.now, joined |-> Joined(c), handle |-> c.handle] \in Node
  BY <1>0, <1>3 DEF Node
<1>5. NodesInserted(c) \in [Script -> Node \cup {NoNode}]
  BY <1>0, <1>1, <1>4 DEF NodesInserted
<1>6. HandlesInserted(c) \in [Handle -> Script \cup {NoScript}]
  BY <1>0, <1>1 DEF HandlesInserted
<1>7. CASE Sticky(c) /\ UNCHANGED registry
  BY <1>0, <1>7 DEF registry
<1>8. CASE nodes' = NodesReleased(c) /\ byHandle' = HandlesReleased(c)
  BY <1>1, <1>8
<1>9. CASE Accept(c)
  BY <1>5, <1>6, <1>9 DEF Accept
<1> QED
  BY <1>7, <1>8, <1>9 DEF Heartbeat

-----------------------------------------------------------------------------
(* Types.                                                                  *)

LEMMA InitTypeOK == Init => TypeOK
<1> SUFFICES ASSUME Init PROVE TypeOK
  OBVIOUS
<1>1. Forgotten \in Answer
  BY DEF Forgotten, Answer
<1>2. 0 - CacheTTL \in Int
  BY TimeAssumption
<1> QED
  BY <1>1, <1>2, ScriptAssumption, HandleAssumption, ModeAssumption
  DEF Init, TypeOK, Thread

\* The answer of a lookup is remembered as a status with an expiry.
LEMMA LookupType ==
    ASSUME TypeOK, NEW h \in Handle, NEW st, LookupHandle(h, st)
    PROVE  cache' \in [Handle -> Answer]
<1>1. CASE UNCHANGED cache
  BY <1>1 DEF TypeOK
<1>2. CASE ~UNCHANGED cache
  <2>1. /\ st \in {"VERIFIED", "NOT_VERIFIED"}
        /\ cache' = [cache EXCEPT ![h] =
              [status |-> st,
               expiresAt |-> clock + (IF st = "VERIFIED" THEN CacheTTL ELSE NegCacheTTL)]]
    BY <1>2 DEF LookupHandle
  <2>2. clock + (IF st = "VERIFIED" THEN CacheTTL ELSE NegCacheTTL) \in Nat
    BY TimeAssumption DEF TypeOK
  <2> QED
    BY <2>1, <2>2 DEF TypeOK, Answer
<1> QED
  BY <1>1, <1>2

LEMMA LookupAndAttestType ==
    ASSUME TypeOK, NEW s \in Script, NEW h \in Handle, NEW ok \in BOOLEAN,
           LookupAndAttest(s, h, ok)
    PROVE  /\ attest' \in [Script -> Handle \cup {NoHandle}]
           /\ cache' \in [Handle -> Answer]
           /\ stamps' \in SUBSET (Script \X Handle)
<1>1. CASE UNCHANGED stamping
  BY <1>1 DEF TypeOK, stamping
<1>2. CASE ~UNCHANGED stamping
  <2>1. PICK st : LookupHandle(h, st)
    BY <1>2 DEF LookupAndAttest
  <2>2. cache' \in [Handle -> Answer]
    BY <2>1, LookupType
  <2>3. /\ attest' = IF ok /\ BakedSeed THEN [attest EXCEPT ![s] = h] ELSE attest
        /\ stamps' = IF ok /\ BakedSeed THEN stamps \cup {<<s, h>>} ELSE stamps
    BY <1>2 DEF LookupAndAttest
  <2> QED
    BY <2>2, <2>3 DEF TypeOK
<1> QED
  BY <1>1, <1>2

\* The checks of a call keep it a call or end it.
LEMMA GoOnType ==
    ASSUME TypeOK, NEW t \in Thread, call[t] # NoCall, NEW ok, GoOn(t, ok)
    PROVE  call' \in [Thread -> Call \cup {NoCall}]
<1>1. call[t] \in Call
  BY CallType
<1>2. [call[t] EXCEPT !.pc = "checked"] \in Call
  BY <1>1 DEF Call
<1> QED
  BY <1>2 DEF GoOn, TypeOK

LEMMA BeginType ==
    ASSUME TypeOK, NEW t \in Worker, NEW s \in Script,
           NEW h \in Handle \cup {NoHandle}, BeginHeartbeatLocal(t, s, h)
    PROVE  call' \in [Thread -> Call \cup {NoCall}]
BY DEF BeginHeartbeatLocal, TypeOK, Call, Thread

LEMMA NextTypeOK == TypeOK /\ [Next]_vars => TypeOK'
<1> SUFFICES ASSUME TypeOK, [Next]_vars PROVE TypeOK'
  OBVIOUS
<1> USE DEF registry, identity, stamping, pinning, checks
<1>1. ASSUME NEW t \in Thread, HeartbeatLocked(t) PROVE TypeOK'
  <2>1. Heartbeat(call[t]) /\ call[t] \in Call
    BY <1>1, CallType DEF HeartbeatLocked
  <2>2. /\ nodes' \in [Script -> Node \cup {NoNode}]
        /\ byHandle' \in [Handle -> Script \cup {NoScript}]
    BY <2>1, HeartbeatType
  <2> QED
    BY <1>1, <2>2 DEF HeartbeatLocked, TypeOK
<1>2. ASSUME NEW m \in sent, NEW stamp \in BOOLEAN, XhbReceive(m, stamp) PROVE TypeOK'
  <2>1. [pc |-> "entered", script |-> m.script, handle |-> m.handle,
         now |-> clock, stamp |-> stamp] \in Call
    BY DEF TypeOK, Xhb, Call
  <2> QED
    BY <1>2, <2>1 DEF XhbReceive, TypeOK
<1>3. ASSUME XhbChecks PROVE TypeOK'
  <2>0. "net" \in Thread
    BY DEF Thread
  <2>1. /\ call["net"] # NoCall
        /\ \E ok : GoOn("net", ok)
    BY <1>3 DEF XhbChecks
  <2>2. call["net"] \in Call /\ call' \in [Thread -> Call \cup {NoCall}]
    BY <2>0, <2>1, CallType, GoOnType
  <2>3. call["net"].script \in Script /\ call["net"].handle \in Handle
    BY <2>2 DEF Call
  <2>4. /\ attest' \in [Script -> Handle \cup {NoHandle}]
        /\ cache' \in [Handle -> Answer]
        /\ stamps' \in SUBSET (Script \X Handle)
    BY <1>3, <2>3, LookupAndAttestType DEF XhbChecks, TypeOK
  <2> QED
    BY <1>3, <2>2, <2>4 DEF XhbChecks, TypeOK
<1>4. ASSUME NEW t \in Worker, HeartbeatLocalBegin(t) PROVE TypeOK'
  <2>1. call' \in [Thread -> Call \cup {NoCall}]
    BY <1>4, BeginType DEF HeartbeatLocalBegin, TypeOK
  <2> QED
    BY <1>4, <2>1 DEF HeartbeatLocalBegin, TypeOK
<1>5. ASSUME NEW t \in Worker, HeartbeatLocalChecks(t) PROVE TypeOK'
  <2>0. t \in Thread
    BY DEF Thread
  <2>1. /\ call[t] # NoCall
        /\ \E ok : GoOn(t, ok)
    BY <1>5 DEF HeartbeatLocalChecks
  <2>2. call[t] \in Call /\ call' \in [Thread -> Call \cup {NoCall}]
    BY <2>0, <2>1, CallType, GoOnType
  <2>3. call[t].script \in Script /\ call[t].handle \in Handle
    BY <2>2 DEF Call
  <2>4. /\ attest' \in [Script -> Handle \cup {NoHandle}]
        /\ cache' \in [Handle -> Answer]
        /\ stamps' \in SUBSET (Script \X Handle)
    BY <1>5, <2>3, LookupAndAttestType DEF HeartbeatLocalChecks, TypeOK
  <2> QED
    BY <1>5, <2>2, <2>4 DEF HeartbeatLocalChecks, TypeOK
<1>6. ASSUME NEW t \in Worker, NEW s \in Script, RegisterActiveNode(t, s) PROVE TypeOK'
  <2>1. [pc |-> "checked", script |-> s, handle |-> localHandle,
         now |-> clock, stamp |-> FALSE] \in Call
    BY <1>6 DEF RegisterActiveNode, TypeOK, Call
  <2> QED
    BY <1>6, <2>1 DEF RegisterActiveNode, TypeOK
<1>7. ASSUME NEW t \in Worker, NEW s \in TemplateScripts, ApplyCoinbasePayouts(t, s)
      PROVE  TypeOK'
  <2>1. s \in Script
    BY ScriptAssumption
  <2>2. call' \in [Thread -> Call \cup {NoCall}]
    BY <1>7, <2>1, BeginType DEF ApplyCoinbasePayouts, TypeOK
  <2> QED
    BY <1>7, <2>1, <2>2 DEF ApplyCoinbasePayouts, SetLocalScript, TypeOK
<1>8. ASSUME NEW t \in Worker, NEW h \in Accounts,
             NEW sess \in {"unverified", "verified"}, SignIn(t, h, sess)
      PROVE  TypeOK'
  <2>1. h \in Handle
    BY HandleAssumption
  <2>2. call' \in [Thread -> Call \cup {NoCall}]
    BY <1>8, <2>1, BeginType DEF SignIn, BindLotteryFromSession, TypeOK
  <2> QED
    BY <1>8, <2>1, <2>2 DEF SignIn, BindLotteryFromSession, TypeOK
<1>9. CASE ClearSession
  BY <1>9 DEF ClearSession, TypeOK
<1>10. ASSUME NEW u \in BOOLEAN, LockWallet(u) PROVE TypeOK'
  BY <1>10 DEF LockWallet, TypeOK
<1>11. CASE PushLocalXhb
  BY <1>11 DEF PushLocalXhb, LocalEligible, TypeOK, Xhb
<1>12. ASSUME NEW h \in Handle, NEW s \in Script, NEW parses \in BOOLEAN,
              LoadPin(h, s, parses)
       PROVE  TypeOK'
  BY <1>12 DEF LoadPin, TypeOK
<1>13. ASSUME NEW h \in Handle, RemovePin(h) PROVE TypeOK'
  BY <1>13 DEF RemovePin, TypeOK
<1>14. CASE Restart
  <2>1. Forgotten \in Answer
    BY DEF Forgotten, Answer
  <2> QED
    BY <1>14, <2>1, ScriptAssumption, ModeAssumption DEF Restart, TypeOK
<1>15. ASSUME NEW s \in Script, NEW h \in Handle, PeerSigns(s, h) PROVE TypeOK'
  BY <1>15 DEF PeerSigns, TypeOK, Xhb
<1>16. ASSUME NEW s \in Script, NEW h \in Handle, SeedStamps(s, h) PROVE TypeOK'
  BY <1>16 DEF SeedStamps, TypeOK
<1>17. ASSUME NEW s \in Script, NEW h \in Handle, CacheStampsFromXva(s, h) PROVE TypeOK'
  BY <1>17 DEF CacheStampsFromXva, TypeOK
<1>18. ASSUME NEW h \in Handle, BlueCheck(h) PROVE TypeOK'
  BY <1>18 DEF BlueCheck, TypeOK
<1>19. CASE Tick
  BY <1>19 DEF Tick, TypeOK
<1>20. CASE UNCHANGED vars
  BY <1>20 DEF vars, TypeOK
<1> QED
  BY <1>1, <1>2, <1>3, <1>4, <1>5, <1>6, <1>7, <1>8, <1>9, <1>10, <1>11, <1>12,
     <1>13, <1>14, <1>15, <1>16, <1>17, <1>18, <1>19, <1>20 DEF Next

\* Every variable of the registry keeps its type in every behaviour.
THEOREM TypeCorrect == Spec => []TypeOK
BY InitTypeOK, NextTypeOK, PTL DEF Spec

-----------------------------------------------------------------------------
(* One ticket per handle.                                                  *)

\* Dropping a dead binding with the node it names keeps the rest indexed, and
\* leaves no ticket of the call's handle but the call's own.
LEMMA ReleasedIndexed ==
    ASSUME TypeOK, HandleIndexed, NEW c \in Call,
           NEW s \in Script, NodesReleased(c)[s] # NoNode
    PROVE  /\ nodes[s] # NoNode
           /\ NodesReleased(c)[s] = nodes[s]
           /\ nodes[s] \in Node
           /\ HandlesReleased(c)[nodes[s].handle] = s
           /\ s # c.script => nodes[s].handle # c.handle
<1>0. /\ nodes \in [Script -> Node \cup {NoNode}]
      /\ byHandle \in [Handle -> Script \cup {NoScript}]
      /\ c.script \in Script /\ c.handle \in Handle
  BY DEF TypeOK, Call
<1>1. nodes[s] # NoNode /\ NodesReleased(c)[s] = nodes[s] /\ nodes[s] \in Node
  BY <1>0 DEF NodesReleased
<1>2. nodes[s].handle \in Handle /\ byHandle[nodes[s].handle] = s
  BY <1>1 DEF HandleIndexed, Registered, Node
<1>3. BoundElsewhere(c) => s # byHandle[c.handle]
  <2> SUFFICES ASSUME BoundElsewhere(c), s = byHandle[c.handle] PROVE FALSE
    OBVIOUS
  <2>1. NodesReleased(c)[s] = NoNode
    BY <1>0 DEF NodesReleased
  <2> QED
    BY <2>1
<1>4. s # c.script => nodes[s].handle # c.handle
  BY <1>2, <1>3, ScriptAssumption DEF BoundElsewhere
<1>5. HandlesReleased(c)[nodes[s].handle] = s
  BY <1>0, <1>2, <1>3 DEF HandlesReleased
<1> QED
  BY <1>1, <1>4, <1>5

\* Inserting the call's node keeps every ticket indexed.
LEMMA InsertedIndexed ==
    ASSUME TypeOK, HandleIndexed, NEW c \in Call,
           NEW s \in Script, NodesInserted(c)[s] # NoNode
    PROVE  HandlesInserted(c)[NodesInserted(c)[s].handle] = s
<1>0. /\ nodes \in [Script -> Node \cup {NoNode}]
      /\ byHandle \in [Handle -> Script \cup {NoScript}]
      /\ c.script \in Script /\ c.handle \in Handle
  BY DEF TypeOK, Call
<1>1. /\ NodesReleased(c) \in [Script -> Node \cup {NoNode}]
      /\ HandlesReleased(c) \in [Handle -> Script \cup {NoScript}]
  BY <1>0 DEF NodesReleased, HandlesReleased
<1>2. CASE s = c.script
  <2>1. NodesInserted(c)[s].handle = c.handle
    BY <1>0, <1>1, <1>2 DEF NodesInserted
  <2>2. HandlesInserted(c)[c.handle] = c.script
    BY <1>0, <1>1 DEF HandlesInserted
  <2> QED
    BY <1>2, <2>1, <2>2
<1>3. CASE s # c.script
  <2>1. NodesInserted(c)[s] = NodesReleased(c)[s]
    BY <1>0, <1>1, <1>3 DEF NodesInserted
  <2>2. /\ NodesReleased(c)[s] = nodes[s] /\ nodes[s] \in Node /\ nodes[s] # NoNode
        /\ HandlesReleased(c)[nodes[s].handle] = s
        /\ nodes[s].handle # c.handle
    BY <1>3, <2>1, ReleasedIndexed
  <2>3. nodes[s].handle \in Handle /\ byHandle[nodes[s].handle] = s
    BY <2>2 DEF Node, HandleIndexed, Registered
  <2>4. Renames(c) => /\ nodes[c.script].handle # nodes[s].handle
                      /\ nodes[c.script].handle \in Handle
    BY <1>0, <1>3, <2>3 DEF Renames, HandleIndexed, Registered, Node
  <2>5. HandlesInserted(c)[nodes[s].handle] = s
    BY <1>0, <1>1, <2>2, <2>3, <2>4 DEF HandlesInserted
  <2> QED
    BY <2>1, <2>2, <2>5
<1> QED
  BY <1>2, <1>3

\* So does Heartbeat, whatever it decides: to refuse, to release and refuse, to
\* accept, to accept and evict.
LEMMA HeartbeatIndexed ==
    ASSUME TypeOK, HandleIndexed, NEW c \in Call, Heartbeat(c)
    PROVE  HandleIndexed'
<1> SUFFICES ASSUME NEW s \in Script, nodes'[s] # NoNode
             PROVE  byHandle'[nodes'[s].handle] = s
  BY DEF HandleIndexed, Registered
<1>1. CASE Sticky(c) /\ UNCHANGED registry
  BY <1>1 DEF registry, HandleIndexed, Registered
<1>2. CASE nodes' = NodesReleased(c) /\ byHandle' = HandlesReleased(c)
  BY <1>2, ReleasedIndexed
<1>3. CASE nodes' = NodesInserted(c) /\ byHandle' = HandlesInserted(c)
  BY <1>3, InsertedIndexed
<1>4. ASSUME NEW o \in Oldest(NodesInserted(c)),
             nodes' = [NodesInserted(c) EXCEPT ![o] = NoNode],
             byHandle' = [HandlesInserted(c) EXCEPT ![NodesInserted(c)[o].handle] = NoScript]
      PROVE  byHandle'[nodes'[s].handle] = s
  <2>1. /\ NodesInserted(c) \in [Script -> Node \cup {NoNode}]
        /\ HandlesInserted(c) \in [Handle -> Script \cup {NoScript}]
    <3>1. /\ nodes \in [Script -> Node \cup {NoNode}]
          /\ byHandle \in [Handle -> Script \cup {NoScript}]
          /\ c.script \in Script /\ c.handle \in Handle /\ c.now \in Nat
      BY DEF TypeOK, Call
    <3>2. Joined(c) \in Nat
      BY <3>1 DEF Joined, Node
    <3>3. [lastSeen |-> c.now, joined |-> Joined(c), handle |-> c.handle] \in Node
      BY <3>1, <3>2 DEF Node
    <3> QED
      BY <3>1, <3>3 DEF NodesInserted, HandlesInserted, NodesReleased, HandlesReleased
  <2>2. o \in Script /\ NodesInserted(c)[o] # NoNode
    BY DEF Oldest
  <2>3. s # o /\ nodes'[s] = NodesInserted(c)[s]
    BY <1>4, <2>1, <2>2
  <2>4. NodesInserted(c)[s].handle # NodesInserted(c)[o].handle
    BY <2>2, <2>3, InsertedIndexed
  <2>5. NodesInserted(c)[s].handle \in Handle
    BY <2>1, <2>3 DEF Node
  <2>6. HandlesInserted(c)[NodesInserted(c)[s].handle] = s
    BY <2>3, InsertedIndexed
  <2> QED
    BY <1>4, <2>1, <2>3, <2>4, <2>5, <2>6
<1> QED
  BY <1>1, <1>2, <1>3, <1>4 DEF Heartbeat, Accept

LEMMA InitIndexed == Init => HandleIndexed
BY DEF Init, HandleIndexed, Registered

LEMMA NextIndexed == TypeOK /\ HandleIndexed /\ [Next]_vars => HandleIndexed'
<1> SUFFICES ASSUME TypeOK, HandleIndexed, [Next]_vars PROVE HandleIndexed'
  OBVIOUS
<1>1. ASSUME NEW t \in Thread, HeartbeatLocked(t) PROVE HandleIndexed'
  BY <1>1, CallType, HeartbeatIndexed DEF HeartbeatLocked
<1>2. ASSUME NEW t \in Worker, NEW s \in TemplateScripts, ApplyCoinbasePayouts(t, s)
      PROVE  HandleIndexed'
  BY <1>2 DEF ApplyCoinbasePayouts, SetLocalScript, HandleIndexed, Registered, TypeOK
<1>3. CASE Restart
  BY <1>3 DEF Restart, HandleIndexed, Registered
<1>4. CASE UNCHANGED registry
  BY <1>4 DEF registry, HandleIndexed, Registered
<1> QED
  BY <1>1, <1>2, <1>3, <1>4
  DEF Next, vars, registry, XhbReceive, XhbChecks, HeartbeatLocalBegin, HeartbeatLocalChecks,
      RegisterActiveNode, SignIn, ClearSession, LockWallet, PushLocalXhb, LoadPin, RemovePin,
      PeerSigns, SeedStamps, CacheStampsFromXva, BlueCheck, Tick

\* byHandle finds the ticket of every registered handle, in every behaviour.
THEOREM AlwaysIndexed == Spec => []HandleIndexed
<1>1. Init => TypeOK /\ HandleIndexed
  BY InitTypeOK, InitIndexed
<1>2. (TypeOK /\ HandleIndexed) /\ [Next]_vars => (TypeOK /\ HandleIndexed)'
  BY NextTypeOK, NextIndexed
<1> QED
  BY <1>1, <1>2, PTL DEF Spec

\* No two tickets carry the same X handle (lottery.h:37), for any number of
\* scripts, handles and threads.
THEOREM OneTicket == Spec => []OneTicketPerHandle
<1>1. HandleIndexed => OneTicketPerHandle
  BY DEF HandleIndexed, OneTicketPerHandle
<1> QED
  BY <1>1, AlwaysIndexed, PTL

-----------------------------------------------------------------------------
(* How the maps and the calls may change.                                  *)

\* A ticket after Heartbeat is an old one or the call's own, and then the
\* call's handle was not sticky.
LEMMA HeartbeatNodes ==
    ASSUME TypeOK, NEW c \in Call, Heartbeat(c), NEW s \in Script, nodes'[s] # NoNode
    PROVE  \/ nodes'[s] = nodes[s]
           \/ /\ s = c.script /\ ~Sticky(c)
              /\ nodes'[s] = [lastSeen |-> c.now, joined |-> Joined(c), handle |-> c.handle]
<1>0. nodes \in [Script -> Node \cup {NoNode}] /\ c.script \in Script
  BY DEF TypeOK, Call
<1>1. /\ NodesReleased(c) \in [Script -> Node \cup {NoNode}]
      /\ NodesReleased(c)[s] # NoNode => NodesReleased(c)[s] = nodes[s]
  BY <1>0 DEF NodesReleased
<1>2. NodesInserted(c)[s] =
        IF s = c.script
        THEN [lastSeen |-> c.now, joined |-> Joined(c), handle |-> c.handle]
        ELSE NodesReleased(c)[s]
  BY <1>0, <1>1 DEF NodesInserted
<1>3. DOMAIN NodesInserted(c) = Script
  BY <1>1 DEF NodesInserted
<1>4. CASE UNCHANGED registry
  BY <1>4 DEF registry
<1>5. CASE nodes' = NodesReleased(c)
  BY <1>1, <1>5
<1>6. CASE ~Sticky(c) /\ Accept(c)
  <2>1. nodes'[s] = NodesInserted(c)[s]
    BY <1>3, <1>6 DEF Accept
  <2> QED
    BY <1>1, <1>2, <1>6, <2>1
<1> QED
  BY <1>4, <1>5, <1>6 DEF Heartbeat

\* Outside Heartbeat tickets only go.
LEMMA NodeStep ==
    ASSUME TypeOK, [Next]_vars, NEW s \in Script, nodes'[s] # NoNode
    PROVE  \/ nodes'[s] = nodes[s]
           \/ \E t \in Thread :
                /\ HeartbeatLocked(t)
                /\ s = call[t].script /\ ~Sticky(call[t])
                /\ nodes'[s].lastSeen = call[t].now
                /\ nodes'[s].handle = call[t].handle
<1>1. ASSUME NEW t \in Thread, HeartbeatLocked(t)
      PROVE  \/ nodes'[s] = nodes[s]
             \/ /\ s = call[t].script /\ ~Sticky(call[t])
                /\ nodes'[s].lastSeen = call[t].now
                /\ nodes'[s].handle = call[t].handle
  <2>1. call[t] \in Call /\ Heartbeat(call[t])
    BY <1>1, CallType DEF HeartbeatLocked
  <2>2. \/ nodes'[s] = nodes[s]
        \/ /\ s = call[t].script /\ ~Sticky(call[t])
           /\ nodes'[s] = [lastSeen |-> call[t].now, joined |-> Joined(call[t]),
                           handle |-> call[t].handle]
    BY <2>1, HeartbeatNodes
  <2> QED
    BY <2>2
<1>2. ASSUME NEW t \in Worker, NEW r \in TemplateScripts, ApplyCoinbasePayouts(t, r)
      PROVE  nodes'[s] = nodes[s]
  BY <1>2 DEF ApplyCoinbasePayouts, SetLocalScript, TypeOK
<1>3. CASE Restart
  BY <1>3 DEF Restart
<1>4. CASE UNCHANGED nodes
  BY <1>4
<1> QED
  BY <1>1, <1>2, <1>3, <1>4
  DEF Next, vars, registry, XhbReceive, XhbChecks, HeartbeatLocalBegin, HeartbeatLocalChecks,
      RegisterActiveNode, SignIn, ClearSession, LockWallet, PushLocalXhb, LoadPin, RemovePin,
      PeerSigns, SeedStamps, CacheStampsFromXva, BlueCheck, Tick

\* The checks before the lock let a call go on as it is, or end it.
LEMMA GoOnStep ==
    ASSUME TypeOK, NEW t \in Thread, call[t] # NoCall, NEW ok \in BOOLEAN, GoOn(t, ok)
    PROVE  /\ \A u \in Thread \ {t} : call'[u] = call[u]
           /\ call'[t] # NoCall =>
                /\ ok
                /\ call'[t].script = call[t].script
                /\ call'[t].handle = call[t].handle
                /\ call'[t].now = call[t].now
<1>1. call \in [Thread -> Call \cup {NoCall}] /\ call[t] \in Call
  BY CallType DEF TypeOK
<1>2. /\ [call[t] EXCEPT !.pc = "checked"].script = call[t].script
      /\ [call[t] EXCEPT !.pc = "checked"].handle = call[t].handle
      /\ [call[t] EXCEPT !.pc = "checked"].now = call[t].now
  BY <1>1 DEF Call
<1>3. call'[t] = IF ok THEN [call[t] EXCEPT !.pc = "checked"] ELSE NoCall
  BY <1>1 DEF GoOn
<1>4. \A u \in Thread \ {t} : call'[u] = call[u]
  BY <1>1 DEF GoOn
<1> QED
  BY <1>2, <1>3, <1>4

\* What a step may do to the call of thread t.
CallKept(t) == call'[t] = call[t]

CallBegins(t) ==
    /\ UNCHANGED <<pins, pinnedAt, clock>>
    /\ call'[t].now = clock
    /\ call'[t].pc = "checked" => MayHeartbeat(call'[t].script, call'[t].handle)

CallGoesOn(t) ==
    /\ UNCHANGED <<pins, pinnedAt, clock>>
    /\ call[t] # NoCall
    /\ call'[t].script = call[t].script /\ call'[t].handle = call[t].handle
    /\ call'[t].now = call[t].now
    /\ MayHeartbeat(call[t].script, call[t].handle)

LEMMA ChecksStep ==
    ASSUME TypeOK, NEW u \in Thread, NEW t \in Thread, call[u] # NoCall, call'[t] # NoCall,
           NEW ok \in BOOLEAN, GoOn(u, ok),
           ok => MayHeartbeat(call[u].script, call[u].handle),
           UNCHANGED <<pins, pinnedAt, clock>>
    PROVE  CallKept(t) \/ CallGoesOn(t)
<1>1. /\ \A w \in Thread \ {u} : call'[w] = call[w]
      /\ call'[u] # NoCall =>
            /\ ok
            /\ call'[u].script = call[u].script
            /\ call'[u].handle = call[u].handle
            /\ call'[u].now = call[u].now
  BY GoOnStep
<1> QED
  BY <1>1 DEF CallKept, CallGoesOn

\* A call in progress was in progress before, or reads the clock now; and the
\* step that takes it to the lock finds that it may heartbeat.
LEMMA CallStep ==
    ASSUME TypeOK, [Next]_vars, NEW t \in Thread, call'[t] # NoCall
    PROVE  (CallKept(t) /\ ~Restart) \/ CallBegins(t) \/ CallGoesOn(t)
<1> DEFINE Goal == CallKept(t) \/ CallBegins(t) \/ CallGoesOn(t)
<1>0. call \in [Thread -> Call \cup {NoCall}] /\ "net" \in Thread /\ Worker \subseteq Thread
  BY DEF TypeOK, Thread
<1>a. ~Restart
  BY DEF Restart
<1>b. \A s, h : MayHeartbeat(s, h) \in BOOLEAN
  BY DEF MayHeartbeat
<1>c. LookupNode \in BOOLEAN
  BY ModeAssumption
<1>1. ASSUME NEW u \in Thread, HeartbeatLocked(u) PROVE Goal
  BY <1>0, <1>1 DEF HeartbeatLocked, CallKept
<1>2. ASSUME NEW m \in sent, NEW stamp \in BOOLEAN, XhbReceive(m, stamp) PROVE Goal
  BY <1>0, <1>2 DEF XhbReceive, pinning, CallKept, CallBegins
<1>3. ASSUME XhbChecks PROVE Goal
  <2> DEFINE s == call["net"].script
             h == call["net"].handle
  <2>0. call["net"] # NoCall /\ UNCHANGED <<pins, pinnedAt, clock>>
    BY <1>3 DEF XhbChecks, pinning
  <2>1. CASE GoOn("net", MayHeartbeat(s, h))
    BY <1>0, <1>b, <2>0, <2>1, ChecksStep
  <2>2. ASSUME NEW ok \in BOOLEAN,
               GoOn("net", MayHeartbeat(s, h) /\ (ok \/ (~LookupNode /\ HasAttestation(s))))
        PROVE  Goal
    <3> DEFINE go == MayHeartbeat(s, h) /\ (ok \/ (~LookupNode /\ HasAttestation(s)))
    <3>1. go \in BOOLEAN /\ (go => MayHeartbeat(s, h)) /\ GoOn("net", go)
      BY <2>2
    <3> HIDE DEF go
    <3> QED
      BY <1>0, <2>0, <3>1, ChecksStep
  <2> QED
    BY <1>3, <2>1, <2>2 DEF XhbChecks
<1>4. ASSUME NEW u \in Worker, HeartbeatLocalBegin(u) PROVE Goal
  BY <1>0, <1>4 DEF HeartbeatLocalBegin, BeginHeartbeatLocal, pinning, CallKept, CallBegins
<1>5. ASSUME NEW u \in Worker, HeartbeatLocalChecks(u) PROVE Goal
  <2> DEFINE s == call[u].script
             h == call[u].handle
             run == session = "verified" /\ unlocked
  <2>0. call[u] # NoCall /\ UNCHANGED <<pins, pinnedAt, clock>> /\ u \in Thread
    BY <1>0, <1>5 DEF HeartbeatLocalChecks, pinning
  <2>1. CASE GoOn(u, run /\ MayHeartbeat(s, h))
    <3> DEFINE go == run /\ MayHeartbeat(s, h)
    <3>1. go \in BOOLEAN /\ (go => MayHeartbeat(s, h)) /\ GoOn(u, go)
      BY <2>1
    <3> HIDE DEF go
    <3> QED
      BY <2>0, <3>1, ChecksStep
  <2>2. ASSUME NEW ok \in BOOLEAN, GoOn(u, ok /\ MayHeartbeat(s, h))
        PROVE  Goal
    <3> DEFINE go == ok /\ MayHeartbeat(s, h)
    <3>1. go \in BOOLEAN /\ (go => MayHeartbeat(s, h)) /\ GoOn(u, go)
      BY <2>2
    <3> HIDE DEF go
    <3> QED
      BY <2>0, <3>1, ChecksStep
  <2> QED
    BY <1>5, <2>1, <2>2 DEF HeartbeatLocalChecks
<1>6. ASSUME NEW u \in Worker, NEW s \in Script, RegisterActiveNode(u, s) PROVE Goal
  <2>1. u = t => /\ call'[t].script = s /\ call'[t].handle = localHandle
                 /\ call'[t].now = clock
    BY <1>0, <1>6 DEF RegisterActiveNode
  <2>2. u # t => call'[t] = call[t]
    BY <1>0, <1>6 DEF RegisterActiveNode
  <2>3. MayHeartbeat(s, localHandle) /\ UNCHANGED <<pins, pinnedAt, clock>>
    BY <1>6 DEF RegisterActiveNode, pinning
  <2> QED
    BY <2>1, <2>2, <2>3 DEF CallKept, CallBegins
<1>7. ASSUME NEW u \in Worker, NEW s \in TemplateScripts, ApplyCoinbasePayouts(u, s) PROVE Goal
  BY <1>0, <1>7 DEF ApplyCoinbasePayouts, BeginHeartbeatLocal, pinning, CallKept, CallBegins
<1>8. ASSUME NEW u \in Worker, NEW h \in Accounts, NEW sess \in {"unverified", "verified"},
             SignIn(u, h, sess)
      PROVE  Goal
  BY <1>0, <1>8
  DEF SignIn, BindLotteryFromSession, BeginHeartbeatLocal, pinning, CallKept, CallBegins
<1>9. ASSUME call' = call PROVE Goal
  BY <1>9 DEF CallKept, CallBegins, CallGoesOn
<1>10. \/ \E u \in Thread : HeartbeatLocked(u)
       \/ \E m \in sent, stamp \in BOOLEAN : XhbReceive(m, stamp)
       \/ XhbChecks
       \/ \E u \in Worker : HeartbeatLocalBegin(u)
       \/ \E u \in Worker : HeartbeatLocalChecks(u)
       \/ \E u \in Worker, s \in Script : RegisterActiveNode(u, s)
       \/ \E u \in Worker, s \in TemplateScripts : ApplyCoinbasePayouts(u, s)
       \/ \E u \in Worker, h \in Accounts, sess \in {"unverified", "verified"} :
                SignIn(u, h, sess)
       \/ call' = call
  BY <1>a
  DEF Next, vars, ClearSession, LockWallet, PushLocalXhb, LoadPin, RemovePin,
      PeerSigns, SeedStamps, CacheStampsFromXva, BlueCheck, Tick
<1> HIDE DEF Goal
<1>11. Goal
  BY <1>1, <1>2, <1>3, <1>4, <1>5, <1>6, <1>7, <1>8, <1>9, <1>10
<1> QED
  BY <1>a, <1>11 DEF Goal

-----------------------------------------------------------------------------
(* A live handle cannot be rebound.                                        *)

\* No call and no ticket carries a time still to come.
NotAhead ==
    /\ \A t \in Thread : call[t] # NoCall => call[t].now <= clock
    /\ \A s \in Registered : nodes[s].lastSeen <= clock

LEMMA NextNotAhead == TypeOK /\ NotAhead /\ [Next]_vars => NotAhead'
<1> SUFFICES ASSUME TypeOK, NotAhead, [Next]_vars PROVE NotAhead'
  OBVIOUS
<1>1. clock \in Nat /\ clock' \in Nat /\ clock <= clock'
  <2>1. clock \in Nat /\ clock' \in Nat
    BY NextTypeOK DEF TypeOK
  <2>2. clock' = clock \/ clock' = clock + 1
    BY DEF Next, vars, HeartbeatLocked, XhbReceive, XhbChecks, HeartbeatLocalBegin,
       HeartbeatLocalChecks, RegisterActiveNode, ApplyCoinbasePayouts, SignIn, ClearSession,
       LockWallet, PushLocalXhb, LoadPin, RemovePin, Restart, PeerSigns, SeedStamps,
       CacheStampsFromXva, BlueCheck, Tick
  <2> QED
    BY <2>1, <2>2
<1>2. ASSUME NEW t \in Thread, call'[t] # NoCall PROVE call'[t].now <= clock'
  <2>1. call[t] # NoCall => call[t].now \in Nat /\ call[t].now <= clock
    BY CallType DEF Call, NotAhead
  <2>2. CallKept(t) \/ CallBegins(t) \/ CallGoesOn(t)
    BY <1>2, CallStep
  <2> QED
    BY <1>1, <1>2, <2>1, <2>2 DEF CallKept, CallBegins, CallGoesOn
<1>3. ASSUME NEW s \in Script, nodes'[s] # NoNode PROVE nodes'[s].lastSeen <= clock'
  <2>1. CASE nodes'[s] = nodes[s]
    <3>1. nodes[s] \in Node /\ nodes[s].lastSeen <= clock
      BY <1>3, <2>1 DEF TypeOK, NotAhead, Registered
    <3> QED
      BY <1>1, <2>1, <3>1 DEF Node
  <2>2. ASSUME NEW t \in Thread, HeartbeatLocked(t), nodes'[s].lastSeen = call[t].now
        PROVE  nodes'[s].lastSeen <= clock'
    <3>1. call[t] \in Call /\ call[t].now <= clock
      BY <2>2, CallType DEF HeartbeatLocked, NotAhead
    <3> QED
      BY <1>1, <2>2, <3>1 DEF Call
  <2> QED
    BY <1>3, <2>1, <2>2, NodeStep
<1> QED
  BY <1>2, <1>3 DEF NotAhead, Registered

\* The inductive invariant of the registry.
RegistryInv == TypeOK /\ HandleIndexed /\ NotAhead

LEMMA RegistryInvariant == Spec => []RegistryInv
<1>1. Init => RegistryInv
  BY InitTypeOK, InitIndexed DEF RegistryInv, NotAhead, Init, Registered
<1>2. RegistryInv /\ [Next]_vars => RegistryInv'
  BY NextTypeOK, NextIndexed, NextNotAhead DEF RegistryInv
<1> QED
  BY <1>1, <1>2, PTL DEF Spec

\* While a ticket is live no other script gets one for its handle
\* (lottery.h:39): the call that would rebind it read the clock no later than
\* now, finds the handle through byHandle, and is refused.
THEOREM HandleSticks == Spec => LiveHandleSticky
<1> DEFINE Kept == \A s, r \in Script :
                      /\ s # r /\ Live(s, clock)
                      /\ nodes'[r] # NoNode
                      => nodes'[r].handle # nodes[s].handle
<1>1. RegistryInv /\ [Next]_vars => [Kept]_vars
  <2> SUFFICES ASSUME RegistryInv, [Next]_vars,
                      NEW s \in Script, NEW r \in Script,
                      s # r, Live(s, clock), nodes'[r] # NoNode,
                      nodes'[r].handle = nodes[s].handle
               PROVE  FALSE
    OBVIOUS
  <2>0. TypeOK /\ HandleIndexed /\ NotAhead
    BY DEF RegistryInv
  <2>1. nodes[s] \in Node /\ byHandle[nodes[s].handle] = s
    BY <2>0 DEF Live, TypeOK, HandleIndexed, Registered
  <2>2. CASE nodes'[r] = nodes[r]
    BY <2>0, <2>1, <2>2 DEF HandleIndexed, Registered
  <2>3. ASSUME NEW t \in Thread, HeartbeatLocked(t), r = call[t].script, ~Sticky(call[t]),
               nodes'[r].handle = call[t].handle
        PROVE  FALSE
    <3>1. call[t] \in Call /\ call[t].now <= clock
      BY <2>0, <2>3, CallType DEF HeartbeatLocked, NotAhead
    <3>2. byHandle[call[t].handle] = s
      BY <2>1, <2>3
    <3>3. BoundElsewhere(call[t])
      BY <2>3, <3>2, ScriptAssumption DEF BoundElsewhere
    <3>4. /\ nodes[s] # NoNode /\ clock - nodes[s].lastSeen <= TTL
          /\ nodes[s].lastSeen \in Nat /\ clock \in Nat /\ call[t].now \in Nat
      BY <2>0, <2>1, <3>1 DEF Live, Node, TypeOK, Call
    <3>5. call[t].now - nodes[s].lastSeen <= TTL
      BY <3>1, <3>4, TimeAssumption
    <3>6. Live(s, call[t].now)
      BY <3>4, <3>5 DEF Live
    <3> QED
      BY <2>3, <3>2, <3>3, <3>6 DEF Sticky
  <2> QED
    BY <2>0, <2>2, <2>3, NodeStep
<1> QED
  BY <1>1, RegistryInvariant, PTL DEF Spec, LiveHandleSticky

-----------------------------------------------------------------------------
(* Operator pins.                                                          *)

\* A call that passed the pin check fits the pin, or began before the pin.
CallsPinned ==
    \A t \in Thread :
        call[t] # NoCall /\ call[t].pc = "checked" =>
            \/ pins[call[t].handle] \in {NoScript, call[t].script}
            \/ call[t].now <= pinnedAt[call[t].handle]

\* While the process runs a pin stays, goes, or is loaded now.
LEMMA PinStep ==
    ASSUME TypeOK, [Next]_vars, ~Restart, NEW h \in Handle
    PROVE  \/ pins'[h] = pins[h] /\ pinnedAt'[h] = pinnedAt[h]
           \/ pins'[h] = NoScript
           \/ pinnedAt'[h] = clock
<1>1. ASSUME NEW g \in Handle, NEW s \in Script, NEW parses \in BOOLEAN, LoadPin(g, s, parses)
      PROVE  (pins'[h] = pins[h] /\ pinnedAt'[h] = pinnedAt[h]) \/ pinnedAt'[h] = clock
  BY <1>1 DEF LoadPin, TypeOK
<1>2. ASSUME NEW g \in Handle, RemovePin(g)
      PROVE  (pins'[h] = pins[h] /\ pinnedAt'[h] = pinnedAt[h]) \/ pins'[h] = NoScript
  BY <1>2 DEF RemovePin, TypeOK
<1>3. CASE UNCHANGED <<pins, pinnedAt>>
  BY <1>3
<1> QED
  BY <1>1, <1>2, <1>3
  DEF Next, vars, pinning, HeartbeatLocked, XhbReceive, XhbChecks, HeartbeatLocalBegin,
      HeartbeatLocalChecks, RegisterActiveNode, ApplyCoinbasePayouts, SignIn, ClearSession,
      LockWallet, PushLocalXhb, PeerSigns, SeedStamps, CacheStampsFromXva, BlueCheck, Tick

LEMMA NextCallsPinned ==
    ASSUME RegistryInv, CallsPinned, [Next]_vars
    PROVE  CallsPinned'
<1> SUFFICES ASSUME NEW t \in Thread, call'[t] # NoCall, call'[t].pc = "checked"
             PROVE  \/ pins'[call'[t].handle] \in {NoScript, call'[t].script}
                    \/ call'[t].now <= pinnedAt'[call'[t].handle]
  BY DEF CallsPinned
<1>1. TypeOK /\ NotAhead
  BY DEF RegistryInv
<1>2. CASE CallKept(t) /\ ~Restart
  <2>1. /\ call[t] \in Call /\ call[t].now <= clock
        /\ call[t].handle \in Handle /\ call[t].now \in Nat
    BY <1>1, <1>2, CallType DEF CallKept, NotAhead, Call
  <2>2. \/ pins[call[t].handle] \in {NoScript, call[t].script}
        \/ call[t].now <= pinnedAt[call[t].handle]
    BY <1>2 DEF CallKept, CallsPinned
  <2>3. \/ pins'[call[t].handle] = pins[call[t].handle]
           /\ pinnedAt'[call[t].handle] = pinnedAt[call[t].handle]
        \/ pins'[call[t].handle] = NoScript
        \/ pinnedAt'[call[t].handle] = clock
    BY <1>1, <1>2, <2>1, PinStep
  <2> QED
    BY <1>2, <2>1, <2>2, <2>3 DEF CallKept
<1>3. CASE CallBegins(t)
  BY <1>3 DEF CallBegins, MayHeartbeat
<1>4. CASE CallGoesOn(t)
  BY <1>4 DEF CallGoesOn, MayHeartbeat
<1> QED
  BY <1>1, <1>2, <1>3, <1>4, CallStep

LEMMA NextPinHonoured ==
    ASSUME RegistryInv, CallsPinned, PinHonoured, [Next]_vars
    PROVE  PinHonoured'
<1> SUFFICES ASSUME NEW s \in Script, nodes'[s] # NoNode,
                    pins'[nodes'[s].handle] \notin {NoScript, s}
             PROVE  nodes'[s].lastSeen <= pinnedAt'[nodes'[s].handle]
  BY DEF PinHonoured, Registered
<1>1. TypeOK /\ NotAhead
  BY DEF RegistryInv
<1>2. ~Restart
  BY DEF Restart
<1>3. CASE nodes'[s] = nodes[s]
  <2>1. /\ nodes[s] \in Node /\ nodes[s].handle \in Handle
        /\ nodes[s].lastSeen <= clock
    BY <1>1, <1>3 DEF TypeOK, Node, NotAhead, Registered
  <2>2. pins[nodes[s].handle] \notin {NoScript, s}
           => nodes[s].lastSeen <= pinnedAt[nodes[s].handle]
    BY <1>3 DEF PinHonoured, Registered
  <2>3. \/ pins'[nodes[s].handle] = pins[nodes[s].handle]
           /\ pinnedAt'[nodes[s].handle] = pinnedAt[nodes[s].handle]
        \/ pins'[nodes[s].handle] = NoScript
        \/ pinnedAt'[nodes[s].handle] = clock
    BY <1>1, <1>2, <2>1, PinStep
  <2> QED
    BY <1>3, <2>1, <2>2, <2>3
<1>4. ASSUME NEW t \in Thread, HeartbeatLocked(t), s = call[t].script,
             nodes'[s].lastSeen = call[t].now, nodes'[s].handle = call[t].handle
      PROVE  nodes'[s].lastSeen <= pinnedAt'[nodes'[s].handle]
  <2>1. /\ call[t] # NoCall /\ call[t].pc = "checked"
        /\ UNCHANGED <<pins, pinnedAt>>
    BY <1>4 DEF HeartbeatLocked, pinning
  <2> QED
    BY <1>4, <2>1 DEF CallsPinned
<1> QED
  BY <1>1, <1>3, <1>4, NodeStep

\* A ticket that does not fit its handle's pin was last refreshed before the pin
\* was loaded, whatever waited for the registry lock meanwhile.
THEOREM PinsHold == Spec => []PinHonoured
<1>1. Init => CallsPinned /\ PinHonoured
  BY DEF Init, CallsPinned, PinHonoured, Registered
<1>2. RegistryInv /\ CallsPinned /\ PinHonoured /\ [Next]_vars
         => CallsPinned' /\ PinHonoured'
  BY NextCallsPinned, NextPinHonoured
<1> QED
  BY <1>1, <1>2, RegistryInvariant, PTL DEF Spec

-----------------------------------------------------------------------------
(* Stamps.                                                                 *)

\* Every stored stamp, and every stamp a call in progress brings, was signed.
StampsGenuine ==
    /\ \A s \in Script : attest[s] # NoHandle => <<s, attest[s]>> \in stamps
    /\ \A t \in Thread : call[t] # NoCall /\ call[t].stamp
                            => <<call[t].script, call[t].handle>> \in stamps

\* No stamp is ever taken back.
LEMMA StampsGrow ==
    ASSUME [Next]_vars PROVE stamps \subseteq stamps'
BY DEF Next, vars, stamping, HeartbeatLocked, XhbReceive, XhbChecks, LookupAndAttest,
   HeartbeatLocalBegin, HeartbeatLocalChecks, RegisterActiveNode, ApplyCoinbasePayouts, SignIn,
   ClearSession, LockWallet, PushLocalXhb, LoadPin, RemovePin, Restart, PeerSigns, SeedStamps,
   CacheStampsFromXva, BlueCheck, Tick

\* A stamp LookupAndAttest stores is one it signs.
LEMMA LookupGenuine ==
    ASSUME TypeOK, StampsGenuine, NEW s \in Script, NEW h \in Handle, NEW ok \in BOOLEAN,
           LookupAndAttest(s, h, ok), NEW r \in Script, attest'[r] # NoHandle
    PROVE  <<r, attest'[r]>> \in stamps'
BY DEF LookupAndAttest, StampsGenuine, TypeOK, stamping

LEMMA NextAttestGenuine ==
    ASSUME TypeOK, StampsGenuine, [Next]_vars,
           NEW r \in Script, attest'[r] # NoHandle
    PROVE  <<r, attest'[r]>> \in stamps'
<1>0. "net" \in Thread /\ Worker \subseteq Thread
  BY DEF Thread
<1>1. CASE XhbChecks
  <2>1. /\ call["net"] \in Call /\ call["net"] # NoCall
        /\ call["net"].script \in Script /\ call["net"].handle \in Handle
    BY <1>0, <1>1, CallType DEF XhbChecks, Call
  <2>2. CASE /\ call["net"].stamp
             /\ attest' = [attest EXCEPT ![call["net"].script] = call["net"].handle]
             /\ UNCHANGED <<cache, stamps>>
    BY <1>0, <2>1, <2>2 DEF StampsGenuine, TypeOK
  <2>3. CASE UNCHANGED stamping
    BY <2>3 DEF StampsGenuine, stamping
  <2>4. ASSUME NEW ok \in BOOLEAN, LookupAndAttest(call["net"].script, call["net"].handle, ok)
        PROVE  <<r, attest'[r]>> \in stamps'
    BY <2>1, <2>4, LookupGenuine
  <2> QED
    BY <1>1, <2>2, <2>3, <2>4 DEF XhbChecks
<1>2. ASSUME NEW t \in Worker, HeartbeatLocalChecks(t) PROVE <<r, attest'[r]>> \in stamps'
  <2>1. /\ call[t] \in Call
        /\ call[t].script \in Script /\ call[t].handle \in Handle
    BY <1>0, <1>2, CallType DEF HeartbeatLocalChecks, Call
  <2>2. CASE UNCHANGED stamping
    BY <2>2 DEF StampsGenuine, stamping
  <2>3. ASSUME NEW ok \in BOOLEAN, LookupAndAttest(call[t].script, call[t].handle, ok)
        PROVE  <<r, attest'[r]>> \in stamps'
    BY <2>1, <2>3, LookupGenuine
  <2> QED
    BY <1>2, <2>2, <2>3 DEF HeartbeatLocalChecks
<1>3. CASE Restart
  BY <1>3 DEF Restart
<1>4. ASSUME NEW s \in Script, NEW h \in Handle, CacheStampsFromXva(s, h)
      PROVE  <<r, attest'[r]>> \in stamps'
  BY <1>4 DEF CacheStampsFromXva, StampsGenuine, TypeOK
<1>5. ASSUME attest' = attest PROVE <<r, attest'[r]>> \in stamps'
  BY <1>5, StampsGrow DEF StampsGenuine
<1>6. \/ XhbChecks
      \/ \E t \in Worker : HeartbeatLocalChecks(t)
      \/ Restart
      \/ \E s \in Script, h \in Handle : CacheStampsFromXva(s, h)
      \/ attest' = attest
  BY DEF Next, vars, stamping, HeartbeatLocked, XhbReceive, HeartbeatLocalBegin,
     RegisterActiveNode, ApplyCoinbasePayouts, SignIn, ClearSession, LockWallet, PushLocalXhb,
     LoadPin, RemovePin, PeerSigns, SeedStamps, BlueCheck, Tick
<1> QED
  BY <1>1, <1>2, <1>3, <1>4, <1>5, <1>6

\* A call keeps the stamp it came with.
LEMMA NextCallGenuine ==
    ASSUME TypeOK, StampsGenuine, [Next]_vars,
           NEW t \in Thread, call'[t] # NoCall, call'[t].stamp
    PROVE  <<call'[t].script, call'[t].handle>> \in stamps'
<1> DEFINE Goal == <<call'[t].script, call'[t].handle>> \in stamps'
<1>0. call \in [Thread -> Call \cup {NoCall}] /\ "net" \in Thread /\ Worker \subseteq Thread
  BY DEF TypeOK, Thread
<1>1. ASSUME call'[t] = call[t] PROVE Goal
  BY <1>1, StampsGrow DEF StampsGenuine
<1>2. ASSUME NEW u \in Thread, NEW ok, call[u] # NoCall, GoOn(u, ok) PROVE Goal
  <2>1. CASE u # t
    <3>1. call'[t] = call[t]
      BY <1>0, <1>2, <2>1 DEF GoOn
    <3> QED
      BY <1>1, <3>1
  <2>2. CASE u = t
    <3>1. call[t] \in Call
      BY <1>2, <2>2, CallType
    <3>2. /\ [call[t] EXCEPT !.pc = "checked"].script = call[t].script
          /\ [call[t] EXCEPT !.pc = "checked"].handle = call[t].handle
          /\ [call[t] EXCEPT !.pc = "checked"].stamp = call[t].stamp
      BY <3>1 DEF Call
    <3>3. call'[t] = [call[t] EXCEPT !.pc = "checked"]
      BY <1>0, <1>2, <2>2 DEF GoOn
    <3>4. <<call[t].script, call[t].handle>> \in stamps
      BY <1>2, <2>2, <3>2, <3>3 DEF StampsGenuine
    <3> QED
      BY <3>2, <3>3, <3>4, StampsGrow
  <2> QED
    BY <2>1, <2>2
<1>3. ASSUME NEW m \in sent, NEW stamp \in BOOLEAN, XhbReceive(m, stamp) PROVE Goal
  <2>1. CASE t = "net"
    BY <1>0, <1>3, <2>1, StampsGrow DEF XhbReceive
  <2>2. CASE t # "net"
    <3>1. call'[t] = call[t]
      BY <1>0, <1>3, <2>2 DEF XhbReceive
    <3> QED
      BY <1>1, <3>1
  <2> QED
    BY <2>1, <2>2
<1>4. ASSUME NEW u \in Worker, NEW s, NEW h, BeginHeartbeatLocal(u, s, h) PROVE Goal
  <2>1. call'[t] = call[t]
    <3>1. u = t => call'[t] = call[t] \/ call'[t].stamp = FALSE
      BY <1>0, <1>4 DEF BeginHeartbeatLocal
    <3>2. u # t => call'[t] = call[t]
      BY <1>0, <1>4 DEF BeginHeartbeatLocal
    <3> QED
      BY <3>1, <3>2
  <2> QED
    BY <1>1, <2>1
<1>5. ASSUME NEW u \in Worker, NEW s \in Script, RegisterActiveNode(u, s) PROVE Goal
  <2>1. u # t /\ call'[t] = call[t]
    BY <1>0, <1>5 DEF RegisterActiveNode
  <2> QED
    BY <1>1, <2>1
<1>6. ASSUME NEW u \in Thread, HeartbeatLocked(u) PROVE Goal
  <2>1. call'[t] = call[t]
    BY <1>0, <1>6 DEF HeartbeatLocked
  <2> QED
    BY <1>1, <2>1
<1>7. \/ \E u \in Thread : \E ok : call[u] # NoCall /\ GoOn(u, ok)
      \/ \E m \in sent, stamp \in BOOLEAN : XhbReceive(m, stamp)
      \/ \E u \in Worker : \E s, h : BeginHeartbeatLocal(u, s, h)
      \/ \E u \in Worker, s \in Script : RegisterActiveNode(u, s)
      \/ \E u \in Thread : HeartbeatLocked(u)
      \/ call' = call
  <2>1. CASE XhbChecks
    BY <1>0, <2>1 DEF XhbChecks
  <2>2. ASSUME NEW u \in Worker, HeartbeatLocalChecks(u)
        PROVE  \E w \in Thread : \E ok : call[w] # NoCall /\ GoOn(w, ok)
    BY <1>0, <2>2 DEF HeartbeatLocalChecks
  <2>3. ~Restart
    BY DEF Restart
  <2> QED
    BY <2>1, <2>2, <2>3
    DEF Next, vars, HeartbeatLocalBegin, ApplyCoinbasePayouts, SignIn, BindLotteryFromSession,
        ClearSession, LockWallet, PushLocalXhb, LoadPin, RemovePin, PeerSigns, SeedStamps,
        CacheStampsFromXva, BlueCheck, Tick
<1> HIDE DEF Goal
<1>8. Goal
  BY <1>1, <1>2, <1>3, <1>4, <1>5, <1>6, <1>7
<1> QED
  BY <1>8 DEF Goal

\* No stamp, not in the hat: on main and test the draw takes only ids that the
\* attestor key stamped, for the handle on record.
THEOREM DrawIsStamped == Spec => []StampedDraw
<1>1. Init => StampsGenuine
  BY DEF Init, StampsGenuine
<1>2. TypeOK /\ StampsGenuine /\ [Next]_vars => StampsGenuine'
  BY NextAttestGenuine, NextCallGenuine DEF StampsGenuine
<1>3. TypeOK /\ StampsGenuine => StampedDraw
  BY DEF StampsGenuine, StampedDraw, DrawActive, HasAttestation, ActiveIdsForSlot, FrozenIds,
     ActiveIds, Registered
<1> QED
  BY <1>1, <1>2, <1>3, TypeCorrect, PTL DEF Spec

-----------------------------------------------------------------------------
(* The seed's tickets.                                                     *)

\* A heartbeat of script s as handle h, signed no earlier than MaxSkew before t.
SignedSince(s, h, t) ==
    \E m \in sent : m.script = s /\ m.handle = h /\ t - m.ts <= MaxSkew

\* On the seed only the message thread heartbeats, for a message it received,
\* and every ticket is of such a call.
TicketsSigned ==
    BakedSeed =>
        /\ \A t \in Worker : call[t] = NoCall
        /\ call["net"] # NoCall =>
              SignedSince(call["net"].script, call["net"].handle, call["net"].now)
        /\ \A s \in Registered : SignedSince(s, nodes[s].handle, nodes[s].lastSeen)

LEMMA SentGrows ==
    ASSUME [Next]_vars PROVE sent \subseteq sent'
BY DEF Next, vars, HeartbeatLocked, XhbReceive, XhbChecks,
   HeartbeatLocalBegin, HeartbeatLocalChecks, RegisterActiveNode, ApplyCoinbasePayouts, SignIn,
   ClearSession, LockWallet, PushLocalXhb, LoadPin, RemovePin, Restart, PeerSigns, SeedStamps,
   CacheStampsFromXva, BlueCheck, Tick

\* The seed's calls: workers never begin one, the message thread begins one for
\* a message inside the time window.
LEMMA SeedCalls ==
    ASSUME TypeOK, TicketsSigned, BakedSeed, [Next]_vars
    PROVE  /\ \A t \in Worker : call'[t] = NoCall
           /\ call'["net"] # NoCall =>
                \/ /\ call["net"] # NoCall
                   /\ call'["net"].script = call["net"].script
                   /\ call'["net"].handle = call["net"].handle
                   /\ call'["net"].now = call["net"].now
                \/ SignedSince(call'["net"].script, call'["net"].handle, call'["net"].now)
<1> DEFINE Goal ==
      /\ \A t \in Worker : call'[t] = NoCall
      /\ call'["net"] # NoCall =>
           \/ /\ call["net"] # NoCall
              /\ call'["net"].script = call["net"].script
              /\ call'["net"].handle = call["net"].handle
              /\ call'["net"].now = call["net"].now
           \/ SignedSince(call'["net"].script, call'["net"].handle, call'["net"].now)
<1>0. /\ call \in [Thread -> Call \cup {NoCall}] /\ "net" \in Thread
      /\ Worker \subseteq Thread /\ "net" \notin Worker
      /\ \A t \in Worker : call[t] = NoCall
  BY ModeAssumption DEF TypeOK, Thread, TicketsSigned
<1>1. ASSUME NEW t \in Thread, HeartbeatLocked(t) PROVE Goal
  <2>1. \A u \in Thread : call'[u] = NoCall \/ call'[u] = call[u]
    BY <1>0, <1>1 DEF HeartbeatLocked
  <2> QED
    BY <1>0, <2>1
<1>2. ASSUME NEW m \in sent, NEW stamp \in BOOLEAN, XhbReceive(m, stamp) PROVE Goal
  <2>1. \A t \in Worker : call'[t] = call[t]
    BY <1>0, <1>2 DEF XhbReceive
  <2>2. /\ call'["net"].script = m.script /\ call'["net"].handle = m.handle
        /\ call'["net"].now = clock
    BY <1>0, <1>2 DEF XhbReceive
  <2>3. clock - m.ts <= MaxSkew
    <3>1. m.ts \in Nat /\ clock \in Nat /\ MaxSkew \in Nat /\ m.ts >= clock - MaxSkew
      BY <1>2, TimeAssumption DEF XhbReceive, TypeOK, Xhb
    <3> QED
      BY <3>1
  <2> QED
    BY <1>0, <2>1, <2>2, <2>3 DEF SignedSince
<1>3. ASSUME XhbChecks PROVE Goal
  <2>1. call["net"] # NoCall /\ call["net"] \in Call
    BY <1>0, <1>3, CallType DEF XhbChecks
  <2>2. /\ [call["net"] EXCEPT !.pc = "checked"].script = call["net"].script
        /\ [call["net"] EXCEPT !.pc = "checked"].handle = call["net"].handle
        /\ [call["net"] EXCEPT !.pc = "checked"].now = call["net"].now
    BY <2>1 DEF Call
  <2>3. \E ok : GoOn("net", ok)
    BY <1>3 DEF XhbChecks
  <2>4. /\ call'["net"] \in {NoCall, [call["net"] EXCEPT !.pc = "checked"]}
        /\ \A t \in Worker : call'[t] = call[t]
    BY <1>0, <2>3 DEF GoOn
  <2> QED
    BY <1>0, <2>1, <2>2, <2>4
<1>4. ASSUME NEW t \in Worker, NEW s, NEW h, BeginHeartbeatLocal(t, s, h) PROVE Goal
  BY <1>0, <1>4 DEF BeginHeartbeatLocal
<1>5. ASSUME Restart PROVE Goal
  BY <1>0, <1>5 DEF Restart
<1>6. ASSUME call' = call PROVE Goal
  BY <1>0, <1>6
<1>7. \/ \E t \in Thread : HeartbeatLocked(t)
      \/ \E m \in sent, stamp \in BOOLEAN : XhbReceive(m, stamp)
      \/ XhbChecks
      \/ \E t \in Worker : \E s, h : BeginHeartbeatLocal(t, s, h)
      \/ Restart
      \/ call' = call
  <2>1. \A t \in Worker : ~HeartbeatLocalChecks(t)
    BY <1>0 DEF HeartbeatLocalChecks
  <2>2. \A t \in Worker, s \in Script : ~RegisterActiveNode(t, s)
    BY DEF RegisterActiveNode
  <2> QED
    BY <2>1, <2>2
    DEF Next, vars, HeartbeatLocalBegin, ApplyCoinbasePayouts, SignIn, BindLotteryFromSession,
        ClearSession, LockWallet, PushLocalXhb, LoadPin, RemovePin, PeerSigns, SeedStamps,
        CacheStampsFromXva, BlueCheck, Tick
<1> HIDE DEF Goal
<1>8. Goal
  BY <1>1, <1>2, <1>3, <1>4, <1>5, <1>6, <1>7
<1> QED
  BY <1>8 DEF Goal

LEMMA NextTicketsSigned ==
    ASSUME TypeOK, TicketsSigned, [Next]_vars
    PROVE  TicketsSigned'
<1> SUFFICES ASSUME BakedSeed PROVE TicketsSigned'
  BY DEF TicketsSigned
<1>1. \A s, h, t : SignedSince(s, h, t) => SignedSince(s, h, t)'
  BY SentGrows DEF SignedSince
<1>2. call["net"] # NoCall => SignedSince(call["net"].script, call["net"].handle, call["net"].now)
  BY DEF TicketsSigned
<1>3. /\ \A t \in Worker : call'[t] = NoCall
      /\ call'["net"] # NoCall =>
            SignedSince(call'["net"].script, call'["net"].handle, call'["net"].now)
  BY <1>2, SeedCalls
<1>4. ASSUME NEW s \in Script, nodes'[s] # NoNode
      PROVE  SignedSince(s, nodes'[s].handle, nodes'[s].lastSeen)
  <2>1. CASE nodes'[s] = nodes[s]
    BY <1>4, <2>1 DEF TicketsSigned, Registered
  <2>2. ASSUME NEW t \in Thread, HeartbeatLocked(t), s = call[t].script,
               nodes'[s].lastSeen = call[t].now, nodes'[s].handle = call[t].handle
        PROVE  SignedSince(s, nodes'[s].handle, nodes'[s].lastSeen)
    <3>1. t = "net" /\ call[t] # NoCall
      BY <2>2 DEF HeartbeatLocked, Thread, TicketsSigned
    <3> QED
      BY <1>2, <2>2, <3>1
  <2> QED
    BY <1>4, <2>1, <2>2, NodeStep
<1> QED
  BY <1>1, <1>3, <1>4 DEF TicketsSigned, Registered, SignedSince

LEMMA SeedTicketsInvariant == Spec => []TicketsSigned
<1>1. Init => TicketsSigned
  <2>1. "net" \in Thread /\ Worker \subseteq Thread
    BY DEF Thread
  <2> QED
    BY <2>1 DEF Init, TicketsSigned, Registered
<1>2. TypeOK /\ TicketsSigned /\ [Next]_vars => TicketsSigned'
  BY NextTicketsSigned
<1> QED
  BY <1>1, <1>2, TypeCorrect, PTL DEF Spec

\* On the seed a ticket outlives its owner's last signed heartbeat by no more
\* than the TTL and the clock skew together, however late or often it arrives.
THEOREM SeedTicketsAreSigned == Spec => []SeedTicketsSigned
<1>1. TypeOK /\ TicketsSigned => SeedTicketsSigned
  <2> SUFFICES ASSUME TypeOK, TicketsSigned, BakedSeed, NEW s \in ActiveIds(clock)
               PROVE  \E m \in sent : /\ m.script = s /\ m.handle = nodes[s].handle
                                       /\ clock - m.ts <= TTL + MaxSkew
    BY DEF SeedTicketsSigned
  <2>1. /\ nodes[s] \in Node /\ s \in Registered
        /\ clock - nodes[s].lastSeen <= TTL
    BY DEF ActiveIds, Live, Registered, TypeOK
  <2>2. PICK m \in sent : /\ m.script = s /\ m.handle = nodes[s].handle
                          /\ nodes[s].lastSeen - m.ts <= MaxSkew
    BY <2>1 DEF TicketsSigned, SignedSince
  <2>3. clock \in Nat /\ nodes[s].lastSeen \in Nat /\ m.ts \in Nat
    BY <2>1 DEF TypeOK, Node, Xhb
  <2>4. clock - m.ts <= TTL + MaxSkew
    BY <2>1, <2>2, <2>3, TimeAssumption
  <2> QED
    BY <2>2, <2>4
<1> QED
  BY <1>1, SeedTicketsInvariant, TypeCorrect, PTL

-----------------------------------------------------------------------------
(* How many tickets there are.                                             *)

FiniteRegistry == IsFiniteSet(Registered)

\* A step adds the ticket of one script at most.
LEMMA NextFiniteRegistry == TypeOK /\ FiniteRegistry /\ [Next]_vars => FiniteRegistry'
<1> SUFFICES ASSUME TypeOK, FiniteRegistry, [Next]_vars PROVE FiniteRegistry'
  OBVIOUS
<1>1. CASE Registered' \subseteq Registered
  BY <1>1, FS_Subset DEF FiniteRegistry
<1>2. ASSUME NEW t \in Thread, HeartbeatLocked(t) PROVE FiniteRegistry'
  <2>1. ASSUME NEW s \in Script, nodes'[s] # NoNode
        PROVE  s \in Registered \cup {call[t].script}
    <3>1. call[t] \in Call /\ Heartbeat(call[t])
      BY <1>2, CallType DEF HeartbeatLocked
    <3>2. nodes'[s] = nodes[s] \/ s = call[t].script
      BY <2>1, <3>1, HeartbeatNodes
    <3> QED
      BY <2>1, <3>2 DEF Registered
  <2>2. Registered' \subseteq Registered \cup {call[t].script}
    BY <2>1 DEF Registered
  <2>3. IsFiniteSet(Registered \cup {call[t].script})
    BY FS_AddElement DEF FiniteRegistry
  <2> QED
    BY <2>2, <2>3, FS_Subset DEF FiniteRegistry
<1>3. ASSUME ~(Registered' \subseteq Registered)
      PROVE  \E t \in Thread : HeartbeatLocked(t)
  BY <1>3, NodeStep DEF Registered
<1> QED
  BY <1>1, <1>2, <1>3

LEMMA AlwaysFinite == Spec => []FiniteRegistry
<1>1. Init => FiniteRegistry
  <2> SUFFICES ASSUME Init PROVE FiniteRegistry
    OBVIOUS
  <2>1. Registered = {}
    BY DEF Init, Registered
  <2> QED
    BY <2>1, FS_EmptySet DEF FiniteRegistry
<1> QED
  BY <1>1, NextFiniteRegistry, TypeCorrect, PTL DEF Spec

\* The tickets before the eviction: those there were, and the call's.
Inserted(c) == {s \in Script : NodesInserted(c)[s] # NoNode}

LEMMA InsertedCount ==
    ASSUME TypeOK, FiniteRegistry, NEW c \in Call
    PROVE  /\ IsFiniteSet(Inserted(c)) /\ Cardinality(Inserted(c)) \in Nat
           /\ Cardinality(Registered) \in Nat
           /\ Cardinality(Inserted(c)) <= Cardinality(Registered) + 1
           /\ c.script \in Registered => Cardinality(Inserted(c)) <= Cardinality(Registered)
<1> DEFINE all == Registered \cup {c.script}
<1>1. /\ nodes \in [Script -> Node \cup {NoNode}]
      /\ NodesReleased(c) \in [Script -> Node \cup {NoNode}]
  BY DEF TypeOK, NodesReleased
<1>2. \A s \in Script : NodesReleased(c)[s] # NoNode => nodes[s] # NoNode
  BY <1>1 DEF NodesReleased
<1>3. \A s \in Script : NodesInserted(c)[s] # NoNode => s = c.script \/ nodes[s] # NoNode
  BY <1>1, <1>2 DEF NodesInserted
<1>4. Inserted(c) \subseteq all
  BY <1>3 DEF Inserted, Registered
<1>5. /\ IsFiniteSet(all)
      /\ Cardinality(all) = IF c.script \in Registered THEN Cardinality(Registered)
                            ELSE Cardinality(Registered) + 1
  BY FS_AddElement DEF FiniteRegistry
<1> HIDE DEF all
<1>6. IsFiniteSet(Inserted(c)) /\ Cardinality(Inserted(c)) <= Cardinality(all)
  BY <1>4, <1>5, FS_Subset
<1>7. Cardinality(Inserted(c)) \in Nat /\ Cardinality(Registered) \in Nat
  BY <1>6, FS_CardinalityType DEF FiniteRegistry
<1> QED
  BY <1>5, <1>6, <1>7

-----------------------------------------------------------------------------
(* A live ticket is kept.                                                  *)

\* A call that is not sticky releases no live node.
LEMMA ReleaseSparesLive ==
    ASSUME RegistryInv, NEW t \in Thread, call[t] # NoCall, ~Sticky(call[t]),
           NEW s \in Script, Live(s, clock)
    PROVE  /\ NodesReleased(call[t])[s] = nodes[s]
           /\ Live(s, call[t].now)
<1> DEFINE c == call[t]
<1>0. c \in Call /\ c.now <= clock /\ TypeOK
  BY CallType DEF RegistryInv, NotAhead
<1>1. /\ nodes \in [Script -> Node \cup {NoNode}] /\ nodes[s] # NoNode
      /\ clock - nodes[s].lastSeen <= TTL
      /\ clock \in Nat /\ c.now \in Nat
  BY <1>0 DEF TypeOK, Live, Call
<1>2. nodes[s].lastSeen \in Nat
  BY <1>1 DEF Node
<1> HIDE DEF c
<1>3. Live(s, c.now)
  <2>1. c.now - nodes[s].lastSeen <= TTL
    BY <1>0, <1>1, <1>2, TimeAssumption
  <2> QED
    BY <1>1, <2>1 DEF Live
<1>4. BoundElsewhere(c) => byHandle[c.handle] # s
  BY <1>3 DEF Sticky, c
<1>5. NodesReleased(c)[s] = nodes[s]
  BY <1>1, <1>4 DEF NodesReleased
<1> QED
  BY <1>3, <1>5 DEF c

\* Nor does inserting the call's node change more of it than lastSeen.
LEMMA InsertSparesLive ==
    ASSUME RegistryInv, NEW t \in Thread, call[t] # NoCall, ~Sticky(call[t]),
           NEW s \in Script, Live(s, clock),
           ~(Renames(call[t]) /\ Live(call[t].script, call[t].now))
    PROVE  /\ s # call[t].script => NodesInserted(call[t])[s] = nodes[s]
           /\ s = call[t].script =>
                NodesInserted(call[t])[s] = [nodes[s] EXCEPT !.lastSeen = call[t].now]
<1> DEFINE c == call[t]
<1>0. /\ c \in Call /\ TypeOK /\ nodes \in [Script -> Node \cup {NoNode}]
      /\ nodes[s] # NoNode /\ nodes[s] \in Node
      /\ NodesReleased(c) \in [Script -> Node \cup {NoNode}]
  BY CallType DEF RegistryInv, TypeOK, Live, NodesReleased
<1>1. NodesReleased(c)[s] = nodes[s] /\ Live(s, c.now)
  BY ReleaseSparesLive
<1>2. ~(Renames(c) /\ Live(c.script, c.now)) /\ c.script \in Script
  BY <1>0 DEF Call
<1> HIDE DEF c
<1>3. CASE s # c.script
  BY <1>0, <1>1, <1>2, <1>3 DEF NodesInserted, c
<1>4. CASE s = c.script
  <2>1. nodes[s].handle = c.handle
    BY <1>0, <1>1, <1>2, <1>4 DEF Renames
  <2>2. Joined(c) = nodes[s].joined
    BY <1>0, <1>4, <2>1 DEF Joined, Renames
  <2>3. NodesInserted(c)[s] = [lastSeen |-> c.now, joined |-> Joined(c), handle |-> c.handle]
    BY <1>0, <1>2, <1>4 DEF NodesInserted
  <2>4. nodes[s] = [lastSeen |-> nodes[s].lastSeen, joined |-> nodes[s].joined,
                    handle |-> nodes[s].handle]
    BY <1>0 DEF Node
  <2> QED
    BY <1>4, <2>1, <2>2, <2>3, <2>4 DEF c
<1> QED
  BY <1>3, <1>4 DEF c

\* An accepted call leaves a live ticket as it was but for lastSeen, or evicts
\* it: from a full registry as one of the oldest, or after turning it back.
LEMMA AcceptKeepsLive ==
    ASSUME RegistryInv, FiniteRegistry, NEW t \in Thread, HeartbeatLocked(t),
           ~Sticky(call[t]), ~(Renames(call[t]) /\ Live(call[t].script, call[t].now)),
           Accept(call[t]), NEW s \in Script, Live(s, clock)
    PROVE  IF nodes'[s] = NoNode
           THEN \/ /\ Cardinality(Registered) >= MaxActive
                   /\ \A r \in Script : nodes'[r] # NoNode
                                          => nodes[s].lastSeen <= nodes'[r].lastSeen
                \/ Cardinality(Registered) > MaxActive /\ TurnedBack(s)
           ELSE nodes'[s].handle = nodes[s].handle /\ nodes'[s].joined = nodes[s].joined
<1> DEFINE c == call[t]
           ns == NodesInserted(c)
<1>0. /\ c \in Call /\ call[t] # NoCall /\ TypeOK
      /\ nodes \in [Script -> Node \cup {NoNode}] /\ nodes[s] # NoNode /\ nodes[s] \in Node
      /\ DOMAIN ns = Script /\ s \in Registered
  BY CallType DEF RegistryInv, TypeOK, HeartbeatLocked, Live, NodesInserted, NodesReleased,
     Registered
<1>1. /\ s # c.script => ns[s] = nodes[s]
      /\ s = c.script => ns[s] = [nodes[s] EXCEPT !.lastSeen = c.now]
  BY <1>0, InsertSparesLive
<1>2. ns[s].handle = nodes[s].handle /\ ns[s].joined = nodes[s].joined
  BY <1>0, <1>1 DEF Node
<1>3. ns[s] # NoNode
  <2>1. c.now \in Nat
    BY <1>0 DEF Call
  <2>2. [nodes[s] EXCEPT !.lastSeen = c.now] \in Node
    BY <1>0, <2>1 DEF Node
  <2> QED
    BY <1>0, <1>1, <2>2, NoNodeAssumption
<1>4. nodes' = ns \/ \E o \in Oldest(ns) : OverCapacity(ns) /\ nodes' = [ns EXCEPT ![o] = NoNode]
  BY DEF Accept
<1> HIDE DEF ns
<1>5. CASE nodes'[s] # NoNode
  <2>1. nodes'[s] = ns[s]
    BY <1>0, <1>4, <1>5
  <2> QED
    BY <1>2, <1>5, <2>1
<1>6. CASE nodes'[s] = NoNode
  <2>1. OverCapacity(ns) /\ s \in Oldest(ns) /\ nodes' = [ns EXCEPT ![s] = NoNode]
    BY <1>0, <1>3, <1>4, <1>6
  <2>2. /\ Cardinality(Inserted(c)) > MaxActive
        /\ Cardinality(Inserted(c)) \in Nat /\ Cardinality(Registered) \in Nat
        /\ Cardinality(Inserted(c)) <= Cardinality(Registered) + 1
        /\ c.script \in Registered => Cardinality(Inserted(c)) <= Cardinality(Registered)
    BY <1>0, <2>1, InsertedCount DEF OverCapacity, Inserted, ns
  <2>3. /\ Cardinality(Registered) >= MaxActive
        /\ c.script \in Registered => Cardinality(Registered) > MaxActive
    BY <2>2, TimeAssumption
  <2>4. \A r \in Script : nodes'[r] # NoNode => ns[s].lastSeen <= nodes'[r].lastSeen
    BY <1>0, <2>1 DEF Oldest
  <2>5. CASE ns[s].lastSeen = nodes[s].lastSeen
    BY <1>6, <2>3, <2>4, <2>5
  <2>6. CASE ns[s].lastSeen # nodes[s].lastSeen
    <3>1. s = c.script /\ ns[s].lastSeen = c.now
      BY <1>0, <1>1, <2>6 DEF Node
    <3>2. /\ c.now \in Nat /\ nodes[s].lastSeen \in Nat
          /\ c.now # nodes[s].lastSeen
      BY <1>0, <2>6, <3>1 DEF Call, Node
    <3>3. CASE c.now < nodes[s].lastSeen
      <4>1. TurnedBack(s)
        BY <3>1, <3>3 DEF TurnedBack
      <4> QED
        BY <1>0, <1>6, <2>3, <3>1, <4>1
    <3>4. CASE nodes[s].lastSeen < c.now
      <4>1. ASSUME NEW r \in Script, nodes'[r] # NoNode
            PROVE  nodes[s].lastSeen <= nodes'[r].lastSeen
        <5>1. nodes' \in [Script -> Node \cup {NoNode}]
          BY <1>0, HeartbeatType DEF HeartbeatLocked
        <5>2. nodes'[r].lastSeen \in Nat
          BY <4>1, <5>1 DEF Node
        <5>3. c.now <= nodes'[r].lastSeen
          BY <2>4, <3>1, <4>1
        <5> QED
          BY <3>2, <3>4, <5>2, <5>3
      <4> QED
        BY <1>6, <2>3, <4>1
    <3> QED
      BY <3>2, <3>3, <3>4
  <2> QED
    BY <2>5, <2>6
<1> QED
  BY <1>5, <1>6

\* Nobody verified and running can be excluded (lottery.h:28): a live ticket
\* keeps its handle and its seniority through gossip, delayed calls and
\* rebindings; it goes with the local script, with the process, or by eviction
\* from a full registry.
THEOREM LiveTicketIsKept == Spec => LiveTicketKept
<1> DEFINE Kept(s) ==
       IF nodes'[s] = NoNode
       THEN \/ s = localScript /\ localScript' # s
            \/ /\ Cardinality(Registered) >= MaxActive
               /\ \A r \in Script : nodes'[r] # NoNode
                                      => nodes[s].lastSeen <= nodes'[r].lastSeen
            \/ Cardinality(Registered) > MaxActive /\ TurnedBack(s)
       ELSE /\ nodes'[s].handle = nodes[s].handle
            /\ nodes'[s].joined = nodes[s].joined
<1>1. RegistryInv /\ FiniteRegistry /\ [Next]_vars =>
         [~Restart => \A s \in Script : Live(s, clock) => Kept(s)]_vars
  <2> SUFFICES ASSUME RegistryInv, FiniteRegistry, [Next]_vars, ~Restart,
                      NEW s \in Script, Live(s, clock)
               PROVE  Kept(s)
    OBVIOUS
  <2>0. TypeOK /\ nodes \in [Script -> Node \cup {NoNode}] /\ nodes[s] # NoNode
    BY DEF RegistryInv, TypeOK, Live
  <2>1. CASE nodes'[s] = nodes[s]
    BY <2>0, <2>1
  <2>2. ASSUME NEW t \in Thread, HeartbeatLocked(t) PROVE Kept(s)
    <3>1. call[t] # NoCall /\ Heartbeat(call[t])
      BY <2>2 DEF HeartbeatLocked
    <3>2. CASE UNCHANGED registry
      BY <2>1, <3>2 DEF registry
    <3>3. CASE ~Sticky(call[t]) /\ nodes' = NodesReleased(call[t])
      BY <2>1, <3>1, <3>3, ReleaseSparesLive
    <3>4. CASE /\ ~Sticky(call[t]) /\ Accept(call[t])
               /\ ~(Renames(call[t]) /\ Live(call[t].script, call[t].now))
      BY <2>2, <3>4, AcceptKeepsLive
    <3> QED
      BY <3>1, <3>2, <3>3, <3>4 DEF Heartbeat
  <2>3. ASSUME NEW t \in Worker, NEW r \in TemplateScripts, ApplyCoinbasePayouts(t, r)
        PROVE  Kept(s)
    <3>1. nodes'[s] = nodes[s] \/ (s = localScript /\ localScript' # s /\ nodes'[s] = NoNode)
      BY <2>0, <2>3 DEF ApplyCoinbasePayouts, SetLocalScript
    <3> QED
      BY <2>1, <3>1
  <2>4. \/ \E t \in Thread : HeartbeatLocked(t)
        \/ \E t \in Worker, r \in TemplateScripts : ApplyCoinbasePayouts(t, r)
        \/ UNCHANGED nodes
    BY DEF Next, vars, registry, XhbReceive, XhbChecks, HeartbeatLocalBegin,
       HeartbeatLocalChecks, RegisterActiveNode, SignIn, ClearSession, LockWallet, PushLocalXhb,
       LoadPin, RemovePin, PeerSigns, SeedStamps, CacheStampsFromXva, BlueCheck, Tick
  <2> HIDE DEF Kept
  <2> QED
    BY <2>1, <2>2, <2>3, <2>4
<1> QED
  BY <1>1, RegistryInvariant, AlwaysFinite, PTL DEF Spec, LiveTicketKept

-----------------------------------------------------------------------------
(* The seed's registry is bounded.                                         *)

\* On the seed the wallet's own scripts stay out of the hat: nobody is signed
\* in there, so no heartbeat is ever signed for one.
SeedOutOfHat ==
    BakedSeed /\ TemplateScripts \subseteq LocalScripts =>
        /\ localScript \in LocalScripts
        /\ session = "verified" => localHandle = NoHandle
        /\ \A m \in sent : m.script \notin LocalScripts

LEMMA NextSeedOutOfHat == TypeOK /\ SeedOutOfHat /\ [Next]_vars => SeedOutOfHat'
<1> SUFFICES ASSUME TypeOK, SeedOutOfHat, [Next]_vars,
                    BakedSeed, TemplateScripts \subseteq LocalScripts
             PROVE  /\ localScript' \in LocalScripts
                    /\ session' = "verified" => localHandle' = NoHandle
                    /\ \A m \in sent' : m.script \notin LocalScripts
  BY DEF SeedOutOfHat
<1>0. /\ localScript \in LocalScripts
      /\ session = "verified" => localHandle = NoHandle
      /\ \A m \in sent : m.script \notin LocalScripts
  BY DEF SeedOutOfHat
<1>1. localScript' \in LocalScripts
  <2>1. localScript' \in {localScript, FileScript} \cup TemplateScripts
    BY DEF Next, vars, identity, HeartbeatLocked, XhbReceive, XhbChecks, HeartbeatLocalBegin,
       HeartbeatLocalChecks, RegisterActiveNode, ApplyCoinbasePayouts, SetLocalScript, SignIn,
       ClearSession, LockWallet, PushLocalXhb, LoadPin, RemovePin, Restart, PeerSigns,
       SeedStamps, CacheStampsFromXva, BlueCheck, Tick
  <2> QED
    BY <1>0, <2>1, ScriptAssumption
<1>2. session' = "verified" => localHandle' = NoHandle
  <2>1. \/ UNCHANGED <<session, localHandle>>
        \/ session' = session /\ localHandle' = NoHandle
        \/ session' = "verified" /\ localHandle' = NoHandle
        \/ session' \in {"none", "unverified"}
    BY DEF Next, vars, identity, HeartbeatLocked, XhbReceive, XhbChecks, HeartbeatLocalBegin,
       HeartbeatLocalChecks, RegisterActiveNode, ApplyCoinbasePayouts, SignIn,
       BindLotteryFromSession, ClearSession, LockWallet, PushLocalXhb, LoadPin, RemovePin,
       Restart, PeerSigns, SeedStamps, CacheStampsFromXva, BlueCheck, Tick
  <2> QED
    BY <1>0, <2>1
<1>3. ASSUME NEW m \in sent' PROVE m.script \notin LocalScripts
  <2>1. ~PushLocalXhb
    BY <1>0 DEF PushLocalXhb, LocalEligible
  <2>2. ASSUME NEW s \in Script, NEW h \in Handle, PeerSigns(s, h)
        PROVE  m.script \notin LocalScripts
    BY <1>0, <2>2 DEF PeerSigns
  <2>3. sent' = sent \/ \E s \in Script, h \in Handle : PeerSigns(s, h)
    BY <2>1
    DEF Next, vars, HeartbeatLocked, XhbReceive, XhbChecks, HeartbeatLocalBegin,
       HeartbeatLocalChecks, RegisterActiveNode, ApplyCoinbasePayouts, SignIn, ClearSession,
       LockWallet, LoadPin, RemovePin, Restart, SeedStamps, CacheStampsFromXva, BlueCheck, Tick
  <2> QED
    BY <1>0, <2>2, <2>3
<1> QED
  BY <1>1, <1>2, <1>3

\* With the local script out of the hat the oldest ticket always makes room.
LEMMA NextSeedBounded ==
    TypeOK /\ FiniteRegistry /\ TicketsSigned /\ SeedOutOfHat /\ SeedRegistryBounded
        /\ [Next]_vars => SeedRegistryBounded'
<1> SUFFICES ASSUME TypeOK, FiniteRegistry, TicketsSigned, SeedOutOfHat, SeedRegistryBounded,
                    [Next]_vars, BakedSeed, TemplateScripts \subseteq LocalScripts
             PROVE  Cardinality(Registered') <= MaxActive
  BY DEF SeedRegistryBounded, Registered
<1>0. /\ Cardinality(Registered) <= MaxActive
      /\ Cardinality(Registered) \in Nat /\ MaxActive \in Nat
  BY FS_CardinalityType, TimeAssumption DEF SeedRegistryBounded, FiniteRegistry
<1>1. ASSUME Registered' \subseteq Registered PROVE Cardinality(Registered') <= MaxActive
  <2>1. /\ IsFiniteSet(Registered')
        /\ Cardinality(Registered') <= Cardinality(Registered)
    BY <1>1, FS_Subset DEF FiniteRegistry
  <2>2. Cardinality(Registered') \in Nat
    BY <2>1, FS_CardinalityType
  <2> QED
    BY <1>0, <2>1, <2>2
<1>2. ASSUME NEW t \in Thread, HeartbeatLocked(t), ~(Registered' \subseteq Registered)
      PROVE  Cardinality(Registered') <= MaxActive
  <2> DEFINE c == call[t]
             ns == NodesInserted(c)
  <2>0. c \in Call /\ Heartbeat(c) /\ c # NoCall
    BY <1>2, CallType DEF HeartbeatLocked
  <2>1. Accept(c)
    <3>1. \A s \in Script : NodesReleased(c)[s] # NoNode => nodes[s] # NoNode
      BY DEF NodesReleased, TypeOK
    <3>2. ~(nodes' = NodesReleased(c)) /\ ~UNCHANGED registry
      BY <1>2, <3>1 DEF Registered, registry
    <3> QED
      BY <2>0, <3>2 DEF Heartbeat
  <2>2. /\ IsFiniteSet(Inserted(c)) /\ Cardinality(Inserted(c)) \in Nat
        /\ Cardinality(Inserted(c)) <= Cardinality(Registered) + 1
    BY <2>0, InsertedCount
  <2>3. localScript \notin Inserted(c)
    <3>1. \A s \in Script \cap LocalScripts : nodes[s] = NoNode
      BY DEF SeedOutOfHat, TicketsSigned, SignedSince, Registered
    <3>2. c.script \notin LocalScripts
      BY <1>2, <2>0 DEF SeedOutOfHat, TicketsSigned, SignedSince, Thread
    <3>3. localScript \in Script \cap LocalScripts
      BY DEF SeedOutOfHat, TypeOK
    <3>4. NodesReleased(c)[localScript] = NoNode
      BY <3>1, <3>3 DEF NodesReleased, TypeOK
    <3>5. NodesInserted(c)[localScript] = NoNode
      BY <3>2, <3>3, <3>4 DEF NodesInserted, NodesReleased, TypeOK
    <3> QED
      BY <3>5 DEF Inserted
  <2>4. localScript \notin Oldest(ns)
    BY <2>3 DEF Oldest, Inserted
  <2>5. DOMAIN ns = Script
    BY DEF NodesInserted, NodesReleased, TypeOK
  <2>6. CASE ~OverCapacity(ns) /\ nodes' = ns
    <3>1. Registered' = Inserted(c) /\ ~(Cardinality(Inserted(c)) > MaxActive)
      BY <2>6 DEF Registered, Inserted, OverCapacity
    <3> QED
      BY <1>0, <2>2, <3>1
  <2>7. ASSUME NEW o \in Oldest(ns), nodes' = [ns EXCEPT ![o] = NoNode]
        PROVE  Cardinality(Registered') <= MaxActive
    <3>1. o \in Inserted(c)
      BY DEF Oldest, Inserted
    <3>2. Registered' = Inserted(c) \ {o}
      <4> HIDE DEF ns
      <4>1. \A s \in Script : nodes'[s] = IF s = o THEN NoNode ELSE ns[s]
        BY <2>5, <2>7
      <4> QED
        BY <4>1 DEF Registered, Inserted, ns
    <3>3. Cardinality(Inserted(c) \ {o}) = Cardinality(Inserted(c)) - 1
      BY <2>2, <3>1, FS_RemoveElement
    <3> QED
      BY <1>0, <2>2, <3>2, <3>3
  <2> QED
    BY <2>1, <2>4, <2>6, <2>7 DEF Accept
<1>3. ASSUME ~(Registered' \subseteq Registered)
      PROVE  \E t \in Thread : HeartbeatLocked(t)
  BY <1>3, NodeStep DEF Registered
<1> QED
  BY <1>1, <1>2, <1>3

\* The seed's registry never outgrows MAX_ACTIVE_NODES while its templates pay
\* its own wallet: its own script has no ticket, so the oldest one always makes
\* room for a new one.
THEOREM SeedRegistryIsBounded == Spec => []SeedRegistryBounded
<1>1. Init => SeedOutOfHat /\ SeedRegistryBounded
  <2> SUFFICES ASSUME Init PROVE SeedOutOfHat /\ SeedRegistryBounded
    OBVIOUS
  <2>1. Registered = {}
    BY DEF Init, Registered
  <2>2. Cardinality(Registered) <= MaxActive
    BY <2>1, FS_EmptySet, TimeAssumption
  <2> QED
    BY <2>2, ScriptAssumption DEF Init, SeedOutOfHat, SeedRegistryBounded
<1>2. Spec => []TicketsSigned
  BY SeedTicketsInvariant
<1> QED
  BY <1>1, <1>2, NextSeedOutOfHat, NextSeedBounded, TypeCorrect, AlwaysFinite, PTL DEF Spec

-----------------------------------------------------------------------------
(* Stamps after a lost blue check.                                         *)

\* A remembered VERIFIED lasts CacheTTL from an answer that was true, so that it
\* ends by CacheTTL after the loss.
CacheHonest ==
    \A h \in Handle :
        /\ lostAt[h] <= clock
        /\ cache[h].status = "VERIFIED" =>
              /\ cache[h].expiresAt <= clock + CacheTTL
              /\ h \in blue \/ cache[h].expiresAt <= lostAt[h] + CacheTTL

\* A step asks X for an answer, or forgets, or leaves the cache alone.
LEMMA CacheStep ==
    ASSUME TypeOK, [Next]_vars
    PROVE  \/ UNCHANGED cache
           \/ Restart
           \/ /\ UNCHANGED <<clock, blue, lostAt>>
              /\ \E h \in Handle : \E st :
                    cache'= [cache EXCEPT ![h] =
                      [status |-> st,
                       expiresAt |-> clock + (IF st = "VERIFIED" THEN CacheTTL ELSE NegCacheTTL)]]
                    /\ (st = "VERIFIED" => h \in blue)
<1>1. ASSUME NEW s, NEW h \in Handle, NEW ok, LookupAndAttest(s, h, ok)
      PROVE  \/ UNCHANGED cache
             \/ \E st :
                    cache'= [cache EXCEPT ![h] =
                      [status |-> st,
                       expiresAt |-> clock + (IF st = "VERIFIED" THEN CacheTTL ELSE NegCacheTTL)]]
                    /\ (st = "VERIFIED" => h \in blue)
  BY <1>1 DEF LookupAndAttest, LookupHandle, stamping
<1>2. CASE XhbChecks
  <2>1. call["net"].handle \in Handle /\ UNCHANGED <<clock, blue, lostAt>>
    <3>1. call["net"] \in Call
      BY <1>2, CallType DEF XhbChecks, Thread
    <3> QED
      BY <1>2, <3>1 DEF XhbChecks, checks, Call
  <2>2. \/ UNCHANGED cache
        \/ \E ok \in BOOLEAN : LookupAndAttest(call["net"].script, call["net"].handle, ok)
    BY <1>2 DEF XhbChecks, stamping
  <2> QED
    BY <1>1, <2>1, <2>2
<1>3. ASSUME NEW t \in Worker, HeartbeatLocalChecks(t)
      PROVE  \/ UNCHANGED cache
             \/ /\ UNCHANGED <<clock, blue, lostAt>>
                /\ call[t].handle \in Handle
                /\ \E ok \in BOOLEAN : LookupAndAttest(call[t].script, call[t].handle, ok)
  <2>1. call[t].handle \in Handle /\ UNCHANGED <<clock, blue, lostAt>>
    <3>1. call[t] \in Call
      BY <1>3, CallType DEF HeartbeatLocalChecks, Thread
    <3> QED
      BY <1>3, <3>1 DEF HeartbeatLocalChecks, checks, Call
  <2> QED
    BY <1>3, <2>1 DEF HeartbeatLocalChecks, stamping
<1>4. \/ UNCHANGED cache
      \/ Restart
      \/ XhbChecks
      \/ \E t \in Worker : HeartbeatLocalChecks(t)
  BY DEF Next, vars, stamping, HeartbeatLocked, XhbReceive, HeartbeatLocalBegin,
     RegisterActiveNode, ApplyCoinbasePayouts, SignIn, ClearSession, LockWallet, PushLocalXhb,
     LoadPin, RemovePin, PeerSigns, SeedStamps, CacheStampsFromXva, BlueCheck, Tick
<1> QED
  BY <1>1, <1>2, <1>3, <1>4

LEMMA NextCacheHonest == TypeOK /\ CacheHonest /\ [Next]_vars => CacheHonest'
<1> SUFFICES ASSUME TypeOK, CacheHonest, [Next]_vars, NEW h \in Handle
             PROVE  /\ lostAt'[h] <= clock'
                    /\ cache'[h].status = "VERIFIED" =>
                          /\ cache'[h].expiresAt <= clock' + CacheTTL
                          /\ h \in blue' \/ cache'[h].expiresAt <= lostAt'[h] + CacheTTL
  BY DEF CacheHonest
<1>0. /\ clock \in Nat /\ cache \in [Handle -> Answer] /\ lostAt \in [Handle -> Int]
      /\ CacheTTL \in Nat /\ cache[h].expiresAt \in Nat /\ lostAt[h] \in Int
      /\ lostAt[h] <= clock
      /\ cache[h].status = "VERIFIED" =>
            /\ cache[h].expiresAt <= clock + CacheTTL
            /\ h \in blue \/ cache[h].expiresAt <= lostAt[h] + CacheTTL
  BY TimeAssumption DEF TypeOK, CacheHonest, Answer
<1>1. CASE UNCHANGED <<cache, blue, lostAt>> /\ clock' \in {clock, clock + 1}
  BY <1>0, <1>1
<1>2. CASE Restart
  <2>1. cache'[h].status # "VERIFIED" /\ UNCHANGED <<lostAt, clock>>
    BY <1>2 DEF Restart, Forgotten, checks
  <2> QED
    BY <1>0, <2>1
<1>3. ASSUME NEW g \in Handle, NEW st, UNCHANGED <<clock, blue, lostAt>>,
             cache' = [cache EXCEPT ![g] =
                [status |-> st,
                 expiresAt |-> clock + (IF st = "VERIFIED" THEN CacheTTL ELSE NegCacheTTL)]],
             st = "VERIFIED" => g \in blue
      PROVE  /\ lostAt'[h] <= clock'
             /\ cache'[h].status = "VERIFIED" =>
                   /\ cache'[h].expiresAt <= clock' + CacheTTL
                   /\ h \in blue' \/ cache'[h].expiresAt <= lostAt'[h] + CacheTTL
  <2>1. CASE g # h
    BY <1>0, <1>3, <2>1
  <2>2. CASE g = h
    <3>1. /\ cache'[h].status = st
          /\ st = "VERIFIED" => cache'[h].expiresAt = clock + CacheTTL
      BY <1>0, <1>3, <2>2
    <3> QED
      BY <1>0, <1>3, <2>2, <3>1
  <2> QED
    BY <2>1, <2>2
<1>4. ASSUME NEW g \in Handle, BlueCheck(g)
      PROVE  /\ lostAt'[h] <= clock'
             /\ cache'[h].status = "VERIFIED" =>
                   /\ cache'[h].expiresAt <= clock' + CacheTTL
                   /\ h \in blue' \/ cache'[h].expiresAt <= lostAt'[h] + CacheTTL
  <2>1. UNCHANGED <<clock, cache>>
    BY <1>4 DEF BlueCheck, stamping
  <2>2. CASE h \in blue /\ h \notin blue'
    <3>1. lostAt'[h] = clock
      BY <1>0, <1>4, <2>2 DEF BlueCheck
    <3> QED
      BY <1>0, <2>1, <3>1
  <2>3. CASE ~(h \in blue /\ h \notin blue')
    <3>1. lostAt'[h] = lostAt[h] /\ (h \in blue => h \in blue')
      BY <1>0, <1>4, <2>3 DEF BlueCheck
    <3> QED
      BY <1>0, <2>1, <3>1
  <2> QED
    BY <2>2, <2>3
<1>5. \/ UNCHANGED <<blue, lostAt>> /\ clock' \in {clock, clock + 1}
      \/ \E g \in Handle : BlueCheck(g)
  BY DEF Next, vars, checks, HeartbeatLocked, XhbReceive, XhbChecks, HeartbeatLocalBegin,
     HeartbeatLocalChecks, RegisterActiveNode, ApplyCoinbasePayouts, SignIn, ClearSession,
     LockWallet, PushLocalXhb, LoadPin, RemovePin, Restart, PeerSigns, SeedStamps,
     CacheStampsFromXva, Tick
<1> QED
  BY <1>1, <1>2, <1>3, <1>4, <1>5, CacheStep

\* A new stamp is signed on an answer of X that holds now, or on a remembered one.
LEMMA StampStep ==
    ASSUME TypeOK, [Next]_vars, NEW p \in stamps' \ stamps
    PROVE  \/ p[2] \in blue
           \/ /\ p[2] \in Handle
              /\ cache[p[2]].status = "VERIFIED" /\ cache[p[2]].expiresAt > clock
<1> DEFINE Goal == \/ p[2] \in blue
                   \/ /\ p[2] \in Handle
                      /\ cache[p[2]].status = "VERIFIED" /\ cache[p[2]].expiresAt > clock
<1>1. ASSUME NEW s, NEW h \in Handle, NEW ok, LookupAndAttest(s, h, ok) PROVE Goal
  <2>1. /\ ~UNCHANGED stamping /\ p = <<s, h>> /\ ok
        /\ \E st : LookupHandle(h, st) /\ ok = (st = "VERIFIED")
    BY <1>1 DEF LookupAndAttest, stamping
  <2>2. LookupHandle(h, "VERIFIED") /\ p[2] = h
    BY <2>1
  <2> QED
    BY <2>2 DEF LookupHandle
<1>2. ASSUME XhbChecks PROVE Goal
  <2>1. call["net"] \in Call
    BY <1>2, CallType DEF XhbChecks, Thread
  <2>2. \E ok \in BOOLEAN : LookupAndAttest(call["net"].script, call["net"].handle, ok)
    BY <1>2 DEF XhbChecks, stamping
  <2> QED
    BY <1>1, <2>1, <2>2 DEF Call
<1>3. ASSUME NEW t \in Worker, HeartbeatLocalChecks(t) PROVE Goal
  <2>1. call[t] \in Call
    BY <1>3, CallType DEF HeartbeatLocalChecks, Thread
  <2>2. \E ok \in BOOLEAN : LookupAndAttest(call[t].script, call[t].handle, ok)
    BY <1>3 DEF HeartbeatLocalChecks, stamping
  <2> QED
    BY <1>1, <2>1, <2>2 DEF Call
<1>4. ASSUME NEW s \in Script, NEW h \in Handle, SeedStamps(s, h) PROVE Goal
  BY <1>4 DEF SeedStamps
<1>5. \/ XhbChecks
      \/ \E t \in Worker : HeartbeatLocalChecks(t)
      \/ \E s \in Script, h \in Handle : SeedStamps(s, h)
  BY DEF Next, vars, stamping, HeartbeatLocked, XhbReceive, HeartbeatLocalBegin,
     RegisterActiveNode, ApplyCoinbasePayouts, SignIn, ClearSession, LockWallet, PushLocalXhb,
     LoadPin, RemovePin, Restart, PeerSigns, CacheStampsFromXva, BlueCheck, Tick
<1> HIDE DEF Goal
<1>6. Goal
  BY <1>2, <1>3, <1>4, <1>5
<1> QED
  BY <1>6 DEF Goal

\* A handle that lost its blue check gets no stamp from CacheTTL after that on,
\* however often it is granted and revoked and whatever is remembered.
THEOREM StampsStop == Spec => StampsStopAfterLoss
<1>1. Init => CacheHonest
  <2> SUFFICES ASSUME Init PROVE CacheHonest
    OBVIOUS
  <2>1. 0 - CacheTTL <= 0
    BY TimeAssumption
  <2> QED
    BY <2>1 DEF Init, CacheHonest, Forgotten
<1>2. TypeOK /\ CacheHonest /\ [Next]_vars =>
        [\A p \in stamps' \ stamps :
            p[2] \in blue \/ clock < lostAt[p[2]] + CacheTTL]_vars
  <2> SUFFICES ASSUME TypeOK, CacheHonest, [Next]_vars, NEW p \in stamps' \ stamps,
                      p[2] \notin blue
               PROVE  clock < lostAt[p[2]] + CacheTTL
    OBVIOUS
  <2>1. /\ p[2] \in Handle
        /\ cache[p[2]].status = "VERIFIED" /\ cache[p[2]].expiresAt > clock
    BY StampStep
  <2>2. cache[p[2]].expiresAt <= lostAt[p[2]] + CacheTTL
    BY <2>1 DEF CacheHonest
  <2>3. clock \in Nat /\ cache[p[2]].expiresAt \in Nat /\ lostAt[p[2]] + CacheTTL \in Int
    BY <2>1, TimeAssumption DEF TypeOK, Answer
  <2> QED
    BY <2>1, <2>2, <2>3
<1> QED
  BY <1>1, <1>2, NextCacheHonest, TypeCorrect, PTL DEF Spec, StampsStopAfterLoss
=============================================================================
