------------------------------ MODULE XMarket ------------------------------
(***************************************************************************)
(* The book of asks (xmarket.cpp, rpc/market.cpp): every node keeps the    *)
(* asks it has heard, passes a new one on to its other peers, pushes its   *)
(* book to a peer that connects, and drops asks whose coin is spent.       *)
(* A wallet locks the coin it lists.                                       *)
(*                                                                         *)
(* Asks are numbers, in the order of their hashes.  An ask is checked      *)
(* under cs_main and entered under cs_asks.  Here that is one step: what   *)
(* a block, a peer or a call does in between has the same effect after it. *)
(* Times are left out: the oldest ask may be any, and so may the message   *)
(* that is one too many in a minute.  Each node has a chain of its own,    *)
(* which may lag behind the others and be reorganized.                     *)
(***************************************************************************)
EXTENDS Sequences, Ordering

CONSTANTS
    Node, NoNode,
    Ask,        \* asks that somebody may sign
    Coin, NoCoin,
    Owner,      \* the node whose wallet has the coin
    Lists,      \* the coins that an ask may list
    AskLimits,  \* values of MAX_ASKS to try
    MaxPush,    \* MAX_PUSH_ON_CONNECT
    StartLinks, \* connections to start with
    StartSeen,  \* the coins of the nodes' chains to start with
    MaxSpends,  \* bound: coins that are bought or taken back
    MaxEvents   \* bound: connections, disconnections, restarts, reorganizations,
                \* messages over the rate

Pair == {p \in Node \X Node : p[1] # p[2]}

ASSUME MarketAssumption ==
    /\ Ask \subseteq Nat /\ IsFiniteSet(Ask) /\ IsFiniteSet(Node)
    /\ NoNode \notin Node
    /\ NoCoin \notin Coin
    /\ Owner \in [Coin -> Node]
    /\ Lists \in [Ask -> SUBSET Coin]
    /\ StartLinks \subseteq SUBSET Pair
    /\ StartSeen \subseteq [Node -> SUBSET Coin]
    /\ AskLimits \subseteq Nat \ {0} /\ MaxPush \in Nat
    /\ MaxSpends \in Nat /\ MaxEvents \in Nat

VARIABLES
    book,      \* mapAsks of a node
    link,      \* pairs of nodes that are connected
    wire,      \* xord messages on their way
    locked,    \* coins a node's wallet has locked
    coinOf,    \* the coin that an ask lists, once it has been signed
    spending,  \* coins whose spend has been broadcast
    seen,      \* coins that a node's chain has made, spent or not
    spent,     \* coins spent in a node's chain
    missed,    \* asks that a node was offered, or had, when its chain did not
               \* have their coin, and that it has not entered since
    maxAsks,   \* MAX_ASKS
    events,
    calm       \* no ask was replaced, dropped for want of room, kept out by
               \* RateOk or left out of a push

vars == <<book, link, wire, locked, coinOf, spending, seen, spent, missed, maxAsks,
          events, calm>>

-----------------------------------------------------------------------------
Peers(n) == {m \in Node : <<n, m>> \in link}

Signed == {a \in Ask : coinOf[a] # NoCoin}

(* The seller's signature, and the coin: one that the node's chain does    *)
(* not have yet reads like one that is spent.                              *)
ValidateAsk(n, a) == a \in Signed /\ coinOf[a] \in seen[n] \ spent[n]

PruneSpent(n) == {a \in book[n] : ValidateAsk(n, a)}

(* To every peer but the one the ask came from.                            *)
RelayAsk(n, a, from) ==
    [p \in Pair |-> IF p[1] = n /\ p[2] \in Peers(n) \ {from} THEN Append(wire[p], a)
                    ELSE wire[p]]

(* In the order of the hashes, and no more than the limit.                 *)
PushBook(n) ==
    LET asks == PruneSpent(n)
    IN  InOrder({a \in asks : Rank(asks, a) < MaxPush})

(* Mutated: other asks of the coin stay.                                   *)
MutantAcceptAsk(n, a, c) ==
    LET rest == PruneSpent(n)
    IN  \E drop \in IF Cardinality(rest) < maxAsks THEN {{}} ELSE {{b} : b \in rest} :
            /\ book' = [book EXCEPT ![n] = (rest \ drop) \cup {a}]
            /\ missed' = [missed EXCEPT ![n] = @ \ {a}]
            /\ calm' = (calm /\ drop = {})

(* Other asks of the coin go, then the oldest if there is no room; the ask *)
(* is entered, and relayed.                                                *)
AcceptAsk(n, a, c) ==
    LET same == {b \in PruneSpent(n) : coinOf[b] = c}
        rest == PruneSpent(n) \ same
    IN  \E drop \in IF Cardinality(rest) < maxAsks THEN {{}} ELSE {{b} : b \in rest} :
            /\ book' = [book EXCEPT ![n] = (rest \ drop) \cup {a}]
            /\ missed' = [missed EXCEPT ![n] = @ \ {a}]
            /\ calm' = (calm /\ drop = {} /\ same \subseteq {a})

-----------------------------------------------------------------------------
Init ==
    /\ book = [n \in Node |-> {}]
    /\ link \in StartLinks
    /\ wire = [p \in Pair |-> <<>>]
    /\ locked = [n \in Node |-> {}]
    /\ coinOf = [a \in Ask |-> NoCoin]
    /\ maxAsks \in AskLimits
    /\ spending = {}
    /\ seen \in StartSeen
    /\ spent = [n \in Node |-> {}]
    /\ missed = [n \in Node |-> {}]
    /\ events = 0
    /\ calm = TRUE

(* Mutated: locks the listing's own output.                                *)
MutantPostAsk(n, a, c) ==
    /\ Owner[c] = n
    /\ coinOf[a] = NoCoin
    /\ c \in seen[n] \ (locked[n] \cup spending \cup spent[n])
    /\ coinOf' = [coinOf EXCEPT ![a] = c]
    /\ AcceptAsk(n, a, c)
    /\ wire' = RelayAsk(n, a, NoNode)
    /\ locked' = [locked EXCEPT ![n] = @ \cup {a}]
    /\ UNCHANGED <<link, spending, seen, spent, maxAsks, events>>

(* postask: the wallet offers no coin that is locked or that it has spent. *)
PostAsk(n, a, c) ==
    /\ Owner[c] = n
    /\ coinOf[a] = NoCoin
    /\ c \in seen[n] \ (locked[n] \cup spending \cup spent[n])
    /\ coinOf' = [coinOf EXCEPT ![a] = c]
    /\ AcceptAsk(n, a, c)
    /\ wire' = RelayAsk(n, a, NoNode)
    /\ locked' = [locked EXCEPT ![n] = @ \cup {c}]
    /\ UNCHANGED <<link, spending, seen, spent, maxAsks, events>>

Event == events < MaxEvents /\ events' = events + 1

Received(m, n) == [wire EXCEPT ![<<m, n>>] = Tail(@)]

(* Mutated: an ask that is in the book is passed on again.                 *)
MutantProcessXord(m, n) ==
    LET a == Head(wire[<<m, n>>])
    IN  /\ wire[<<m, n>>] # <<>>
        /\ ValidateAsk(n, a)
        /\ AcceptAsk(n, a, coinOf[a])
        /\ wire' = [RelayAsk(n, a, m) EXCEPT ![<<m, n>>] = Tail(@)]
        /\ UNCHANGED <<link, locked, coinOf, spending, seen, spent, maxAsks, events>>

(* An ask that is new and whose coin is there is entered and passed on.    *)
ProcessXord(m, n) ==
    LET a == Head(wire[<<m, n>>])
    IN  /\ wire[<<m, n>>] # <<>>
        /\ a \notin book[n]
        /\ ValidateAsk(n, a)
        /\ AcceptAsk(n, a, coinOf[a])
        /\ wire' = [RelayAsk(n, a, m) EXCEPT ![<<m, n>>] = Tail(@)]
        /\ UNCHANGED <<link, locked, coinOf, spending, seen, spent, maxAsks, events>>

(* An ask that is in the book is ignored; one whose coin is gone, or not   *)
(* there yet, is not entered, after the book has been pruned.  Nobody      *)
(* keeps it for later.                                                     *)
IgnoreXord(m, n) ==
    LET a == Head(wire[<<m, n>>])
    IN  /\ wire[<<m, n>>] # <<>>
        /\ a \in book[n] \/ ~ValidateAsk(n, a)
        /\ book' = IF a \in book[n] THEN book ELSE [book EXCEPT ![n] = PruneSpent(n)]
        /\ missed' = IF a \in book[n] \/ coinOf[a] \in seen[n] THEN missed
                     ELSE [missed EXCEPT ![n] = @ \cup {a}]
        /\ wire' = Received(m, n)
        /\ UNCHANGED <<link, locked, coinOf, spending, seen, spent, maxAsks, events, calm>>

(* The peer has sent too many.                                             *)
RateExceeded(m, n) ==
    /\ Event
    /\ wire[<<m, n>>] # <<>>
    /\ wire' = Received(m, n)
    /\ calm' = FALSE
    /\ UNCHANGED <<book, link, locked, coinOf, spending, seen, spent, missed, maxAsks>>

(* listmarket.                                                             *)
ListAsks(n) ==
    /\ book' = [book EXCEPT ![n] = PruneSpent(n)]
    /\ UNCHANGED <<link, wire, locked, coinOf, spending, seen, spent, missed, maxAsks, events, calm>>

Spend(n, a) ==
    /\ coinOf[a] \notin spending
    /\ Cardinality(spending) < MaxSpends
    /\ spending' = spending \cup {coinOf[a]}
    /\ book' = [book EXCEPT ![n] = PruneSpent(n) \ {a}]

(* takeask: the buyer's transaction enters the mempool.                    *)
TakeAsk(n, a) ==
    /\ a \in book[n]
    /\ ValidateAsk(n, a)
    /\ Owner[coinOf[a]] # n
    /\ Spend(n, a)
    /\ UNCHANGED <<link, wire, locked, coinOf, seen, spent, missed, maxAsks, events, calm>>

(* cancelask unlocks the coin before it spends it; the spend may fail.     *)
CancelAsk(n, a) ==
    /\ a \in book[n]
    /\ ValidateAsk(n, a)
    /\ Owner[coinOf[a]] = n
    /\ locked' = [locked EXCEPT ![n] = @ \ {coinOf[a]}]
    /\ Spend(n, a) \/ UNCHANGED <<spending, book>>
    /\ UNCHANGED <<link, wire, coinOf, seen, spent, missed, maxAsks, events, calm>>

-----------------------------------------------------------------------------
(* The chain makes a coin, or spends one.                                  *)
ConnectBlock(n, c) ==
    /\ \/ /\ c \notin seen[n]
          /\ seen' = [seen EXCEPT ![n] = @ \cup {c}]
          /\ spent' = spent
       \/ /\ c \in (seen[n] \cap spending) \ spent[n]
          /\ spent' = [spent EXCEPT ![n] = @ \cup {c}]
          /\ seen' = seen
    /\ UNCHANGED <<book, link, wire, locked, coinOf, spending, missed, maxAsks, events, calm>>

(* A reorganization, or a restart from what was last flushed, takes a      *)
(* spend or a coin back.  The asks of that coin are pruned unless it is    *)
(* there again before somebody prunes.                                     *)
DisconnectBlock(n, c) ==
    /\ Event
    /\ \/ /\ c \in spent[n]
          /\ spent' = [spent EXCEPT ![n] = @ \ {c}]
          /\ UNCHANGED <<seen, missed>>
       \/ /\ c \in seen[n] \ spent[n]
          /\ seen' = [seen EXCEPT ![n] = @ \ {c}]
          /\ missed' = [missed EXCEPT ![n] = @ \cup {a \in book[n] : coinOf[a] = c}]
          /\ spent' = spent
    /\ UNCHANGED <<book, link, wire, locked, coinOf, spending, maxAsks, calm>>

-----------------------------------------------------------------------------
(* The network.                                                            *)

(* Mutated: only the side that connects pushes its book.                   *)
MutantConnect(n, m) ==
    /\ Event
    /\ <<n, m>> \in Pair \ link
    /\ link' = link \cup {<<n, m>>, <<m, n>>}
    /\ wire' = [wire EXCEPT ![<<n, m>>] = PushBook(n)]
    /\ book' = [book EXCEPT ![n] = PruneSpent(n)]
    /\ UNCHANGED <<locked, coinOf, spending, seen, spent, missed, maxAsks, calm>>

(* Each side pushes its book when the other's verack arrives.              *)
Connect(n, m) ==
    /\ Event
    /\ <<n, m>> \in Pair \ link
    /\ link' = link \cup {<<n, m>>, <<m, n>>}
    /\ wire' = [wire EXCEPT ![<<n, m>>] = PushBook(n), ![<<m, n>>] = PushBook(m)]
    /\ book' = [book EXCEPT ![n] = PruneSpent(n), ![m] = PruneSpent(m)]
    /\ calm' = (calm /\ \A i \in {n, m} : Cardinality(PruneSpent(i)) <= MaxPush)
    /\ UNCHANGED <<locked, coinOf, spending, seen, spent, missed, maxAsks>>

Cut(S) ==
    /\ link' = link \ S
    /\ wire' = [p \in Pair |-> IF p \in S THEN <<>> ELSE wire[p]]

Disconnect(n, m) ==
    /\ Event
    /\ <<n, m>> \in link
    /\ Cut({<<n, m>>, <<m, n>>})
    /\ UNCHANGED <<book, locked, coinOf, spending, seen, spent, missed, maxAsks, calm>>

(* Book and locks are in memory only.                                      *)
Restart(n) ==
    /\ Event
    /\ Cut({p \in Pair : n \in {p[1], p[2]}})
    /\ book' = [book EXCEPT ![n] = {}]
    /\ locked' = [locked EXCEPT ![n] = {}]
    /\ missed' = [missed EXCEPT ![n] = {}]
    /\ UNCHANGED <<coinOf, spending, seen, spent, maxAsks, calm>>

Deliver == \E p \in Pair : ProcessXord(p[1], p[2]) \/ IgnoreXord(p[1], p[2])

Next ==
    \/ Deliver
    \/ \E p \in Pair : RateExceeded(p[1], p[2])
    \/ \E n \in Node, a \in Ask : \E c \in Lists[a] : PostAsk(n, a, c)
    \/ \E n \in Node : ListAsks(n)
    \/ \E n \in Node, a \in Ask : TakeAsk(n, a)
    \/ \E n \in Node, a \in Ask : CancelAsk(n, a)
    \/ \E n \in Node, c \in Coin : ConnectBlock(n, c)
    \/ \E n \in Node, c \in Coin : DisconnectBlock(n, c)
    \/ \E p \in Pair : Connect(p[1], p[2])
    \/ \E p \in Pair : Disconnect(p[1], p[2])
    \/ \E n \in Node : Restart(n)

Spec == Init /\ [][Next]_vars

(* Messages that arrive are handled.                                       *)
FairSpec == Spec /\ WF_vars(Deliver)

-----------------------------------------------------------------------------
TypeOK ==
    /\ book \in [Node -> SUBSET Ask]
    /\ link \subseteq Pair
    /\ \A p \in Pair : wire[p] \in Seq(Ask)
    /\ locked \in [Node -> SUBSET Coin]
    /\ coinOf \in [Ask -> Coin \cup {NoCoin}]
    /\ spending \subseteq Coin
    /\ seen \in [Node -> SUBSET Coin]
    /\ spent \in [Node -> SUBSET spending]
    /\ missed \in [Node -> SUBSET Ask]
    /\ events \in 0..MaxEvents

(* MARKET.md: "200 live asks per node" and one row for a bag, however the  *)
(* asks of peers, of the own wallet and of a new listing are entered.      *)
BookSound ==
    \A n \in Node :
        /\ Cardinality(book[n]) <= maxAsks
        /\ \A a, b \in book[n] : coinOf[a] = coinOf[b] => a = b

(* Gossip comes to rest: while no ask is replaced or dropped for want of   *)
(* room, every ask is relayed only finitely often, over any cycle.         *)
GossipEnds == []calm => <>[](\A p \in Pair : wire[p] = <<>>)

(* What one node offers its peers offer too, once the wires are empty: an  *)
(* ask of a coin that nobody spends has reached them all, over lost        *)
(* connections, restarts and late joiners.  Out of it are only the peers   *)
(* whose chain did not have the coin when the ask came, or lost it later:  *)
(* ValidateAsk and PruneSpent take that for a spend, and an ask is not     *)
(* sent twice over one connection.                                         *)
PeersAgree ==
    calm /\ (\A p \in Pair : wire[p] = <<>>) =>
        \A p \in link : \A a \in book[p[1]] :
            coinOf[a] \notin spending => a \in book[p[2]] \cup missed[p[2]]
=============================================================================
