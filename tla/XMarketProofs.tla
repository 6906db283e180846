--------------------------- MODULE XMarketProofs ---------------------------
(***************************************************************************)
(* The book of asks stays within its limit and has one row for a coin, and *)
(* peers come to offer the same asks, for every network, every set of asks *)
(* and every limit.                                                        *)
(***************************************************************************)
EXTENDS XMarket, OrderingProofs

(* Books hold signed asks, so that what an ask in a book lists is settled. *)
BookInv ==
    /\ coinOf \in [Ask -> Coin \cup {NoCoin}]
    /\ maxAsks \in AskLimits
    /\ book \in [Node -> SUBSET Signed]
    /\ BookSound

(* What is left of a book that keeps its rules keeps them.                 *)
Sound(B) ==
    /\ Cardinality(B) <= maxAsks
    /\ \A a, b \in B : coinOf[a] = coinOf[b] => a = b

LEMMA FiniteBooks ==
    ASSUME NEW B \in SUBSET Signed
    PROVE  IsFiniteSet(B) /\ Cardinality(B) \in Nat
<1>1. IsFiniteSet(Ask) /\ B \subseteq Ask
  BY MarketAssumption DEF Signed
<1>2. IsFiniteSet(B)
  BY <1>1, FS_Subset
<1>3. QED
  BY <1>2, FS_CardinalityType

LEMMA SubsetSound ==
    ASSUME BookInv, NEW B \in SUBSET Signed, Sound(B), NEW C \in SUBSET B
    PROVE  Sound(C)
<1>1. IsFiniteSet(B) /\ Cardinality(B) \in Nat /\ IsFiniteSet(C) /\ Cardinality(C) \in Nat
  BY FiniteBooks
<1>2. Cardinality(C) <= Cardinality(B)
  BY <1>1, FS_Subset
<1>3. maxAsks \in Nat
  BY MarketAssumption DEF BookInv
<1>4. QED
  BY <1>1, <1>2, <1>3 DEF Sound

LEMMA PruneSubset == ASSUME NEW n PROVE PruneSpent(n) \subseteq book[n]
BY DEF PruneSpent

(* Steps that sign nothing and only take asks out of books.                *)
LEMMA ShrinkKeepsBooks ==
    ASSUME BookInv, UNCHANGED <<coinOf, maxAsks>>,
           DOMAIN book' = Node, book' = [n \in Node |-> book'[n]],
           \A n \in Node : book'[n] \subseteq book[n]
    PROVE  BookInv'
<1>1. \A n \in Node : book[n] \in SUBSET Signed /\ Sound(book[n])
  BY DEF BookInv, BookSound, Sound
<1>2. \A n \in Node : Sound(book'[n])
  BY <1>1, SubsetSound
<1>3. Signed' = Signed
  BY DEF Signed
<1>4. book' \in [Node -> SUBSET Signed]
  BY <1>1
<1>5. BookSound'
  BY <1>2 DEF BookSound, Sound
<1>6. QED
  BY <1>3, <1>4, <1>5 DEF BookInv

(* The book an accepted ask is entered in: one row for its coin, and room  *)
(* made for it.                                                            *)
LEMMA AcceptedSound ==
    ASSUME BookInv, NEW n \in Node, NEW a \in Ask, NEW c \in Coin, AcceptAsk(n, a, c)
    PROVE  \E B : /\ book' = [book EXCEPT ![n] = B]
                  /\ Cardinality(B) <= maxAsks
                  /\ \A x, y \in B \ {a} : coinOf[x] = coinOf[y] => x = y
                  /\ \A x \in B \ {a} : x \in book[n] /\ coinOf[x] # c
<1> DEFINE rest == PruneSpent(n) \ {b \in PruneSpent(n) : coinOf[b] = c}
           room == IF Cardinality(rest) < maxAsks THEN {{}} ELSE {{b} : b \in rest}
<1>0. PICK drop \in room : book' = [book EXCEPT ![n] = (rest \ drop) \cup {a}]
  BY DEF AcceptAsk
<1> DEFINE kept == rest \ drop
           B == kept \cup {a}
<1>1. rest \in SUBSET book[n] /\ book[n] \in SUBSET Signed /\ Sound(book[n])
  BY PruneSubset DEF BookInv, BookSound, Sound
<1>2. Sound(rest) /\ rest \in SUBSET Signed
  BY <1>1, SubsetSound
<1>3. maxAsks \in Nat /\ maxAsks # 0
  BY MarketAssumption DEF BookInv
<1>4. IsFiniteSet(rest) /\ Cardinality(rest) \in Nat
  BY <1>2, FiniteBooks
<1>5. IsFiniteSet(kept) /\ Cardinality(kept) \in Nat /\ Cardinality(kept) + 1 <= maxAsks
  <2>1. CASE Cardinality(rest) < maxAsks
    <3>1. kept = rest
      BY <2>1, <1>0
    <3> HIDE DEF rest, kept
    <3>2. QED
      BY <3>1, <2>1, <1>3, <1>4
  <2>2. CASE ~(Cardinality(rest) < maxAsks)
    <3>1. PICK b \in rest : drop = {b}
      BY <2>2, <1>0
    <3>2. IsFiniteSet(rest \ {b}) /\ Cardinality(rest \ {b}) = Cardinality(rest) - 1
      BY <1>4, FS_RemoveElement
    <3>3. Cardinality(rest) <= maxAsks
      BY <1>2 DEF Sound
    <3>4. kept = rest \ {b}
      BY <3>1
    <3>5. Cardinality(kept) \in Nat
      BY <3>2, <3>4, FS_CardinalityType
    <3> HIDE DEF rest, kept
    <3>6. QED
      BY <3>2, <3>3, <3>4, <3>5, <1>3, <1>4
  <2>3. QED
    BY <2>1, <2>2
<1>6. Cardinality(B) <= maxAsks
  <2> HIDE DEF kept
  <2>2. Cardinality(B) = Cardinality(kept) \/ Cardinality(B) = Cardinality(kept) + 1
    BY <1>5, FS_AddElement
  <2>3. QED
    BY <2>2, <1>5, <1>3
<1>7. \A x \in B \ {a} : x \in rest
  OBVIOUS
<1>8. \A x \in rest : x \in book[n] /\ coinOf[x] # c
  BY <1>1
<1>9. \A x, y \in rest : coinOf[x] = coinOf[y] => x = y
  BY <1>2 DEF Sound
<1>10. book' = [book EXCEPT ![n] = B]
  BY <1>0
<1> HIDE DEF rest, kept, B
<1>11. QED
  BY <1>6, <1>7, <1>8, <1>9, <1>10

LEMMA BookInvariant == Spec => []BookInv
<1>1. Init => BookInv
  <2> SUFFICES ASSUME Init PROVE BookInv
    OBVIOUS
  <2>1. maxAsks \in Nat
    BY MarketAssumption DEF Init
  <2>2. \A n \in Node : Cardinality(book[n]) = 0
    BY FS_EmptySet DEF Init
  <2>3. BookSound
    BY <2>1, <2>2 DEF Init, BookSound
  <2>4. QED
    BY <2>3 DEF Init, BookInv
<1>2. BookInv /\ [Next]_vars => BookInv'
  <2> SUFFICES ASSUME BookInv, [Next]_vars PROVE BookInv'
    OBVIOUS
  <2> USE DEF Pair
  <2>1. \A n \in Node : book[n] \subseteq Signed /\ Sound(book[n])
    BY DEF BookInv, BookSound, Sound
  <2>2. ASSUME UNCHANGED <<book, coinOf, maxAsks>> PROVE BookInv'
    BY <2>2 DEF BookInv, BookSound, Signed
  <2>3. ASSUME NEW p \in Pair, ProcessXord(p[1], p[2]) PROVE BookInv'
    <3> DEFINE n == p[2]
               a == Head(wire[<<p[1], n>>])
    <3>1. n \in Node /\ a \in Signed /\ a \in Ask /\ coinOf[a] \in Coin
      BY <2>3 DEF ProcessXord, ValidateAsk, Signed, BookInv
    <3>2. UNCHANGED <<coinOf, maxAsks>> /\ AcceptAsk(n, a, coinOf[a])
      BY <2>3 DEF ProcessXord
    <3> HIDE DEF n, a
    <3>3. PICK B : /\ book' = [book EXCEPT ![n] = B]
                   /\ Cardinality(B) <= maxAsks
                   /\ \A x, y \in B \ {a} : coinOf[x] = coinOf[y] => x = y
                   /\ \A x \in B \ {a} : x \in book[n] /\ coinOf[x] # coinOf[a]
      BY <3>1, <3>2, AcceptedSound
    <3>4. Sound(B) /\ B \subseteq Signed
      BY <3>1, <3>3, <2>1 DEF Sound
    <3>5. book' \in [Node -> SUBSET Signed] /\ \A k \in Node : Sound(book'[k])
      BY <3>1, <3>3, <3>4, <2>1 DEF BookInv
    <3>6. QED
      BY <3>2, <3>5 DEF BookInv, BookSound, Sound, Signed
  <2>4. ASSUME NEW p \in Pair, IgnoreXord(p[1], p[2]) PROVE BookInv'
    BY <2>4, ShrinkKeepsBooks, PruneSubset DEF IgnoreXord, BookInv
  <2>5. ASSUME NEW p \in Pair, RateExceeded(p[1], p[2]) PROVE BookInv'
    BY <2>5, <2>2 DEF RateExceeded
  <2>6. ASSUME NEW n \in Node, NEW a \in Ask, NEW c \in Lists[a], PostAsk(n, a, c) PROVE BookInv'
    <3>0. c \in Coin
      BY MarketAssumption
    <3>1. coinOf[a] = NoCoin /\ coinOf' = [coinOf EXCEPT ![a] = c] /\ maxAsks' = maxAsks
      BY <2>6 DEF PostAsk
    <3>2. a \notin Signed /\ \A x \in Signed : x \in Ask /\ coinOf'[x] = coinOf[x]
      BY <3>1 DEF Signed, BookInv
    <3>3. coinOf'[a] = c /\ c # NoCoin /\ coinOf' \in [Ask -> Coin \cup {NoCoin}]
      BY <3>0, <3>1, MarketAssumption DEF BookInv
    <3>4. Signed' = Signed \cup {a}
      BY <3>1, <3>3 DEF Signed, BookInv
    <3>5. AcceptAsk(n, a, c)
      BY <2>6 DEF PostAsk
    <3>6. PICK B : /\ book' = [book EXCEPT ![n] = B]
                   /\ Cardinality(B) <= maxAsks
                   /\ \A x, y \in B \ {a} : coinOf[x] = coinOf[y] => x = y
                   /\ \A x \in B \ {a} : x \in book[n] /\ coinOf[x] # c
      BY <3>0, <3>5, AcceptedSound
    <3>7. B \subseteq Signed' /\ \A x, y \in B : coinOf'[x] = coinOf'[y] => x = y
      BY <3>2, <3>3, <3>4, <3>6, <2>1
    <3>8. book' \in [Node -> SUBSET Signed']
      BY <3>4, <3>6, <3>7, <2>1 DEF BookInv
    <3>9. ASSUME NEW k \in Node
          PROVE  /\ Cardinality(book'[k]) <= maxAsks'
                 /\ \A x, y \in book'[k] : coinOf'[x] = coinOf'[y] => x = y
      <4>1. CASE k = n
        BY <4>1, <3>1, <3>6, <3>7 DEF BookInv
      <4>2. CASE k # n
        <5>1. book'[k] = book[k]
          BY <4>2, <3>6 DEF BookInv
        <5>2. QED
          BY <5>1, <3>1, <3>2, <2>1 DEF Sound
      <4>3. QED
        BY <4>1, <4>2
    <3>10. QED
      BY <3>1, <3>3, <3>8, <3>9 DEF BookInv, BookSound
  <2>7. ASSUME NEW n \in Node, ListAsks(n) PROVE BookInv'
    BY <2>7, ShrinkKeepsBooks, PruneSubset DEF ListAsks, BookInv
  <2>8. ASSUME NEW n \in Node, NEW a \in Ask, TakeAsk(n, a) PROVE BookInv'
    BY <2>8, ShrinkKeepsBooks, PruneSubset DEF TakeAsk, Spend, BookInv
  <2>9. ASSUME NEW n \in Node, NEW a \in Ask, CancelAsk(n, a) PROVE BookInv'
    <3>1. CASE Spend(n, a)
      BY <2>9, <3>1, ShrinkKeepsBooks, PruneSubset DEF CancelAsk, Spend, BookInv
    <3>2. CASE UNCHANGED book
      BY <2>9, <3>2, <2>2 DEF CancelAsk
    <3>3. QED
      BY <2>9, <3>1, <3>2 DEF CancelAsk
  <2>10. ASSUME NEW n \in Node, NEW c \in Coin, ConnectBlock(n, c) PROVE BookInv'
    BY <2>10, <2>2 DEF ConnectBlock
  <2>16. ASSUME NEW n \in Node, NEW c \in Coin, DisconnectBlock(n, c) PROVE BookInv'
    BY <2>16, <2>2 DEF DisconnectBlock
  <2>11. ASSUME NEW p \in Pair, Connect(p[1], p[2]) PROVE BookInv'
    BY <2>11, ShrinkKeepsBooks, PruneSubset DEF Connect, BookInv
  <2>12. ASSUME NEW p \in Pair, Disconnect(p[1], p[2]) PROVE BookInv'
    BY <2>12, <2>2 DEF Disconnect
  <2>13. ASSUME NEW n \in Node, Restart(n) PROVE BookInv'
    BY <2>13, ShrinkKeepsBooks DEF Restart, BookInv
  <2>14. CASE UNCHANGED vars
    BY <2>14, <2>2 DEF vars
  <2>15. QED
    BY <2>3, <2>4, <2>5, <2>6, <2>7, <2>8, <2>9, <2>10, <2>11, <2>12, <2>13, <2>14,
       <2>16 DEF Next, Deliver
<1> QED
  BY <1>1, <1>2, PTL DEF Spec

(* The book holds at most MAX_ASKS asks and one of each coin, whatever     *)
(* peers send, however often a coin is listed, and through reconnections,  *)
(* restarts and spends: AcceptAsk replaces and drops before it enters.     *)
THEOREM BookAlwaysSound == Spec => []BookSound
<1>1. BookInv => BookSound
  BY DEF BookInv
<1> QED
  BY <1>1, BookInvariant, PTL

-----------------------------------------------------------------------------
(* What is on the wires.                                                   *)

In(x, s) == \E i \in 1..Len(s) : s[i] = x

LEMMA InAppend ==
    ASSUME NEW S, NEW s \in Seq(S), NEW a \in S, NEW x
    PROVE  In(x, Append(s, a)) <=> x = a \/ In(x, s)
<1>1. Len(Append(s, a)) = Len(s) + 1 /\ Len(s) \in Nat
  OBVIOUS
<1>2. /\ Append(s, a)[Len(s) + 1] = a
      /\ \A i \in 1..Len(s) : Append(s, a)[i] = s[i]
  OBVIOUS
<1> QED
  BY <1>1, <1>2 DEF In

LEMMA InTail ==
    ASSUME NEW S, NEW s \in Seq(S), s # <<>>, NEW x
    PROVE  /\ Head(s) \in S /\ Tail(s) \in Seq(S)
           /\ In(x, s) <=> x = Head(s) \/ In(x, Tail(s))
<1>1. /\ Len(s) \in Nat \ {0} /\ Len(Tail(s)) = Len(s) - 1 /\ Head(s) = s[1]
      /\ \A i \in 1..(Len(s) - 1) : Tail(s)[i] = s[i + 1]
  OBVIOUS
<1>2. Head(s) \in S /\ Tail(s) \in Seq(S)
  OBVIOUS
<1>3. In(x, s) => x = Head(s) \/ In(x, Tail(s))
  <2> SUFFICES ASSUME NEW i \in 1..Len(s), s[i] = x, i # 1 PROVE In(x, Tail(s))
    BY <1>1 DEF In
  <2>1. i - 1 \in 1..(Len(s) - 1) /\ (i - 1) + 1 = i
    BY <1>1
  <2> QED
    BY <1>1, <2>1 DEF In
<1>4. In(x, Tail(s)) => In(x, s)
  <2> SUFFICES ASSUME NEW i \in 1..Len(Tail(s)), Tail(s)[i] = x PROVE In(x, s)
    BY DEF In
  <2>1. i + 1 \in 1..Len(s) /\ s[i + 1] = x
    BY <1>1
  <2> QED
    BY <2>1 DEF In
<1>5. In(Head(s), s)
  <2>1. 1 \in 1..Len(s)
    BY <1>1
  <2> QED
    BY <1>1, <2>1 DEF In
<1> QED
  BY <1>2, <1>3, <1>4, <1>5

LEMMA InEmpty == ASSUME NEW x PROVE ~In(x, <<>>)
BY DEF In

\* A pushed book is asks of the book, all of them when there are few.
LEMMA PushedBook ==
    ASSUME BookInv, NEW n \in Node
    PROVE  /\ PushBook(n) \in Seq(Ask)
           /\ \A x : In(x, PushBook(n)) => x \in PruneSpent(n)
           /\ Cardinality(PruneSpent(n)) <= MaxPush =>
                 \A x \in PruneSpent(n) : In(x, PushBook(n))
<1> DEFINE asks == PruneSpent(n)
           first == {a \in asks : Rank(asks, a) < MaxPush}
<1>1. asks \in SUBSET Ask /\ asks \in SUBSET Nat /\ IsFiniteSet(asks)
  <2>1. asks \in SUBSET Signed
    BY PruneSubset DEF BookInv
  <2> QED
    BY <2>1, FiniteBooks, MarketAssumption DEF Signed
<1> HIDE DEF asks
<1>2. first \in SUBSET asks /\ first \in SUBSET Nat /\ IsFiniteSet(first)
  <2>1. first \in SUBSET asks
    OBVIOUS
  <2> HIDE DEF first
  <2> QED
    BY <1>1, <2>1, FS_Subset
<1>3. PushBook(n) = InOrder(first)
  BY DEF PushBook, asks
<1> HIDE DEF first
<1>4. /\ InOrder(first) \in Seq(first) /\ Len(InOrder(first)) = Cardinality(first)
      /\ \A x \in first : \E i \in 1..Cardinality(first) : InOrder(first)[i] = x
  BY <1>2, InOrderSorts
<1>5. PushBook(n) \in Seq(Ask)
  <2>1. first \subseteq Ask
    BY <1>1, <1>2
  <2>2. \A i \in 1..Len(InOrder(first)) : InOrder(first)[i] \in first
    BY <1>4
  <2> QED
    BY <1>3, <1>4, <2>1, <2>2
<1>6. \A x : In(x, PushBook(n)) => x \in asks
  <2>1. \A i \in 1..Len(InOrder(first)) : InOrder(first)[i] \in first
    BY <1>4
  <2> QED
    BY <1>2, <1>3, <2>1 DEF In
<1>7. ASSUME Cardinality(asks) <= MaxPush, NEW x \in asks PROVE In(x, PushBook(n))
  <2>1. Cardinality(asks) \in Nat /\ Rank(asks, x) \in 0..(Cardinality(asks) - 1)
    BY <1>1, RankType
  <2>2. Rank(asks, x) < MaxPush
    BY <1>7, <2>1, MarketAssumption
  <2>3. x \in first
    BY <2>2 DEF first
  <2> QED
    BY <1>3, <1>4, <2>3 DEF In
<1> QED
  BY <1>5, <1>6, <1>7 DEF asks

-----------------------------------------------------------------------------
(* Types.                                                                  *)

MarketTypes == TypeOK /\ wire \in [Pair -> Seq(Ask)]

LEMMA RelayType ==
    ASSUME MarketTypes, NEW n \in Node, NEW a \in Ask, NEW from
    PROVE  RelayAsk(n, a, from) \in [Pair -> Seq(Ask)]
<1>1. \A p \in Pair : wire[p] \in Seq(Ask) /\ Append(wire[p], a) \in Seq(Ask)
  BY DEF MarketTypes
<1> QED
  BY <1>1 DEF RelayAsk

LEMMA AcceptType ==
    ASSUME MarketTypes, NEW n \in Node, NEW a \in Ask, NEW c, AcceptAsk(n, a, c)
    PROVE  book' \in [Node -> SUBSET Ask] /\ missed' \in [Node -> SUBSET Ask]
<1>1. PICK B : book' = [book EXCEPT ![n] = B] /\ B \subseteq book[n] \cup {a}
  <2> DEFINE rest == PruneSpent(n) \ {b \in PruneSpent(n) : coinOf[b] = c}
  <2>1. rest \subseteq book[n]
    BY PruneSubset
  <2> HIDE DEF rest
  <2>2. \E drop : book' = [book EXCEPT ![n] = (rest \ drop) \cup {a}]
    BY DEF AcceptAsk, rest
  <2>3. PICK drop : book' = [book EXCEPT ![n] = (rest \ drop) \cup {a}]
    BY <2>2
  <2> QED
    BY <2>1, <2>3
<1>2. missed' = [missed EXCEPT ![n] = @ \ {a}]
  BY DEF AcceptAsk
<1> QED
  BY <1>1, <1>2 DEF MarketTypes, TypeOK

LEMMA NextMarketTypes == BookInv /\ MarketTypes /\ [Next]_vars => MarketTypes'
<1> SUFFICES ASSUME BookInv, MarketTypes, [Next]_vars PROVE MarketTypes'
  OBVIOUS
<1>0. /\ book \in [Node -> SUBSET Ask] /\ link \subseteq Pair /\ wire \in [Pair -> Seq(Ask)]
      /\ locked \in [Node -> SUBSET Coin] /\ coinOf \in [Ask -> Coin \cup {NoCoin}]
      /\ spending \subseteq Coin /\ spent \in [Node -> SUBSET spending]
      /\ seen \in [Node -> SUBSET Coin] /\ missed \in [Node -> SUBSET Ask]
      /\ events \in 0..MaxEvents /\ MaxEvents \in Nat
  BY MarketAssumption DEF MarketTypes, TypeOK
<1>a. \A p \in Pair : p[1] \in Node /\ p[2] \in Node /\ p = <<p[1], p[2]>> /\ p[1] # p[2]
                      /\ <<p[2], p[1]>> \in Pair
  BY DEF Pair
<1>b. Event => events' \in 0..MaxEvents
  BY <1>0 DEF Event
<1>c. \A n \in Node : PruneSpent(n) \subseteq Ask
  BY <1>0, PruneSubset
<1>d. \A p \in Pair : wire[p] # <<>> => Head(wire[p]) \in Ask /\ Tail(wire[p]) \in Seq(Ask)
  BY <1>0, InTail
<1> USE DEF MarketTypes, TypeOK
<1>1. ASSUME NEW p \in Pair, ProcessXord(p[1], p[2]) PROVE MarketTypes'
  <2> DEFINE a == Head(wire[p])
  <2>1. a \in Ask /\ Tail(wire[p]) \in Seq(Ask)
    BY <1>a, <1>d, <1>1 DEF ProcessXord
  <2>2. /\ AcceptAsk(p[2], a, coinOf[a])
        /\ wire' = [RelayAsk(p[2], a, p[1]) EXCEPT ![p] = Tail(@)]
        /\ UNCHANGED <<link, locked, coinOf, spending, seen, spent, events>>
    BY <1>a, <1>1 DEF ProcessXord
  <2> HIDE DEF a
  <2>3. book' \in [Node -> SUBSET Ask] /\ missed' \in [Node -> SUBSET Ask]
    BY <1>a, <2>1, <2>2, AcceptType
  <2>4. RelayAsk(p[2], a, p[1]) \in [Pair -> Seq(Ask)] /\ RelayAsk(p[2], a, p[1])[p] = wire[p]
    BY <1>a, <2>1, RelayType DEF RelayAsk
  <2>5. wire' \in [Pair -> Seq(Ask)]
    BY <2>1, <2>2, <2>4
  <2> QED
    BY <1>0, <2>2, <2>3, <2>5
<1>2. ASSUME NEW p \in Pair, IgnoreXord(p[1], p[2]) PROVE MarketTypes'
  <2>1. wire' = [wire EXCEPT ![p] = Tail(@)] /\ Tail(wire[p]) \in Seq(Ask)
    BY <1>a, <1>d, <1>2 DEF IgnoreXord, Received
  <2>2. wire' \in [Pair -> Seq(Ask)]
    BY <1>0, <2>1
  <2>3. book' \in [Node -> SUBSET Ask]
    BY <1>0, <1>a, <1>c, <1>2 DEF IgnoreXord
  <2>4. missed' \in [Node -> SUBSET Ask]
    <3> DEFINE a == Head(wire[p])
    <3>1. /\ a \in Ask
          /\ missed' = missed \/ missed' = [missed EXCEPT ![p[2]] = @ \cup {a}]
      BY <1>a, <1>d, <1>2 DEF IgnoreXord
    <3> HIDE DEF a
    <3> QED
      BY <1>0, <1>a, <3>1
  <2> QED
    BY <1>0, <1>2, <2>2, <2>3, <2>4 DEF IgnoreXord
<1>3. ASSUME NEW p \in Pair, RateExceeded(p[1], p[2]) PROVE MarketTypes'
  <2>1. wire' = [wire EXCEPT ![p] = Tail(@)] /\ Tail(wire[p]) \in Seq(Ask)
    BY <1>a, <1>d, <1>3 DEF RateExceeded, Received
  <2>2. wire' \in [Pair -> Seq(Ask)]
    BY <1>0, <2>1
  <2> QED
    BY <1>0, <1>b, <1>3, <2>2 DEF RateExceeded
<1>4. ASSUME NEW n \in Node, NEW a \in Ask, NEW c \in Lists[a], PostAsk(n, a, c) PROVE MarketTypes'
  <2>0. c \in Coin
    BY MarketAssumption
  <2>1. /\ book' \in [Node -> SUBSET Ask] /\ missed' \in [Node -> SUBSET Ask]
        /\ wire' \in [Pair -> Seq(Ask)]
    BY <1>4, AcceptType, RelayType DEF PostAsk
  <2>2. /\ locked' \in [Node -> SUBSET Coin]
        /\ coinOf' \in [Ask -> Coin \cup {NoCoin}]
    BY <1>0, <1>4, <2>0 DEF PostAsk
  <2> QED
    BY <1>0, <1>4, <2>1, <2>2 DEF PostAsk
<1>5. ASSUME NEW n \in Node, ListAsks(n) PROVE MarketTypes'
  BY <1>0, <1>c, <1>5 DEF ListAsks
<1>6. ASSUME NEW n \in Node, NEW a \in Ask, ValidateAsk(n, a), Spend(n, a),
             UNCHANGED <<coinOf, spent>>
      PROVE  /\ book' \in [Node -> SUBSET Ask]
             /\ spending' \subseteq Coin /\ spent' \in [Node -> SUBSET spending']
             /\ coinOf' = coinOf
  <2>1. coinOf[a] \in Coin
    BY <1>0, <1>6 DEF ValidateAsk, Signed
  <2> QED
    BY <1>0, <1>c, <1>6, <2>1 DEF Spend
<1>7. ASSUME NEW n \in Node, NEW a \in Ask, TakeAsk(n, a) PROVE MarketTypes'
  <2>1. /\ book' \in [Node -> SUBSET Ask]
        /\ spending' \subseteq Coin /\ spent' \in [Node -> SUBSET spending']
    BY <1>6, <1>7 DEF TakeAsk
  <2> QED
    BY <1>0, <1>7, <2>1 DEF TakeAsk
<1>8. ASSUME NEW n \in Node, NEW a \in Ask, CancelAsk(n, a) PROVE MarketTypes'
  <2>1. locked' \in [Node -> SUBSET Coin]
    BY <1>0, <1>8 DEF CancelAsk
  <2>2. /\ book' \in [Node -> SUBSET Ask]
        /\ spending' \subseteq Coin /\ spent' \in [Node -> SUBSET spending']
    BY <1>0, <1>6, <1>8 DEF CancelAsk
  <2> QED
    BY <1>0, <1>8, <2>1, <2>2 DEF CancelAsk
<1>9. ASSUME NEW n \in Node, NEW c \in Coin, ConnectBlock(n, c) PROVE MarketTypes'
  BY <1>0, <1>9 DEF ConnectBlock
<1>15. ASSUME NEW n \in Node, NEW c \in Coin, DisconnectBlock(n, c) PROVE MarketTypes'
  BY <1>0, <1>b, <1>15 DEF DisconnectBlock
<1>10. ASSUME NEW p \in Pair, Connect(p[1], p[2]) PROVE MarketTypes'
  <2>1. PushBook(p[1]) \in Seq(Ask) /\ PushBook(p[2]) \in Seq(Ask)
    BY <1>a, PushedBook
  <2>2. wire' \in [Pair -> Seq(Ask)]
    BY <1>0, <1>a, <1>10, <2>1 DEF Connect
  <2>3. book' \in [Node -> SUBSET Ask]
    BY <1>0, <1>a, <1>c, <1>10 DEF Connect
  <2>4. link' \subseteq Pair
    BY <1>0, <1>a, <1>10 DEF Connect
  <2> QED
    BY <1>0, <1>b, <1>10, <2>2, <2>3, <2>4 DEF Connect
<1>11. ASSUME NEW S, Cut(S) PROVE link' \subseteq Pair /\ wire' \in [Pair -> Seq(Ask)]
  BY <1>0, <1>11 DEF Cut
<1>12. ASSUME NEW p \in Pair, Disconnect(p[1], p[2]) PROVE MarketTypes'
  BY <1>0, <1>b, <1>11, <1>12 DEF Disconnect
<1>13. ASSUME NEW n \in Node, Restart(n) PROVE MarketTypes'
  BY <1>0, <1>b, <1>11, <1>13 DEF Restart
<1>14. CASE UNCHANGED vars
  BY <1>14 DEF vars
<1> QED
  BY <1>1, <1>2, <1>3, <1>4, <1>5, <1>7, <1>8, <1>9, <1>10, <1>12, <1>13, <1>14,
     <1>15 DEF Next, Deliver

LEMMA AlwaysTyped == Spec => []MarketTypes
<1>1. Init => MarketTypes
  <2> SUFFICES ASSUME Init PROVE MarketTypes
    OBVIOUS
  <2>1. 0 \in 0..MaxEvents /\ <<>> \in Seq(Ask)
    BY MarketAssumption
  <2> QED
    BY <2>1, MarketAssumption DEF Init, MarketTypes, TypeOK
<1> QED
  BY <1>1, NextMarketTypes, BookInvariant, PTL DEF Spec

(* The types of the variables hold in every behaviour: among them that a   *)
(* pushed book is a sequence of asks, and that a chain spends only coins   *)
(* whose spend was broadcast.                                              *)
THEOREM MarketTypeCorrect == Spec => []TypeOK
<1>1. MarketTypes => TypeOK
  BY DEF MarketTypes
<1> QED
  BY <1>1, AlwaysTyped, PTL

-----------------------------------------------------------------------------
(* Peers come to offer the same asks.                                      *)

\* What a node offers, and what it may have lost for want of the coin.
Met(n) == book[n] \cup missed[n]

\* A book has an ask whose coin is not in the chain only after the chain lost it.
\* What is on a wire was signed, and its sender still offers it unless the coin
\* is being spent or was lost; and what a node offers, its peers offer too, are
\* about to hear of, or came across when their chain did not have the coin.
GossipInv ==
    /\ \A n \in Node : \A x \in book[n] : coinOf[x] \in seen[n] \/ x \in missed[n]
    /\ \A p \in Pair : \A x \in Ask : In(x, wire[p]) => x \in Signed
    /\ calm =>
        /\ \A p \in Pair : \A x \in Ask :
              In(x, wire[p]) => x \in Met(p[1]) \/ coinOf[x] \in spending
        /\ \A p \in link : \A x \in book[p[1]] :
              x \in Met(p[2]) \/ In(x, wire[p]) \/ coinOf[x] \in spending

\* What PruneSpent takes out of a book is spent, or its coin is not in the chain.
LEMMA PrunedIsSpent ==
    ASSUME BookInv, MarketTypes, GossipInv, NEW n \in Node, NEW x \in book[n]
    PROVE  x \in PruneSpent(n) \/ x \in missed[n] \/ coinOf[x] \in spending
<1>1. book[n] \subseteq Signed /\ spent[n] \subseteq spending
  BY DEF BookInv, MarketTypes, TypeOK
<1>2. coinOf[x] \in seen[n] \/ x \in missed[n]
  BY DEF GossipInv
<1> QED
  BY <1>1, <1>2 DEF PruneSpent, ValidateAsk

\* Steps that sign nothing, connect nobody and put nothing on a wire or into a
\* book: an ask may leave a book only when its coin is being spent or missed.
LEMMA QuietStep ==
    ASSUME BookInv, MarketTypes, GossipInv,
           UNCHANGED coinOf, spending \subseteq spending', link' \subseteq link, calm' => calm,
           \A p \in Pair : \A x \in Ask : In(x, wire'[p]) => In(x, wire[p]),
           \A n \in Node : book'[n] \subseteq book[n],
           \A n \in Node : \A x \in book'[n] : coinOf[x] \in seen'[n] \/ x \in missed'[n],
           \A n \in Node : \A x \in Met(n) : x \in Met(n)' \/ coinOf[x] \in spending',
           calm' => \A p \in link' : \A x \in Ask :
               In(x, wire[p]) => In(x, wire'[p]) \/ x \in Met(p[2])' \/ coinOf[x] \in spending'
    PROVE  GossipInv'
<1>1. /\ \A p \in Pair : p[1] \in Node /\ p[2] \in Node
      /\ link \subseteq Pair /\ book \in [Node -> SUBSET Ask]
      /\ \A n \in Node : book[n] \subseteq Met(n)
  BY DEF Pair, MarketTypes, TypeOK, Met
<1>2. Signed' = Signed
  BY DEF Signed
<1>3. \A p \in Pair : \A x \in Ask : In(x, wire'[p]) => x \in Signed'
  BY <1>2 DEF GossipInv
<1>4. ASSUME calm', NEW p \in Pair, NEW x \in Ask, In(x, wire'[p])
      PROVE  x \in Met(p[1])' \/ coinOf'[x] \in spending'
  BY <1>1, <1>4 DEF GossipInv
<1>5. ASSUME calm', NEW p \in link', NEW x \in book'[p[1]]
      PROVE  x \in Met(p[2])' \/ In(x, wire'[p]) \/ coinOf'[x] \in spending'
  <2>1. p \in link /\ p \in Pair /\ x \in book[p[1]] /\ x \in Ask
    BY <1>1
  <2>2. x \in Met(p[2]) \/ In(x, wire[p]) \/ coinOf[x] \in spending
    BY <1>5, <2>1 DEF GossipInv
  <2> QED
    BY <1>1, <1>5, <2>1, <2>2
<1>6. coinOf' = coinOf
  OBVIOUS
<1> QED
  BY <1>3, <1>4, <1>5, <1>6 DEF GossipInv

\* While nothing is replaced or dropped, an accepted ask joins what PruneSpent
\* leaves of the book.
LEMMA CalmAccept ==
    ASSUME BookInv, MarketTypes, NEW n \in Node, NEW a \in Ask, NEW c, AcceptAsk(n, a, c), calm'
    PROVE  /\ calm /\ book' = [book EXCEPT ![n] = PruneSpent(n) \cup {a}]
           /\ missed' = [missed EXCEPT ![n] = @ \ {a}]
<1> DEFINE same == {b \in PruneSpent(n) : coinOf[b] = c}
           rest == PruneSpent(n) \ same
<1>1. PICK drop : /\ book' = [book EXCEPT ![n] = (rest \ drop) \cup {a}]
                  /\ missed' = [missed EXCEPT ![n] = @ \ {a}]
                  /\ calm' = (calm /\ drop = {} /\ same \subseteq {a})
  BY DEF AcceptAsk
<1>2. calm /\ drop = {} /\ same \subseteq {a}
  BY <1>1
<1>3. (rest \ drop) \cup {a} = PruneSpent(n) \cup {a}
  BY <1>2
<1> QED
  BY <1>1, <1>2, <1>3

\* An ask is accepted at n and relayed to all peers but f, which sent it.
LEMMA AcceptedStep ==
    ASSUME BookInv, MarketTypes, GossipInv,
           NEW n \in Node, NEW a \in Ask, NEW c, NEW f, AcceptAsk(n, a, c),
           UNCHANGED <<link, spending, seen>>, a \in Signed', coinOf'[a] \in seen[n],
           \A x \in Signed : x \in Signed' /\ coinOf'[x] = coinOf[x],
           \A q \in Pair : \A x \in Ask :
               /\ In(x, wire'[q]) => In(x, wire[q]) \/ (x = a /\ q[1] = n)
               /\ In(x, wire[q]) => In(x, wire'[q]) \/ (x = a /\ q[2] = n),
           \A q \in link : q[1] = n => In(a, wire'[q]) \/ q[2] = f,
           f \in Node => <<f, n>> \in Pair /\ In(a, wire[<<f, n>>])
    PROVE  GossipInv'
<1>0. /\ book \in [Node -> SUBSET Ask] /\ link \subseteq Pair
      /\ book \in [Node -> SUBSET Signed] /\ Signed \subseteq Ask
      /\ missed \in [Node -> SUBSET Ask]
      /\ \A p \in Pair : p[1] \in Node /\ p[2] \in Node
      /\ \A k \in Node : book[k] \subseteq Met(k) /\ book'[k] \subseteq Met(k)'
  BY DEF MarketTypes, TypeOK, BookInv, Signed, Pair, Met
<1>a. PICK B : /\ book' = [book EXCEPT ![n] = B \cup {a}] /\ B \subseteq book[n]
               /\ missed' = [missed EXCEPT ![n] = @ \ {a}]
  <2> DEFINE rest == PruneSpent(n) \ {y \in PruneSpent(n) : coinOf[y] = c}
  <2>1. PICK drop : /\ book' = [book EXCEPT ![n] = (rest \ drop) \cup {a}]
                    /\ missed' = [missed EXCEPT ![n] = @ \ {a}]
    BY DEF AcceptAsk
  <2>2. rest \ drop \subseteq book[n]
    BY PruneSubset
  <2> QED
    BY <2>1, <2>2
<1>b. \A k \in Node : \A x \in book'[k] : coinOf'[x] \in seen'[k] \/ x \in missed'[k]
  <2> TAKE k \in Node
  <2> TAKE x \in book'[k]
  <2>1. CASE k = n /\ x = a
    BY <2>1
  <2>2. CASE ~(k = n /\ x = a)
    <3>1. x \in book[k] /\ (x \in missed[k] => x \in missed'[k])
      BY <1>0, <1>a, <2>2
    <3>2. coinOf'[x] = coinOf[x]
      BY <1>0, <3>1
    <3> QED
      BY <3>1, <3>2 DEF GossipInv
  <2> QED
    BY <2>1, <2>2
<1>1. \A q \in Pair : \A x \in Ask : In(x, wire'[q]) => x \in Signed'
  BY DEF GossipInv
<1>2. ASSUME calm'
      PROVE  /\ calm /\ book' = [book EXCEPT ![n] = PruneSpent(n) \cup {a}]
             /\ \A k \in Node : \A x \in Met(k) \cap Signed : x \in Met(k)' \/ coinOf'[x] \in spending'
             /\ \A k \in Node : \A x \in book'[k] : x \in book[k] \/ (k = n /\ x = a)
             /\ a \in book'[n]
  <2>1. calm /\ book' = [book EXCEPT ![n] = PruneSpent(n) \cup {a}]
    BY <1>2, CalmAccept
  <2>2. ASSUME NEW k \in Node, NEW x \in Met(k) \cap Signed
        PROVE  x \in Met(k)' \/ coinOf'[x] \in spending'
    <3>1. coinOf'[x] = coinOf[x]
      BY <1>0
    <3>2. k # n => book'[k] = book[k] /\ missed'[k] = missed[k]
      BY <1>0, <1>a, <2>1
    <3>3. k = n => book'[k] = PruneSpent(k) \cup {a} /\ missed'[k] = missed[k] \ {a}
      BY <1>0, <1>a, <2>1
    <3>4. x \in PruneSpent(k) \/ x \in missed[k] \/ coinOf[x] \in spending
      BY PrunedIsSpent DEF Met
    <3> QED
      BY <1>0, <3>1, <3>2, <3>3, <3>4, PruneSubset DEF Met
  <2>3. ASSUME NEW k \in Node, NEW x \in book'[k] PROVE x \in book[k] \/ (k = n /\ x = a)
    BY <1>0, <2>1, PruneSubset
  <2>4. a \in book'[n]
    BY <1>0, <2>1
  <2> QED
    BY <2>1, <2>2, <2>3, <2>4
<1>3. ASSUME calm', NEW q \in Pair, NEW x \in Ask, In(x, wire'[q])
      PROVE  x \in Met(q[1])' \/ coinOf'[x] \in spending'
  <2>1. CASE In(x, wire[q])
    <3>1. x \in Signed /\ (x \in Met(q[1]) \/ coinOf[x] \in spending)
      BY <1>2, <1>3, <2>1 DEF GossipInv
    <3> QED
      BY <1>0, <1>2, <1>3, <3>1
  <2>2. CASE x = a /\ q[1] = n
    BY <1>0, <1>2, <1>3, <2>2
  <2> QED
    BY <1>3, <2>1, <2>2
<1>4. ASSUME calm', NEW q \in link', NEW x \in book'[q[1]]
      PROVE  x \in Met(q[2])' \/ In(x, wire'[q]) \/ coinOf'[x] \in spending'
  <2>0. q \in link /\ q \in Pair /\ q[1] \in Node /\ q[2] \in Node
    BY <1>0
  <2>1. CASE x \in book[q[1]]
    <3>1. x \in Ask /\ x \in Signed /\ coinOf'[x] = coinOf[x]
      BY <1>0, <2>0, <2>1
    <3>2. x \in Met(q[2]) \/ In(x, wire[q]) \/ coinOf[x] \in spending
      BY <1>2, <1>4, <2>0, <2>1 DEF GossipInv
    <3>3. In(x, wire[q]) => In(x, wire'[q]) \/ (x = a /\ q[2] = n)
      BY <2>0, <3>1
    <3>4. a \in Met(n)'
      BY <1>0, <1>2, <1>4
    <3> QED
      BY <1>2, <1>4, <2>0, <3>1, <3>2, <3>3, <3>4
  <2>2. CASE q[1] = n /\ x = a /\ q[2] = f
    <3>1. a \in Met(f) \/ coinOf[a] \in spending
      <4>1. <<f, n>> \in Pair /\ In(a, wire[<<f, n>>])
        BY <2>0, <2>2
      <4>2. a \in Met(<<f, n>>[1]) \/ coinOf[a] \in spending
        BY <1>2, <1>4, <4>1 DEF GossipInv
      <4> QED
        BY <4>2
    <3>2. a \in Signed
      BY <2>0, <2>2 DEF GossipInv
    <3> QED
      BY <1>2, <1>4, <2>0, <2>2, <3>1, <3>2
  <2> QED
    BY <1>2, <1>4, <2>0, <2>1, <2>2
<1> QED
  BY <1>b, <1>1, <1>3, <1>4 DEF GossipInv

LEMMA NextGossip == BookInv /\ MarketTypes /\ GossipInv /\ [Next]_vars => GossipInv'
<1> SUFFICES ASSUME BookInv, MarketTypes, GossipInv, [Next]_vars PROVE GossipInv'
  OBVIOUS
<1>0. /\ book \in [Node -> SUBSET Ask] /\ link \subseteq Pair /\ wire \in [Pair -> Seq(Ask)]
      /\ coinOf \in [Ask -> Coin \cup {NoCoin}]
      /\ spent \in [Node -> SUBSET spending] /\ book \in [Node -> SUBSET Signed]
      /\ Signed \subseteq Ask /\ seen \in [Node -> SUBSET Coin]
      /\ missed \in [Node -> SUBSET Ask]
  BY DEF MarketTypes, TypeOK, BookInv, Signed
<1>a. \A p \in Pair : p[1] \in Node /\ p[2] \in Node /\ p = <<p[1], p[2]>> /\ p[1] # p[2]
                      /\ <<p[2], p[1]>> \in Pair
  BY DEF Pair
<1>b. \A n \in Node : /\ PruneSpent(n) \subseteq book[n]
                      /\ \A x \in book[n] : \/ x \in PruneSpent(n) \/ x \in missed[n]
                                             \/ coinOf[x] \in spending
  BY PruneSubset, PrunedIsSpent
<1>e. \A n \in Node : \A x \in book[n] : coinOf[x] \in seen[n] \/ x \in missed[n]
  BY DEF GossipInv
<1>c. \A p \in Pair : wire[p] # <<>> =>
         /\ Head(wire[p]) \in Ask
         /\ \A x \in Ask : In(x, wire[p]) <=> x = Head(wire[p]) \/ In(x, Tail(wire[p]))
  BY <1>0, InTail
<1>d. \A x \in Ask : ~In(x, <<>>)
  BY InEmpty
<1>1. ASSUME NEW p \in Pair, IgnoreXord(p[1], p[2]) PROVE GossipInv'
  <2> DEFINE a == Head(wire[p])
             n == p[2]
  <2>1. /\ wire[p] # <<>> /\ a \in Ask
        /\ a \in book[n] \/ ~ValidateAsk(n, a)
        /\ book' = IF a \in book[n] THEN book ELSE [book EXCEPT ![n] = PruneSpent(n)]
        /\ wire' = [wire EXCEPT ![p] = Tail(@)]
        /\ missed' = IF a \in book[n] \/ coinOf[a] \in seen[n] THEN missed
                     ELSE [missed EXCEPT ![n] = @ \cup {a}]
        /\ UNCHANGED <<link, coinOf, spending, seen, calm>>
    BY <1>a, <1>c, <1>1 DEF IgnoreXord, Received
  <2>2. a \in book'[n] \/ a \in missed'[n] \/ coinOf[a] \in spending
    <3>1. a \in Signed /\ n \in Node
      BY <1>a, <1>c, <2>1 DEF GossipInv
    <3>2. CASE a \in book[n]
      BY <2>1, <3>2
    <3>3. CASE a \notin book[n] /\ coinOf[a] \in seen[n]
      BY <1>0, <2>1, <3>1, <3>3 DEF ValidateAsk
    <3>4. CASE a \notin book[n] /\ coinOf[a] \notin seen[n]
      BY <1>0, <2>1, <3>1, <3>4
    <3> QED
      BY <3>2, <3>3, <3>4
  <2>6. \A k \in Node : missed[k] \subseteq missed'[k]
    BY <1>0, <1>a, <2>1
  <2>3. \A q \in Pair : \A x \in Ask : In(x, wire'[q]) => In(x, wire[q])
    BY <1>0, <1>c, <2>1
  <2>4. \A k \in Node : /\ book'[k] \subseteq book[k]
                        /\ \A x \in Met(k) : x \in Met(k)' \/ coinOf[x] \in spending'
    BY <1>0, <1>a, <1>b, <2>1, <2>6 DEF Met
  <2>7. \A k \in Node : \A x \in book'[k] : coinOf[x] \in seen'[k] \/ x \in missed'[k]
    BY <1>e, <2>1, <2>4, <2>6
  <2>5. \A q \in link' : \A x \in Ask :
           In(x, wire[q]) => In(x, wire'[q]) \/ x \in Met(q[2])' \/ coinOf[x] \in spending'
    <3> SUFFICES ASSUME NEW q \in Pair, NEW x \in Ask, In(x, wire[q]), ~In(x, wire'[q])
                 PROVE  x \in Met(q[2])' \/ coinOf[x] \in spending'
      BY <1>0, <2>1
    <3>1. q = p /\ x = a
      BY <1>0, <1>c, <2>1
    <3> QED
      BY <1>a, <2>1, <2>2, <3>1 DEF Met
  <2> HIDE DEF a, n
  <2> QED
    BY <2>1, <2>3, <2>4, <2>5, <2>7, QuietStep
<1>2. ASSUME NEW p \in Pair, RateExceeded(p[1], p[2]) PROVE GossipInv'
  <2>1. /\ wire[p] # <<>> /\ wire' = [wire EXCEPT ![p] = Tail(@)]
        /\ UNCHANGED <<coinOf, book, seen, missed>> /\ calm' = FALSE
    BY <1>a, <1>2 DEF RateExceeded, Received
  <2>2. \A q \in Pair : \A x \in Ask : In(x, wire'[q]) => In(x, wire[q])
    BY <1>0, <1>c, <2>1
  <2> QED
    BY <2>1, <2>2 DEF GossipInv, Signed
<1>3. ASSUME NEW n \in Node, ListAsks(n) PROVE GossipInv'
  <2>1. \A k \in Node : /\ book'[k] \subseteq book[k]
                        /\ \A x \in Met(k) : x \in Met(k)' \/ coinOf[x] \in spending'
    BY <1>0, <1>b, <1>3 DEF ListAsks, Met
  <2>2. UNCHANGED <<coinOf, link, wire, calm, spending, seen, missed>>
    BY <1>3 DEF ListAsks
  <2>3. \A k \in Node : \A x \in book'[k] : coinOf[x] \in seen'[k] \/ x \in missed'[k]
    BY <1>e, <2>1, <2>2
  <2> QED
    BY <2>1, <2>2, <2>3, QuietStep
<1>4. ASSUME NEW n \in Node, NEW a \in Ask, Spend(n, a),
             UNCHANGED <<coinOf, link, wire, calm, seen, missed>>
      PROVE  GossipInv'
  <2>1. \A k \in Node : /\ book'[k] \subseteq book[k]
                        /\ \A x \in Met(k) : x \in Met(k)' \/ coinOf[x] \in spending'
    BY <1>0, <1>b, <1>4 DEF Spend, Met
  <2>3. \A k \in Node : \A x \in book'[k] : coinOf[x] \in seen'[k] \/ x \in missed'[k]
    BY <1>e, <1>4, <2>1
  <2>2. spending \subseteq spending'
    BY <1>4 DEF Spend
  <2> QED
    BY <1>4, <2>1, <2>2, <2>3, QuietStep
<1>5. ASSUME NEW n \in Node, NEW a \in Ask, TakeAsk(n, a) PROVE GossipInv'
  BY <1>4, <1>5 DEF TakeAsk
<1>6. ASSUME UNCHANGED <<book, link, wire, coinOf, spending, calm>>,
             \A k \in Node : missed[k] \subseteq missed'[k],
             \A k \in Node : \A x \in book[k] : coinOf[x] \in seen'[k] \/ x \in missed'[k]
      PROVE  GossipInv'
  <2>1. \A k \in Node : Met(k) \subseteq Met(k)'
    BY <1>6 DEF Met
  <2> QED
    BY <1>6, <2>1, QuietStep
<1>7. ASSUME NEW n \in Node, NEW a \in Ask, CancelAsk(n, a) PROVE GossipInv'
  BY <1>4, <1>6, <1>7, <1>e DEF CancelAsk
<1>8. ASSUME NEW n \in Node, NEW c \in Coin, ConnectBlock(n, c) PROVE GossipInv'
  <2>1. /\ UNCHANGED <<book, link, wire, coinOf, spending, calm, missed>>
        /\ \A k \in Node : seen[k] \subseteq seen'[k]
    BY <1>0, <1>8 DEF ConnectBlock
  <2> QED
    BY <1>6, <1>e, <2>1
<1>15. ASSUME NEW n \in Node, NEW c \in Coin, DisconnectBlock(n, c) PROVE GossipInv'
  <2>1. UNCHANGED <<book, link, wire, coinOf, spending, calm>>
    BY <1>15 DEF DisconnectBlock
  <2>2. \/ UNCHANGED <<seen, missed>>
        \/ /\ seen' = [seen EXCEPT ![n] = @ \ {c}]
           /\ missed' = [missed EXCEPT ![n] = @ \cup {a \in book[n] : coinOf[a] = c}]
    BY <1>15 DEF DisconnectBlock
  <2>3. \A k \in Node : missed[k] \subseteq missed'[k]
    BY <1>0, <2>2
  <2>4. \A k \in Node : \A x \in book[k] : coinOf[x] \in seen'[k] \/ x \in missed'[k]
    BY <1>0, <1>e, <2>2
  <2> QED
    BY <1>6, <2>1, <2>3, <2>4
<1>9. ASSUME NEW p \in Pair, Disconnect(p[1], p[2]) PROVE GossipInv'
  <2>1. PICK S : /\ link' = link \ S
                 /\ wire' = [q \in Pair |-> IF q \in S THEN <<>> ELSE wire[q]]
    BY <1>9 DEF Disconnect, Cut
  <2>2. UNCHANGED <<book, coinOf, spending, seen, missed, calm>>
    BY <1>9 DEF Disconnect
  <2>3. \A q \in Pair : \A x \in Ask : /\ In(x, wire'[q]) => In(x, wire[q])
                                       /\ q \notin S => wire'[q] = wire[q]
    BY <1>d, <2>1
  <2>4. \A k \in Node : Met(k)' = Met(k)
    BY <2>2 DEF Met
  <2> QED
    BY <1>0, <1>e, <2>1, <2>2, <2>3, <2>4, QuietStep
<1>10. ASSUME NEW n \in Node, Restart(n) PROVE GossipInv'
  <2> DEFINE S == {q \in Pair : n \in {q[1], q[2]}}
  <2>1. /\ link' = link \ S
        /\ wire' = [q \in Pair |-> IF q \in S THEN <<>> ELSE wire[q]]
        /\ book' = [book EXCEPT ![n] = {}]
        /\ missed' = [missed EXCEPT ![n] = {}]
        /\ UNCHANGED <<coinOf, spending, seen, calm>>
    BY <1>10 DEF Restart, Cut
  <2>2. ASSUME NEW q \in Pair, q \notin S
        PROVE  /\ wire'[q] = wire[q] /\ book'[q[1]] = book[q[1]]
               /\ Met(q[1])' = Met(q[1]) /\ Met(q[2])' = Met(q[2])
    BY <1>0, <1>a, <2>1, <2>2 DEF Met
  <2>3. \A q \in Pair : q \in S => wire'[q] = <<>>
    BY <2>1
  <2>4. Signed' = Signed
    BY <2>1 DEF Signed
  <2>5. \A q \in link' : q \in Pair /\ q \in link /\ q \notin S
    BY <1>0, <2>1
  <2> HIDE DEF S
  <2>6. \A q \in Pair : \A x \in Ask : In(x, wire'[q]) => x \in Signed'
    BY <1>d, <2>2, <2>3, <2>4 DEF GossipInv
  <2>7. ASSUME calm', NEW q \in Pair, NEW x \in Ask, In(x, wire'[q])
        PROVE  x \in Met(q[1])' \/ coinOf'[x] \in spending'
    BY <1>d, <2>1, <2>2, <2>3, <2>7 DEF GossipInv
  <2>8. ASSUME calm', NEW q \in link', NEW x \in book'[q[1]]
        PROVE  x \in Met(q[2])' \/ In(x, wire'[q]) \/ coinOf'[x] \in spending'
    BY <2>1, <2>2, <2>5, <2>8 DEF GossipInv
  <2>9. \A k \in Node : \A x \in book'[k] : coinOf'[x] \in seen'[k] \/ x \in missed'[k]
    BY <1>0, <1>e, <2>1
  <2> QED
    BY <2>6, <2>7, <2>8, <2>9 DEF GossipInv
<1>11. ASSUME NEW p \in Pair, ProcessXord(p[1], p[2]) PROVE GossipInv'
  <2> DEFINE a == Head(wire[p])
             n == p[2]
             f == p[1]
             relay == RelayAsk(n, a, f)
  <2>1. /\ wire[p] # <<>> /\ ValidateAsk(n, a)
        /\ AcceptAsk(n, a, coinOf[a])
        /\ wire' = [relay EXCEPT ![p] = Tail(@)]
        /\ UNCHANGED <<link, coinOf, spending, seen>>
    BY <1>a, <1>11 DEF ProcessXord
  <2>2. a \in Ask /\ a \in Signed /\ n \in Node /\ f \in Node /\ f # n /\ p = <<f, n>>
        /\ In(a, wire[p]) /\ coinOf'[a] \in seen[n]
    BY <1>a, <1>c, <2>1 DEF ValidateAsk
  <2>3. Signed' = Signed
    BY <2>1 DEF Signed
  <2>4. relay \in [Pair -> Seq(Ask)]
    BY <2>2, RelayType
  <2>5. /\ wire'[p] = Tail(wire[p])
        /\ \A q \in Pair \ {p} : wire'[q] = relay[q]
    <3>1. relay[p] = wire[p]
      BY <2>2 DEF RelayAsk
    <3> HIDE DEF relay
    <3> QED
      BY <2>1, <2>4, <3>1
  <2>6. \A q \in Pair : relay[q] = IF q[1] = n /\ q \in link /\ q[2] # f THEN Append(wire[q], a)
                                  ELSE wire[q]
    BY <1>a, <2>2 DEF RelayAsk, Peers
  <2> HIDE DEF a, n, f, relay
  <2>7. \A q \in Pair : \A x \in Ask : In(x, Append(wire[q], a)) <=> x = a \/ In(x, wire[q])
    BY <1>0, <2>2, InAppend
  <2>8. \A q \in Pair : \A x \in Ask :
           /\ In(x, wire'[q]) => In(x, wire[q]) \/ (x = a /\ q[1] = n)
           /\ In(x, wire[q]) => In(x, wire'[q]) \/ (x = a /\ q[2] = n)
    <3> TAKE q \in Pair
    <3>1. CASE q = p
      BY <1>c, <2>1, <2>5, <3>1 DEF a, n
    <3>2. CASE q # p
      BY <2>5, <2>6, <2>7, <3>2
    <3> QED
      BY <3>1, <3>2
  <2>9. \A q \in link : q[1] = n => In(a, wire'[q]) \/ q[2] = f
    <3> TAKE q \in link
    <3>1. q \in Pair /\ (q[1] = n => q # p)
      BY <1>0, <2>2
    <3> QED
      BY <2>2, <2>5, <2>6, <2>7, <3>1
  <2> QED
    BY <2>1, <2>2, <2>3, <2>8, <2>9, AcceptedStep
<1>12. ASSUME NEW n \in Node, NEW a \in Ask, NEW c \in Lists[a], PostAsk(n, a, c) PROVE GossipInv'
  <2>0. c \in Coin
    BY MarketAssumption
  <2>1. /\ coinOf[a] = NoCoin /\ coinOf' = [coinOf EXCEPT ![a] = c]
        /\ AcceptAsk(n, a, c)
        /\ wire' = RelayAsk(n, a, NoNode)
        /\ c \in seen[n]
        /\ UNCHANGED <<link, spending, seen>>
    BY <1>12 DEF PostAsk
  <2>2. /\ a \in Signed' /\ \A x \in Signed : x \in Signed' /\ coinOf'[x] = coinOf[x]
        /\ coinOf'[a] \in seen[n]
    BY <1>0, <2>0, <2>1, MarketAssumption DEF Signed
  <2>3. \A q \in Pair : wire'[q] = IF q[1] = n /\ q \in link THEN Append(wire[q], a)
                                   ELSE wire[q]
    <3>1. NoNode \notin Node
      BY MarketAssumption
    <3>2. ASSUME NEW q \in Pair, q[1] = n
          PROVE  q \in link <=> q[2] \in Peers(n) \ {NoNode}
      <4>1. q = <<n, q[2]>> /\ q[2] \in Node
        BY <1>a, <3>2
      <4> QED
        BY <3>1, <4>1 DEF Peers
    <3>3. ASSUME NEW q \in Pair
          PROVE  wire'[q] = IF q[1] = n /\ q[2] \in Peers(n) \ {NoNode} THEN Append(wire[q], a)
                            ELSE wire[q]
      BY <2>1 DEF RelayAsk
    <3> QED
      BY <3>2, <3>3
  <2>4. \A q \in Pair : \A x \in Ask : In(x, Append(wire[q], a)) <=> x = a \/ In(x, wire[q])
    BY <1>0, InAppend
  <2>5. /\ \A q \in Pair : \A x \in Ask :
              /\ In(x, wire'[q]) => In(x, wire[q]) \/ (x = a /\ q[1] = n)
              /\ In(x, wire[q]) => In(x, wire'[q]) \/ (x = a /\ q[2] = n)
        /\ \A q \in link : q[1] = n => In(a, wire'[q]) \/ q[2] = NoNode
    BY <1>0, <2>3, <2>4
  <2>6. NoNode \in Node => <<NoNode, n>> \in Pair /\ In(a, wire[<<NoNode, n>>])
    BY MarketAssumption
  <2>7. \A q \in link : q[1] = n => In(a, wire'[q]) \/ q[2] = NoNode
    BY <2>5
  <2> QED
    BY <2>1, <2>2, <2>5, <2>6, <2>7, AcceptedStep
<1>13. ASSUME NEW p \in Pair, Connect(p[1], p[2]) PROVE GossipInv'
  <2> DEFINE n == p[1]
             m == p[2]
             r == <<m, n>>
  <2>0. n \in Node /\ m \in Node /\ n # m /\ p = <<n, m>> /\ r \in Pair /\ r # p
    BY <1>a
  <2>1. /\ link' = link \cup {p, r}
        /\ wire' = [wire EXCEPT ![p] = PushBook(n), ![r] = PushBook(m)]
        /\ book' = [book EXCEPT ![n] = PruneSpent(n), ![m] = PruneSpent(m)]
        /\ calm' => calm /\ Cardinality(PruneSpent(n)) <= MaxPush
                         /\ Cardinality(PruneSpent(m)) <= MaxPush
        /\ UNCHANGED <<coinOf, spending, seen, missed>>
    BY <1>a, <1>13 DEF Connect
  <2>2. /\ wire'[p] = PushBook(n) /\ wire'[r] = PushBook(m)
        /\ \A q \in Pair : q # p /\ q # r => wire'[q] = wire[q]
    BY <1>0, <2>0, <2>1
  <2>3. /\ book'[n] = PruneSpent(n) /\ book'[m] = PruneSpent(m)
        /\ \A k \in Node : k # n /\ k # m => book'[k] = book[k]
    BY <1>0, <2>0, <2>1
  <2>4. Signed' = Signed
    BY <2>1 DEF Signed
  <2>5. r[1] = m /\ r[2] = n
    OBVIOUS
  <2> HIDE DEF n, m, r
  <2>6. \A k \in Node : /\ book'[k] \subseteq book[k]
                        /\ book'[k] \subseteq Met(k)'
                        /\ \A x \in Met(k) : x \in Met(k)' \/ coinOf'[x] \in spending'
    BY <1>b, <2>1, <2>3 DEF Met
  <2>7. \A k \in {n, m} :
           /\ \A x \in Ask : In(x, PushBook(k)) => x \in book'[k]
           /\ calm' => \A x \in book'[k] : In(x, PushBook(k))
    <3>1. ASSUME NEW k \in {n, m}
          PROVE  /\ k \in Node /\ book'[k] = PruneSpent(k)
                 /\ calm' => Cardinality(PruneSpent(k)) <= MaxPush
      BY <2>0, <2>1, <2>3
    <3> TAKE k \in {n, m}
    <3> HIDE DEF n, m
    <3> QED
      BY <3>1, PushedBook
  <2>8. \A q \in Pair : \A x \in Ask : In(x, wire'[q]) => x \in Signed'
    <3> TAKE q \in Pair
    <3>1. CASE q = p \/ q = r
      BY <1>0, <2>0, <2>2, <2>4, <2>6, <2>7, <3>1
    <3>2. CASE q # p /\ q # r
      BY <2>2, <2>4, <3>2 DEF GossipInv
    <3> QED
      BY <3>1, <3>2
  <2>9. ASSUME calm', NEW q \in Pair, NEW x \in Ask, In(x, wire'[q])
        PROVE  x \in Met(q[1])' \/ coinOf'[x] \in spending'
    <3>1. CASE q = p \/ q = r
      BY <2>0, <2>2, <2>5, <2>6, <2>7, <2>9, <3>1 DEF n
    <3>2. CASE q # p /\ q # r
      BY <1>a, <2>1, <2>2, <2>6, <2>9, <3>2 DEF GossipInv
    <3> QED
      BY <3>1, <3>2
  <2>10. ASSUME calm', NEW q \in link', NEW x \in book'[q[1]]
         PROVE  x \in Met(q[2])' \/ In(x, wire'[q]) \/ coinOf'[x] \in spending'
    <3>1. CASE q = p \/ q = r
      BY <2>0, <2>2, <2>5, <2>7, <2>10, <3>1 DEF n
    <3>2. CASE q # p /\ q # r
      <4>1. q \in link /\ q \in Pair /\ x \in book[q[1]]
        BY <1>0, <1>a, <2>1, <2>6, <3>2
      <4> QED
        BY <1>a, <2>1, <2>2, <2>6, <2>10, <3>2, <4>1 DEF GossipInv
    <3> QED
      BY <3>1, <3>2
  <2>11. \A k \in Node : \A x \in book'[k] : coinOf'[x] \in seen'[k] \/ x \in missed'[k]
    BY <1>e, <2>1, <2>6
  <2> QED
    BY <2>8, <2>9, <2>10, <2>11 DEF GossipInv
<1>14. CASE UNCHANGED vars
  BY <1>6, <1>e, <1>14 DEF vars
<1> QED
  BY <1>1, <1>2, <1>3, <1>5, <1>7, <1>8, <1>9, <1>10, <1>11, <1>12, <1>13, <1>14, <1>15
     DEF Next, Deliver

(* What one node offers its peers offer too once the wires are empty, for  *)
(* an ask of a coin that nobody spends and as long as no ask is replaced,  *)
(* dropped for want of room, kept out by RateOk or left out of a push:     *)
(* AcceptAsk's relay to all peers but the sender and the push of the book  *)
(* at verack suffice, over lost connections, restarts and late joiners, in *)
(* any network.  The peers left out are those whose chain did not have the *)
(* coin when the ask came or lost it in a reorganization.                  *)
THEOREM PeersComeToAgree == Spec => []PeersAgree
<1>1. Init => GossipInv
  <2> SUFFICES ASSUME Init PROVE GossipInv
    OBVIOUS
  <2>1. /\ \A p \in Pair : wire[p] = <<>>
        /\ \A p \in Pair : p[1] \in Node
        /\ \A n \in Node : book[n] = {}
        /\ link \subseteq Pair
    BY MarketAssumption DEF Init, Pair
  <2>2. \A p \in link : book[p[1]] = {}
    BY <2>1
  <2> QED
    BY <2>1, <2>2, InEmpty DEF GossipInv
<1>2. MarketTypes /\ GossipInv => PeersAgree
  <2> SUFFICES ASSUME MarketTypes, GossipInv, calm, \A p \in Pair : wire[p] = <<>>
               PROVE  \A p \in link : \A a \in book[p[1]] :
                          coinOf[a] \notin spending => a \in book[p[2]] \cup missed[p[2]]
    BY DEF PeersAgree
  <2>1. link \subseteq Pair
    BY DEF MarketTypes, TypeOK
  <2> QED
    BY <2>1, InEmpty DEF GossipInv, Met
<1> QED
  BY <1>1, <1>2, NextGossip, AlwaysTyped, BookInvariant, PTL DEF Spec
=============================================================================
