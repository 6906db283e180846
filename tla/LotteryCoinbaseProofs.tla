----------------------- MODULE LotteryCoinbaseProofs -----------------------
(***************************************************************************)
(* The draw is fair and the coinbase pays it, for every set of ids, every  *)
(* seed, every height and every coinbase a peer may present.               *)
(***************************************************************************)
EXTENDS LotteryCoinbase, OrderingProofs

Pay == [to : Nat, value : Int]

LEMMA ModRange == ASSUME NEW r \in Nat, NEW d \in Nat \ {0} PROVE r % d \in 0..(d - 1)
OBVIOUS

LEMMA ModSmall == ASSUME NEW r \in Nat, NEW d \in Nat \ {0}, r < d PROVE r % d = r
OBVIOUS

-----------------------------------------------------------------------------
(* What the operators defined by recursion compute.                        *)

LEMMA SubsidyType == ASSUME NEW h \in Nat PROVE GetBlockSubsidy(h) \in Nat
<1> DEFINE step == [x \in Nat \X (1..63) |-> x[1] \div 2]
           F(f) == [i \in 0..63 |-> IF i = 0 THEN InitialSubsidy ELSE f[i - 1] \div 2]
<1>0. InitialSubsidy \in Nat /\ Interval \in Nat \ {0}
  BY CoinbaseAssumption
<1>1. \E f : f = F(f)
  <2>1. step \in [Nat \X (1..63) -> Nat]
    OBVIOUS
  <2>2. \A d \in Nat : \A i \in 1..63 : step[<<d, i>>] = d \div 2
    OBVIOUS
  <2> HIDE DEF step
  <2>3. PICK f \in [0..63 -> Nat] : Steps(f, 63, InitialSubsidy, step)
    <3>1. 63 \in Nat /\ InitialSubsidy \in Nat
      BY <1>0
    <3> QED
      BY <2>1, <3>1, Iterated
  <2>4. \A i \in 0..63 : i # 0 => i \in 1..63 /\ f[i - 1] \in Nat
    OBVIOUS
  <2>5. f = F(f)
    BY <2>2, <2>3, <2>4 DEF Steps
  <2> QED
    BY <2>5
<1>2. Shifted = F(Shifted)
  BY <1>1 DEF Shifted
<1> DEFINE S == {i \in 0..63 : Shifted[i] \in Nat}
<1>3. 0..63 \subseteq S
  <2>1. 0 \in S
    BY <1>0, <1>2
  <2>2. ASSUME NEW i \in 0..(63 - 1), i \in S PROVE i + 1 \in S
    <3>1. i + 1 \in 0..63 /\ i + 1 # 0 /\ (i + 1) - 1 = i
      OBVIOUS
    <3>2. Shifted[i + 1] = Shifted[i] \div 2
      BY <1>2, <3>1
    <3> QED
      BY <2>2, <3>1, <3>2
  <2> HIDE DEF S
  <2> QED
    BY <2>1, <2>2, Upward
<1>4. h \div Interval \in Nat
  BY <1>0
<1> QED
  BY <1>3, <1>4 DEF GetBlockSubsidy

LEMMA PaidIsSum ==
    ASSUME NEW pays \in Seq(Pay)
    PROVE  \E f \in [0..Len(pays) -> Int] :
              /\ f[0] = 0
              /\ \A i \in 1..Len(pays) : f[i] = f[i - 1] + pays[i].value
              /\ Paid(pays) = f[Len(pays)]
<1> DEFINE n == Len(pays)
           step == [x \in Int \X (1..n) |-> x[1] + pays[x[2]].value]
           F(f) == [i \in 0..n |-> IF i = 0 THEN 0 ELSE f[i - 1] + pays[i].value]
           sum == CHOOSE f : f = F(f)
<1>0. n \in Nat /\ \A i \in 1..n : pays[i].value \in Int
  <2>1. n \in Nat /\ \A i \in 1..n : pays[i] \in Pay
    OBVIOUS
  <2> QED
    BY <2>1 DEF Pay
<1>1. \E f : f = F(f)
  <2>1. step \in [Int \X (1..n) -> Int]
    BY <1>0
  <2>2. \A d \in Int : \A i \in 1..n : step[<<d, i>>] = d + pays[i].value
    OBVIOUS
  <2> HIDE DEF step, n
  <2>3. PICK f \in [0..n -> Int] : Steps(f, n, 0, step)
    <3>1. n \in Nat /\ 0 \in Int
      BY <1>0
    <3> QED
      BY <2>1, <3>1, Iterated
  <2>4. \A i \in 0..n : i # 0 => i \in 1..n /\ f[i - 1] \in Int
    BY <1>0
  <2>5. f = F(f)
    BY <2>2, <2>3, <2>4 DEF Steps
  <2> QED
    BY <2>5
<1>2. sum = F(sum)
  BY <1>1
<1>3. Paid(pays) = sum[n]
  BY DEF Paid
<1> DEFINE S == {i \in 0..n : sum[i] \in Int}
<1> HIDE DEF sum, n
<1>4. 0..n \subseteq S
  <2>1. 0 \in S
    BY <1>0, <1>2
  <2>2. ASSUME NEW i \in 0..(n - 1), i \in S PROVE i + 1 \in S
    <3>1. i + 1 \in 0..n /\ i + 1 # 0 /\ (i + 1) - 1 = i /\ i + 1 \in 1..n
      BY <1>0
    <3>2. sum[i + 1] = sum[i] + pays[i + 1].value
      BY <1>2, <3>1
    <3> QED
      BY <1>0, <2>2, <3>1, <3>2
  <2> HIDE DEF S
  <2> QED
    BY <1>0, <2>1, <2>2, Upward
<1>5. sum \in [0..n -> Int] /\ sum[0] = 0 /\ \A i \in 1..n : sum[i] = sum[i - 1] + pays[i].value
  BY <1>0, <1>2, <1>4
<1> QED
  BY <1>3, <1>5 DEF n

\* The shuffle: every round swaps the next place with one from there on.
LEMMA PoolRounds ==
    ASSUME NEW active \in Seq(Nat), NEW k \in Nat, k < Len(active), NEW rs \in [1..k -> Nat]
    PROVE  LET n == Len(active)
               pool == Pools(active, rs, k)
           IN  /\ pool \in [0..k -> [1..n -> Nat]]
               /\ pool[0] = active
               /\ \A i \in 1..k : /\ Pick(rs[i], i, n) \in i..n
                                  /\ pool[i] = Swap(pool[i - 1], i, Pick(rs[i], i, n))
<1> DEFINE n == Len(active)
           D == [1..n -> Nat]
           idx == [i \in 1..k |-> Pick(rs[i], i, n)]
           step == [x \in D \X (1..k) |-> Swap(x[1], x[2], idx[x[2]])]
           F(f) == [i \in 0..k |-> IF i = 0 THEN active
                                   ELSE Swap(f[i - 1], i, Pick(rs[i], i, Len(active)))]
           pool == CHOOSE f : f = F(f)
<1>0. n \in Nat /\ k < n /\ active \in D
  OBVIOUS
<1>1. ASSUME NEW i \in 1..k PROVE Pick(rs[i], i, n) \in i..n
  <2>1. rs[i] \in Nat /\ n - i + 1 \in Nat \ {0}
    BY <1>0
  <2>2. rs[i] % (n - i + 1) \in 0..(n - i)
    <3> DEFINE r == rs[i]
               d == n - i + 1
    <3>1. r \in Nat /\ d \in Nat \ {0} /\ n - i = d - 1
      BY <1>0, <2>1
    <3> HIDE DEF r, d
    <3>2. r % d \in 0..(d - 1)
      BY <3>1, ModRange
    <3> QED
      BY <3>1, <3>2 DEF r, d
  <2>3. ASSUME NEW x \in 0..(n - i) PROVE x + i \in i..n
    BY <1>0
  <2>4. Pick(rs[i], i, n) = (rs[i] % (n - i + 1)) + i
    BY DEF Pick
  <2> HIDE DEF n
  <2> QED
    BY <2>2, <2>3, <2>4
<1>2. \A i \in 1..k : idx[i] = Pick(rs[i], i, n) /\ idx[i] \in i..n
  BY <1>1
<1> HIDE DEF n, idx
<1>3. ASSUME NEW d \in D, NEW i \in 1..k PROVE Swap(d, i, idx[i]) \in D
  <2>1. i \in 1..n /\ idx[i] \in 1..n
    BY <1>0, <1>2
  <2> QED
    BY <2>1 DEF Swap
<1>4. \E f : f = F(f)
  <2>1. step \in [D \X (1..k) -> D]
    BY <1>3
  <2>2. \A d \in D : \A i \in 1..k : step[<<d, i>>] = Swap(d, i, idx[i])
    OBVIOUS
  <2> HIDE DEF step, D
  <2>3. PICK f \in [0..k -> D] : Steps(f, k, active, step)
    BY <1>0, <2>1, Iterated
  <2>4. \A i \in 0..k : i # 0 => i \in 1..k /\ f[i - 1] \in D
    OBVIOUS
  <2>5. ASSUME NEW i \in 1..k PROVE f[i] = Swap(f[i - 1], i, Pick(rs[i], i, n))
    <3>1. f[i] = step[<<f[i - 1], i>>]
      BY <2>3 DEF Steps
    <3>2. f[i - 1] \in D
      OBVIOUS
    <3>3. step[<<f[i - 1], i>>] = Swap(f[i - 1], i, idx[i])
      BY <2>2, <3>2
    <3>4. idx[i] = Pick(rs[i], i, n)
      BY <1>2
    <3> QED
      BY <3>1, <3>3, <3>4, Zenon
  <2>6. f = F(f)
    BY <2>3, <2>4, <2>5 DEF Steps, n
  <2> QED
    BY <2>6
<1>5. pool = F(pool)
  BY <1>4
<1>6. Pools(active, rs, k) = pool
  BY DEF Pools
<1> DEFINE S == {i \in 0..k : pool[i] \in D}
<1> HIDE DEF pool, D
<1>7. pool[0] = active /\ \A i \in 1..k : pool[i] = Swap(pool[i - 1], i, idx[i])
  BY <1>2, <1>5 DEF n
<1>8. 0..k \subseteq S
  <2>1. 0 \in S
    BY <1>0, <1>7
  <2>2. ASSUME NEW i \in 0..(k - 1), i \in S PROVE i + 1 \in S
    <3>1. i + 1 \in 0..k /\ i + 1 # 0 /\ (i + 1) - 1 = i /\ i + 1 \in 1..k
      OBVIOUS
    <3>2. pool[i + 1] = Swap(pool[i], i + 1, idx[i + 1])
      BY <1>7, <3>1
    <3> QED
      BY <1>3, <2>2, <3>1, <3>2
  <2> HIDE DEF S
  <2> QED
    BY <2>1, <2>2, Upward
<1>9. pool \in [0..k -> D]
  BY <1>5, <1>8
<1> QED
  BY <1>1, <1>2, <1>6, <1>7, <1>9 DEF D, n

-----------------------------------------------------------------------------
(* The shuffle.                                                            *)

Different(s) == \A i, j \in 1..Len(s) : s[i] = s[j] => i = j

\* What a swap of place i with a later one does.
Swapped(n, d, i, j) ==
    /\ Swap(d, i, j) \in [1..n -> Nat]
    /\ Swap(d, i, j)[i] = d[j]
    /\ \A x \in 1..n : x < i => Swap(d, i, j)[x] = d[x]
    /\ (\A x, y \in 1..n : d[x] = d[y] => x = y)
          => \A x, y \in 1..n : Swap(d, i, j)[x] = Swap(d, i, j)[y] => x = y

LEMMA SwapKeeps ==
    ASSUME NEW n \in Nat, NEW d \in [1..n -> Nat], NEW i \in 1..n, NEW j \in i..n
    PROVE  Swapped(n, d, i, j)
<1>1. j \in 1..n /\ i <= j
  OBVIOUS
<1>2. \A x \in 1..n : Swap(d, i, j)[x] = IF x = j THEN d[i] ELSE IF x = i THEN d[j] ELSE d[x]
  BY <1>1 DEF Swap
<1>3. Swap(d, i, j) \in [1..n -> Nat]
  BY <1>1 DEF Swap
<1> QED
  BY <1>1, <1>2, <1>3 DEF Swapped

LEMMA Shuffle ==
    ASSUME NEW active \in Seq(Nat), NEW k \in Nat, k < Len(active), NEW rs \in [1..k -> Nat]
    PROVE  LET n == Len(active)
               pool == Pools(active, rs, k)
           IN  /\ \A i \in 0..k : \A j \in 1..i : pool[i][j] = pool[j][j]
               /\ \A i \in 1..k : pool[i][i] = pool[i - 1][Pick(rs[i], i, n)]
               /\ Different(active) =>
                     \A i \in 0..k : \A x, y \in 1..n : pool[i][x] = pool[i][y] => x = y
<1> DEFINE n == Len(active)
           pool == Pools(active, rs, k)
           idx(i) == Pick(rs[i], i, n)
<1>1. /\ pool \in [0..k -> [1..n -> Nat]] /\ pool[0] = active
      /\ \A i \in 1..k : idx(i) \in i..n /\ pool[i] = Swap(pool[i - 1], i, idx(i))
  BY PoolRounds
<1>0. n \in Nat /\ k < n
  OBVIOUS
<1> HIDE DEF n, pool, idx
<1>2. ASSUME NEW i \in 0..(k - 1)
      PROVE  /\ i + 1 \in 1..k /\ i + 1 \in 0..k
             /\ pool[i + 1][i + 1] = pool[i][idx(i + 1)]
             /\ \A j \in 1..i : pool[i + 1][j] = pool[i][j]
             /\ (\A x, y \in 1..n : pool[i][x] = pool[i][y] => x = y)
                   => \A x, y \in 1..n : pool[i + 1][x] = pool[i + 1][y] => x = y
  <2>1. i + 1 \in 1..k /\ i + 1 \in 0..k /\ (i + 1) - 1 = i /\ i + 1 \in 1..n
        /\ \A j \in 1..i : j \in 1..n /\ j < i + 1
    BY <1>0
  <2>2. pool[i] \in [1..n -> Nat] /\ idx(i + 1) \in (i + 1)..n
        /\ pool[i + 1] = Swap(pool[i], i + 1, idx(i + 1))
    BY <1>1, <2>1
  <2> DEFINE d == pool[i]
             a == i + 1
             b == idx(a)
  <2>3. d \in [1..n -> Nat] /\ a \in 1..n /\ b \in a..n
    BY <2>1, <2>2
  <2> HIDE DEF d, a, b
  <2>4. Swapped(n, d, a, b)
    BY <1>0, <2>3, SwapKeeps
  <2>5. pool[i + 1] = Swap(d, a, b)
    BY <2>2 DEF d, a, b
  <2> QED
    BY <2>1, <2>4, <2>5 DEF d, a, b, Swapped
<1>3. ASSUME NEW i \in 1..k PROVE pool[i][i] = pool[i - 1][idx(i)]
  <2>1. i - 1 \in 0..(k - 1) /\ (i - 1) + 1 = i
    OBVIOUS
  <2> QED
    BY <1>2, <2>1
<1> DEFINE S == {i \in 0..k : \A j \in 1..i : pool[i][j] = pool[j][j]}
           T == {i \in 0..k : \A x, y \in 1..n : pool[i][x] = pool[i][y] => x = y}
<1>4. 0..k \subseteq S
  <2>1. 0 \in S
    OBVIOUS
  <2>2. ASSUME NEW i \in 0..(k - 1), i \in S PROVE i + 1 \in S
    <3>1. ASSUME NEW j \in 1..(i + 1) PROVE pool[i + 1][j] = pool[j][j]
      <4>1. CASE j = i + 1
        BY <4>1
      <4>2. CASE j # i + 1
        <5>1. j \in 1..i
          BY <4>2
        <5> QED
          BY <1>2, <2>2, <5>1
      <4> QED
        BY <4>1, <4>2
    <3> QED
      BY <1>2, <3>1
  <2> HIDE DEF S
  <2> QED
    BY <2>1, <2>2, Upward
<1>5. Different(active) => 0..k \subseteq T
  <2> SUFFICES ASSUME Different(active) PROVE 0..k \subseteq T
    OBVIOUS
  <2>1. 0 \in T
    BY <1>1 DEF Different, n
  <2>2. ASSUME NEW i \in 0..(k - 1), i \in T PROVE i + 1 \in T
    BY <1>2, <2>2
  <2> HIDE DEF T
  <2> QED
    BY <2>1, <2>2, Upward
<1> QED
  BY <1>3, <1>4, <1>5 DEF pool, n, idx

\* A function on 1..n is a sequence.
LEMMA FunctionIsSeq == ASSUME NEW n \in Nat, NEW f \in [1..n -> Nat] PROVE f \in Seq(Nat)
  OBVIOUS

\* The winners are as many as there are to be, or all; and nobody wins twice.
LEMMA Winners ==
    ASSUME NEW active \in Seq(Nat), NEW k \in Nat \ {0}, NEW rs \in [1..k -> Nat]
    PROVE  LET winners == SelectWinners(active, rs, k)
           IN  /\ winners \in Seq(Nat)
               /\ Len(winners) = IF k >= Len(active) THEN Len(active) ELSE k
               /\ Different(active) => Different(winners)
               /\ k < Len(active) => \A i \in 1..k : winners[i] = Pools(active, rs, k)[i][i]
<1> DEFINE n == Len(active)
           winners == SelectWinners(active, rs, k)
           pool == Pools(active, rs, k)
<1>1. CASE k >= n
  BY <1>1 DEF SelectWinners
<1>2. CASE k < n
  <2>0. n \in Nat
    OBVIOUS
  <2>1. /\ pool \in [0..k -> [1..n -> Nat]]
        /\ \A i \in 0..k : \A j \in 1..i : pool[i][j] = pool[j][j]
        /\ Different(active) =>
              \A i \in 0..k : \A x, y \in 1..n : pool[i][x] = pool[i][y] => x = y
    <3>1. k \in Nat /\ k < Len(active)
      BY <1>2
    <3>2. pool \in [0..k -> [1..n -> Nat]]
      BY <3>1, PoolRounds
    <3>3. /\ \A i \in 0..k : \A j \in 1..i : pool[i][j] = pool[j][j]
          /\ Different(active) =>
                \A i \in 0..k : \A x, y \in 1..n : pool[i][x] = pool[i][y] => x = y
      BY <3>1, Shuffle
    <3> QED
      BY <3>2, <3>3
  <2> DEFINE last == pool[k]
  <2>2. winners = SubSeq(last, 1, k)
    BY <1>2, <2>0 DEF SelectWinners
  <2>3. /\ last \in [1..n -> Nat]
        /\ \A j \in 1..k : last[j] = pool[j][j]
        /\ Different(active) => \A x, y \in 1..n : last[x] = last[y] => x = y
    <3>1. k \in 0..k
      OBVIOUS
    <3> HIDE DEF pool, n
    <3> QED
      BY <2>1, <3>1
  <2> HIDE DEF last, pool
  <2>4. winners = [i \in 1..k |-> last[i]]
    <3> HIDE DEF n
    <3>1. last \in Seq(Nat)
      BY <2>0, <2>3, FunctionIsSeq
    <3> QED
      BY <1>2, <2>0, <2>2, <2>3, <3>1
  <2>5. \A i \in 1..k : i \in 1..n
    BY <1>2, <2>0
  <2> HIDE DEF winners, n
  <2>6. winners \in Seq(Nat) /\ Len(winners) = k /\ \A i \in 1..k : winners[i] = last[i]
    BY <2>3, <2>4, <2>5
  <2>7. Different(active) => Different(winners)
    BY <2>3, <2>5, <2>6 DEF Different
  <2> QED
    BY <1>2, <2>0, <2>3, <2>6, <2>7 DEF n, winners, pool
<1> QED
  BY <1>1, <1>2

\* Streams that are different for the draw draw different winners.
LEMMA StreamsDiffer ==
    ASSUME NEW active \in Seq(Nat), Different(active), NEW k \in Nat \ {0}, k < Len(active),
           NEW rs \in [1..k -> Nat], NEW qs \in [1..k -> Nat],
           \A i \in 1..k : rs[i] <= Len(active) - i /\ qs[i] <= Len(active) - i,
           SelectWinners(active, rs, k) = SelectWinners(active, qs, k)
    PROVE  rs = qs
<1> DEFINE n == Len(active)
           P == Pools(active, rs, k)
           Q == Pools(active, qs, k)
           S == {i \in 0..k : P[i] = Q[i] /\ \A j \in 1..i : rs[j] = qs[j]}
<1>0. n \in Nat /\ k < n /\ k \in Nat
  OBVIOUS
<1>1. /\ P \in [0..k -> [1..n -> Nat]] /\ Q \in [0..k -> [1..n -> Nat]]
      /\ P[0] = active /\ Q[0] = active
      /\ \A i \in 1..k : /\ Pick(rs[i], i, n) \in i..n /\ Pick(qs[i], i, n) \in i..n
                         /\ P[i] = Swap(P[i - 1], i, Pick(rs[i], i, n))
                         /\ Q[i] = Swap(Q[i - 1], i, Pick(qs[i], i, n))
  <2>1. k < Len(active) /\ k \in Nat
    BY <1>0
  <2>2. /\ P \in [0..k -> [1..n -> Nat]] /\ P[0] = active
        /\ \A i \in 1..k : /\ Pick(rs[i], i, n) \in i..n
                           /\ P[i] = Swap(P[i - 1], i, Pick(rs[i], i, n))
    BY <2>1, PoolRounds
  <2>3. /\ Q \in [0..k -> [1..n -> Nat]] /\ Q[0] = active
        /\ \A i \in 1..k : /\ Pick(qs[i], i, n) \in i..n
                           /\ Q[i] = Swap(Q[i - 1], i, Pick(qs[i], i, n))
    BY <2>1, PoolRounds
  <2> HIDE DEF n, P, Q
  <2> QED
    BY <2>2, <2>3
<1>2. /\ \A i \in 1..k : /\ P[i][i] = P[i - 1][Pick(rs[i], i, n)]
                         /\ Q[i][i] = Q[i - 1][Pick(qs[i], i, n)]
      /\ \A i \in 0..k : \A x, y \in 1..n : P[i][x] = P[i][y] => x = y
  <2>1. k < Len(active) /\ k \in Nat
    BY <1>0
  <2>2. \A i \in 1..k : P[i][i] = P[i - 1][Pick(rs[i], i, n)]
    BY <2>1, Shuffle
  <2>3. \A i \in 0..k : \A x, y \in 1..n : P[i][x] = P[i][y] => x = y
    <3>1. active \in Seq(Nat) /\ rs \in [1..k -> Nat] /\ Different(active)
      OBVIOUS
    <3> QED
      BY <2>1, <3>1, Shuffle, ZenonT(60)
  <2>4. \A i \in 1..k : Q[i][i] = Q[i - 1][Pick(qs[i], i, n)]
    BY <2>1, Shuffle
  <2> HIDE DEF n, P, Q
  <2> QED
    BY <2>2, <2>3, <2>4
<1>3. \A i \in 1..k : P[i][i] = Q[i][i]
  <2>1. \A i \in 1..k : SelectWinners(active, rs, k)[i] = P[i][i]
    BY Winners
  <2>2. \A i \in 1..k : SelectWinners(active, qs, k)[i] = Q[i][i]
    BY Winners
  <2> QED
    BY <2>1, <2>2
<1>4. \A i \in 1..k : Pick(rs[i], i, n) = rs[i] + i /\ Pick(qs[i], i, n) = qs[i] + i
  <2>1. ASSUME NEW i \in 1..k, NEW r \in Nat, r <= n - i PROVE Pick(r, i, n) = r + i
    <3>1. n - i + 1 \in Nat \ {0} /\ r < n - i + 1
      BY <1>0, <2>1
    <3>2. r % (n - i + 1) = r
      BY <3>1, ModSmall
    <3> QED
      BY <3>2 DEF Pick
  <2> QED
    BY <2>1
<1> HIDE DEF P, Q, n
<1>5. 0..k \subseteq S
  <2>1. 0 \in S
    BY <1>1
  <2>2. ASSUME NEW i \in 0..(k - 1), i \in S PROVE i + 1 \in S
    <3> DEFINE m == i + 1
    <3>0. m \in 1..k /\ m \in 0..k /\ m - 1 = i /\ \A j \in 1..m : j = m \/ j \in 1..i
      OBVIOUS
    <3>1. P[i] = Q[i] /\ i \in 0..k /\ \A j \in 1..i : rs[j] = qs[j]
      BY <2>2
    <3> HIDE DEF m
    <3>2. Pick(rs[m], m, n) \in 1..n /\ Pick(qs[m], m, n) \in 1..n
      <4>1. Pick(rs[m], m, n) \in m..n /\ Pick(qs[m], m, n) \in m..n
        BY <1>1, <3>0
      <4>2. ASSUME NEW x \in m..n PROVE x \in 1..n
        BY <1>0, <3>0
      <4> QED
        BY <4>1, <4>2
    <3>3. P[i][Pick(rs[m], m, n)] = P[i][Pick(qs[m], m, n)]
      <4>1. /\ P[m][m] = P[m - 1][Pick(rs[m], m, n)]
            /\ Q[m][m] = Q[m - 1][Pick(qs[m], m, n)]
            /\ P[m][m] = Q[m][m]
        BY <1>2, <1>3, <3>0
      <4> QED
        BY <3>0, <3>1, <4>1, Zenon
    <3>4. Pick(rs[m], m, n) = Pick(qs[m], m, n)
      BY <1>2, <3>1, <3>2, <3>3
    <3>5. rs[m] = qs[m]
      <4>1. rs[m] \in Nat /\ qs[m] \in Nat /\ m \in Nat
        BY <3>0
      <4>2. rs[m] + m = qs[m] + m
        BY <1>4, <3>0, <3>4
      <4>3. \A x, y, z \in Nat : x + z = y + z => x = y
        OBVIOUS
      <4> QED
        BY <4>1, <4>2, <4>3
    <3>6. P[m] = Q[m]
      BY <1>1, <3>0, <3>1, <3>4
    <3> QED
      BY <3>0, <3>1, <3>5, <3>6 DEF m
  <2> HIDE DEF S
  <2> QED
    BY <1>0, <2>1, <2>2, Upward
<1>6. \A i \in 1..k : rs[i] = qs[i]
  <2>1. k \in S
    BY <1>0, <1>5
  <2> QED
    BY <2>1
<1> QED
  BY <1>6

-----------------------------------------------------------------------------
(* The split.                                                              *)

LEMMA DivMod ==
    ASSUME NEW t \in Nat, NEW n \in Nat \ {0}
    PROVE  /\ t \div n \in Nat /\ t % n \in 0..(n - 1)
           /\ n * (t \div n) \in Nat /\ t = n * (t \div n) + (t % n)
OBVIOUS

LEMMA OneMore ==
    ASSUME NEW q \in Nat, NEW i \in Nat
    PROVE  i * q \in Nat /\ (i + 1) * q = i * q + q /\ 0 * q = 0
OBVIOUS

\* The share of the winner i of n.
Share(total, n, i) == (total \div n) + (IF i <= total % n THEN 1 ELSE 0)

LEMMA Shares ==
    ASSUME NEW total \in Nat, NEW n \in Nat \ {0}
    PROVE  /\ SplitReward(total, n) = <<>> <=> total = 0
           /\ \A i \in 1..n : /\ Share(total, n, i) \in Nat
                              /\ (IF SplitReward(total, n) = <<>> THEN 0
                                  ELSE SplitReward(total, n)[i]) = Share(total, n, i)
<1> DEFINE q == total \div n
           r == total % n
           parts == [i \in 1..n |-> q + (IF i <= r THEN 1 ELSE 0)]
<1>1. q \in Nat /\ r \in Nat
  BY DivMod
<1>2. total = 0 => q = 0 /\ r = 0
  BY ModSmall
<1>3. total = 0 => SplitReward(total, n) = <<>>
  BY DEF SplitReward
<1>4. total # 0 => SplitReward(total, n) = parts
  BY DEF SplitReward
<1>5. \A i \in 1..n : Share(total, n, i) = q + (IF i <= r THEN 1 ELSE 0)
  BY DEF Share
<1> HIDE DEF q, r
<1>6. parts \in Seq(Nat) /\ Len(parts) = n /\ parts # <<>>
  <2>1. parts \in Seq(Nat) /\ Len(parts) = n
    BY <1>1
  <2> HIDE DEF parts
  <2> QED
    BY <2>1
<1>7. \A i \in 1..n : i > 0
  OBVIOUS
<1> QED
  BY <1>1, <1>2, <1>3, <1>4, <1>5, <1>6, <1>7

\* What a coinbase of this node pays.
LEMMA PayoutsPay ==
    ASSUME NEW winners \in Seq(Nat), winners # <<>>, NEW total \in Nat, fees \in Nat
    PROVE  LET n == Len(winners)
               pays == Payouts(winners, SplitReward(total, n))
           IN  /\ pays \in Seq(Pay) /\ Len(pays) = n
               /\ \A i \in 1..n :
                     /\ pays[i].to \in {winners[i], 0}
                     /\ pays[i].value = Share(total, n, i) + (IF i = 1 THEN fees ELSE 0)
               /\ Paid(pays) = total + fees
<1> DEFINE n == Len(winners)
           parts == SplitReward(total, n)
           pays == Payouts(winners, parts)
           fee(i) == IF i = 1 THEN fees ELSE 0
<1>0. n \in Nat \ {0}
  OBVIOUS
<1>1. \A i \in 1..n : /\ Share(total, n, i) \in Nat
                      /\ (IF parts = <<>> THEN 0 ELSE parts[i]) = Share(total, n, i)
  BY <1>0, Shares
<1> HIDE DEF n, parts
<1>2. pays = [i \in 1..n |-> [to |-> IF winners[i] \in registered THEN winners[i] ELSE 0,
                              value |-> Share(total, n, i) + fee(i)]]
  BY <1>1 DEF Payouts, n
<1> HIDE DEF pays
<1>3. \A i \in 1..n : pays[i] \in Pay
  BY <1>1, <1>2 DEF Pay, n
<1>4. pays \in Seq(Pay) /\ Len(pays) = n
  BY <1>0, <1>2, <1>3
<1>5. \A i \in 1..n : /\ pays[i].to \in {winners[i], 0}
                      /\ pays[i].value = Share(total, n, i) + fee(i)
  BY <1>2
<1>6. PICK f \in [0..n -> Int] :
          /\ f[0] = 0 /\ \A i \in 1..n : f[i] = f[i - 1] + pays[i].value
          /\ Paid(pays) = f[n]
  BY <1>4, PaidIsSum
<1> DEFINE q == total \div n
           r == total % n
           S == {i \in 0..n : f[i] = i * q + (IF i <= r THEN i ELSE r)
                                      + (IF i >= 1 THEN fees ELSE 0)}
<1>7. q \in Nat /\ r \in 0..(n - 1) /\ n * q \in Nat /\ total = n * q + r
  BY <1>0, DivMod
<1>8. \A i \in 1..n : Share(total, n, i) = q + (IF i <= r THEN 1 ELSE 0)
  BY DEF Share
<1> HIDE DEF q, r
<1>9. 0..n \subseteq S
  <2>1. 0 \in S
    BY <1>0, <1>6, <1>7, OneMore
  <2>2. ASSUME NEW i \in 0..(n - 1), i \in S PROVE i + 1 \in S
    <3>1. /\ i + 1 \in 1..n /\ i + 1 \in 0..n /\ (i + 1) - 1 = i
          /\ i * q \in Nat /\ (i + 1) * q = i * q + q
      BY <1>0, <1>7, OneMore
    <3>2. f[i + 1] = f[i] + (q + (IF i + 1 <= r THEN 1 ELSE 0)) + fee(i + 1)
      <4>1. f[i + 1] = f[i] + pays[i + 1].value
        BY <1>6, <3>1
      <4>2. pays[i + 1].value = q + (IF i + 1 <= r THEN 1 ELSE 0) + fee(i + 1)
        BY <1>5, <1>8, <3>1
      <4>3. f[i] \in Int
        BY <1>0, <1>6
      <4>4. fee(i + 1) \in Int /\ (IF i + 1 <= r THEN 1 ELSE 0) \in Int
        BY <1>0, <1>7
      <4> DEFINE one == IF i + 1 <= r THEN 1 ELSE 0
                 due == fee(i + 1)
                 before == f[i]
      <4>5. /\ before \in Int /\ one \in Int /\ due \in Int /\ q \in Int
            /\ f[i + 1] = before + (q + one + due)
        BY <1>7, <4>1, <4>2, <4>3, <4>4
      <4> HIDE DEF one, due, before
      <4>6. f[i + 1] = before + (q + one) + due
        BY <4>5
      <4> QED
        BY <4>6 DEF one, due, before
    <3>3. f[i] = i * q + (IF i <= r THEN i ELSE r) + (IF i >= 1 THEN fees ELSE 0)
      BY <2>2
    <3> DEFINE a == i * q
    <3>4. a \in Nat /\ (i + 1) * q = a + q
      BY <3>1
    <3> HIDE DEF a
    <3>5. f[i + 1] = (a + q) + (IF i + 1 <= r THEN i + 1 ELSE r)
                       + (IF i + 1 >= 1 THEN fees ELSE 0)
      BY <1>0, <1>7, <3>2, <3>3, <3>4 DEF a
    <3> QED
      BY <3>1, <3>4, <3>5
  <2> HIDE DEF S
  <2> QED
    BY <1>0, <2>1, <2>2, Upward
<1>10. Paid(pays) = total + fees
  <2>1. f[n] = n * q + (IF n <= r THEN n ELSE r) + (IF n >= 1 THEN fees ELSE 0)
    BY <1>0, <1>9
  <2>2. ~(n <= r) /\ n >= 1
    BY <1>0, <1>7
  <2>3. f[n] = n * q + r + fees
    BY <2>1, <2>2
  <2> QED
    BY <1>6, <1>7, <2>3
<1> QED
  BY <1>4, <1>5, <1>10 DEF pays, parts, n

\* One output.
LEMMA PaidSingle == ASSUME NEW v \in Int, NEW to \in Nat PROVE Paid(<<[to |-> to, value |-> v]>>) = v
<1> DEFINE pays == <<[to |-> to, value |-> v]>>
<1>1. pays \in Seq(Pay) /\ Len(pays) = 1 /\ pays[1].value = v
  BY DEF Pay
<1> HIDE DEF pays
<1>2. PICK f \in [0..1 -> Int] :
          /\ f[0] = 0 /\ \A i \in 1..1 : f[i] = f[i - 1] + pays[i].value
          /\ Paid(pays) = f[1]
  BY <1>1, PaidIsSum
<1>3. f[1] = f[0] + pays[1].value
  BY <1>2
<1> QED
  BY <1>1, <1>2, <1>3 DEF pays

-----------------------------------------------------------------------------
(* Every arrangement is drawn.                                             *)

\* No round loses an id.
LEMMA PoolContents ==
    ASSUME NEW active \in Seq(Nat), NEW k \in Nat, k < Len(active), NEW rs \in [1..k -> Nat]
    PROVE  \A i \in 0..k : \A x \in 1..Len(active) :
               \E y \in 1..Len(active) : Pools(active, rs, k)[i][y] = active[x]
<1> SUFFICES ASSUME NEW x \in 1..Len(active)
             PROVE  \A i \in 0..k : \E y \in 1..Len(active) : Pools(active, rs, k)[i][y] = active[x]
  OBVIOUS
<1> DEFINE n == Len(active)
           pool == Pools(active, rs, k)
           idx(m) == Pick(rs[m], m, n)
           S == {m \in 0..k : \E y \in 1..n : pool[m][y] = active[x]}
<1>0. n \in Nat /\ k < n
  OBVIOUS
<1>1. /\ pool \in [0..k -> [1..n -> Nat]] /\ pool[0] = active
      /\ \A m \in 1..k : idx(m) \in m..n /\ pool[m] = Swap(pool[m - 1], m, idx(m))
  BY PoolRounds
<1> HIDE DEF n, pool, idx
<1>2. 0 \in S
  BY <1>1 DEF n
<1>3. ASSUME NEW m \in 0..(k - 1), m \in S PROVE m + 1 \in S
  <2>1. m + 1 \in 1..k /\ m + 1 \in 0..k /\ (m + 1) - 1 = m /\ m + 1 \in 1..n /\ m \in 0..k
    BY <1>0
  <2> DEFINE d == pool[m]
             a == m + 1
             b == idx(a)
  <2>2. d \in [1..n -> Nat] /\ a \in 1..n /\ b \in a..n /\ pool[m + 1] = Swap(d, a, b)
    BY <1>1, <2>1
  <2> HIDE DEF d, a, b
  <2>3. b \in 1..n
    BY <1>0, <2>2
  <2>4. \A y \in 1..n : Swap(d, a, b)[y] = IF y = b THEN d[a] ELSE IF y = a THEN d[b] ELSE d[y]
    BY <2>2, <2>3 DEF Swap
  <2>5. PICK y \in 1..n : d[y] = active[x]
    BY <1>3 DEF d
  <2>6. \E z \in 1..n : Swap(d, a, b)[z] = active[x]
    BY <2>2, <2>3, <2>4, <2>5
  <2> QED
    BY <2>1, <2>2, <2>6
<1>4. 0..k \subseteq S
  <2> HIDE DEF S
  <2> QED
    BY <1>2, <1>3, Upward
<1> QED
  BY <1>4 DEF n, pool

\* The first rounds read only the first numbers of the stream.
LEMMA PoolsAgree ==
    ASSUME NEW active \in Seq(Nat), NEW k \in Nat, k < Len(active),
           NEW rs \in [1..k -> Nat], NEW qs \in [1..k -> Nat],
           NEW i \in 0..k, \A m \in 1..i : rs[m] = qs[m]
    PROVE  Pools(active, rs, k)[i] = Pools(active, qs, k)[i]
<1> DEFINE n == Len(active)
           P == Pools(active, rs, k)
           Q == Pools(active, qs, k)
           S == {m \in 0..i : P[m] = Q[m]}
<1>1. /\ P[0] = active
      /\ \A m \in 1..k : P[m] = Swap(P[m - 1], m, Pick(rs[m], m, n))
  BY PoolRounds
<1>2. /\ Q[0] = active
      /\ \A m \in 1..k : Q[m] = Swap(Q[m - 1], m, Pick(qs[m], m, n))
  BY PoolRounds
<1> HIDE DEF n, P, Q
<1>3. 0 \in S
  BY <1>1, <1>2
<1>4. ASSUME NEW m \in 0..(i - 1), m \in S PROVE m + 1 \in S
  <2>1. m + 1 \in 1..k /\ m + 1 \in 1..i /\ m + 1 \in 0..i /\ (m + 1) - 1 = m
    OBVIOUS
  <2>2. rs[m + 1] = qs[m + 1] /\ P[m] = Q[m]
    BY <1>4, <2>1
  <2>3. P[m + 1] = Swap(P[m], m + 1, Pick(rs[m + 1], m + 1, n))
        /\ Q[m + 1] = Swap(Q[m], m + 1, Pick(qs[m + 1], m + 1, n))
    BY <1>1, <1>2, <2>1
  <2> QED
    BY <2>1, <2>2, <2>3
<1>5. 0..i \subseteq S
  <2>1. i \in Nat
    OBVIOUS
  <2> HIDE DEF S
  <2> QED
    BY <1>3, <1>4, <2>1, Upward
<1> QED
  BY <1>5 DEF P, Q

\* What the rounds do, in one place.
Rounds(active, k, rs, pool) ==
    /\ pool \in [0..k -> [1..Len(active) -> Nat]]
    /\ \A i \in 1..k : pool[i] = Swap(pool[i - 1], i, Pick(rs[i], i, Len(active)))
    /\ \A j \in 1..k : pool[k][j] = pool[j][j]
    /\ \A i \in 0..k : \A x \in 1..Len(active) : \E y \in 1..Len(active) : pool[i][y] = active[x]

LEMMA AllRounds ==
    ASSUME NEW active \in Seq(Nat), NEW k \in Nat, k < Len(active), NEW rs \in [1..k -> Nat]
    PROVE  Rounds(active, k, rs, Pools(active, rs, k))
<1> DEFINE pool == Pools(active, rs, k)
<1>1. /\ pool \in [0..k -> [1..Len(active) -> Nat]]
      /\ \A i \in 1..k : pool[i] = Swap(pool[i - 1], i, Pick(rs[i], i, Len(active)))
  BY PoolRounds
<1>2. \A i \in 0..k : \A j \in 1..i : pool[i][j] = pool[j][j]
  BY Shuffle
<1>3. \A i \in 0..k : \A x \in 1..Len(active) : \E y \in 1..Len(active) : pool[i][y] = active[x]
  BY PoolContents
<1> HIDE DEF pool
<1>4. \A j \in 1..k : pool[k][j] = pool[j][j]
  BY <1>2
<1>5. Rounds(active, k, rs, pool)
  BY <1>1, <1>3, <1>4 DEF Rounds
<1> QED
  BY <1>5 DEF pool

\* The numbers that are different for a draw of k of n.
Streams(n, k) == {rs \in [1..k -> 0..n - 1] : \A i \in 1..k : rs[i] <= n - i}

\* An arrangement of k different ids of the hat.
Arrangement(w, k, active) ==
    /\ w \in [1..k -> Nat]
    /\ \A i, j \in 1..k : w[i] = w[j] => i = j
    /\ \A i \in 1..k : \E x \in 1..Len(active) : w[i] = active[x]

\* Every arrangement of k ids is drawn by some stream: round by round the number
\* that moves the next id to its place is among those the round tells apart.
LEMMA EveryArrangement ==
    ASSUME NEW active \in Seq(Nat), NEW k \in Nat \ {0}, k < Len(active),
           NEW w, Arrangement(w, k, active)
    PROVE  \E rs \in Streams(Len(active), k) : SelectWinners(active, rs, k) = w
<1> DEFINE n == Len(active)
           pool(rs) == Pools(active, rs, k)
           S == {i \in 0..k : \E rs \in Streams(n, k) : \A j \in 1..i : pool(rs)[i][j] = w[j]}
<1>0. n \in Nat /\ k < n /\ k \in Nat
  OBVIOUS
<1>1. \A rs \in Streams(n, k) : rs \in [1..k -> Nat]
  BY <1>0 DEF Streams
<1>10. \A rs \in Streams(n, k) : Rounds(active, k, rs, pool(rs))
  BY <1>1, AllRounds
<1>2. 0 \in S
  <2>1. [i \in 1..k |-> 0] \in Streams(n, k)
    BY <1>0 DEF Streams
  <2> HIDE DEF pool
  <2> QED
    BY <1>0, <2>1
<1>3. ASSUME NEW i \in 0..(k - 1), i \in S PROVE i + 1 \in S
  <2>0. /\ i \in 0..k /\ i + 1 \in 1..k /\ i + 1 \in 0..k /\ (i + 1) - 1 = i
        /\ i + 1 \in 1..n /\ i \in Nat
    BY <1>0
  <2>1. PICK rs \in Streams(n, k) : \A j \in 1..i : pool(rs)[i][j] = w[j]
    BY <1>3
  <2> DEFINE d == pool(rs)[i]
             a == i + 1
  <2> HIDE DEF n, pool
  <2>2. d \in [1..n -> Nat] /\ \A x \in 1..n : \E y \in 1..n : d[y] = active[x]
    <3>1. Rounds(active, k, rs, pool(rs))
      BY <1>10
    <3> QED
      BY <2>0, <3>1 DEF Rounds, n
  <2>3. PICK p \in 1..n : d[p] = w[a]
    <3>1. PICK x \in 1..n : w[a] = active[x]
      BY <2>0 DEF Arrangement, n
    <3> QED
      BY <2>2, <3>1
  <2> HIDE DEF d
  <2>4. p >= a
    <3> SUFFICES ASSUME p < a PROVE FALSE
      BY <1>0, <2>0
    <3>1. p \in 1..i /\ p \in 1..k
      BY <1>0, <2>0
    <3>2. w[p] = w[a]
      BY <2>1, <2>3, <3>1 DEF d
    <3> QED
      BY <2>0, <3>1, <3>2 DEF Arrangement
  <2> DEFINE qs == [rs EXCEPT ![a] = p - a]
  <2>5. qs \in Streams(n, k) /\ qs[a] = p - a /\ \A m \in 1..i : rs[m] = qs[m]
    <3>1. p - a \in 0..(n - 1) /\ p - a <= n - a
      BY <1>0, <2>0, <2>3, <2>4
    <3>2. rs \in [1..k -> 0..n - 1] /\ \A m \in 1..k : rs[m] <= n - m
      BY DEF Streams
    <3>3. qs \in [1..k -> 0..n - 1]
      BY <2>0, <3>1, <3>2
    <3>4. \A m \in 1..k : qs[m] = IF m = a THEN p - a ELSE rs[m]
      BY <2>0, <3>2
    <3>5. \A m \in 1..i : m \in 1..k /\ m # a
      BY <1>0, <2>0
    <3> HIDE DEF qs
    <3> QED
      BY <2>0, <3>1, <3>2, <3>3, <3>4, <3>5 DEF Streams
  <2> HIDE DEF qs
  <2>6. pool(qs)[i] = d
    <3>0. rs \in [1..k -> Nat]
      BY <1>1
    <3>1. qs \in [1..k -> Nat] /\ i \in 0..k /\ \A m \in 1..i : rs[m] = qs[m]
      BY <1>1, <2>0, <2>5
    <3>2. Pools(active, rs, k)[i] = Pools(active, qs, k)[i]
      BY <1>0, <3>0, <3>1, PoolsAgree DEF n
    <3> QED
      BY <3>2 DEF pool, d
  <2>7. pool(qs)[a] = Swap(d, a, p)
    <3>1. pool(qs)[a] = Swap(pool(qs)[a - 1], a, Pick(qs[a], a, n))
      <4>1. Rounds(active, k, qs, pool(qs))
        BY <1>10, <2>5
      <4> QED
        BY <2>0, <4>1 DEF Rounds, n
    <3>2. (p - a) % (n - a + 1) = p - a
      <4>1. p - a \in Nat /\ n - a + 1 \in Nat \ {0} /\ p - a < n - a + 1
        BY <1>0, <2>0, <2>3, <2>4
      <4> QED
        BY <4>1, ModSmall
    <3>3. Pick(p - a, a, n) = p
      <4>1. Pick(p - a, a, n) = (p - a) + a
        BY <3>2 DEF Pick
      <4> QED
        BY <1>0, <2>0, <2>3, <4>1
    <3> QED
      BY <2>0, <2>5, <2>6, <3>1, <3>3
  <2>8. Swapped(n, d, a, p)
    <3>1. a \in 1..n /\ p \in a..n
      BY <1>0, <2>0, <2>3, <2>4
    <3> HIDE DEF a
    <3> QED
      BY <1>0, <2>2, <3>1, SwapKeeps
  <2>9. ASSUME NEW j \in 1..a PROVE pool(qs)[a][j] = w[j]
    <3>1. CASE j = a
      BY <2>3, <2>7, <2>8, <3>1 DEF Swapped
    <3>2. CASE j # a
      <4>1. j \in 1..i /\ j < a /\ j \in 1..n
        BY <1>0, <2>0, <3>2
      <4>2. d[j] = w[j]
        BY <2>1, <4>1 DEF d
      <4> QED
        BY <2>7, <2>8, <4>1, <4>2 DEF Swapped
    <3> QED
      BY <3>1, <3>2
  <2> QED
    BY <2>0, <2>5, <2>9
<1>4. 0..k \subseteq S
  <2> HIDE DEF S
  <2> QED
    BY <1>0, <1>2, <1>3, Upward
<1>5. PICK rs \in Streams(n, k) : \A j \in 1..k : pool(rs)[k][j] = w[j]
  <2>1. k \in S
    <3> HIDE DEF S
    <3> QED
      BY <1>0, <1>4
  <2> HIDE DEF pool, n
  <2> QED
    BY <2>1
<1> DEFINE winners == SelectWinners(active, rs, k)
<1>6. /\ winners \in Seq(Nat) /\ Len(winners) = k
      /\ \A j \in 1..k : winners[j] = pool(rs)[j][j]
  <2>1. rs \in [1..k -> Nat]
    BY <1>1
  <2>2. ~(k >= Len(active))
    BY <1>0
  <2> QED
    BY <2>1, <2>2, Winners
<1>7. \A j \in 1..k : pool(rs)[k][j] = pool(rs)[j][j]
  BY <1>10 DEF Rounds
<1> HIDE DEF winners, pool, n
<1>8. winners = w
  <2>1. winners \in [1..k -> Nat]
    <3>1. winners \in [1..Len(winners) -> Nat]
      BY <1>6
    <3> QED
      BY <1>6, <3>1
  <2>2. \A j \in 1..k : winners[j] = w[j]
    BY <1>5, <1>6, <1>7
  <2> QED
    BY <2>1, <2>2 DEF Arrangement
<1> QED
  BY <1>8 DEF winners, n

-----------------------------------------------------------------------------
(* The inductive invariant.                                                *)

Sorted(s) == \A i \in 1..Len(s) - 1 : s[i] < s[i + 1]

\* The draw is of the sorted ids in the hat.
DrawInv ==
    draw # Absent =>
        /\ draw.active \in Seq(Nat) /\ Sorted(draw.active) /\ Different(draw.active)
        /\ \A i \in 1..Len(draw.active) : attest => draw.active[i] \in stamped
        /\ draw.winners = SelectWinners(draw.active, stream, WinnerCount(height))

\* The coinbase that this node assembled: what it claims, and that it pays the
\* draw that it commits to and the seed signed.
OwnInv ==
    own =>
        /\ draw # Absent
        /\ Paid(coinbase.pays) = GetBlockSubsidy(height) + fees
        /\ draw.winners = <<>> => coinbase.xhb = Absent
        /\ draw.winners # <<>> =>
              /\ coinbase.xhb = draw.active
              /\ attest => coinbase.xva = draw.active
              /\ attest /\ baked => coinbase.xsd = draw.active /\ draw.active \in signed
              /\ attest /\ ~baked => coinbase.xsd = Absent
              /\ Len(coinbase.pays) = Len(draw.winners)
              /\ \A i \in 1..Len(draw.winners) :
                    /\ coinbase.pays[i].to \in {draw.winners[i], 0}
                    /\ coinbase.pays[i].value = Share(GetBlockSubsidy(height), Len(draw.winners), i)
                                                   + (IF i = 1 THEN fees ELSE 0)

TheWinners == SelectWinners(coinbase.xhb, stream, WinnerCount(height))
TheParts == SplitReward(GetBlockSubsidy(height), Len(TheWinners))

\* The verdict is the check's, of this coinbase.
VerdictInv ==
    verdict # Absent =>
        /\ coinbase # Absent
        /\ verdict = "accepted" <=> /\ Committed(coinbase) /\ TheParts # <<>>
                                    /\ PaysDraw(coinbase, TheWinners, TheParts)

CoinbaseInv ==
    /\ attest \in BOOLEAN /\ height \in Nat \ {0} /\ fees \in Nat
    /\ stream \in [1..WinnerCount(height) -> Nat]
    /\ registered \subseteq Id
    /\ coinbase # Absent => /\ coinbase.xhb # Absent => coinbase.xhb \in Seq(Nat)
                            /\ coinbase.pays \in Seq(Pay)
    /\ DrawInv /\ OwnInv /\ VerdictInv

LEMMA CountType == ASSUME NEW h \in Nat PROVE WinnerCount(h) \in Nat \ {0}
<1>1. h \div Interval \in Nat
  BY CoinbaseAssumption
<1> QED
  BY <1>1 DEF WinnerCount

\* In a sorted commitment no id is twice.
LEMMA SortedDiffer == ASSUME NEW s \in Seq(Nat), Sorted(s) PROVE Different(s)
<1> DEFINE n == Len(s)
<1>0. n \in Nat /\ \A i \in 1..n : s[i] \in Nat
  OBVIOUS
<1>1. ASSUME NEW i \in 1..n, NEW j \in 1..n, i < j PROVE s[i] < s[j]
  <2> DEFINE S == {d \in 0..(n - i) : d = 0 \/ s[i] < s[i + d]}
  <2>0. n - i \in Nat
    BY <1>0
  <2>1. 0 \in S
    BY <2>0
  <2>2. ASSUME NEW d \in 0..((n - i) - 1), d \in S PROVE d + 1 \in S
    <3>1. i + d \in 1..(n - 1) /\ d + 1 \in 0..(n - i) /\ (i + d) + 1 = i + (d + 1)
          /\ i + d \in 1..n /\ (i + d) + 1 \in 1..n
      BY <1>0
    <3>2. s[i + d] < s[(i + d) + 1]
      BY <3>1 DEF Sorted
    <3>3. s[i] \in Nat /\ s[i + d] \in Nat /\ s[(i + d) + 1] \in Nat
      BY <1>0, <3>1
    <3>4. d = 0 => i + d = i
      BY <1>0
    <3>5. d = 0 \/ s[i] < s[i + d]
      BY <2>2
    <3>6. s[i] < s[(i + d) + 1]
      <4>1. CASE d = 0
        BY <3>2, <3>4, <4>1
      <4>2. CASE s[i] < s[i + d]
        <5> DEFINE a == s[i]
                   b == s[i + d]
                   c == s[(i + d) + 1]
        <5>1. a \in Nat /\ b \in Nat /\ c \in Nat /\ a < b /\ b < c
          BY <3>2, <3>3, <4>2
        <5> HIDE DEF a, b, c
        <5>2. a < c
          BY <5>1
        <5> QED
          BY <5>2 DEF a, c
      <4> QED
        BY <3>5, <4>1, <4>2
    <3> QED
      BY <3>1, <3>6
  <2>3. 0..(n - i) \subseteq S
    <3> HIDE DEF S, n
    <3> QED
      BY <2>0, <2>1, <2>2, Upward
  <2>4. j - i \in 0..(n - i) /\ j - i # 0 /\ i + (j - i) = j
    BY <1>0, <1>1
  <2> HIDE DEF n
  <2> QED
    BY <2>3, <2>4
<1>2. \A x, y \in 1..n : x < y \/ y < x \/ x = y
  BY <1>0
<1>3. \A x \in Nat : ~(x < x)
  OBVIOUS
<1> HIDE DEF n
<1> QED
  BY <1>0, <1>1, <1>2, <1>3 DEF Different, n

\* The draw, and that its winners are a sequence of ids.
LEMMA DrawnWinners ==
    ASSUME CoinbaseInv, NEW ids \in Seq(Nat)
    PROVE  LET winners == SelectWinners(ids, stream, WinnerCount(height))
           IN  /\ winners \in Seq(Nat)
               /\ Len(winners) = IF WinnerCount(height) >= Len(ids) THEN Len(ids)
                                 ELSE WinnerCount(height)
               /\ Different(ids) => Different(winners)
               /\ winners = <<>> <=> ids = <<>>
<1> DEFINE k == WinnerCount(height)
           winners == SelectWinners(ids, stream, k)
<1>1. k \in Nat \ {0} /\ stream \in [1..k -> Nat]
  BY CountType DEF CoinbaseInv
<1>2. /\ winners \in Seq(Nat)
      /\ Len(winners) = IF k >= Len(ids) THEN Len(ids) ELSE k
      /\ Different(ids) => Different(winners)
  <2> HIDE DEF k
  <2> QED
    BY <1>1, Winners
<1> HIDE DEF k, winners
<1>3. winners = <<>> <=> ids = <<>>
  <2>1. winners = <<>> <=> Len(winners) = 0
    BY <1>2
  <2>2. ids = <<>> <=> Len(ids) = 0
    OBVIOUS
  <2>3. Len(ids) \in Nat
    OBVIOUS
  <2> QED
    BY <1>1, <1>2, <2>1, <2>2, <2>3
<1> QED
  BY <1>2, <1>3 DEF k, winners

\* The checks read the coinbase and what does not change.
LEMMA SameVerdict ==
    ASSUME UNCHANGED <<attest, height, stream, stamped, signed, coinbase>>
    PROVE  /\ Committed(coinbase)' <=> Committed(coinbase)
           /\ TheWinners' = TheWinners /\ TheParts' = TheParts
           /\ PaysDraw(coinbase, TheWinners, TheParts)' <=> PaysDraw(coinbase, TheWinners, TheParts)
<1>1. TheWinners' = TheWinners /\ TheParts' = TheParts
  BY DEF TheWinners, TheParts
<1>2. Committed(coinbase)' <=> Committed(coinbase)
  BY DEF Committed, ParseActiveSetCommitment, CheckXvaForIds, CheckSeedBlockCommitment
<1>3. PaysDraw(coinbase, TheWinners, TheParts)' <=> PaysDraw(coinbase, TheWinners, TheParts)
  BY <1>1 DEF PaysDraw
<1> QED
  BY <1>1, <1>2, <1>3

LEMMA VerdictKept ==
    ASSUME VerdictInv, UNCHANGED <<attest, height, stream, stamped, signed, coinbase, verdict>>
    PROVE  VerdictInv'
BY SameVerdict DEF VerdictInv

LEMMA ComputeDrawStep == ASSUME CoinbaseInv, ComputeDraw PROVE CoinbaseInv'
<1> DEFINE hat == {id \in registered : attest => id \in stamped}
           active == InOrder(hat)
<1>1. /\ draw = Absent /\ coinbase = Absent
      /\ draw' = [active |-> active,
                  winners |-> SelectWinners(active, stream, WinnerCount(height))]
      /\ UNCHANGED <<attest, baked, height, fees, stream, stamped>>
      /\ UNCHANGED <<registered, signed, coinbase, own, verdict>>
  BY DEF ComputeDraw, inputs
<1>2. hat \in SUBSET Nat /\ IsFiniteSet(hat)
  <2>1. registered \subseteq Id /\ IsFiniteSet(Id) /\ Id \subseteq Nat
    BY CoinbaseAssumption DEF CoinbaseInv
  <2>2. hat \subseteq Id
    BY <2>1
  <2> HIDE DEF hat
  <2> QED
    BY <2>1, <2>2, FS_Subset
<1>3. \A id \in hat : attest => id \in stamped
  OBVIOUS
<1> HIDE DEF hat
<1>4. /\ Cardinality(hat) \in Nat
      /\ active \in Seq(hat) /\ Len(active) = Cardinality(hat)
      /\ \A i, j \in 1..Cardinality(hat) : i < j => active[i] < active[j]
  BY <1>2, InOrderSorts
<1> HIDE DEF active
<1>5. /\ active \in Seq(Nat) /\ Sorted(active)
      /\ \A i \in 1..Len(active) : attest => active[i] \in stamped
  <2>1. \A i \in 1..Len(active) : active[i] \in hat
    BY <1>4
  <2>2. active \in Seq(Nat)
    <3>1. \A i \in 1..Len(active) : active[i] \in Nat
      BY <1>2, <2>1
    <3>2. active = [i \in 1..Len(active) |-> active[i]] /\ Len(active) \in Nat
      BY <1>4
    <3> QED
      BY <3>1, <3>2
  <2>3. ASSUME NEW i \in 1..(Len(active) - 1) PROVE active[i] < active[i + 1]
    <3>1. i \in 1..Cardinality(hat) /\ i + 1 \in 1..Cardinality(hat) /\ i < i + 1
      BY <1>4
    <3> QED
      BY <1>4, <3>1
  <2> QED
    BY <1>3, <2>1, <2>2, <2>3 DEF Sorted
<1>6. Different(active)
  BY <1>5, SortedDiffer
<1>7. DrawInv'
  <2>1. draw'.active = active
        /\ draw'.winners = SelectWinners(active, stream', WinnerCount(height'))
    BY <1>1
  <2> QED
    BY <1>1, <1>5, <1>6, <2>1 DEF DrawInv
<1>8. OwnInv'
  BY <1>1 DEF OwnInv, CoinbaseInv
<1>9. VerdictInv'
  BY <1>1, VerdictKept DEF CoinbaseInv
<1> QED
  BY <1>1, <1>7, <1>8, <1>9 DEF CoinbaseInv

LEMMA ApplyStep == ASSUME CoinbaseInv, ApplyCoinbasePayouts PROVE CoinbaseInv'
<1> DEFINE subsidy == GetBlockSubsidy(height)
           parts == SplitReward(subsidy, Len(draw.winners))
<1>0. /\ draw # Absent /\ coinbase = Absent /\ verdict = Absent
      /\ UNCHANGED <<attest, baked, height, fees, stream, stamped>>
      /\ UNCHANGED <<registered, draw, verdict>> /\ own'
  BY DEF ApplyCoinbasePayouts, CoinbaseInv, VerdictInv, inputs
<1>1. /\ draw.active \in Seq(Nat) /\ draw.winners \in Seq(Nat) /\ subsidy \in Nat /\ fees \in Nat
  <2>1. /\ draw.active \in Seq(Nat) /\ height \in Nat /\ fees \in Nat
        /\ draw.winners = SelectWinners(draw.active, stream, WinnerCount(height))
    BY <1>0 DEF CoinbaseInv, DrawInv
  <2> QED
    BY <2>1, DrawnWinners, SubsidyType
<1>2. DrawInv' /\ VerdictInv'
  BY <1>0 DEF CoinbaseInv, DrawInv, VerdictInv
<1>3. CASE draw.winners = <<>>
  <2> DEFINE pays == <<[to |-> 0, value |-> subsidy + fees]>>
  <2>1. coinbase' = [xhb |-> Absent, xva |-> Absent, xsd |-> Absent, pays |-> pays]
    BY <1>3 DEF ApplyCoinbasePayouts
  <2>2. pays \in Seq(Pay)
    <3>1. [to |-> 0, value |-> subsidy + fees] \in Pay
      BY <1>1 DEF Pay
    <3> QED
      BY <3>1
  <2>3. Paid(pays) = subsidy + fees
    <3>1. subsidy + fees \in Int /\ 0 \in Nat
      BY <1>1
    <3> HIDE DEF subsidy
    <3> QED
      BY <3>1, PaidSingle
  <2> HIDE DEF pays
  <2>4. coinbase'.pays = pays /\ coinbase'.xhb = Absent
    BY <2>1
  <2>5. OwnInv'
    BY <1>0, <1>3, <2>3, <2>4 DEF OwnInv
  <2> QED
    BY <1>0, <1>2, <2>2, <2>4, <2>5 DEF CoinbaseInv
<1>4. CASE draw.winners # <<>>
  <2> DEFINE pays == Payouts(draw.winners, parts)
             n == Len(draw.winners)
  <2> DEFINE xva == IF attest THEN draw.active ELSE Absent
             xsd == IF attest /\ baked THEN draw.active ELSE Absent
  <2>1. /\ coinbase' = [xhb |-> draw.active, xva |-> xva, xsd |-> xsd, pays |-> pays]
        /\ signed' = signed \cup {ids \in {draw.active} : attest /\ baked}
    BY <1>4 DEF ApplyCoinbasePayouts
  <2>2. /\ pays \in Seq(Pay) /\ Len(pays) = n
        /\ \A i \in 1..n :
              /\ pays[i].to \in {draw.winners[i], 0}
              /\ pays[i].value = Share(subsidy, n, i) + (IF i = 1 THEN fees ELSE 0)
        /\ Paid(pays) = subsidy + fees
    <3> HIDE DEF subsidy
    <3> QED
      BY <1>1, <1>4, PayoutsPay
  <2> HIDE DEF pays
  <2>3. /\ coinbase'.pays = pays /\ coinbase'.xhb = draw.active
        /\ coinbase'.xva = xva /\ coinbase'.xsd = xsd
    BY <2>1
  <2>4. attest /\ baked => draw.active \in signed'
    BY <2>1
  <2>5. OwnInv'
    BY <1>0, <1>4, <2>2, <2>3, <2>4 DEF OwnInv
  <2> QED
    BY <1>0, <1>1, <1>2, <2>2, <2>3, <2>5 DEF CoinbaseInv
<1> QED
  BY <1>3, <1>4

LEMMA CheckStep == ASSUME CoinbaseInv, CheckLotteryCoinbase PROVE CoinbaseInv'
<1>1. /\ coinbase # Absent /\ verdict = Absent
      /\ verdict' = CASE ~Committed(coinbase) -> "rejected"
                      [] Committed(coinbase) /\ TheParts = <<>> ->
                            IF coinbase.pays[1].to = TheWinners[1] THEN "crash" ELSE "rejected"
                      [] Committed(coinbase) /\ TheParts # <<>> ->
                            IF PaysDraw(coinbase, TheWinners, TheParts) THEN "accepted" ELSE "rejected"
      /\ UNCHANGED <<attest, baked, height, fees, stream, stamped>>
      /\ UNCHANGED <<registered, draw, signed, coinbase, own>>
  BY DEF CheckLotteryCoinbase, TheWinners, TheParts, inputs
<1>2. verdict' = "accepted" <=> /\ Committed(coinbase) /\ TheParts # <<>>
                                /\ PaysDraw(coinbase, TheWinners, TheParts)
  BY <1>1
<1>3. VerdictInv'
  BY <1>1, <1>2, SameVerdict DEF VerdictInv
<1>4. DrawInv' /\ OwnInv'
  BY <1>1 DEF CoinbaseInv, DrawInv, OwnInv
<1> QED
  BY <1>1, <1>3, <1>4 DEF CoinbaseInv

LEMMA AlwaysCoinbaseInv == Spec => []CoinbaseInv
<1>1. Init => CoinbaseInv
  <2> SUFFICES ASSUME Init PROVE CoinbaseInv
    OBVIOUS
  <2>1. height \in Nat \ {0} /\ fees \in Nat /\ attest \in BOOLEAN
    BY CoinbaseAssumption DEF Init
  <2>2. stream \in [1..WinnerCount(height) -> Nat]
    BY CoinbaseAssumption DEF Init
  <2>3. DrawInv /\ OwnInv /\ VerdictInv
    BY DEF Init, DrawInv, OwnInv, VerdictInv
  <2> QED
    BY <2>1, <2>2, <2>3 DEF Init, CoinbaseInv
<1>2. CoinbaseInv /\ [Next]_vars => CoinbaseInv'
  <2> SUFFICES ASSUME CoinbaseInv, [Next]_vars PROVE CoinbaseInv'
    OBVIOUS
  <2>1. CASE ComputeDraw
    BY <2>1, ComputeDrawStep
  <2>2. ASSUME UNCHANGED <<attest, baked, height, fees, stream, stamped>>,
               UNCHANGED <<draw, signed, coinbase, own, verdict>>, registered' \subseteq Id
        PROVE  CoinbaseInv'
    <3>1. DrawInv' /\ OwnInv'
      BY <2>2 DEF CoinbaseInv, DrawInv, OwnInv
    <3>2. VerdictInv'
      BY <2>2, VerdictKept DEF CoinbaseInv
    <3> QED
      BY <2>2, <3>1, <3>2 DEF CoinbaseInv
  <2>3. ASSUME NEW id \in Id, TicketDropped(id) PROVE CoinbaseInv'
    BY <2>2, <2>3 DEF TicketDropped, inputs, CoinbaseInv
  <2>4. CASE ApplyCoinbasePayouts
    BY <2>4, ApplyStep
  <2>5. ASSUME NEW cb \in PeerCoinbases, ReceiveCoinbase(cb.xhb, cb.pays) PROVE CoinbaseInv'
    <3>1. PICK xsd : coinbase' = [xhb |-> cb.xhb, xva |-> cb.xhb, xsd |-> xsd, pays |-> cb.pays]
      BY <2>5 DEF ReceiveCoinbase
    <3>2. coinbase'.xhb = cb.xhb /\ coinbase'.pays = cb.pays
      BY <3>1
    <3>3. /\ own' = FALSE /\ verdict' = Absent /\ draw' = Absent
          /\ UNCHANGED <<attest, baked, height, fees, stream, stamped, registered>>
      BY <2>5 DEF ReceiveCoinbase, inputs
    <3>4. /\ cb.xhb # Absent => cb.xhb \in Seq(Nat)
          /\ cb.pays \in Seq(Pay)
      BY CoinbaseAssumption DEF Pay
    <3>5. DrawInv' /\ OwnInv' /\ VerdictInv'
      BY <3>3 DEF DrawInv, OwnInv, VerdictInv
    <3> QED
      BY <3>2, <3>3, <3>4, <3>5 DEF CoinbaseInv
  <2>6. CASE CheckLotteryCoinbase
    BY <2>6, CheckStep
  <2>7. CASE UNCHANGED vars
    BY <2>2, <2>7 DEF vars, CoinbaseInv
  <2> QED
    BY <2>1, <2>3, <2>4, <2>5, <2>6, <2>7 DEF Next
<1> QED
  BY <1>1, <1>2, PTL DEF Spec

-----------------------------------------------------------------------------
(* The theorems.                                                           *)

\* What an accepted coinbase pays, and that its winners are different.
LEMMA AcceptedPays ==
    ASSUME CoinbaseInv, verdict = "accepted"
    PROVE  /\ Committed(coinbase)
           /\ coinbase.xhb \in Seq(Nat) /\ coinbase.pays \in Seq(Pay)
           /\ GetBlockSubsidy(height) \in Nat \ {0}
           /\ TheWinners \in Seq(Nat) /\ Len(TheWinners) \in Nat \ {0}
           /\ Len(coinbase.pays) = Len(TheWinners)
           /\ Different(TheWinners)
           /\ Paid(coinbase.pays) \in Int /\ Paid(coinbase.pays) >= GetBlockSubsidy(height)
           /\ \A i \in 1..Len(TheWinners) :
                 /\ coinbase.pays[i].to = TheWinners[i]
                 /\ coinbase.pays[i].value =
                       Share(GetBlockSubsidy(height), Len(TheWinners), i)
                          + (IF i = 1 THEN Paid(coinbase.pays) - GetBlockSubsidy(height) ELSE 0)
<1> DEFINE subsidy == GetBlockSubsidy(height)
           n == Len(TheWinners)
<1>1. /\ verdict # Absent /\ coinbase # Absent /\ Committed(coinbase) /\ TheParts # <<>>
      /\ PaysDraw(coinbase, TheWinners, TheParts)
  BY CoinbaseAssumption DEF CoinbaseInv, VerdictInv
<1>2. /\ coinbase.xhb # Absent /\ Sorted(coinbase.xhb) /\ coinbase.xhb # <<>>
      /\ Len(coinbase.pays) = n
      /\ Paid(coinbase.pays) \in subsidy..MaxMoney
  BY <1>1 DEF Committed, ParseActiveSetCommitment, Sorted, TheWinners
<1>3. coinbase.xhb \in Seq(Nat) /\ coinbase.pays \in Seq(Pay) /\ height \in Nat
  BY <1>1, <1>2 DEF CoinbaseInv
<1>4. Different(coinbase.xhb)
  BY <1>2, <1>3, SortedDiffer
<1>5. TheWinners \in Seq(Nat) /\ Different(TheWinners) /\ TheWinners # <<>>
  BY <1>2, <1>3, <1>4, DrawnWinners DEF TheWinners
<1>6. n \in Nat \ {0}
  BY <1>5
<1>7. subsidy \in Nat
  BY <1>3, SubsidyType
<1> HIDE DEF n, subsidy
<1>8. subsidy # 0 /\ \A i \in 1..n : TheParts[i] = Share(subsidy, n, i)
  <2>1. TheParts = SplitReward(subsidy, n)
    BY DEF TheParts, subsidy, n
  <2> QED
    BY <1>1, <1>6, <1>7, <2>1, Shares
<1>9. Paid(coinbase.pays) \in Int /\ Paid(coinbase.pays) >= subsidy
  BY <1>2, <1>7, CoinbaseAssumption
<1>10. \A i \in 1..n :
          /\ coinbase.pays[i].to = TheWinners[i]
          /\ coinbase.pays[i].value = Share(subsidy, n, i)
                                        + (IF i = 1 THEN Paid(coinbase.pays) - subsidy ELSE 0)
  BY <1>1, <1>8 DEF PaysDraw, subsidy, n
<1> QED
  BY <1>1, <1>2, <1>3, <1>5, <1>6, <1>7, <1>8, <1>9, <1>10 DEF n, subsidy

(* On main and test, whoever presents the coinbase and whatever it says,   *)
(* CheckLotteryCoinbase accepts it only if it pays, in the order of the    *)
(* draw, the winners drawn by SelectWinners from a set of stamped ids that *)
(* the seed signed for this height and parent.                             *)
THEOREM OnlySignedDraws == Spec => []OnlyTheSignedDrawIsPaid
<1>1. CoinbaseInv => OnlyTheSignedDrawIsPaid
  <2> SUFFICES ASSUME CoinbaseInv, attest, verdict = "accepted"
               PROVE  /\ coinbase.xhb \in signed
                      /\ Range(coinbase.xhb) \subseteq stamped
                      /\ [i \in 1..Len(coinbase.pays) |-> coinbase.pays[i].to] = TheWinners
    BY DEF OnlyTheSignedDrawIsPaid, TheWinners
  <2>1. /\ Committed(coinbase) /\ coinbase.xhb \in Seq(Nat)
        /\ TheWinners \in Seq(Nat) /\ Len(coinbase.pays) = Len(TheWinners)
        /\ \A i \in 1..Len(TheWinners) : coinbase.pays[i].to = TheWinners[i]
    BY AcceptedPays
  <2>2. /\ coinbase.xsd = coinbase.xhb /\ coinbase.xsd \in signed
        /\ \A i \in 1..Len(coinbase.xhb) : coinbase.xhb[i] \in stamped
    BY <2>1 DEF Committed, CheckXvaForIds, CheckSeedBlockCommitment
  <2>3. Range(coinbase.xhb) \subseteq stamped
    <3>1. DOMAIN coinbase.xhb = 1..Len(coinbase.xhb)
      BY <2>1
    <3> QED
      BY <2>2, <3>1 DEF Range
  <2>4. [i \in 1..Len(coinbase.pays) |-> coinbase.pays[i].to] = TheWinners
    BY <2>1
  <2> QED
    BY <2>2, <2>3, <2>4
<1> QED
  BY <1>1, AlwaysCoinbaseInv, PTL

(* No coinbase that CheckLotteryCoinbase accepts pays an id twice, also    *)
(* where blocks carry no signature: the commitment is strictly sorted and  *)
(* the shuffle only permutes it.                                           *)
THEOREM WinnersArePaidOnce == Spec => []NobodyPaidTwice
<1>1. CoinbaseInv => NobodyPaidTwice
  <2> SUFFICES ASSUME CoinbaseInv, verdict = "accepted",
                      NEW i \in 1..Len(coinbase.pays), NEW j \in 1..Len(coinbase.pays),
                      coinbase.pays[i].to = coinbase.pays[j].to
               PROVE  i = j
    BY DEF NobodyPaidTwice
  <2>1. /\ Len(coinbase.pays) = Len(TheWinners) /\ Different(TheWinners)
        /\ \A x \in 1..Len(TheWinners) : coinbase.pays[x].to = TheWinners[x]
    BY AcceptedPays
  <2> QED
    BY <2>1 DEF Different
<1> QED
  BY <1>1, AlwaysCoinbaseInv, PTL

(* An accepted coinbase pays the subsidy to the last unit in shares that   *)
(* differ by at most one, the larger ones first; what it pays beyond goes  *)
(* to the first winner, and is the fees in a coinbase of this node: the    *)
(* parts of SplitReward sum up to the subsidy for every number of winners. *)
THEOREM SplitIsEven == Spec => []SubsidySplitEvenly
<1>1. CoinbaseInv => SubsidySplitEvenly
  <2> SUFFICES ASSUME CoinbaseInv, verdict = "accepted" PROVE SubsidySplitEvenly
    BY DEF SubsidySplitEvenly
  <2> DEFINE subsidy == GetBlockSubsidy(height)
             n == Len(TheWinners)
             paid == Paid(coinbase.pays)
             surplus == paid - subsidy
             share(i) == coinbase.pays[i].value - (IF i = 1 THEN surplus ELSE 0)
  <2>1. /\ subsidy \in Nat /\ n \in Nat \ {0} /\ Len(coinbase.pays) = n
        /\ paid \in Int /\ paid >= subsidy
        /\ \A i \in 1..n : coinbase.pays[i].value = Share(subsidy, n, i)
                                                       + (IF i = 1 THEN paid - subsidy ELSE 0)
    BY AcceptedPays
  <2>2. own => paid = subsidy + fees /\ fees \in Nat
    BY DEF CoinbaseInv, OwnInv
  <2> HIDE DEF n, subsidy, paid
  <2>3. surplus \in Int /\ surplus >= 0 /\ (own => surplus = fees)
    BY <2>1, <2>2
  <2> DEFINE q == subsidy \div n
             r == subsidy % n
  <2>4. q \in Nat /\ r \in Nat
    <3>1. subsidy \in Nat /\ n \in Nat \ {0}
      BY <2>1
    <3> QED
      BY <3>1
  <2>5. \A i \in 1..n : share(i) = q + (IF i <= r THEN 1 ELSE 0)
    <3> TAKE i \in 1..n
    <3>1. coinbase.pays[i].value = q + (IF i <= r THEN 1 ELSE 0) + (IF i = 1 THEN surplus ELSE 0)
      BY <2>1 DEF Share
    <3> HIDE DEF q, r, surplus
    <3> QED
      BY <2>3, <2>4, <3>1
  <2> HIDE DEF q, r, share, surplus
  <2>6. ASSUME NEW i \in 1..n, NEW j \in 1..n, i < j PROVE share(i) - share(j) \in 0..1
    <3>1. i \in Int /\ j \in Int
      BY <2>1
    <3>2. share(i) = q + (IF i <= r THEN 1 ELSE 0) /\ share(j) = q + (IF j <= r THEN 1 ELSE 0)
      BY <2>5
    <3> QED
      BY <2>4, <2>6, <3>1, <3>2
  <2> QED
    BY <2>1, <2>3, <2>6 DEF SubsidySplitEvenly, surplus, share, paid, subsidy
<1> QED
  BY <1>1, AlwaysCoinbaseInv, PTL

(* The draw is fair: the winners that SelectWinners draws are different,   *)
(* streams that differ for it draw differently, and every arrangement of   *)
(* as many ids is drawn, whatever the hat: each has one stream of those.   *)
THEOREM FairDraw == Spec => []DrawIsFair
<1>1. CoinbaseInv => DrawIsFair
  <2> DEFINE k == WinnerCount(height)
             active == draw.active
             Drawn(rs) == SelectWinners(active, rs, k)
  <2> SUFFICES ASSUME CoinbaseInv, draw # Absent, k < Len(active)
               PROVE  /\ \A rs, qs \in Streams(Len(active), k) :
                             IsInjective(Drawn(rs)) /\ (Drawn(rs) = Drawn(qs) => rs = qs)
                      /\ \A w \in [1..k -> Range(active)] :
                             IsInjective(w) => \E rs \in Streams(Len(active), k) : Drawn(rs) = w
    BY DEF DrawIsFair, Streams
  <2>1. active \in Seq(Nat) /\ Different(active) /\ k \in Nat \ {0}
    BY CountType DEF CoinbaseInv, DrawInv
  <2> HIDE DEF k, active
  <2>2. \A rs \in Streams(Len(active), k) :
            rs \in [1..k -> Nat] /\ \A i \in 1..k : rs[i] <= Len(active) - i
    BY <2>1 DEF Streams
  <2>3. ASSUME NEW rs \in Streams(Len(active), k) PROVE IsInjective(Drawn(rs))
    <3>1. Drawn(rs) \in Seq(Nat) /\ Different(Drawn(rs))
      BY <2>1, <2>2, Winners
    <3> HIDE DEF Drawn
    <3>2. DOMAIN Drawn(rs) = 1..Len(Drawn(rs))
      BY <3>1
    <3> QED
      BY <3>1, <3>2 DEF IsInjective, Different
  <2>4. ASSUME NEW rs \in Streams(Len(active), k), NEW qs \in Streams(Len(active), k),
               Drawn(rs) = Drawn(qs)
        PROVE  rs = qs
    <3>1. /\ rs \in [1..k -> Nat] /\ qs \in [1..k -> Nat]
          /\ \A i \in 1..k : rs[i] <= Len(active) - i /\ qs[i] <= Len(active) - i
      BY <2>2
    <3> QED
      BY <2>1, <2>4, <3>1, StreamsDiffer
  <2>5. ASSUME NEW w \in [1..k -> Range(active)], IsInjective(w)
        PROVE  \E rs \in Streams(Len(active), k) : Drawn(rs) = w
    <3>1. \A i \in 1..k : \E x \in 1..Len(active) : w[i] = active[x]
      <4>1. \A v \in Range(active) : \E x \in 1..Len(active) : v = active[x]
        BY <2>1 DEF Range
      <4> HIDE DEF Drawn
      <4> QED
        BY <4>1
    <3>2. w \in [1..k -> Nat]
      <4>1. \A x \in 1..Len(active) : active[x] \in Nat
        BY <2>1
      <4>2. \A i \in 1..k : w[i] \in Nat
        BY <3>1, <4>1
      <4>3. w = [i \in 1..k |-> w[i]]
        OBVIOUS
      <4> QED
        BY <4>2, <4>3
    <3>3. \A i, j \in 1..k : w[i] = w[j] => i = j
      BY <2>5 DEF IsInjective
    <3>4. Arrangement(w, k, active)
      BY <3>1, <3>2, <3>3 DEF Arrangement
    <3> QED
      BY <2>1, <3>4, EveryArrangement
  <2> QED
    BY <2>3, <2>4, <2>5
<1> QED
  BY <1>1, AlwaysCoinbaseInv, PTL

(* A block of this node passes its own CheckLotteryCoinbase exactly when   *)
(* blocks need no seed's signature or it is the seed, the hat is not empty *)
(* and holds no more ids than a commitment may, every winner's script was  *)
(* found, and the subsidy has not run out and stays in the range of money: *)
(* the coinbase that ApplyCoinbasePayouts writes and the one the check     *)
(* expects are computed apart, and agree for every hat, stream, height and *)
(* fees.                                                                   *)
THEOREM OwnBlocksAreAccepted == Spec => []OwnBlockAccepted
<1>1. ASSUME CoinbaseInv, own, verdict = "accepted"
      PROVE  /\ attest => baked
             /\ Len(draw.active) \in 1..MaxCommit
             /\ \A i \in 1..Len(coinbase.pays) : coinbase.pays[i].to = draw.winners[i]
             /\ GetBlockSubsidy(height) > 0 /\ GetBlockSubsidy(height) + fees <= MaxMoney
  <2>1. /\ Committed(coinbase) /\ coinbase.xhb \in Seq(Nat)
        /\ GetBlockSubsidy(height) \in Nat \ {0}
        /\ Len(coinbase.pays) = Len(TheWinners)
        /\ \A i \in 1..Len(TheWinners) : coinbase.pays[i].to = TheWinners[i]
    BY <1>1, AcceptedPays
  <2>2. coinbase.xhb = draw.active /\ draw # Absent
        /\ Paid(coinbase.pays) = GetBlockSubsidy(height) + fees
    BY <1>1, <2>1, CoinbaseAssumption DEF CoinbaseInv, OwnInv
  <2>3. Len(draw.active) <= MaxCommit /\ draw.active # <<>> /\ draw.active \in Seq(Nat)
    BY <2>1, <2>2 DEF Committed, ParseActiveSetCommitment
  <2>4. Len(draw.active) \in 1..MaxCommit
    <3>1. Len(draw.active) \in Nat \ {0}
      BY <2>3
    <3> QED
      BY <2>3, <3>1, CoinbaseAssumption
  <2>5. TheWinners = draw.winners
    BY <1>1, <2>2 DEF CoinbaseInv, DrawInv, TheWinners
  <2>6. Paid(coinbase.pays) \in GetBlockSubsidy(height)..MaxMoney
    BY <2>1 DEF Committed
  <2>7. attest => baked
    <3>1. draw.winners # <<>>
      BY <1>1, <2>1, CoinbaseAssumption DEF CoinbaseInv, OwnInv
    <3>2. attest => coinbase.xsd = coinbase.xhb
      BY <2>1 DEF Committed, CheckSeedBlockCommitment
    <3> QED
      BY <1>1, <2>1, <3>1, <3>2, CoinbaseAssumption DEF CoinbaseInv, OwnInv
  <2> QED
    BY <2>1, <2>2, <2>4, <2>5, <2>6, <2>7, CoinbaseAssumption
<1>2. ASSUME CoinbaseInv, own, verdict # Absent, attest => baked,
             Len(draw.active) \in 1..MaxCommit,
             \A i \in 1..Len(coinbase.pays) : coinbase.pays[i].to = draw.winners[i],
             GetBlockSubsidy(height) > 0, GetBlockSubsidy(height) + fees <= MaxMoney
      PROVE  verdict = "accepted"
  <2> DEFINE subsidy == GetBlockSubsidy(height)
             active == draw.active
             winners == draw.winners
             pays == coinbase.pays
             n == Len(winners)
  <2>0. /\ CoinbaseInv /\ own /\ verdict # Absent /\ (attest => baked) /\ Len(active) \in 1..MaxCommit
        /\ \A i \in 1..Len(pays) : pays[i].to = winners[i]
        /\ subsidy > 0 /\ subsidy + fees <= MaxMoney
    BY <1>2
  <2>1. /\ active \in Seq(Nat) /\ Sorted(active)
        /\ \A i \in 1..Len(active) : attest => active[i] \in stamped
        /\ winners = SelectWinners(active, stream, WinnerCount(height))
        /\ Paid(pays) = subsidy + fees
        /\ fees \in Nat /\ height \in Nat
    BY <2>0 DEF CoinbaseInv, DrawInv, OwnInv
  <2>2. subsidy \in Nat \ {0} /\ MaxMoney \in Nat
    <3>1. subsidy \in Nat
      BY <2>0, <2>1, SubsidyType
    <3> QED
      BY <2>0, <3>1, CoinbaseAssumption
  <2>3. winners \in Seq(Nat) /\ winners # <<>> /\ active # <<>>
    <3>1. active # <<>>
      BY <2>0, <2>1
    <3> QED
      BY <2>0, <2>1, <3>1, DrawnWinners
  <2>4. n \in Nat \ {0}
    BY <2>3
  <2>5. /\ coinbase.xhb = active
        /\ attest => coinbase.xva = active /\ coinbase.xsd = active /\ active \in signed
        /\ Len(pays) = n
        /\ \A i \in 1..n : /\ pays[i].to \in {winners[i], 0}
                           /\ pays[i].value = Share(subsidy, n, i) + (IF i = 1 THEN fees ELSE 0)
    BY <2>0, <2>3 DEF CoinbaseInv, OwnInv
  <2>6. TheWinners = winners /\ TheParts = SplitReward(subsidy, n)
    BY <2>1, <2>5 DEF TheWinners, TheParts
  <2> HIDE DEF subsidy, active, winners, pays, n
  <2>7. /\ TheParts # <<>>
        /\ \A i \in 1..n : /\ Share(subsidy, n, i) \in Nat
                           /\ TheParts[i] = Share(subsidy, n, i)
                           /\ Share(subsidy, n, i) <= subsidy
    <3>1. /\ TheParts # <<>>
          /\ \A i \in 1..n : /\ Share(subsidy, n, i) \in Nat
                             /\ TheParts[i] = Share(subsidy, n, i)
      BY <2>2, <2>4, <2>6, Shares
    <3>2. ASSUME NEW i \in 1..n PROVE Share(subsidy, n, i) <= subsidy
      <4> DEFINE q == subsidy \div n
                 r == subsidy % n
                 p == n * q
      <4>1. q \in Nat /\ r \in 0..(n - 1) /\ p \in Nat /\ subsidy = p + r
        <5>1. subsidy \in Nat
          BY <2>2
        <5> QED
          BY <2>4, <5>1, DivMod
      <4>2. Share(subsidy, n, i) = q + (IF i <= r THEN 1 ELSE 0)
        BY DEF Share
      <4> HIDE DEF q, r
      <4>3. p >= q
        BY <2>4, <4>1
      <4> HIDE DEF p
      <4>4. i >= 1 /\ i \in Int
        BY <2>4
      <4> QED
        BY <2>4, <4>1, <4>2, <4>3, <4>4
    <3> QED
      BY <3>1, <3>2
  <2>8. ASSUME NEW i \in 1..n PROVE pays[i].to = winners[i] /\ pays[i].value \in 0..MaxMoney
    <3>1. pays[i].to = winners[i]
      BY <2>0, <2>5
    <3>2. /\ pays[i].value = Share(subsidy, n, i) + (IF i = 1 THEN fees ELSE 0)
          /\ Share(subsidy, n, i) \in Nat /\ Share(subsidy, n, i) <= subsidy
      BY <2>5, <2>7
    <3> QED
      BY <2>0, <2>1, <2>2, <3>1, <3>2
  <2>9. Committed(coinbase)
    <3>1. ParseActiveSetCommitment(active)
      <4>1. active # Absent
        BY <2>1, CoinbaseAssumption
      <4>2. Len(active) <= MaxCommit
        BY <2>0, CoinbaseAssumption
      <4> QED
        BY <2>1, <4>1, <4>2 DEF ParseActiveSetCommitment, Sorted
    <3>2. attest => /\ CheckXvaForIds(active, coinbase.xva)
                    /\ CheckSeedBlockCommitment(active, coinbase.xsd)
      BY <2>1, <2>5 DEF CheckXvaForIds, CheckSeedBlockCommitment
    <3>3. Paid(pays) \in subsidy..MaxMoney
      BY <2>0, <2>1, <2>2
    <3>4. Len(pays) = Len(SelectWinners(active, stream, WinnerCount(height)))
      BY <2>1, <2>5 DEF n
    <3> QED
      BY <2>3, <2>5, <2>8, <3>1, <3>2, <3>3, <3>4 DEF Committed, pays, subsidy
  <2>10. PaysDraw(coinbase, TheWinners, TheParts)
    <3>1. ASSUME NEW i \in 1..Len(TheWinners)
          PROVE  /\ coinbase.pays[i].to = TheWinners[i]
                 /\ coinbase.pays[i].value = TheParts[i]
                       + (IF i = 1 THEN Paid(coinbase.pays) - GetBlockSubsidy(height) ELSE 0)
      <4>1. i \in 1..n
        BY <2>6 DEF n
      <4>2. Paid(pays) - subsidy = fees
        BY <2>1, <2>2
      <4>3. /\ pays[i].to = TheWinners[i]
            /\ pays[i].value = TheParts[i] + (IF i = 1 THEN Paid(pays) - subsidy ELSE 0)
        BY <2>5, <2>6, <2>7, <2>8, <4>1, <4>2
      <4> QED
        BY <4>3 DEF pays, subsidy
    <3> QED
      BY <3>1 DEF PaysDraw
  <2> QED
    BY <2>0, <2>7, <2>9, <2>10 DEF CoinbaseInv, VerdictInv
<1>3. CoinbaseInv => OwnBlockAccepted
  BY <1>1, <1>2 DEF OwnBlockAccepted
<1> QED
  BY <1>3, AlwaysCoinbaseInv, PTL
=============================================================================
