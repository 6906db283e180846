-------------------------- MODULE HostShareProofs --------------------------
(***************************************************************************)
(* Host share pays a win at most once and never more than the percent, for *)
(* every number of threads, wins, guests, edits and faults.                *)
(***************************************************************************)
EXTENDS HostShare, FiniteSetTheorems, WellFoundedInduction, TLAPS

Percent == MIN_PERCENT..MAX_PERCENT

GuestList == {S \in SUBSET Guest : Cardinality(S) <= MaxGuests}

(* Settings and file: a file that is not torn holds settings.              *)
SettingsOK ==
    /\ enabled \in BOOLEAN
    /\ percent \in Percent
    /\ guests \in GuestList
    /\ shared \subseteq Win
    /\ \/ file = Torn
       \/ /\ file.enabled \in BOOLEAN
          /\ file.percent \in Percent
          /\ file.guests \in GuestList
          /\ file.shared \subseteq Win
    /\ faults \in 0..MaxFaults

WorldOK ==
    /\ local \in Script \cup {KeyScript}
    /\ mature \subseteq Win
    /\ edits \in 0..MaxEdits

ScanRecord == [at : {"out", "guests", "wallet", "jobs", "mark"}, percent : Percent \cup {0},
               local : Script \cup {KeyScript}, dests : SUBSET Guest, jobs : SUBSET Win]

ScanOK ==
    /\ scan \in [Thread -> ScanRecord]
    /\ \A t \in Thread :
          /\ scan[t].jobs \subseteq mature
          /\ scan[t].at # "out" => scan[t].percent \in Percent
          /\ scan[t].at \in {"jobs", "mark"} => scan[t].jobs # {}

(* The coin remembers what shared would have to: it is unspent only while  *)
(* nothing was paid from it.                                               *)
CoinOK ==
    /\ coin \in [Win -> {"unspent", "shared", "spent"}]
    /\ paid \in [Win -> Seq([each : Nat, dests : SUBSET Guest, percent : Percent])]
    /\ \A w \in Win : coin[w] = "unspent" => paid[w] = <<>>
    /\ SharedAtMostOnce

IInv == SettingsOK /\ WorldOK /\ ScanOK /\ CoinOK /\ PaysThePercent

-----------------------------------------------------------------------------
(* Arithmetic.                                                             *)

(* GuestPot splits the amount so that nothing overflows; it is the percent *)
(* of the amount, rounded down.                                            *)
LEMMA PotIsThePercent ==
    ASSUME NEW v \in Nat, NEW p \in Percent
    PROVE  /\ GuestPot(v, p) \in Nat
           /\ 100 * GuestPot(v, p) <= p * v
           /\ p * v < 100 * (GuestPot(v, p) + 1)
<1> USE DEF Percent, MIN_PERCENT, MAX_PERCENT
<1>1. CASE v = 0
  BY <1>1 DEF GuestPot
<1>2. CASE v > 0
  <2> DEFINE q == v \div 100
             r == v % 100
             x == r * p
             y == x \div 100
  <2>1. GuestPot(v, p) = q * p + y
    BY <1>2 DEF GuestPot
  <2>2. q \in Nat /\ r \in Nat /\ v = 100 * q + r
    OBVIOUS
  <2>3. x \in Nat
    BY <2>2
  <2>4. y \in Nat /\ 100 * y <= x /\ x < 100 * y + 100
    <3> HIDE DEF x
    <3>1. QED
      BY <2>3
  <2> HIDE DEF q, r, y
  <2>5. p * v = 100 * (q * p) + x
    BY <2>2 DEF x
  <2>6. q * p \in Nat
    BY <2>2
  <2> DEFINE z == q * p
             pv == p * v
  <2>7. pv = 100 * z + x /\ z \in Nat
    BY <2>5, <2>6
  <2> HIDE DEF x, z
  <2>8. 100 * (z + y) <= pv /\ pv < 100 * (z + y + 1) /\ z + y \in Nat
    <3> HIDE DEF pv
    <3>1. QED
      BY <2>3, <2>4, <2>7
  <2>9. QED
    BY <2>1, <2>8 DEF z
<1>3. QED
  BY <1>1, <1>2

(* The guests' parts together are the pot, short of one unit per guest.    *)
LEMMA PartsOfThePot ==
    ASSUME NEW pot \in Nat, NEW n \in Nat, n # 0
    PROVE  /\ GuestShare(pot, n) \in Nat
           /\ GuestShare(pot, n) * n <= pot
           /\ pot < GuestShare(pot, n) * n + n
<1>1. CASE pot = 0
  BY <1>1 DEF GuestShare
<1>2. CASE pot > 0
  BY <1>2 DEF GuestShare
<1>3. QED
  BY <1>1, <1>2

LEMMA PartsOfTheWin ==
    ASSUME NEW v \in Nat, NEW p \in Percent, NEW n \in Nat, n # 0, NEW each \in Nat,
           each = GuestShare(GuestPot(v, p), n)
    PROVE  /\ 100 * each * n <= p * v
           /\ p * v < 100 * (each * n + n)
<1> DEFINE pot == GuestPot(v, p)
           m == each * n
           pv == p * v
<1>1. pot \in Nat /\ 100 * pot <= pv /\ pv < 100 * (pot + 1)
  BY PotIsThePercent
<1>2. m <= pot /\ pot < m + n
  BY <1>1, PartsOfThePot
<1>3. m \in Nat /\ pv \in Nat /\ 100 * each * n = 100 * m
  BY DEF Percent, MIN_PERCENT, MAX_PERCENT
<1> HIDE DEF pot, m, pv
<1>4. 100 * m <= pv /\ pv < 100 * (m + n)
  BY <1>1, <1>2, <1>3
<1>5. QED
  BY <1>3, <1>4 DEF m, pv

-----------------------------------------------------------------------------
LEMMA LeastWin ==
    ASSUME NEW S \in SUBSET Win, S # {}
    PROVE  Min(S) \in S
<1> DEFINE R == OpToRel(<, Nat)
<1>1. IsWellFoundedOn(R, Nat)
  BY NatLessThanWellFounded
<1>2. \A i, j \in Nat : <<j, i>> \notin R => i <= j
  BY DEF OpToRel
<1>3. S \subseteq Nat
  BY ShareAssumption
<1> HIDE DEF R
<1>4. \E i \in S : \A j \in S : <<j, i>> \notin R
  BY <1>1, <1>3, WFMin
<1>5. \E i \in S : \A j \in S : i <= j
  BY <1>2, <1>3, <1>4
<1>6. QED
  BY <1>5 DEF Min

(* The win a thread is at has matured.                                     *)
LEMMA JobIsMature ==
    ASSUME WorldOK, ScanOK, NEW t \in Thread, scan[t].at \in {"jobs", "mark"}
    PROVE  Job(t) \in mature /\ Job(t) \in Win /\ Job(t) \in scan[t].jobs
<1>1. scan[t].jobs # {} /\ scan[t].jobs \subseteq mature /\ scan[t].jobs \in SUBSET Win
  BY DEF ScanOK, WorldOK
<1>2. QED
  BY <1>1, LeastWin DEF Job, WorldOK

-----------------------------------------------------------------------------
(* Whatever PersistLocked writes, or fails to write, is settings or torn.  *)
LEMMA PersistKeepsSettings ==
    ASSUME SettingsOK, PersistLocked, enabled' \in BOOLEAN, percent' \in Percent,
           guests' \in GuestList, shared' \subseteq Win
    PROVE  SettingsOK'
<1>1. faults' \in 0..MaxFaults
  BY ShareAssumption DEF PersistLocked, SettingsOK
<1>2. CASE file' = Snapshot(enabled', percent', guests', shared')
  BY <1>1, <1>2 DEF SettingsOK, Snapshot
<1>3. CASE file' \in {file, Torn}
  BY <1>1, <1>3 DEF SettingsOK
<1>4. QED
  BY <1>2, <1>3 DEF PersistLocked

LEMMA EditKeepsCount == ASSUME WorldOK, Edit PROVE edits' \in 0..MaxEdits
BY ShareAssumption DEF WorldOK, Edit

(* What a step of the host's settings leaves alone.                        *)
LEMMA SettingsStep ==
    ASSUME IInv, SettingsOK', edits' \in 0..MaxEdits, UNCHANGED <<world, coin, paid, scan>>
    PROVE  IInv'
<1>1. WorldOK'
  BY DEF IInv, WorldOK, world
<1>2. ScanOK'
  BY DEF IInv, ScanOK, world
<1>3. CoinOK'
  BY DEF IInv, CoinOK, SharedAtMostOnce, world
<1>4. PaysThePercent'
  BY DEF IInv, PaysThePercent, world
<1>5. QED
  BY <1>1, <1>2, <1>3, <1>4 DEF IInv

(* What a step of a scan that pays nothing leaves alone.                   *)
LEMMA ScanStep ==
    ASSUME IInv, SettingsOK', ScanOK', UNCHANGED <<world, coin, paid, edits>>
    PROVE  IInv'
<1>1. WorldOK'
  BY DEF IInv, WorldOK, world
<1>2. CoinOK'
  BY DEF IInv, CoinOK, SharedAtMostOnce, world
<1>3. PaysThePercent'
  BY DEF IInv, PaysThePercent, world
<1>4. QED
  BY <1>1, <1>2, <1>3 DEF IInv

LEMMA NoScanOK == NoScan \in ScanRecord /\ NoScan.jobs = {} /\ NoScan.at = "out"
BY DEF NoScan, ScanRecord

(* A scan whose record becomes s keeps ScanOK.                             *)
LEMMA OneScan ==
    ASSUME ScanOK, UNCHANGED mature, NEW t \in Thread, NEW s \in ScanRecord,
           s.jobs \subseteq mature, s.at # "out" => s.percent \in Percent,
           s.at \in {"jobs", "mark"} => s.jobs # {},
           scan' = [scan EXCEPT ![t] = s]
    PROVE  ScanOK'
BY DEF ScanOK

LEMMA GoesOn ==
    ASSUME WorldOK, ScanOK, UNCHANGED mature, NEW t \in Thread, NEW J \in SUBSET mature,
           scan[t].at # "out", scan' = [scan EXCEPT ![t] = Doing(@, J)]
    PROVE  ScanOK'
<1> DEFINE s == Doing(scan[t], J)
<1>1. scan' = [scan EXCEPT ![t] = s]
  BY DEF ScanOK
<1>2. CASE J = {}
  <2>1. s = NoScan
    BY <1>2 DEF Doing
  <2>2. QED
    BY <1>1, <2>1, NoScanOK, OneScan
<1>3. CASE J # {}
  <2>1. s = [scan[t] EXCEPT !.at = "jobs", !.jobs = J]
    BY <1>3 DEF Doing
  <2>2. scan[t] \in ScanRecord /\ scan[t].percent \in Percent /\ J \in SUBSET Win
    BY DEF ScanOK, WorldOK
  <2>3. s \in ScanRecord /\ s.jobs = J /\ s.percent \in Percent
    BY <2>1, <2>2 DEF ScanRecord
  <2> HIDE DEF s
  <2>4. QED
    BY <1>1, <1>3, <2>3, OneScan
<1>4. QED
  BY <1>2, <1>3

(* A win is marked, and the scan goes on to the next.                      *)
LEMMA MarkStep ==
    ASSUME IInv, NEW t \in Thread, scan[t].at \in {"jobs", "mark"}, MarkSharedLocked(Job(t)),
           scan' = NextJob(t), UNCHANGED <<world, coin, paid, edits>>
    PROVE  IInv'
<1>1. Job(t) \in Win
  BY JobIsMature DEF IInv
<1>2. SettingsOK'
  BY <1>1, PersistKeepsSettings DEF IInv, MarkSharedLocked, SettingsOK
<1>3. scan[t].jobs \ {Job(t)} \in SUBSET mature
  BY DEF IInv, ScanOK
<1>4. ScanOK'
  BY <1>3, GoesOn DEF IInv, NextJob, world, ScanOK
<1>5. QED
  BY <1>2, <1>4, ScanStep

LEMMA SettingsSame ==
    ASSUME SettingsOK, UNCHANGED <<settings, faults>>
    PROVE  SettingsOK'
BY DEF SettingsOK, settings

(* A payment: the coin was unspent, so that this is the win's first, and   *)
(* the amounts are those of the percent.                                   *)
LEMMA ShareWinKeepsIInv ==
    ASSUME IInv, NEW t \in Thread, ShareWin(t)
    PROVE  IInv'
<1> DEFINE w == Job(t)
           n == Cardinality(scan[t].dests)
           p == [each |-> Each(t), dests |-> scan[t].dests, percent |-> scan[t].percent]
<1>1. w \in mature /\ w \in Win /\ scan[t].at = "jobs" /\ ~NothingToShare(t) /\ coin[w] = "unspent"
  BY JobIsMature DEF IInv, ShareWin, AtJob, CreateTransaction
<1>2. /\ scan[t] \in ScanRecord /\ scan[t].dests \in SUBSET Guest
      /\ scan[t].dests # {} /\ scan[t].percent \in Percent
  BY <1>1 DEF IInv, ScanOK, ScanRecord, NothingToShare
<1>3. n \in Nat /\ n # 0
  <2>1. IsFiniteSet(scan[t].dests)
    BY <1>2, FS_Subset, ShareAssumption
  <2>2. QED
    BY <2>1, <1>2, FS_CardinalityType, FS_EmptySet
<1>4. JobValue(t) = Value[w] /\ Value[w] \in Nat
  <2>1. ~(JobValue(t) <= 0)
    BY <1>1 DEF NothingToShare
  <2>2. PaidTo[w] = scan[t].local
    <3>1. SUFFICES ASSUME PaidTo[w] # scan[t].local PROVE JobValue(t) = 0
      BY <2>1
    <3>2. QED
      BY <3>1 DEF JobValue
  <2>3. JobValue(t) = Value[w]
    BY <2>2 DEF JobValue
  <2>4. QED
    BY <2>3, <1>1, ShareAssumption
<1>5. Each(t) = GuestShare(GuestPot(Value[w], scan[t].percent), n)
  BY <1>4 DEF Each
<1>6. Each(t) \in Nat
  BY <1>2, <1>3, <1>4, <1>5, PotIsThePercent, PartsOfThePot
<1>7. p \in [each : Nat, dests : SUBSET Guest, percent : Percent]
  BY <1>2, <1>6
<1>8. /\ 100 * Each(t) * n <= scan[t].percent * Value[w]
      /\ scan[t].percent * Value[w] < 100 * (Each(t) * n + n)
  BY <1>2, <1>3, <1>4, <1>5, <1>6, PartsOfTheWin
<1>9. Each(t) * n + Fee <= Value[w]
  BY <1>4 DEF ShareWin, CreateTransaction
<1>10. paid[w] = <<>> /\ coin' = [coin EXCEPT ![w] = "shared"] /\ paid' = [paid EXCEPT ![w] = <<p>>]
  <2>1. paid[w] = <<>>
    BY <1>1 DEF IInv, CoinOK
  <2>2. coin' = [coin EXCEPT ![w] = "shared"] /\ paid' = [paid EXCEPT ![w] = Append(paid[w], p)]
    BY DEF ShareWin
  <2> HIDE DEF p
  <2>3. Append(<<>>, p) = <<p>>
    OBVIOUS
  <2>4. QED
    BY <2>1, <2>2, <2>3
<1>11. p.each = Each(t) /\ p.dests = scan[t].dests /\ p.percent = scan[t].percent
  OBVIOUS
<1>12. UNCHANGED <<settings, world, edits, faults>>
  BY DEF ShareWin
<1> DEFINE good(v, q) == LET k == Cardinality(q.dests)
                         IN  /\ k > 0
                             /\ v \in mature
                             /\ 100 * q.each * k <= q.percent * Value[v]
                             /\ q.percent * Value[v] < 100 * (q.each * k + k)
                             /\ q.each * k + Fee <= Value[v]
<1>13. good(w, p)
  BY <1>1, <1>3, <1>8, <1>9, <1>11
<1> HIDE DEF w, p, n
<1>14. CoinOK'
  <2>1. \A v \in Win : v # w => coin'[v] = coin[v] /\ paid'[v] = paid[v]
    BY <1>10 DEF IInv, CoinOK
  <2>2. coin'[w] = "shared" /\ paid'[w] = <<p>> /\ Len(paid'[w]) = 1
    BY <1>1, <1>10 DEF IInv, CoinOK
  <2>3. coin' \in [Win -> {"unspent", "shared", "spent"}]
    BY <1>10 DEF IInv, CoinOK
  <2>4. paid' \in [Win -> Seq([each : Nat, dests : SUBSET Guest, percent : Percent])]
    <3> DEFINE T == [each : Nat, dests : SUBSET Guest, percent : Percent]
    <3>1. p \in T /\ paid \in [Win -> Seq(T)]
      BY <1>7 DEF IInv, CoinOK
    <3> HIDE DEF T
    <3>2. <<p>> \in Seq(T)
      BY <3>1
    <3>3. paid' \in [Win -> Seq(T)]
      BY <3>1, <3>2, <1>10
    <3>4. QED
      BY <3>3 DEF T
  <2>5. SharedAtMostOnce'
    <3>1. \A v \in Win : Len(paid[v]) <= 1
      BY DEF IInv, CoinOK, SharedAtMostOnce
    <3>2. 1 <= 1
      OBVIOUS
    <3>3. \A v \in Win : Len(paid'[v]) <= 1
      BY <3>1, <3>2, <2>1, <2>2
    <3>4. QED
      BY <3>3 DEF SharedAtMostOnce
  <2>6. \A v \in Win : coin'[v] = "unspent" => paid'[v] = <<>>
    BY <2>1, <2>2 DEF IInv, CoinOK
  <2>7. QED
    BY <2>3, <2>4, <2>5, <2>6 DEF CoinOK
<1>15. PaysThePercent'
  <2>1. mature' = mature
    BY <1>12 DEF world
  <2>2. \A v \in Win : \A i \in 1..Len(paid[v]) : good(v, paid[v][i])
    BY DEF IInv, PaysThePercent
  <2>3. \A v \in Win : paid'[v] = IF v = w THEN <<p>> ELSE paid[v]
    BY <1>10 DEF IInv, CoinOK
  <2> HIDE DEF good
  <2>4. \A v \in Win : \A i \in 1..Len(paid'[v]) : good(v, paid'[v][i])
    BY <2>2, <2>3, <1>13
  <2>5. QED
    BY <2>1, <2>4 DEF good, PaysThePercent
<1>16. WorldOK'
  BY <1>12 DEF IInv, WorldOK, world
<1>17. ScanOK'
  <2> DEFINE s == [scan[t] EXCEPT !.at = "mark"]
  <2>1. scan' = [scan EXCEPT ![t] = s]
    BY DEF ShareWin, IInv, ScanOK
  <2>2. s \in ScanRecord /\ s.jobs = scan[t].jobs /\ s.percent = scan[t].percent
    BY <1>2 DEF ScanRecord
  <2>3. scan[t].jobs \subseteq mature /\ scan[t].jobs # {}
    BY <1>1 DEF IInv, ScanOK
  <2> HIDE DEF s
  <2>4. QED
    BY <2>1, <2>2, <2>3, <1>2, <1>12, OneScan DEF IInv, world
<1>18. QED
  BY <1>12, <1>14, <1>15, <1>16, <1>17, SettingsSame DEF IInv

-----------------------------------------------------------------------------
LEMMA Invariance == Spec => []IInv
<1>1. Init => IInv
  <2> SUFFICES ASSUME Init PROVE IInv
    OBVIOUS
  <2>1. SettingsOK
    <3>1. guests \in GuestList
      BY ShareAssumption DEF Init, GuestList
    <3>2. 0 \in 0..MaxFaults
      BY ShareAssumption
    <3>3. percent \in Percent /\ enabled \in BOOLEAN /\ shared \subseteq Win /\ faults = 0
      BY DEF Init, Percent, MIN_PERCENT, MAX_PERCENT, DEFAULT_PERCENT
    <3>4. /\ file.enabled = enabled /\ file.percent = percent /\ file.guests = guests
          /\ file.shared \subseteq shared
      BY DEF Init, Snapshot
    <3>5. QED
      BY <3>1, <3>2, <3>3, <3>4 DEF SettingsOK
  <2>2. WorldOK
    BY ShareAssumption DEF Init, WorldOK
  <2>3. ScanOK
    BY NoScanOK DEF Init, ScanOK
  <2>4. CoinOK /\ PaysThePercent
    <3>1. paid = [w \in Win |-> <<>>] /\ Len(<<>>) = 0
      BY DEF Init
    <3>2. PaysThePercent
      BY <3>1 DEF PaysThePercent
    <3>3. QED
      BY <3>1, <3>2 DEF Init, CoinOK, SharedAtMostOnce
  <2>5. QED
    BY <2>1, <2>2, <2>3, <2>4 DEF IInv
<1>2. IInv /\ [Next]_vars => IInv'
  <2> SUFFICES ASSUME IInv, [Next]_vars PROVE IInv'
    OBVIOUS
  <2>1. ASSUME NEW on \in BOOLEAN, SetEnabled(on) PROVE IInv'
    <3>1. SettingsOK'
      BY <2>1, PersistKeepsSettings DEF SetEnabled, IInv, SettingsOK
    <3>2. QED
      BY <2>1, <3>1, EditKeepsCount, SettingsStep DEF SetEnabled, IInv
  <2>2. ASSUME NEW p \in Percents, SetPercent(p) PROVE IInv'
    <3>1. SettingsOK'
      BY <2>2, PersistKeepsSettings DEF SetPercent, IInv, SettingsOK, Percent
    <3>2. QED
      BY <2>2, <3>1, EditKeepsCount, SettingsStep DEF SetPercent, IInv
  <2>3. ASSUME NEW g \in Guest, InviteGuest(g) PROVE IInv'
    <3>1. guests \subseteq Guest /\ IsFiniteSet(guests) /\ Cardinality(guests) \in Nat
      BY FS_Subset, FS_CardinalityType, ShareAssumption DEF IInv, SettingsOK, GuestList
    <3>2. Cardinality(guests \cup {g}) = Cardinality(guests) + 1
      BY <2>3, <3>1, FS_AddElement DEF InviteGuest
    <3>3. guests' \in GuestList
      BY <2>3, <3>1, <3>2, ShareAssumption DEF InviteGuest, GuestList
    <3>4. SettingsOK'
      BY <2>3, <3>3, PersistKeepsSettings DEF InviteGuest, IInv, SettingsOK
    <3>5. QED
      BY <2>3, <3>4, EditKeepsCount, SettingsStep DEF InviteGuest, IInv
  <2>4. ASSUME NEW g \in Guest, RemoveGuest(g) PROVE IInv'
    <3>1. guests \subseteq Guest /\ IsFiniteSet(guests) /\ Cardinality(guests) \in Nat
      BY FS_Subset, FS_CardinalityType, ShareAssumption DEF IInv, SettingsOK, GuestList
    <3>2. Cardinality(guests \ {g}) = Cardinality(guests) - 1 /\ Cardinality(guests) <= MaxGuests
      BY <2>4, <3>1, FS_RemoveElement DEF RemoveGuest, IInv, SettingsOK, GuestList
    <3>3. guests' \in GuestList
      BY <2>4, <3>1, <3>2, ShareAssumption DEF RemoveGuest, GuestList
    <3>4. SettingsOK'
      BY <2>4, <3>3, PersistKeepsSettings DEF RemoveGuest, IInv, SettingsOK
    <3>5. QED
      BY <2>4, <3>4, EditKeepsCount, SettingsStep DEF RemoveGuest, IInv
  <2>5. CASE WorldChanges
    <3>1. UNCHANGED <<settings, mature, paid, scan, faults>> /\ edits' \in 0..MaxEdits
      BY <2>5, EditKeepsCount DEF WorldChanges, IInv
    <3>2. local' \in Script \cup {KeyScript}
      BY <2>5 DEF WorldChanges, IInv, WorldOK
    <3>3. /\ coin' \in [Win -> {"unspent", "shared", "spent"}]
          /\ \A w \in Win : coin'[w] = "unspent" => coin[w] = "unspent"
      <4>1. CASE coin' = coin
        BY <4>1 DEF IInv, CoinOK
      <4>2. ASSUME NEW w \in mature, coin' = [coin EXCEPT ![w] = "spent"]
            PROVE  /\ coin' \in [Win -> {"unspent", "shared", "spent"}]
                   /\ \A v \in Win : coin'[v] = "unspent" => coin[v] = "unspent"
        BY <4>2 DEF IInv, CoinOK
      <4>3. coin' = coin \/ \E w \in mature : coin' = [coin EXCEPT ![w] = "spent"]
        BY <2>5 DEF WorldChanges
      <4>4. QED
        BY <4>1, <4>2, <4>3
    <3>4. SettingsOK'
      BY <3>1, SettingsSame DEF IInv
    <3>5. WorldOK'
      BY <3>1, <3>2 DEF IInv, WorldOK
    <3>6. ScanOK'
      BY <3>1, <3>3 DEF IInv, ScanOK
    <3>7. CoinOK'
      BY <3>1, <3>3 DEF IInv, CoinOK, SharedAtMostOnce
    <3>8. PaysThePercent'
      BY <3>1, <3>3 DEF IInv, PaysThePercent
    <3>9. QED
      BY <3>4, <3>5, <3>6, <3>7, <3>8 DEF IInv
  <2>6. CASE AdoptScript
    <3>1. /\ UNCHANGED <<settings, mature, coin, paid, scan, edits, faults>>
          /\ local' \in Script
      BY <2>6 DEF AdoptScript
    <3>2. SettingsOK'
      BY <3>1, SettingsSame DEF IInv
    <3>3. WorldOK'
      BY <3>1 DEF IInv, WorldOK
    <3>4. ScanOK'
      BY <3>1 DEF IInv, ScanOK
    <3>5. CoinOK'
      BY <3>1 DEF IInv, CoinOK, SharedAtMostOnce
    <3>6. PaysThePercent'
      BY <3>1 DEF IInv, PaysThePercent
    <3>7. QED
      BY <3>2, <3>3, <3>4, <3>5, <3>6 DEF IInv
  <2>7. ASSUME NEW w \in Win, WinMatures(w) PROVE IInv'
    <3>1. UNCHANGED <<settings, local, coin, paid, scan, edits, faults>> /\ mature' = mature \cup {w}
      BY <2>7 DEF WinMatures
    <3>2. SettingsOK'
      BY <3>1, SettingsSame DEF IInv
    <3>3. WorldOK'
      BY <3>1 DEF IInv, WorldOK
    <3>4. ScanOK' /\ CoinOK'
      BY <3>1 DEF IInv, ScanOK, CoinOK, SharedAtMostOnce
    <3>5. PaysThePercent'
      BY <3>1 DEF IInv, PaysThePercent
    <3>6. QED
      BY <3>2, <3>3, <3>4, <3>5 DEF IInv
  <2>8. ASSUME NEW t \in Thread, BeginScan(t) PROVE IInv'
    <3> DEFINE s == [NoScan EXCEPT !.at = "guests", !.percent = percent, !.local = local]
    <3>1. UNCHANGED <<settings, world, coin, paid, edits, faults>> /\ scan' = [scan EXCEPT ![t] = s]
      BY <2>8 DEF BeginScan
    <3>2. s \in ScanRecord /\ s.jobs = {} /\ s.percent \in Percent /\ s.at = "guests"
      BY DEF NoScan, ScanRecord, IInv, SettingsOK, WorldOK
    <3> HIDE DEF s
    <3>3. ScanOK'
      BY <3>1, <3>2, OneScan DEF IInv, world
    <3>4. QED
      BY <3>1, <3>3, SettingsSame, ScanStep DEF IInv
  <2>9. ASSUME NEW t \in Thread, ListGuests(t) PROVE IInv'
    <3> DEFINE s == [scan[t] EXCEPT !.at = "wallet", !.dests = guests \cap ready]
    <3>1. UNCHANGED <<settings, world, coin, paid, edits, faults>> /\ scan' = [scan EXCEPT ![t] = s]
      BY <2>9 DEF ListGuests, IInv, ScanOK
    <3>2. scan[t] \in ScanRecord /\ scan[t].percent \in Percent /\ scan[t].jobs \subseteq mature
      BY <2>9 DEF ListGuests, IInv, ScanOK
    <3>3. guests \subseteq Guest
      BY DEF IInv, SettingsOK, GuestList
    <3>4. s \in ScanRecord /\ s.jobs = scan[t].jobs /\ s.percent \in Percent /\ s.at = "wallet"
      BY <3>2, <3>3 DEF ScanRecord
    <3> HIDE DEF s
    <3>5. ScanOK'
      BY <3>1, <3>2, <3>4, OneScan DEF IInv, world
    <3>6. QED
      BY <3>1, <3>5, SettingsSame, ScanStep DEF IInv
  <2>10. ASSUME NEW t \in Thread, CollectJobs(t) PROVE IInv'
    <3>1. UNCHANGED <<settings, world, coin, paid, edits, faults>>
      BY <2>10 DEF CollectJobs
    <3>2. ScanOK'
      BY <2>10, <3>1, GoesOn DEF CollectJobs, IInv, world
    <3>3. QED
      BY <3>1, <3>2, SettingsSame, ScanStep DEF IInv
  <2>11. ASSUME NEW t \in Thread, SkipJob(t) PROVE IInv'
    BY <2>11, MarkStep DEF SkipJob, AtJob
  <2>12. ASSUME NEW t \in Thread, ShareWin(t) PROVE IInv'
    BY <2>12, ShareWinKeepsIInv
  <2>13. ASSUME NEW t \in Thread, MarkShared(t) PROVE IInv'
    BY <2>13, MarkStep DEF MarkShared
  <2>14. ASSUME NEW t \in Thread, ShareFails(t) PROVE IInv'
    <3>1. UNCHANGED <<settings, world, coin, paid, edits>> /\ scan' = NextJob(t) /\ scan[t].at = "jobs"
      BY <2>14 DEF ShareFails, AtJob
    <3>2. faults' \in 0..MaxFaults
      BY <2>14, ShareAssumption DEF ShareFails, IInv, SettingsOK
    <3>3. SettingsOK'
      BY <3>1, <3>2 DEF IInv, SettingsOK, settings
    <3>4. scan[t].jobs \ {Job(t)} \in SUBSET mature
      BY DEF IInv, ScanOK
    <3>5. ScanOK'
      BY <3>1, <3>4, GoesOn DEF IInv, NextJob, world, ScanOK
    <3>6. QED
      BY <3>1, <3>3, <3>5, ScanStep
  <2>15. CASE CrashAndRestart
    <3>1. /\ UNCHANGED <<mature, coin, paid, edits>>
          /\ local' = KeyScript
          /\ scan' = [t \in Thread |-> NoScan]
      BY <2>15 DEF CrashAndRestart
    <3>2. faults' \in 0..MaxFaults
      BY <2>15, ShareAssumption DEF CrashAndRestart, IInv, SettingsOK
    <3>3. {} \in GuestList /\ DEFAULT_PERCENT \in Percent
      BY FS_EmptySet, ShareAssumption
         DEF GuestList, Percent, MIN_PERCENT, MAX_PERCENT, DEFAULT_PERCENT
    <3>4. SettingsOK'
      <4>1. CASE file' = Torn
        BY <2>15, <4>1, <3>2, <3>3 DEF CrashAndRestart, LoadLocked, SettingsOK
      <4>2. CASE file' = file /\ file # Torn
        BY <2>15, <4>2, <3>2 DEF CrashAndRestart, LoadLocked, IInv, SettingsOK
      <4>3. QED
        BY <2>15, <4>1, <4>2 DEF CrashAndRestart
    <3>5. WorldOK'
      BY <3>1 DEF IInv, WorldOK
    <3>6. ScanOK'
      BY <3>1, NoScanOK DEF ScanOK
    <3>7. CoinOK'
      BY <3>1 DEF IInv, CoinOK, SharedAtMostOnce
    <3>8. PaysThePercent'
      BY <3>1 DEF IInv, PaysThePercent
    <3>9. QED
      BY <3>4, <3>5, <3>6, <3>7, <3>8 DEF IInv
  <2>16. CASE UNCHANGED vars
    <3>1. SettingsOK'
      BY <2>16, SettingsSame DEF vars, IInv
    <3>2. edits' \in 0..MaxEdits
      BY <2>16 DEF vars, IInv, WorldOK
    <3>3. QED
      BY <2>16, <3>1, <3>2, SettingsStep DEF vars
  <2>17. QED
    BY <2>1, <2>2, <2>3, <2>4, <2>5, <2>6, <2>7, <2>8, <2>9, <2>10, <2>11, <2>12,
       <2>13, <2>14, <2>15, <2>16 DEF Next, MaybeShareMatureWins
<1>3. QED
  BY <1>1, <1>2, PTL DEF Spec

-----------------------------------------------------------------------------
(* Settings, list of guests, scans and counters have their types: the list *)
(* never outgrows its limit, also after it was read from the file.         *)
THEOREM HostTypeCorrect == Spec => []TypeOK
<1>1. IInv => TypeOK
  BY DEF IInv, SettingsOK, WorldOK, ScanOK, CoinOK, TypeOK, Percent, GuestList
<1>2. QED
  BY <1>1, Invariance, PTL

(* No win is shared twice, whatever number of threads scan, whatever marks *)
(* are lost: only the win's own coin may pay its share.                    *)
THEOREM HostSharedAtMostOnce == Spec => []SharedAtMostOnce
<1>1. IInv => SharedAtMostOnce
  BY DEF IInv, CoinOK
<1>2. QED
  BY <1>1, Invariance, PTL

(* Every share is the percent set when its scan began, rounded down by     *)
(* less than one unit per guest, and leaves the fee.                       *)
THEOREM HostPaysThePercent == Spec => []PaysThePercent
<1>1. IInv => PaysThePercent
  BY DEF IInv
<1>2. QED
  BY <1>1, Invariance, PTL
=============================================================================
