-------------------------- MODULE LotteryCoinbase --------------------------
(***************************************************************************)
(* The draw and the coinbase it dictates (lottery.cpp): ComputeDraw,       *)
(* SelectWinners and SplitReward, the coinbase ApplyCoinbasePayouts writes *)
(* from them, and CheckLotteryCoinbase, which decides whether a coinbase,  *)
(* one's own or one received, pays the draw it commits to.                 *)
(*                                                                         *)
(* Ids are numbers, in the order of uint160.  The hash stream of a seed is *)
(* a sequence of arbitrary numbers.  The registry lock is released between *)
(* the draw and the look-up of the winners' scripts.                       *)
(***************************************************************************)
EXTENDS Sequences, Functions, Ordering

CONSTANTS
    Id,             \* payout ids; the producer's own script has id 0
    Interval,       \* nSubsidyHalvingInterval
    InitialSubsidy, \* 5000 * COIN
    MaxMoney,       \* MAX_MONEY
    MaxCommit,      \* the most ids ParseActiveSetCommitment reads
    Networks,       \* whether blocks need stamps: TRUE on main and test, FALSE on regtest
    Blue,           \* ids whose X account the attestor can stamp
    Heights, Fees,  \* the block heights and fees considered
    SeedSigned,     \* active sets that another node, the seed, signs for this block
    StreamMax,      \* bound: numbers of the hash stream
    Absent,
    PeerCoinbases   \* payouts of coinbases that others assemble

ASSUME CoinbaseAssumption ==
    /\ Id \subseteq Nat \ {0} /\ IsFiniteSet(Id)
    /\ Interval \in Nat \ {0} /\ InitialSubsidy \in Nat /\ MaxMoney \in Nat
    /\ Heights \subseteq Nat \ {0} /\ Fees \subseteq Nat
    /\ Networks \subseteq BOOLEAN /\ Blue \subseteq Id
    /\ MaxCommit \in Nat /\ StreamMax \in Nat
    /\ Absent \notin {"accepted", "rejected", "crash"}
    /\ Absent \notin Seq(Nat)
    /\ \A cb \in PeerCoinbases :
          /\ cb.xhb # Absent => cb.xhb \in Seq(Nat)
          /\ cb.pays \in Seq([to : Nat, value : Int])

VARIABLES
    attest,         \* RequireXAttestation()
    baked,          \* IsBakedSeed(): this node holds the chain's attestor key
    height, fees,   \* of the block
    stream,         \* the hash stream of Seed(prevBlockHash, slot)
    registered,     \* ids the registry has a script for
    stamped,        \* ids the attestor has stamped
    draw,           \* the Draw: active ids and winners
    signed,         \* the active sets the seed has signed for this height and parent
    coinbase,       \* the coinbase that was assembled or received
    own,            \* ... by this node
    verdict         \* of CheckLotteryCoinbase

vars == <<attest, baked, height, fees, stream, registered, stamped, draw, signed, coinbase, own, verdict>>
inputs == <<attest, baked, height, fees, stream, stamped>>

-----------------------------------------------------------------------------
(* The draw.                                                               *)

WinnerCount(h) == (IF h \div Interval > 1023 THEN 1023 ELSE h \div Interval) + 1

\* The initial subsidy shifted right.
Shifted[n \in 0..63] == IF n = 0 THEN InitialSubsidy ELSE Shifted[n - 1] \div 2

GetBlockSubsidy(h) == IF h \div Interval >= 64 THEN 0 ELSE Shifted[h \div Interval]

Swap(s, i, j) == [s EXCEPT ![i] = s[j], ![j] = s[i]]

\* Mutant: every index is drawn from the whole pool.
MutantPick(r, i, n) == (r % n) + 1

\* The index swapped into place i: one of those not yet drawn.
Pick(r, i, n) == (r % (n - i + 1)) + i

\* The pool after each round of the shuffle.
Pools(active, rs, k) ==
    LET pool[i \in 0..k] ==
            IF i = 0 THEN active ELSE Swap(pool[i - 1], i, Pick(rs[i], i, Len(active)))
    IN  pool

\* Partial Fisher-Yates shuffle of the sorted active ids.
SelectWinners(active, rs, k) ==
    IF k >= Len(active) THEN active ELSE SubSeq(Pools(active, rs, k)[k], 1, k)

\* Mutant: the remainder goes to nobody.
MutantSplitReward(total, n) ==
    IF n <= 0 \/ total <= 0 THEN <<>> ELSE [i \in 1..n |-> total \div n]

SplitReward(total, n) ==
    IF n <= 0 \/ total <= 0 THEN <<>>
    ELSE [i \in 1..n |-> (total \div n) + (IF i <= total % n THEN 1 ELSE 0)]

ComputeDraw ==
    /\ draw = Absent /\ coinbase = Absent
    /\ LET hat == {id \in registered : attest => id \in stamped}
           active == InOrder(hat)
       IN  draw' = [active |-> active,
                    winners |-> SelectWinners(active, stream, WinnerCount(height))]
    /\ UNCHANGED <<inputs, registered, signed, coinbase, own, verdict>>

\* A ticket is dropped while the coinbase is being made.
TicketDropped(id) ==
    /\ coinbase = Absent
    /\ id \in registered
    /\ registered' = registered \ {id}
    /\ UNCHANGED <<inputs, draw, signed, coinbase, own, verdict>>

-----------------------------------------------------------------------------
(* The coinbase.  Its XHB1, XVA1 and XSD1 outputs are the ids they name.   *)

\* Mutant: the fees are left out.
MutantPayouts(winners, parts) ==
    [i \in 1..Len(winners) |->
        [to |-> IF winners[i] \in registered THEN winners[i] ELSE 0,
         value |-> IF parts = <<>> THEN 0 ELSE parts[i]]]

\* A winner without a script is paid to the producer's.
Payouts(winners, parts) ==
    [i \in 1..Len(winners) |->
        [to |-> IF winners[i] \in registered THEN winners[i] ELSE 0,
         value |-> (IF parts = <<>> THEN 0 ELSE parts[i]) + (IF i = 1 THEN fees ELSE 0)]]

\* The one output CreateNewBlock wrote stays when nobody is drawn.  A node without
\* the attestor's key, of whom RPC clients can still ask a template, leaves the
\* seed's signature out (and under another key it makes one that is nobody's, which
\* to the check is the same).
ApplyCoinbasePayouts ==
    /\ draw # Absent /\ coinbase = Absent
    /\ LET subsidy == GetBlockSubsidy(height)
           parts == SplitReward(subsidy, Len(draw.winners))
       IN  IF draw.winners = <<>>
           THEN /\ coinbase' = [xhb |-> Absent, xva |-> Absent, xsd |-> Absent,
                                pays |-> <<[to |-> 0, value |-> subsidy + fees]>>]
                /\ UNCHANGED signed
           ELSE /\ coinbase' = [xhb  |-> draw.active,
                                xva  |-> IF attest THEN draw.active ELSE Absent,
                                xsd  |-> IF attest /\ baked THEN draw.active ELSE Absent,
                                pays |-> Payouts(draw.winners, parts)]
                /\ signed' = signed \cup {ids \in {draw.active} : attest /\ baked}
    /\ own' = TRUE
    /\ UNCHANGED <<inputs, registered, draw, verdict>>

\* Another node presents a coinbase.  The seed's signature it carries is one the
\* seed made, for this height and parent.  (Bound: one such coinbase, after the
\* node's own, whose draw is gone.)
ReceiveCoinbase(xhb, pays) ==
    /\ own /\ verdict # Absent
    /\ \E xsd \in signed \cup {Absent} :
          coinbase' = [xhb |-> xhb, xva |-> xhb, xsd |-> xsd, pays |-> pays]
    /\ own' = FALSE
    /\ verdict' = Absent
    /\ draw' = Absent
    /\ UNCHANGED <<inputs, registered, signed>>

\* Mutant: the ids may repeat.
MutantParseActiveSetCommitment(ids) ==
    /\ ids # Absent /\ Len(ids) <= MaxCommit
    /\ \A i \in 1..Len(ids) - 1 : ids[i] <= ids[i + 1]

\* Sorted, no id twice, not too many.
ParseActiveSetCommitment(ids) ==
    /\ ids # Absent /\ Len(ids) <= MaxCommit
    /\ \A i \in 1..Len(ids) - 1 : ids[i] < ids[i + 1]

\* Every committed id is stamped, and the seed signed the committed set.
CheckXvaForIds(ids, xva) == xva = ids /\ \A i \in 1..Len(ids) : ids[i] \in stamped

\* Mutant: any signature of the seed will do.
MutantCheckSeedBlockCommitment(ids, xsd) == xsd # Absent

CheckSeedBlockCommitment(ids, xsd) == xsd = ids /\ xsd \in signed

Paid(pays) ==
    LET sum[i \in 0..Len(pays)] == IF i = 0 THEN 0 ELSE sum[i - 1] + pays[i].value
    IN  sum[Len(pays)]

\* The checks before the shares are compared.
Committed(cb) ==
    /\ ParseActiveSetCommitment(cb.xhb)
    /\ attest => /\ CheckXvaForIds(cb.xhb, cb.xva)
                        /\ CheckSeedBlockCommitment(cb.xhb, cb.xsd)
    /\ cb.xhb # <<>>
    /\ \A i \in 1..Len(cb.pays) : cb.pays[i].value \in 0..MaxMoney
    /\ Paid(cb.pays) \in GetBlockSubsidy(height)..MaxMoney
    /\ Len(cb.pays) = Len(SelectWinners(cb.xhb, stream, WinnerCount(height)))

\* Each payee in turn; whatever exceeds the subsidy goes to the first.
PaysDraw(cb, winners, parts) ==
    \A i \in 1..Len(winners) :
        /\ cb.pays[i].to = winners[i]
        /\ cb.pays[i].value = parts[i] + (IF i = 1 THEN Paid(cb.pays) - GetBlockSubsidy(height) ELSE 0)

\* The stamps an accepted coinbase carries are cached: they are in stamped already.
\* With a subsidy of 0 there are no parts, and reading parts[0] of the empty
\* vector, which the code does once the first payee matched, ends the process.
CheckLotteryCoinbase ==
    /\ coinbase # Absent /\ verdict = Absent
    /\ LET winners == SelectWinners(coinbase.xhb, stream, WinnerCount(height))
           parts == SplitReward(GetBlockSubsidy(height), Len(winners))
       IN  verdict' = CASE ~Committed(coinbase) -> "rejected"
                        [] Committed(coinbase) /\ parts = <<>> ->
                              IF coinbase.pays[1].to = winners[1] THEN "crash" ELSE "rejected"
                        [] Committed(coinbase) /\ parts # <<>> ->
                              IF PaysDraw(coinbase, winners, parts) THEN "accepted" ELSE "rejected"
    /\ UNCHANGED <<inputs, registered, draw, signed, coinbase, own>>

-----------------------------------------------------------------------------
Init ==
    /\ attest \in Networks
    /\ baked \in {b \in BOOLEAN : b => attest}   \* regtest has no attestor
    /\ height \in Heights
    /\ fees \in Fees
    /\ stream \in [1..WinnerCount(height) -> 0..StreamMax]
    /\ registered \in SUBSET Id
    /\ stamped \in IF attest THEN SUBSET Blue ELSE {{}}
    /\ draw = Absent
    /\ signed = IF attest /\ ~baked THEN SeedSigned ELSE {}
    /\ coinbase = Absent
    /\ own = FALSE
    /\ verdict = Absent

Next ==
    \/ ComputeDraw
    \/ \E id \in Id : TicketDropped(id)
    \/ ApplyCoinbasePayouts
    \/ \E cb \in PeerCoinbases : ReceiveCoinbase(cb.xhb, cb.pays)
    \/ CheckLotteryCoinbase

Spec == Init /\ [][Next]_vars

-----------------------------------------------------------------------------
(* Properties.                                                             *)

\* The draw is fair: of the streams that are different for it, exactly one draws
\* each arrangement of k different active ids.
DrawIsFair ==
    draw # Absent =>
        LET n == Len(draw.active)
            k == WinnerCount(height)
            streams == {rs \in [1..k -> 0..n - 1] : \A i \in 1..k : rs[i] <= n - i}
            Drawn(rs) == SelectWinners(draw.active, rs, k)
        IN  k < n =>
            /\ \A rs, qs \in streams : IsInjective(Drawn(rs)) /\ (Drawn(rs) = Drawn(qs) => rs = qs)
            /\ \A w \in [1..k -> Range(draw.active)] :
                   IsInjective(w) => \E rs \in streams : Drawn(rs) = w

\* What this node assembles it accepts, but in five cases, and in those it never
\* does: blocks need the seed's signature and it is not the seed, the hat is empty
\* or holds more ids than a commitment, a winner's ticket was dropped between the
\* draw and the look-up of its script, the subsidy has run out, or it leaves the
\* range of money.
OwnBlockAccepted ==
    own /\ verdict # Absent =>
        (verdict = "accepted" <=>
            /\ attest => baked
            /\ Len(draw.active) \in 1..MaxCommit
            /\ \A i \in 1..Len(coinbase.pays) : coinbase.pays[i].to = draw.winners[i]
            /\ GetBlockSubsidy(height) > 0 /\ GetBlockSubsidy(height) + fees <= MaxMoney)

\* The subsidy and the fees are paid out to the last unit, each winner's share of
\* the subsidy within one unit of any other's, and fees to the first.
SubsidySplitEvenly ==
    verdict = "accepted" =>
        LET surplus == Paid(coinbase.pays) - GetBlockSubsidy(height)
            share(i) == coinbase.pays[i].value - (IF i = 1 THEN surplus ELSE 0)
        IN  /\ surplus >= 0
            /\ own => surplus = fees
            /\ \A i, j \in 1..Len(coinbase.pays) :
                  i < j => share(i) - share(j) \in 0..1

\* On main and test whoever presents a coinbase, it is accepted only if it pays,
\* once each, stamped ids drawn from a set that the seed signed for this block.
OnlyTheSignedDrawIsPaid ==
    attest /\ verdict = "accepted" =>
        /\ coinbase.xhb \in signed
        /\ Range(coinbase.xhb) \subseteq stamped
        /\ [i \in 1..Len(coinbase.pays) |-> coinbase.pays[i].to]
              = SelectWinners(coinbase.xhb, stream, WinnerCount(height))

\* The winners are different people, also under a set that nobody signed.
NobodyPaidTwice ==
    verdict = "accepted" =>
        \A i, j \in 1..Len(coinbase.pays) :
            coinbase.pays[i].to = coinbase.pays[j].to => i = j
=============================================================================
