----------------------------- MODULE HostShare -----------------------------
(***************************************************************************)
(* Host share (hostshare.cpp): a host sends a percent of its mature        *)
(* lottery wins to the guests it invited.  Settings, guest list and the    *)
(* wins already dealt with are kept in memory and in host-guests.json.     *)
(* Two threads scan the wallet, the lottery loop and listguests; they read *)
(* the settings under one lock, the wallet under another, and pay after    *)
(* both were released.                                                     *)
(*                                                                         *)
(* Wins are numbers, in the order of their transaction ids.                *)
(***************************************************************************)
EXTENDS Integers, Sequences, FiniteSetsExt

CONSTANTS
    Guest,       \* handles other than the host's that have claimed a root
    Mover,       \* ... whose root moves to and from an address
    Win,         \* coinbases of the wallet
    Value,       \* [Win -> Nat], the output that pays the host
    Script,      \* payout scripts the host uses
    KeyScript,   \* the script of lottery-payout.key, which is not the wallet's
    PaidTo,      \* [Win -> Script]
    Thread,      \* scanning threads
    Loop,        \* ... of which this one is the lottery loop
    Matured,     \* wins that have matured before the start
    StartGuests, \* guest lists to start with
    Percents,    \* guest percents the host tries
    MaxGuests, PersistMax,
    Fee, Dust,   \* of a share transaction
    Torn,        \* the file is missing or cut off
    MaxEdits,    \* bound: steps of the host, its X session and its wallet
    MaxFaults    \* bound: failed writes, refused transactions, crashes

MIN_PERCENT == 1
MAX_PERCENT == 100
DEFAULT_PERCENT == 20

ASSUME ShareAssumption ==
    /\ Win \subseteq Nat /\ IsFiniteSet(Win) /\ IsFiniteSet(Guest)
    /\ Value \in [Win -> Nat]
    /\ Matured \subseteq Win /\ Mover \subseteq Guest
    /\ PaidTo \in [Win -> Script] /\ KeyScript \notin Script
    /\ Loop \in Thread
    /\ Percents \subseteq Int
    /\ \A S \in StartGuests : S \subseteq Guest /\ Cardinality(S) <= MaxGuests
    /\ MaxGuests \in Nat /\ PersistMax \in Nat /\ Fee \in Nat /\ Dust \in Nat
    /\ MaxEdits \in Nat /\ MaxFaults \in Nat

VARIABLES
    enabled, percent, guests, shared,   \* g_enabled, g_percent, g_guests, g_shared
    file,       \* host-guests.json
    session,    \* SessionIsXVerified()
    locked,     \* the wallet
    indexed,    \* AssetIndexReady() and a wallet is loaded: settled at the start
    local,      \* LocalScript()
    ready,      \* guests whose root has a holder address
    mature,     \* wins that have matured
    coin,       \* what became of each win's coin
    paid,       \* the share transactions of each win, oldest first
    scan,       \* the scan of each thread
    edits, faults

settings == <<enabled, percent, guests, shared, file>>
world == <<session, locked, indexed, local, ready, mature>>
vars == <<settings, world, coin, paid, scan, edits, faults>>

-----------------------------------------------------------------------------
GuestPot(nValue, p) ==
    IF nValue <= 0 \/ p < MIN_PERCENT THEN 0
    ELSE LET q == IF p > MAX_PERCENT THEN MAX_PERCENT ELSE p
         IN  (nValue \div 100) * q + ((nValue % 100) * q) \div 100

(* Mutated: rounds the share up.                                           *)
MutantGuestShare(pot, nReady) ==
    IF pot <= 0 \/ nReady = 0 THEN 0 ELSE (pot + nReady - 1) \div nReady

GuestShare(pot, nReady) == IF pot <= 0 \/ nReady = 0 THEN 0 ELSE pot \div nReady

-----------------------------------------------------------------------------
(* The file.  Only so many wins are written, in their order.               *)
Snapshot(e, p, g, s) ==
    [enabled |-> e, percent |-> p, guests |-> g,
     shared |-> {w \in s : Cardinality({v \in s : v < w}) < PersistMax}]

(* The result of the write is not looked at: it may not have happened, or  *)
(* have truncated the file.                                                *)
PersistLocked ==
    \/ file' = Snapshot(enabled', percent', guests', shared') /\ UNCHANGED faults
    \/ faults < MaxFaults /\ file' \in {file, Torn} /\ faults' = faults + 1

LoadLocked(f) ==
    IF f = Torn
    THEN enabled' = FALSE /\ percent' = DEFAULT_PERCENT /\ guests' = {} /\ shared' = {}
    ELSE /\ enabled' = f.enabled
         /\ percent' = f.percent
         /\ guests' = f.guests
         /\ shared' = f.shared

-----------------------------------------------------------------------------
(* The host's settings.                                                    *)
Edit == edits < MaxEdits /\ edits' = edits + 1

SetEnabled(on) ==
    /\ Edit
    /\ on => session
    /\ enabled' = on
    /\ UNCHANGED <<percent, guests, shared>>
    /\ PersistLocked
    /\ UNCHANGED <<world, coin, paid, scan>>

SetPercent(p) ==
    /\ Edit
    /\ p \in MIN_PERCENT..MAX_PERCENT
    /\ percent' = p
    /\ UNCHANGED <<enabled, guests, shared>>
    /\ PersistLocked
    /\ UNCHANGED <<world, coin, paid, scan>>

(* Mutated: the list may grow by one more.                                 *)
MutantInviteGuest(g) ==
    /\ Edit
    /\ session
    /\ g \notin guests
    /\ Cardinality(guests) <= MaxGuests
    /\ guests' = guests \cup {g}
    /\ UNCHANGED <<enabled, percent, shared>>
    /\ PersistLocked
    /\ UNCHANGED <<world, coin, paid, scan>>

InviteGuest(g) ==
    /\ Edit
    /\ session
    /\ g \notin guests
    /\ Cardinality(guests) < MaxGuests
    /\ guests' = guests \cup {g}
    /\ UNCHANGED <<enabled, percent, shared>>
    /\ PersistLocked
    /\ UNCHANGED <<world, coin, paid, scan>>

RemoveGuest(g) ==
    /\ Edit
    /\ g \in guests
    /\ guests' = guests \ {g}
    /\ UNCHANGED <<enabled, percent, shared>>
    /\ PersistLocked
    /\ UNCHANGED <<world, coin, paid, scan>>

(* Sign in or out, lock or unlock the wallet, adopt another payout script, *)
(* a guest's root moves to or from an address, the host spends a win.      *)
WorldChanges ==
    /\ Edit
    /\ \/ session' = ~session /\ UNCHANGED <<locked, local, ready, coin>>
       \/ locked' = ~locked /\ UNCHANGED <<session, local, ready, coin>>
       \/ /\ local \in Script /\ local' \in Script \ {local}
          /\ UNCHANGED <<session, locked, ready, coin>>
       \/ /\ \E g \in Mover : ready' = (ready \ {g}) \cup ({g} \ ready)
          /\ UNCHANGED <<session, locked, local, coin>>
       \/ /\ \E w \in mature : coin[w] = "unspent" /\ coin' = [coin EXCEPT ![w] = "spent"]
          /\ UNCHANGED <<session, locked, local, ready>>
    /\ UNCHANGED <<settings, indexed, mature, paid, scan, faults>>

(* Once in a life of the process the lottery loop takes a script from the  *)
(* wallet, when the wallet has one.                                        *)
AdoptScript ==
    /\ local = KeyScript
    /\ local' \in Script
    /\ UNCHANGED <<settings, session, locked, indexed, ready, mature, coin, paid, scan, edits, faults>>

WinMatures(w) ==
    /\ w \in Win \ mature
    /\ mature' = mature \cup {w}
    /\ UNCHANGED <<settings, session, locked, indexed, local, ready, coin, paid, scan, edits, faults>>

-----------------------------------------------------------------------------
(* MaybeShareMatureWins.                                                   *)
NoScan == [at |-> "out", percent |-> 0, local |-> KeyScript, dests |-> {}, jobs |-> {}]

BeginScan(t) ==
    /\ scan[t].at = "out"
    /\ enabled
    /\ session
    /\ indexed
    /\ ~locked
    /\ scan' = [scan EXCEPT ![t] = [NoScan EXCEPT !.at = "guests", !.percent = percent,
                                                  !.local = local]]
    /\ UNCHANGED <<settings, world, coin, paid, edits, faults>>

ListGuests(t) ==
    /\ scan[t].at = "guests"
    /\ scan' = [scan EXCEPT ![t].at = "wallet", ![t].dests = guests \cap ready]
    /\ UNCHANGED <<settings, world, coin, paid, edits, faults>>

(* The scan goes on with these jobs, or is over.                           *)
Doing(s, jobs) ==
    IF jobs = {} THEN NoScan ELSE [s EXCEPT !.at = "jobs", !.jobs = jobs]

CollectJobs(t) ==
    /\ scan[t].at = "wallet"
    /\ scan' = [scan EXCEPT ![t] = Doing(@, mature \ shared)]
    /\ UNCHANGED <<settings, world, coin, paid, edits, faults>>

Job(t) == Min(scan[t].jobs)

AtJob(t) == scan[t].at = "jobs"

(* Only an output to the script that is local now counts: none while that  *)
(* is the key file's.                                                      *)
JobValue(t) == IF PaidTo[Job(t)] = scan[t].local THEN Value[Job(t)] ELSE 0

Each(t) ==
    GuestShare(GuestPot(JobValue(t), scan[t].percent), Cardinality(scan[t].dests))

NothingToShare(t) ==
    \/ JobValue(t) <= 0
    \/ scan[t].dests = {}
    \/ Each(t) <= 0
    \/ Each(t) < Dust

MarkSharedLocked(w) ==
    /\ shared' = shared \cup {w}
    /\ UNCHANGED <<enabled, percent, guests>>
    /\ PersistLocked

NextJob(t) == [scan EXCEPT ![t] = Doing(@, @.jobs \ {Job(t)})]

SkipJob(t) ==
    /\ AtJob(t)
    /\ NothingToShare(t)
    /\ MarkSharedLocked(Job(t))
    /\ scan' = NextJob(t)
    /\ UNCHANGED <<world, coin, paid, edits>>

(* Mutated: the wallet may take other coins.                               *)
MutantCreateTransaction(t) ==
    /\ Each(t) * Cardinality(scan[t].dests) + Fee <= JobValue(t)
    /\ ~locked

(* The transaction may spend the win's coin and nothing else.              *)
CreateTransaction(t) ==
    /\ coin[Job(t)] = "unspent"
    /\ Each(t) * Cardinality(scan[t].dests) + Fee <= JobValue(t)
    /\ ~locked

ShareWin(t) ==
    /\ AtJob(t)
    /\ ~NothingToShare(t)
    /\ CreateTransaction(t)
    /\ coin' = [coin EXCEPT ![Job(t)] = "shared"]
    /\ paid' = [paid EXCEPT ![Job(t)] =
                   Append(@, [each |-> Each(t), dests |-> scan[t].dests,
                              percent |-> scan[t].percent])]
    /\ scan' = [scan EXCEPT ![t].at = "mark"]
    /\ UNCHANGED <<settings, world, edits, faults>>

MarkShared(t) ==
    /\ scan[t].at = "mark"
    /\ MarkSharedLocked(Job(t))
    /\ scan' = NextJob(t)
    /\ UNCHANGED <<world, coin, paid, edits>>

(* Mutated: one failure ends the scan.                                     *)
MutantShareFails(t) ==
    /\ AtJob(t)
    /\ ~NothingToShare(t)
    /\ \/ ~CreateTransaction(t) /\ UNCHANGED faults
       \/ CreateTransaction(t) /\ faults < MaxFaults /\ faults' = faults + 1
    /\ scan' = [scan EXCEPT ![t] = NoScan]
    /\ UNCHANGED <<settings, world, coin, paid, edits>>

(* CreateTransaction fails, or the mempool refuses the transaction and the *)
(* wallet abandons it: the next scan tries again.                          *)
ShareFails(t) ==
    /\ AtJob(t)
    /\ ~NothingToShare(t)
    /\ \/ ~CreateTransaction(t) /\ UNCHANGED faults
       \/ CreateTransaction(t) /\ faults < MaxFaults /\ faults' = faults + 1
    /\ scan' = NextJob(t)
    /\ UNCHANGED <<settings, world, coin, paid, edits>>

MaybeShareMatureWins(t) ==
    \/ BeginScan(t)
    \/ ListGuests(t)
    \/ CollectJobs(t)
    \/ SkipJob(t)
    \/ ShareWin(t)
    \/ MarkShared(t)
    \/ ShareFails(t)

(* The process ends, maybe in the middle of a write, and starts again;     *)
(* the asset index may have been turned on or off for that start.          *)
(* StartProducer loads the settings and takes the key file's script.       *)
CrashAndRestart ==
    /\ faults < MaxFaults
    /\ faults' = faults + 1
    /\ file' \in {file, Torn}
    /\ LoadLocked(file')
    /\ scan' = [t \in Thread |-> NoScan]
    /\ local' = KeyScript
    /\ indexed' \in BOOLEAN
    /\ UNCHANGED <<session, locked, ready, mature, coin, paid, edits>>

-----------------------------------------------------------------------------
Init ==
    /\ enabled = TRUE
    /\ percent = DEFAULT_PERCENT
    /\ guests \in StartGuests
    /\ shared = {}
    /\ file = Snapshot(enabled, percent, guests, shared)
    /\ session = TRUE
    /\ locked = FALSE
    /\ indexed \in BOOLEAN
    /\ local = KeyScript
    /\ ready = Guest
    /\ mature = Matured
    /\ coin = [w \in Win |-> "unspent"]
    /\ paid = [w \in Win |-> <<>>]
    /\ scan = [t \in Thread |-> NoScan]
    /\ edits = 0
    /\ faults = 0

Next ==
    \/ \E on \in BOOLEAN : SetEnabled(on)
    \/ \E p \in Percents : SetPercent(p)
    \/ \E g \in Guest : InviteGuest(g)
    \/ \E g \in Guest : RemoveGuest(g)
    \/ WorldChanges
    \/ AdoptScript
    \/ \E w \in Win : WinMatures(w)
    \/ \E t \in Thread : MaybeShareMatureWins(t)
    \/ CrashAndRestart

Spec == Init /\ [][Next]_vars

(* The lottery loop scans once a second; nobody has to call listguests.    *)
FairSpec == Spec /\ WF_vars(MaybeShareMatureWins(Loop))

-----------------------------------------------------------------------------
TypeOK ==
    /\ enabled \in BOOLEAN
    /\ percent \in MIN_PERCENT..MAX_PERCENT
    /\ guests \subseteq Guest /\ Cardinality(guests) <= MaxGuests
    /\ shared \subseteq Win
    /\ mature \subseteq Win
    /\ coin \in [Win -> {"unspent", "shared", "spent"}]
    /\ \A t \in Thread : scan[t].jobs \subseteq mature
    /\ edits \in 0..MaxEdits
    /\ faults \in 0..MaxFaults

(* A win is shared at most once, whatever is forgotten: two threads at the *)
(* same win, a crash between the payment and the mark, a torn file, more   *)
(* wins than the file holds.  g_shared alone could not promise it.         *)
SharedAtMostOnce == \A w \in Win : Len(paid[w]) <= 1

(* LOTTERY.md: a percent of their mature output, equally among the guests. *)
(* Together the guests get no more than the percent of the win that was    *)
(* set when the scan began, and less by less than one unit per guest.      *)
PaysThePercent ==
    \A w \in Win : \A i \in 1..Len(paid[w]) :
        LET p == paid[w][i]
            n == Cardinality(p.dests)
        IN  /\ n > 0
            /\ w \in mature
            /\ 100 * p.each * n <= p.percent * Value[w]
            /\ p.percent * Value[w] < 100 * (p.each * n + n)
            /\ p.each * n + Fee <= Value[w]

(* The host lets the loop share, with the asset index and a wallet, and    *)
(* leaves room for the fee.                                                *)
MayShare ==
    /\ enabled /\ session /\ indexed /\ ~locked
    /\ \A w \in Win : GuestPot(Value[w], percent) + Fee <= Value[w]

(* Once the settings stay as they are, every mature win is marked, shared  *)
(* or spent, also behind wins whose transaction fails again and again.     *)
WinsGetHandled ==
    <>[]MayShare => <>[](\A w \in mature : w \in shared \/ coin[w] # "unspent")
=============================================================================
