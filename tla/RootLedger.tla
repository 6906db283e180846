----------------------------- MODULE RootLedger -----------------------------
(***************************************************************************)
(* What the claims of root assets promise, without blocks, pools or files: *)
(* a ledger that gives an X handle at most one root asset and a root asset *)
(* to at most one handle.  A handle gets a root only while it has none; a  *)
(* reorganization takes roots back, and never exchanges one for another in *)
(* a single step.                                                          *)
(***************************************************************************)
CONSTANTS
    Handle,   \* normalized X handles
    Name,     \* names of root assets
    NoName    \* the handle has no root

VARIABLE ledger

Init == ledger = [h \in Handle |-> NoName]

(* A claim of a free root by a handle that has none is confirmed.          *)
Assign(h, n) ==
    /\ ledger[h] = NoName
    /\ \A g \in Handle : ledger[g] # n
    /\ ledger' = [ledger EXCEPT ![h] = n]

(* The claims of these handles are no longer part of the chain.            *)
Release(S) ==
    ledger' = [h \in Handle |-> IF h \in S THEN NoName ELSE ledger[h]]

Next ==
    \/ \E h \in Handle, n \in Name : Assign(h, n)
    \/ \E S \in SUBSET Handle : Release(S)

Spec == Init /\ [][Next]_ledger

-----------------------------------------------------------------------------
LedgerTypeOK == ledger \in [Handle -> Name \cup {NoName}]

(* No root asset has two holders.                                          *)
OneHolder ==
    \A g, h \in Handle : (ledger[g] = ledger[h] /\ ledger[g] # NoName) => g = h
=============================================================================
