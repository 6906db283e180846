-------------------------- MODULE RootLedgerProofs --------------------------
(***************************************************************************)
(* The abstract ledger keeps its promise, for every set of handles and of  *)
(* names.                                                                  *)
(***************************************************************************)
EXTENDS RootLedger, TLAPS

(* The ledger always maps handles to names, or to none.                    *)
THEOREM LedgerTypeCorrect == Spec => []LedgerTypeOK
<1>1. Init => LedgerTypeOK
  BY DEF Init, LedgerTypeOK
<1>2. LedgerTypeOK /\ [Next]_ledger => LedgerTypeOK'
  BY DEF LedgerTypeOK, Next, Assign, Release
<1>3. QED
  BY <1>1, <1>2, PTL DEF Spec

(* No root asset ever has two holders: a root is given out only while      *)
(* nobody holds it, and taking roots back frees them.                      *)
THEOREM LedgerOneHolder == Spec => []OneHolder
<1>1. Init => OneHolder
  BY DEF Init, OneHolder
<1>2. LedgerTypeOK /\ OneHolder /\ [Next]_ledger => OneHolder'
  <2> SUFFICES ASSUME LedgerTypeOK, OneHolder, [Next]_ledger PROVE OneHolder'
    OBVIOUS
  <2>1. CASE UNCHANGED ledger
    BY <2>1 DEF OneHolder
  <2>2. ASSUME NEW h \in Handle, NEW n \in Name, Assign(h, n) PROVE OneHolder'
    BY <2>2 DEF Assign, OneHolder, LedgerTypeOK
  <2>3. ASSUME NEW S \in SUBSET Handle, Release(S) PROVE OneHolder'
    BY <2>3 DEF Release, OneHolder, LedgerTypeOK
  <2>4. QED
    BY <2>1, <2>2, <2>3 DEF Next
<1>3. QED
  BY <1>1, <1>2, LedgerTypeCorrect, PTL DEF Spec
=============================================================================
