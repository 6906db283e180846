---------------------------- MODULE MCClaimChain ----------------------------
(***************************************************************************)
(* Two branches that claim for the same handle.  Branch a: a1 gives n1 to  *)
(* h1; a2 carries no claim; x2 gives n2 to h2 and breaks another rule.     *)
(* Branch b: b1 gives n2 to h1; b2 would give n2 a second holder, c2 would *)
(* give h1 a second root.                                                  *)
(***************************************************************************)
EXTENDS ClaimChain, TLC

CONSTANTS t1, t2, g, a1, a2, x2, b1, b2, c2, h1, h2, n1, n2

cl(hh, nn) == [h |-> hh, n |-> nn]

MCBlock == {a1, a2, x2, b1, b2, c2}

MCParent ==
    [b \in MCBlock |-> CASE b \in {a1, b1} -> g
                         [] b \in {a2, x2} -> a1
                         [] b \in {b2, c2} -> b1]

MCAnc ==
    [b \in MCBlock \cup {g} |-> CASE b = g -> {}
                                  [] b \in {a1, b1} -> {b}
                                  [] b \in {a2, x2} -> {a1, b}
                                  [] b \in {b2, c2} -> {b1, b}]

MCHash ==
    [b \in MCBlock \cup {g} |-> CASE b = g -> 0 [] b = a1 -> 2 [] b = b1 -> 1
                                  [] b = a2 -> 5 [] b = x2 -> 4
                                  [] b = b2 -> 3 [] b = c2 -> 6]

MCClaim ==
    [b \in MCBlock |-> CASE b = a1 -> cl(h1, n1) [] b = a2 -> NoClaim
                         [] b = x2 -> cl(h2, n2) [] b = b1 -> cl(h1, n2)
                         [] b = b2 -> cl(h2, n2) [] b = c2 -> cl(h1, n1)]

MCGood == MCBlock \ {x2}

\* The same tree with nothing that is ever refused.
MCNoClaims == [b \in MCBlock |-> NoClaim]

\* The node's own producer makes b1; the others come from peers.
MCBrings == t1 :> {b1} @@ t2 :> MCBlock \ {b1}

MCBringsAll == [t \in {t1, t2} |-> MCBlock]

MCLoose == {cl(h2, n2)}

MCDerivable == [h \in {h1, h2} |-> <<n1, n2>>]
=============================================================================
