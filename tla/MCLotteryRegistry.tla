-------------------------- MODULE MCLotteryRegistry --------------------------
(* Small instances of LotteryRegistry; the .cfg files give the constants.   *)
EXTENDS LotteryRegistry

CONSTANTS l1, l2, r1, r2, h1, h2
=============================================================================
