------------------------- MODULE MCLotteryProducer -------------------------
(***************************************************************************)
(* Small instances of LotteryProducer; the values are in the .cfg files.   *)
(***************************************************************************)
EXTENDS LotteryProducer
=============================================================================
