----------------------------- MODULE MCPromotion -----------------------------
(* Three candidates, of which a run takes two, one of them perhaps following *)
(* the other; a trend id for each candidate; one run at a time, with its     *)
(* second iteration.                                                         *)
EXTENDS Promotion
=============================================================================
