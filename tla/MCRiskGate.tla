----------------------------- MODULE MCRiskGate -----------------------------
(***************************************************************************)
(* Instances of the risk gate for TLC.                                     *)
(***************************************************************************)
EXTENDS RiskGate, TLC

Ord(unwind, live, fault) == [unwind |-> unwind, live |-> live, fault |-> fault]

(* A sound live entry, a sound closing leg, a dry run, and an entry that   *)
(* fails a check on either side of the daily limits.                       *)
MCOrders == { Ord(FALSE, TRUE, "none"), Ord(TRUE, TRUE, "none"), Ord(FALSE, FALSE, "none"),
              Ord(FALSE, TRUE, "CONFIDENCE_TOO_LOW"), Ord(TRUE, TRUE, "STALE_PRICE") }

(* For the interleavings: the two orders that reach check 10 differently.  *)
RaceOrders == { Ord(FALSE, TRUE, "none"), Ord(TRUE, TRUE, "none") }

(* Nothing tells one caller from another.                                  *)
CallerSymmetry == Permutations(Callers)

=============================================================================
