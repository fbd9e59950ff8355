-------------------------- MODULE PackageLifecycle --------------------------
(***************************************************************************)
(* What the multi-leg manager promises whoever starts a package            *)
(* (multi_leg.py: "PENDING_FILL -> LOCKED -> SETTLED, with ABORTED as an   *)
(* explicit outcome"), with no order, price, log or gate in sight.  While  *)
(* it is pending, a package holds one of the manager's slots, takes legs on*)
(* and closes them; it locks with all of them on, and an aborted one that  *)
(* says it is unwound has none.  What has ended or was lost never moves.   *)
(***************************************************************************)
EXTENDS FiniteSets, Integers

CONSTANTS Packages, AllLegs, Capacity

VARIABLES
  stage,       (* of each package; "none" before it is proposed            *)
  slots,       (* the packages the manager keeps                           *)
  on,          (* the legs each package knows to be on                     *)
  safe         (* the packages that say they are unwound                   *)

lifeVars == <<stage, slots, on, safe>>

Init ==
  /\ stage = [p \in Packages |-> "none"]
  /\ slots = {}
  /\ on = [p \in Packages |-> {}]
  /\ safe = {}

Pending(p) == stage[p] = "PENDING_FILL" /\ p \in slots

Propose(p) ==
  /\ stage[p] = "none"
  /\ Cardinality(slots) < Capacity
  /\ stage' = [stage EXCEPT ![p] = "PENDING_FILL"]
  /\ slots' = slots \cup {p}
  /\ UNCHANGED <<on, safe>>

(* Legs come on, and go off again, in pending packages only.               *)
MoveLegs ==
  /\ UNCHANGED <<stage, slots, safe>>
  /\ \A p \in Packages : on'[p] # on[p] => Pending(p) /\ on'[p] \subseteq AllLegs

Lock(p) ==
  /\ Pending(p)
  /\ on[p] = AllLegs
  /\ stage' = [stage EXCEPT ![p] = "LOCKED"]
  /\ UNCHANGED <<slots, on, safe>>

Settle(p) ==
  /\ stage[p] = "LOCKED" /\ p \in slots
  /\ stage' = [stage EXCEPT ![p] = "SETTLED"]
  /\ slots' = slots \ {p}
  /\ UNCHANGED <<on, safe>>

(* The last of the legs may be closed with the abort.                      *)
Abort(p) ==
  /\ Pending(p)
  /\ stage' = [stage EXCEPT ![p] = "ABORTED"]
  /\ slots' = slots \ {p}
  /\ \E rest \in SUBSET on[p] :
       /\ on' = [on EXCEPT ![p] = rest]
       /\ \/ safe' = safe
          \/ safe' = safe \cup {p} /\ rest = {}

(* The process dies: packages live in its memory only.                     *)
Lose ==
  /\ slots' = {}
  /\ UNCHANGED <<stage, on, safe>>

Next ==
  \/ MoveLegs
  \/ \E p \in Packages : Propose(p) \/ Lock(p) \/ Settle(p) \/ Abort(p)
  \/ Lose

Spec == Init /\ [][Next]_lifeVars

=============================================================================
