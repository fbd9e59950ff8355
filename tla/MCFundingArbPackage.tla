------------------------ MODULE MCFundingArbPackage ------------------------
(***************************************************************************)
(* Instances of the funding-arb package for TLC.                           *)
(***************************************************************************)
EXTENDS FundingArbPackage, TLC

(* To a package a fill past the step's limit is one past the hard collar   *)
(* with the halt cleared again, and a refused order a pending one that     *)
(* never fills: "slipped" and "refused" add no behaviour.                  *)
MCAnswers == {"clean", "unpriced", "collar", "pending", "error"}

(* Runs are alike, and so are instruments.                                 *)
PackageSymmetry == Permutations(Pkgs) \cup Permutations(Assets)

(* What is read again of a state, by a step or by a property.  Of a run    *)
(* that is under way: its instrument while it is reserved, its answers but *)
(* not whether a fill had a price, and whether its prices are stale while  *)
(* it has orders to send.  Of one that has ended: the legs it knows as     *)
(* filled and as on, and whether it was refused for the halt or the quota  *)
(* with a leg to close.  Of the exchange, once both legs have answered: the*)
(* filled legs still on that no order filled in part, for no late fill     *)
(* touches another.                                                        *)
Exposed(p) == (held[p] \cap FilledLegs(p)) \ partial[p]
RecordInUse(p) ==
  IF pc[p] \in AtRest
    THEN <<FilledLegs(p), KnownOn(p),
           pc[p] = "raised" /\ refusal[p] \in {"halt", "quota"} => leg[p][2] = "none">>
    ELSE <<[k \in Legs |-> IF leg[p][k] = "unpriced" THEN "clean" ELSE leg[p][k]], closing[p], TRUE>>
ExchangeInUse(p) ==
  <<Exposed(p), held[p] \cup resting[p] = {},
    IF pc[p] \in {"dispatching", "opening", "resolving"} THEN held[p] ELSE {},
    state[p] \in {"LOCKED", "SETTLED"} => held[p] = Legs>>
RunInUse(p) ==
  <<pc[p], IF pc[p] = "fetching" \/ p \in open THEN asset[p] ELSE NoAsset, logged[p],
    RecordInUse(p), state[p], unwound[p], receipts[p], ExchangeInUse(p),
    p \in stale /\ pc[p] \in Running \ {"settling", "recording"}>>
PackageView == <<[p \in Pkgs |-> RunInUse(p)], registry, killed, spent, lossHit>>

=============================================================================
