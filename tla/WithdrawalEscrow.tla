-------------------------- MODULE WithdrawalEscrow --------------------------
(***************************************************************************)
(* What the vault promises a depositor who withdraws, with no time, price, *)
(* NAV, reserve or agent in sight.  The shares of a request lie in escrow  *)
(* against a fixed sum until exactly one of two things happens: that sum   *)
(* is paid out of the vault's assets, or the shares return to their owner. *)
(***************************************************************************)
EXTENDS Integers

CONSTANT Owners

VARIABLES
  shares,    (* the shares each owner can use                              *)
  assets,    (* what the vault holds                                       *)
  escrow,    (* the requests not yet settled, by id                        *)
  settled    (* the ids of the requests that are                           *)

escrowVars == <<shares, assets, escrow, settled>>

Init ==
  /\ shares = [u \in Owners |-> 0]
  /\ assets = 0
  /\ DOMAIN escrow = {}
  /\ settled = {}

(* Assets come in for new shares, shares change hands, assets come and go. *)
Buy(u) ==
  /\ shares'[u] > shares[u] /\ \A v \in Owners : v # u => shares'[v] = shares[v]
  /\ assets' > assets
  /\ UNCHANGED <<escrow, settled>>

Give(u, v) ==
  /\ u # v
  /\ shares'[u] <= shares[u] /\ shares'[u] + shares'[v] = shares[u] + shares[v]
  /\ \A w \in Owners : w \notin {u, v} => shares'[w] = shares[w]
  /\ UNCHANGED <<assets, escrow, settled>>

MoveAssets == UNCHANGED <<shares, escrow, settled>>

(* A request with a new id takes the shares it escrows from its owner.     *)
Lock(u) ==
  \E id \in DOMAIN escrow' :
    /\ id \notin DOMAIN escrow /\ id \notin settled
    /\ escrow'[id].owner = u /\ escrow'[id].shares > 0
    /\ shares[u] >= escrow'[id].shares
    /\ shares' = [shares EXCEPT ![u] = @ - escrow'[id].shares]
    /\ DOMAIN escrow' = DOMAIN escrow \cup {id}
    /\ \A other \in DOMAIN escrow : escrow'[other] = escrow[other]
    /\ UNCHANGED <<assets, settled>>

Settle(id) ==
  /\ settled' = settled \cup {id}
  /\ escrow' = [other \in DOMAIN escrow \ {id} |-> escrow[other]]

Pay(id) ==
  /\ assets >= escrow[id].sum
  /\ assets' = assets - escrow[id].sum
  /\ Settle(id)
  /\ UNCHANGED shares

Restore(id) ==
  /\ shares' = [shares EXCEPT ![escrow[id].owner] = @ + escrow[id].shares]
  /\ Settle(id)
  /\ UNCHANGED assets

Next ==
  \/ \E u \in Owners : Buy(u) \/ Lock(u)
  \/ \E u, v \in Owners : Give(u, v)
  \/ MoveAssets
  \/ \E id \in DOMAIN escrow : Pay(id) \/ Restore(id)

Spec == Init /\ [][Next]_escrowVars

=============================================================================
