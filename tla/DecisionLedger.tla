--------------------------- MODULE DecisionLedger ---------------------------
(***************************************************************************)
(* What agents can rely on of the audit trail contract, with no limits,    *)
(* days, arrays or indices in sight: nothing is logged under its agent's   *)
(* kill switch, no id is logged twice, a receipt closes a decision of the  *)
(* agent that files it, once, and nothing that stands ever goes away.      *)
(* The contract implements it (TradeAuditTrail); the chain behind the      *)
(* logger is one with a single account (OnchainLogger).                    *)
(***************************************************************************)

CONSTANTS Accounts, DecisionIds

VARIABLES
  halt,      (* the kill switch of each account                            *)
  logged,    (* the ids of its decisions                                   *)
  closed     (* the ids of those it has filed a receipt for                *)

ledgerVars == <<halt, logged, closed>>

Init ==
  /\ halt = [a \in Accounts |-> FALSE]
  /\ logged = [a \in Accounts |-> {}]
  /\ closed = [a \in Accounts |-> {}]

Switch(a) ==
  /\ \E on \in BOOLEAN : halt' = [halt EXCEPT ![a] = on]
  /\ UNCHANGED <<logged, closed>>

Log(a, id) ==
  /\ ~halt[a]
  /\ \A b \in Accounts : id \notin logged[b]
  /\ logged' = [logged EXCEPT ![a] = @ \cup {id}]
  /\ UNCHANGED <<halt, closed>>

Close(a, id) ==
  /\ id \in logged[a] \ closed[a]
  /\ closed' = [closed EXCEPT ![a] = @ \cup {id}]
  /\ UNCHANGED <<halt, logged>>

Next == \E a \in Accounts : \/ Switch(a)
                            \/ \E id \in DecisionIds : Log(a, id) \/ Close(a, id)

Spec == Init /\ [][Next]_ledgerVars

=============================================================================
