---------------------------- MODULE OnchainLogger ----------------------------
(***************************************************************************)
(* The sending half of OnchainLogger (audit_logger.py): every write to the *)
(* audit trail goes through _send_transaction, which numbers it with a     *)
(* counter of its own under a lock, sends it, fails over to another        *)
(* endpoint when the connection breaks, and waits for the receipt outside  *)
(* the lock.  POST /vault/attest (main.py) sends with the same key but     *)
(* takes its nonce from the node and knows nothing of the counter.         *)
(*                                                                         *)
(* The chain is what nodes make of one account: transactions are mined in  *)
(* the order of their nonces; a gap makes the later ones wait.  Signing is *)
(* deterministic, so a call sent twice with one nonce is one transaction.  *)
(***************************************************************************)
EXTENDS Integers

CONSTANTS
  Calls,        (* the calls a run can make, each once                      *)
  Kind,         (* what each call does                                      *)
  DecisionOf,   (* for a receipt: the call that logs its decision           *)
  NoCall,
  MaxMishaps    (* bound: broken connections, lost or late transactions,    *)
                (* refusals by limits of the contract, restarts             *)

OfKind(kinds) == {c \in Calls : Kind[c] \in kinds}

ASSUME LoggerAssumption ==
  /\ Kind \in [Calls -> {"log", "record", "halt", "clear", "attest"}]
  /\ DecisionOf \in [OfKind({"record"}) -> OfKind({"log"})]
  /\ NoCall \notin Calls
  /\ MaxMishaps \in Nat

VARIABLES
  counter,    (* _nonce_counter                                            *)
  at,         (* how far each call has come                                *)
  nonce,      (* the nonce of its latest broadcast, while it is in flight  *)
  pool,       (* transactions the nodes hold and have not mined            *)
  mined,      (* receipts somebody may still ask for                       *)
  height,     (* the account's transaction count                           *)
  took,       (* how often a call has taken effect in the contract         *)
  halted,     (* TradeAuditTrail.killSwitchActive(agent)                   *)
  reseeded,   (* history: the counter was read from a node a second time   *)
  latest,     (* history: the halt or clear that was numbered last         *)
  mishaps     (* bound: mishaps so far                                     *)

chainVars == <<pool, height, took, halted>>
loggerVars == <<counter, at, nonce, mined, chainVars, reseeded, latest, mishaps>>

Unset == -1    (* no nonce yet; the counter before its first use           *)
InFlight == {"asked", "failover", "reseed", "waiting"}
Answered == {"ok", "error"}

Tx == [call : Calls, nonce : Nat]
TxOf(c) == [call |-> c, nonce |-> nonce[c]]
Mined(c) == \E m \in mined : m.call = c /\ m.nonce = nonce[c]
Due(c) == TxOf(c) \in pool /\ nonce[c] = height

Mishap ==
  /\ mishaps < MaxMishaps
  /\ mishaps' = mishaps + 1

-----------------------------------------------------------------------------
(* The decision has a receipt on the chain.                                *)
Closed(log) == \E c \in OfKind({"record"}) : DecisionOf[c] = log /\ took[c] > 0

(* Mutants of Permits: the contract takes an id it has seen again, or does *)
(* not look at the kill switch.                                            *)
PermitsAgain(c) ==
  CASE Kind[c] = "log" -> ~halted
    [] Kind[c] = "record" -> took[DecisionOf[c]] > 0
    [] OTHER -> TRUE
PermitsHalted(c) ==
  CASE Kind[c] = "log" -> took[c] = 0
    [] Kind[c] = "record" -> took[DecisionOf[c]] > 0 /\ ~Closed(DecisionOf[c])
    [] OTHER -> TRUE

(* What the contract requires of a call beyond limits of its own: logging  *)
(* is refused under the kill switch and for an id it has seen, a receipt   *)
(* without its decision or for one that has a receipt.                     *)
Permits(c) ==
  CASE Kind[c] = "log" -> ~halted /\ took[c] = 0
    [] Kind[c] = "record" -> took[DecisionOf[c]] > 0 /\ ~Closed(DecisionOf[c])
    [] OTHER -> TRUE

(* Limits of the contract that another module checks (TradeAuditTrail, and *)
(* the attestation caps of TradingVault) may refuse these two kinds too.   *)
Reverts(c) ==
  \/ ~Permits(c) /\ UNCHANGED mishaps
  \/ Kind[c] \in {"log", "attest"} /\ Mishap

(* send_raw_transaction: a node takes a transaction in, also ahead of its  *)
(* turn and in place of another of the same nonce, or refuses it: nonce    *)
(* too low, replacement underpriced, already known.                        *)
Takes(tx) ==
  /\ tx.nonce >= height
  /\ pool' = {p \in pool : p.nonce # tx.nonce} \cup {tx}
Refuses(tx) ==
  /\ tx.nonce < height \/ \E p \in pool : p.nonce = tx.nonce
  /\ UNCHANGED pool

(* The lock is held from the numbering of a transaction to the end of its  *)
(* broadcast, failover included.                                           *)
LockFree == \A c \in Calls : at[c] \notin {"failover", "reseed"}

(* _next_nonce: seeded from the node on first use, then counted locally.   *)
NextNonce == IF counter = Unset THEN height ELSE counter + 1

(* The call returns a hash or raises; its receipt is of no more interest.  *)
Answer(c, result) ==
  /\ at' = [at EXCEPT ![c] = result]
  /\ nonce' = [nonce EXCEPT ![c] = Unset]
  /\ mined' = {m \in mined : m.call # c}

(* The call goes on, numbered n.                                           *)
Move(c, stage, n) ==
  /\ at' = [at EXCEPT ![c] = stage]
  /\ nonce' = [nonce EXCEPT ![c] = n]
  /\ UNCHANGED mined

Numbered(c) == latest' = IF Kind[c] \in {"halt", "clear"} THEN c ELSE latest

LoggerInit ==
  /\ counter = Unset
  /\ at = [c \in Calls |-> "idle"]
  /\ nonce = [c \in Calls |-> Unset]
  /\ pool = {}
  /\ mined = {}
  /\ height = 0
  /\ took = [c \in Calls |-> 0]
  /\ halted = FALSE
  /\ reseeded = FALSE
  /\ latest = NoCall
  /\ mishaps = 0

-----------------------------------------------------------------------------
(* A caller hands a call to a worker thread.                               *)
Ask(c) ==
  /\ at[c] = "idle"
  /\ Kind[c] # "attest"
  /\ at' = [at EXCEPT ![c] = "asked"]
  /\ UNCHANGED <<counter, nonce, mined, chainVars, reseeded, latest, mishaps>>

(* What becomes of the first broadcast of tx: the node takes or refuses    *)
(* it; the call raises before it reaches a node; or the connection breaks, *)
(* and the transaction may have got through all the same.                  *)
FirstSend(c, tx) ==
  \/ Takes(tx) /\ Move(c, "waiting", tx.nonce) /\ UNCHANGED mishaps
  \/ Refuses(tx) /\ Answer(c, "error") /\ UNCHANGED mishaps
  \/ Mishap /\ Answer(c, "error") /\ UNCHANGED pool
  \/ /\ Mishap
     /\ Move(c, "failover", tx.nonce)
     /\ Takes(tx) \/ UNCHANGED pool

(* A mutant of Broadcast: the counter is read, but not advanced.           *)
BroadcastStuckCounter(c) ==
  LET n == IF counter = Unset THEN height ELSE counter IN
  /\ at[c] = "asked"
  /\ LockFree
  /\ counter' = n
  /\ Numbered(c)
  /\ FirstSend(c, [call |-> c, nonce |-> n])
  /\ UNCHANGED <<height, took, halted, reseeded>>

(* The call gets the lock, and its transaction the next number: the        *)
(* counter has moved on whatever becomes of the broadcast.                 *)
Broadcast(c) ==
  /\ at[c] = "asked"
  /\ LockFree
  /\ counter' = NextNonce
  /\ Numbered(c)
  /\ FirstSend(c, [call |-> c, nonce |-> NextNonce])
  /\ UNCHANGED <<height, took, halted, reseeded>>

(* The node cannot be asked for the seed: the call raises, unnumbered.     *)
SeedFails(c) ==
  /\ at[c] = "asked"
  /\ LockFree
  /\ counter = Unset
  /\ Mishap
  /\ Answer(c, "error")
  /\ UNCHANGED <<counter, chainVars, reseeded, latest>>

(* _failover and the look-up of the receipt: no endpoint answers and the   *)
(* call raises; the receipt is there; or it is not - the transaction is    *)
(* pending, gone, or the look-up failed - and the counter is dropped.      *)
FailOver(c) ==
  /\ at[c] = "failover"
  /\ \/ Answer(c, "error") /\ UNCHANGED <<counter, reseeded>>
     \/ Mined(c) /\ Move(c, "waiting", nonce[c]) /\ UNCHANGED <<counter, reseeded>>
     \/ Move(c, "reseed", nonce[c]) /\ counter' = Unset /\ reseeded' = TRUE
  /\ UNCHANGED <<chainVars, latest, mishaps>>

(* A broadcast nobody retries: the node takes or refuses it, or the call   *)
(* raises, and the transaction may have got through all the same.          *)
OnlySend(c, tx) ==
  \/ Takes(tx) /\ Move(c, "waiting", tx.nonce) /\ UNCHANGED mishaps
  \/ Refuses(tx) /\ Answer(c, "error") /\ UNCHANGED mishaps
  \/ /\ Mishap
     /\ Answer(c, "error")
     /\ Takes(tx) \/ UNCHANGED pool

(* The one retry: numbered with the surviving node's count.                *)
Resend(c) ==
  /\ at[c] = "reseed"
  /\ counter' = height
  /\ Numbered(c)
  /\ OnlySend(c, [call |-> c, nonce |-> height])
  /\ UNCHANGED <<height, took, halted, reseeded>>

(* The surviving node does not tell its count: the counter stays unset.    *)
ReseedFails(c) ==
  /\ at[c] = "reseed"
  /\ Mishap
  /\ Answer(c, "error")
  /\ UNCHANGED <<counter, chainVars, reseeded, latest>>

(* A mutant of Receive: the receipt's status is not looked at.             *)
ReceiveUnread(c) ==
  /\ at[c] = "waiting"
  /\ Mined(c)
  /\ Answer(c, "ok")
  /\ UNCHANGED <<counter, chainVars, reseeded, latest, mishaps>>

(* wait_for_transaction_receipt: the receipt arrives; a reverted one       *)
(* raises.  vault_attest does not look at the status.                      *)
Receive(c) ==
  /\ at[c] = "waiting"
  /\ \E m \in mined :
       /\ m.call = c /\ m.nonce = nonce[c]
       /\ Answer(c, IF m.ok \/ Kind[c] = "attest" THEN "ok" ELSE "error")
  /\ UNCHANGED <<counter, chainVars, reseeded, latest, mishaps>>

(* A mutant of TimeOut: only a call whose turn has come gives up.          *)
TimeOutInTurn(c) ==
  /\ at[c] = "waiting"
  /\ ~Mined(c)
  /\ nonce[c] <= height
  /\ IF Due(c) THEN Mishap ELSE UNCHANGED mishaps
  /\ Answer(c, "error")
  /\ UNCHANGED <<counter, chainVars, reseeded, latest>>

(* ... or it does not, within 120 seconds.  That a transaction is not      *)
(* mined in this time although its turn has come counts as a mishap.       *)
TimeOut(c) ==
  /\ at[c] = "waiting"
  /\ ~Mined(c)
  /\ IF Due(c) THEN Mishap ELSE UNCHANGED mishaps
  /\ Answer(c, "error")
  /\ UNCHANGED <<counter, chainVars, reseeded, latest>>

(* vault_attest: the node's count is the nonce, whatever the logger has    *)
(* pending.                                                                *)
Attest(c) ==
  /\ at[c] = "idle"
  /\ Kind[c] = "attest"
  /\ OnlySend(c, [call |-> c, nonce |-> height])
  /\ UNCHANGED <<counter, height, took, halted, reseeded, latest>>

(* What a transaction does when a block takes it.                          *)
Execute(tx, ok) ==
  /\ IF ok THEN Permits(tx.call) /\ UNCHANGED mishaps ELSE Reverts(tx.call)
  /\ pool' = pool \ {tx}
  /\ mined' = IF at[tx.call] \in InFlight
              THEN mined \cup {[call |-> tx.call, nonce |-> tx.nonce, ok |-> ok]}
              ELSE mined
  /\ height' = height + 1
  /\ took' = IF ok THEN [took EXCEPT ![tx.call] = @ + 1] ELSE took
  /\ halted' = IF Kind[tx.call] = "halt" THEN TRUE
               ELSE IF Kind[tx.call] = "clear" THEN FALSE ELSE halted
  /\ UNCHANGED <<counter, at, nonce, reseeded, latest>>

(* A mutant of Mine: a transaction ahead of its turn is mined.             *)
MineAnyOrder == \E tx \in pool, ok \in BOOLEAN : Execute(tx, ok)

(* A block takes the transaction whose turn it is.                         *)
Mine == \E tx \in pool, ok \in BOOLEAN : tx.nonce = height /\ Execute(tx, ok)

(* The nodes forget a pending transaction.                                 *)
Forget ==
  /\ Mishap
  /\ \E tx \in pool : pool' = pool \ {tx}
  /\ UNCHANGED <<counter, at, nonce, mined, height, took, halted, reseeded, latest>>

(* The process dies and comes back with a new logger.                      *)
LoggerRestart ==
  /\ Mishap
  /\ at' = [c \in Calls |-> IF at[c] \in InFlight THEN "gone" ELSE at[c]]
  /\ nonce' = [c \in Calls |-> Unset]
  /\ mined' = {}
  /\ counter' = Unset
  /\ reseeded' = TRUE
  /\ UNCHANGED <<chainVars, latest>>

(* What the thread that carries a call does.                               *)
Serve(c) ==
  \/ Broadcast(c) \/ SeedFails(c) \/ FailOver(c) \/ Resend(c) \/ ReseedFails(c)
  \/ Receive(c) \/ TimeOut(c)

LoggerNext ==
  \/ \E c \in Calls : Ask(c) \/ Attest(c) \/ Serve(c)
  \/ Mine
  \/ Forget
  \/ LoggerRestart

LoggerSpec == LoggerInit /\ [][LoggerNext]_loggerVars

-----------------------------------------------------------------------------
(* Types.                                                                  *)
LoggerTypeOK ==
  /\ counter \in Nat \cup {Unset}
  /\ at \in [Calls -> InFlight \cup Answered \cup {"idle", "gone"}]
  /\ nonce \in [Calls -> Nat \cup {Unset}]
  /\ pool \subseteq Tx
  /\ mined \subseteq [call : Calls, nonce : Nat, ok : BOOLEAN]
  /\ height \in Nat
  /\ took \in [Calls -> Nat]
  /\ halted \in BOOLEAN /\ reseeded \in BOOLEAN
  /\ latest \in Calls \cup {NoCall}
  /\ mishaps \in 0..MaxMishaps

(* A call of the logger that returned a hash has taken effect in the       *)
(* contract, whatever broke, was resent, replaced or mined late on the way *)
(* (_send_transaction: "a reverted receipt raises").                       *)
AnswersAreTrue ==
  \A c \in Calls : Kind[c] # "attest" /\ at[c] = "ok" => took[c] > 0

(* Concurrent sends "can't grab the same transaction count and collide":   *)
(* as long as the counter was not read from a node again (failover,        *)
(* restart) and no attestation was sent past it, no call in flight has the *)
(* nonce of another, or of a pending transaction of another.               *)
NoncesApart ==
  ~reseeded /\ (\A c \in OfKind({"attest"}) : at[c] = "idle") =>
    \A c \in Calls : nonce[c] # Unset =>
      /\ \A d \in Calls : nonce[d] = nonce[c] => d = c
      /\ \A tx \in pool : tx.nonce = nonce[c] => tx.call = c

(* While the counter was never reseeded, a halt that was answered stands   *)
(* in the contract until a later clear is numbered: an earlier clear that  *)
(* timed out cannot land behind it and lift it again.                      *)
HaltStands ==
  ~reseeded /\ latest # NoCall /\ Kind[latest] = "halt" /\ at[latest] = "ok" =>
    halted

(* "This is the hard gate": what callers see of the logger is an           *)
(* at-most-once log.  No failover, retry, restart or late block writes an  *)
(* entry twice, or unasked, or tells its caller too early that it stands.  *)
Entries == OfKind({"log", "record"})
Log == INSTANCE AtMostOnceLog WITH
         Entries <- Entries,
         asked   <- {c \in Entries : at[c] # "idle"},
         written <- [c \in Entries |-> took[c]],
         answer  <- [c \in Entries |-> IF at[c] \in Answered THEN at[c] ELSE "none"]
LogRefined == Log!Spec

(* The chain the logger works against is the contract's ledger, with one   *)
(* account: what its nodes do to this account's transactions - losing,     *)
(* delaying, replacing them - adds nothing to the ledger that the contract *)
(* would refuse, and takes nothing off it.                                 *)
Self == {"agent"}
Chain == INSTANCE DecisionLedger WITH
           Accounts <- Self,
           DecisionIds <- OfKind({"log"}),
           halt   <- [a \in Self |-> halted],
           logged <- [a \in Self |-> {c \in OfKind({"log"}) : took[c] > 0}],
           closed <- [a \in Self |-> {c \in OfKind({"log"}) : Closed(c)}]
ChainIsLedger == Chain!Spec

=============================================================================
