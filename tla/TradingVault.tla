---------------------------- MODULE TradingVault ----------------------------
(***************************************************************************)
(* The pooled USDT vault (contracts/TradingVault.sol): share accounting    *)
(* with virtual shares, two-step withdrawals, operator-attested NAV, the   *)
(* timelocked capital transfer to the trading agent and the rotation of    *)
(* the agent.                                                              *)
(*                                                                         *)
(* Every external function is one action, guarded by the conditions under  *)
(* which it does not revert, the underflow checks of Solidity 0.8 among    *)
(* them.  The chain executes calls one at a time; between two calls the    *)
(* block timestamp may advance.  Share allowances are left out: transfer   *)
(* and transferFrom move balances in the same way.                         *)
(***************************************************************************)
EXTENDS Integers, Sequences, FiniteSetsExt

CONSTANTS
  Users,              (* depositors                                         *)
  Agents,             (* accounts that can be the trading agent             *)
  FirstAgent,         (* the agent given to the constructor                 *)
  Candidates,         (* accounts the owner proposes as agent               *)
  None,               (* address(0)                                         *)
  MIN_DEPOSIT,
  MAX_TVL,
  ATTEST_TIMELOCK,
  MAX_ATTESTATION_DELTA_BPS,
  VIRTUAL_ASSETS,     (* _VIRTUAL_ASSETS                                    *)
  VIRTUAL_SHARES,     (* _VIRTUAL_SHARES                                    *)
  AGENT_TRANSFER_TIMELOCK,
  AGENT_ROTATION_TIMELOCK,
  WITHDRAWAL_DEADLINE,
  WITHDRAWAL_RATE_LIMIT,
  Amounts,            (* amounts of assets and shares used in calls         *)
  Valuations,         (* NAVs the agent attests                             *)
  Genesis,            (* block timestamp of the deployment                  *)
  EndOfTime,          (* bound: the last block timestamp explored           *)
  MaxRequests,        (* bound: withdrawal requests                         *)
  MaxTransfers,       (* bound: agent transfer requests                     *)
  MaxCash             (* bound: assets the vault holds                      *)

ASSUME VaultAssumption ==
  /\ IsFiniteSet(Users)
  /\ FirstAgent \in Agents /\ Candidates \subseteq Agents
  /\ None \notin Agents
  /\ MIN_DEPOSIT \in Nat /\ MAX_TVL \in Nat
  /\ ATTEST_TIMELOCK \in Nat /\ MAX_ATTESTATION_DELTA_BPS \in 0..10000
  /\ VIRTUAL_ASSETS \in Nat \ {0} /\ VIRTUAL_SHARES \in Nat \ {0}
  /\ AGENT_TRANSFER_TIMELOCK \in Nat /\ AGENT_ROTATION_TIMELOCK \in Nat
  /\ WITHDRAWAL_DEADLINE \in Nat /\ WITHDRAWAL_RATE_LIMIT \in Nat
  /\ Amounts \subseteq Nat /\ Valuations \subseteq Nat
  /\ Genesis \in Nat /\ Genesis >= WITHDRAWAL_RATE_LIMIT /\ Genesis >= ATTEST_TIMELOCK
  /\ EndOfTime \in Nat /\ EndOfTime >= Genesis
  /\ MaxRequests \in Nat /\ MaxTransfers \in Nat /\ MaxCash \in Nat

AGENT_TRANSFER_CAP == MAX_TVL \div 10
Times == 0..EndOfTime

VARIABLES
  now,                    (* block.timestamp                                *)
  balanceOf,              (* shares of each user                            *)
  totalSupply,
  totalAssetsPriced,
  pendingReserved,
  cash,                   (* asset.balanceOf(vault)                         *)
  fundingPackageOpen,
  withdrawalRequests,     (* a sequence: the ids are 1..withdrawalCount     *)
  lastWithdrawalRequest,
  lastAttestation,
  agent,
  proposedAgent,
  agentProposedAt,
  agentTransferRequests,  (* a sequence: the ids are 1..agentTransferCount  *)
  lastProposal            (* history: when proposeAgent last succeeded      *)

books == <<balanceOf, totalSupply, totalAssetsPriced, pendingReserved, cash>>
queue == <<withdrawalRequests, lastWithdrawalRequest>>
operator == <<fundingPackageOpen, lastAttestation>>
custody == <<agent, proposedAgent, agentProposedAt, agentTransferRequests, lastProposal>>
vars == <<now, balanceOf, totalSupply, totalAssetsPriced, pendingReserved, cash,
          fundingPackageOpen, withdrawalRequests, lastWithdrawalRequest, lastAttestation,
          agent, proposedAgent, agentProposedAt, agentTransferRequests, lastProposal>>

WithdrawalRequest == [shares : Nat, usdtOut : Nat, owner : Users, deadline : Nat,
                      finalized : BOOLEAN]
AgentTransferRequest == [amount : Nat, requestedAt : Nat, pending : BOOLEAN]

-----------------------------------------------------------------------------
(* _netAssets reverts when the reserve exceeds the attested NAV.           *)
NetDefined == pendingReserved <= totalAssetsPriced
netAssets == totalAssetsPriced - pendingReserved

convertToShares(assets) ==
  (assets * (totalSupply + VIRTUAL_SHARES)) \div (netAssets + VIRTUAL_ASSETS)
convertToAssets(shares) ==
  (shares * (netAssets + VIRTUAL_ASSETS)) \div (totalSupply + VIRTUAL_SHARES)

Distance(a, b) == IF a > b THEN a - b ELSE b - a

-----------------------------------------------------------------------------
Init ==
  /\ now = Genesis
  /\ balanceOf = [u \in Users |-> 0]
  /\ totalSupply = 0
  /\ totalAssetsPriced = 0
  /\ pendingReserved = 0
  /\ cash = 0
  /\ fundingPackageOpen = FALSE
  /\ withdrawalRequests = << >>
  /\ lastWithdrawalRequest = [u \in Users |-> 0]
  /\ lastAttestation = 0
  /\ agent = FirstAgent
  /\ proposedAgent = None
  /\ agentProposedAt = 0
  /\ agentTransferRequests = << >>
  /\ lastProposal = 0

(* transfer, and transferFrom within its allowance: shares change hands.   *)
Transfer(from, to, amount) ==
  /\ from # to
  /\ amount <= balanceOf[from]
  /\ balanceOf' = [balanceOf EXCEPT ![from] = @ - amount, ![to] = @ + amount]
  /\ UNCHANGED <<now, totalSupply, totalAssetsPriced, pendingReserved, cash,
                 queue, operator, custody>>

Deposit(u, amount) ==
  LET shares == convertToShares(amount) IN
  /\ amount >= MIN_DEPOSIT
  /\ totalAssetsPriced + amount <= MAX_TVL
  /\ NetDefined
  /\ shares > 0
  /\ cash + amount <= MaxCash
  /\ cash' = cash + amount
  /\ totalSupply' = totalSupply + shares
  /\ balanceOf' = [balanceOf EXCEPT ![u] = @ + shares]
  /\ totalAssetsPriced' = totalAssetsPriced + amount
  /\ UNCHANGED <<now, pendingReserved, queue, operator, custody>>

(* A mutant of RequestWithdraw: the price is taken after the burn.         *)
RequestWithdrawAfterBurn(u, shares) ==
  LET usdtOut == (shares * (netAssets + VIRTUAL_ASSETS)) \div
                   (totalSupply - shares + VIRTUAL_SHARES) IN
  /\ shares > 0 /\ shares <= balanceOf[u] /\ shares <= totalSupply
  /\ now >= lastWithdrawalRequest[u] + WITHDRAWAL_RATE_LIMIT
  /\ NetDefined
  /\ Len(withdrawalRequests) < MaxRequests /\ now + WITHDRAWAL_DEADLINE <= EndOfTime
  /\ balanceOf' = [balanceOf EXCEPT ![u] = @ - shares]
  /\ totalSupply' = totalSupply - shares
  /\ pendingReserved' = pendingReserved + usdtOut
  /\ lastWithdrawalRequest' = [lastWithdrawalRequest EXCEPT ![u] = now]
  /\ withdrawalRequests' = Append(withdrawalRequests,
       [shares |-> shares, usdtOut |-> usdtOut, owner |-> u,
        deadline |-> now + WITHDRAWAL_DEADLINE, finalized |-> FALSE])
  /\ UNCHANGED <<now, totalAssetsPriced, cash, operator, custody>>

(* requestWithdraw prices the shares, then burns them; no request is made  *)
(* whose deadline lies beyond the bound on time.                           *)
RequestWithdraw(u, shares) ==
  LET usdtOut == convertToAssets(shares) IN
  /\ shares > 0 /\ shares <= balanceOf[u] /\ shares <= totalSupply
  /\ now >= lastWithdrawalRequest[u] + WITHDRAWAL_RATE_LIMIT
  /\ NetDefined
  /\ Len(withdrawalRequests) < MaxRequests /\ now + WITHDRAWAL_DEADLINE <= EndOfTime
  /\ balanceOf' = [balanceOf EXCEPT ![u] = @ - shares]
  /\ totalSupply' = totalSupply - shares
  /\ pendingReserved' = pendingReserved + usdtOut
  /\ lastWithdrawalRequest' = [lastWithdrawalRequest EXCEPT ![u] = now]
  /\ withdrawalRequests' = Append(withdrawalRequests,
       [shares |-> shares, usdtOut |-> usdtOut, owner |-> u,
        deadline |-> now + WITHDRAWAL_DEADLINE, finalized |-> FALSE])
  /\ UNCHANGED <<now, totalAssetsPriced, cash, operator, custody>>

(* A mutant of FinalizeWithdraw: the NAV is reduced without the check.     *)
FinalizeUnchecked(id) ==
  LET req == withdrawalRequests[id] IN
  /\ ~req.finalized
  /\ now <= req.deadline
  /\ ~fundingPackageOpen
  /\ pendingReserved >= req.usdtOut
  /\ cash >= req.usdtOut
  /\ withdrawalRequests' = [withdrawalRequests EXCEPT ![id].finalized = TRUE]
  /\ pendingReserved' = pendingReserved - req.usdtOut
  /\ totalAssetsPriced' = totalAssetsPriced - req.usdtOut
  /\ cash' = cash - req.usdtOut
  /\ UNCHANGED <<now, balanceOf, totalSupply, lastWithdrawalRequest, operator, custody>>

(* A mutant of FinalizeWithdraw: it pays what the shares are worth now.    *)
FinalizeAtPresentPrice(id) ==
  LET req == withdrawalRequests[id]
      value == convertToAssets(req.shares) IN
  /\ ~req.finalized
  /\ now <= req.deadline
  /\ ~fundingPackageOpen
  /\ NetDefined
  /\ pendingReserved >= req.usdtOut
  /\ totalAssetsPriced >= value
  /\ cash >= value
  /\ withdrawalRequests' = [withdrawalRequests EXCEPT ![id].finalized = TRUE]
  /\ pendingReserved' = pendingReserved - req.usdtOut
  /\ totalAssetsPriced' = totalAssetsPriced - value
  /\ cash' = cash - value
  /\ UNCHANGED <<now, balanceOf, totalSupply, lastWithdrawalRequest, operator, custody>>

(* finalizeWithdraw, which only the request's owner can call, pays out.    *)
FinalizeWithdraw(id) ==
  LET req == withdrawalRequests[id] IN
  /\ ~req.finalized
  /\ now <= req.deadline
  /\ ~fundingPackageOpen
  /\ pendingReserved >= req.usdtOut
  /\ totalAssetsPriced >= req.usdtOut
  /\ cash >= req.usdtOut
  /\ withdrawalRequests' = [withdrawalRequests EXCEPT ![id].finalized = TRUE]
  /\ pendingReserved' = pendingReserved - req.usdtOut
  /\ totalAssetsPriced' = totalAssetsPriced - req.usdtOut
  /\ cash' = cash - req.usdtOut
  /\ UNCHANGED <<now, balanceOf, totalSupply, lastWithdrawalRequest, operator, custody>>

(* Mutants of ExpireWithdrawal: it waits for the settlement window too, or *)
(* forgets to release the reserve.                                         *)
ExpireInWindowOnly(id) ==
  LET req == withdrawalRequests[id] IN
  /\ ~req.finalized
  /\ now >= req.deadline
  /\ ~fundingPackageOpen
  /\ pendingReserved >= req.usdtOut
  /\ withdrawalRequests' = [withdrawalRequests EXCEPT ![id].finalized = TRUE]
  /\ pendingReserved' = pendingReserved - req.usdtOut
  /\ totalSupply' = totalSupply + req.shares
  /\ balanceOf' = [balanceOf EXCEPT ![req.owner] = @ + req.shares]
  /\ UNCHANGED <<now, totalAssetsPriced, cash, lastWithdrawalRequest, operator, custody>>
ExpireKeepsReserve(id) ==
  LET req == withdrawalRequests[id] IN
  /\ ~req.finalized
  /\ now >= req.deadline
  /\ withdrawalRequests' = [withdrawalRequests EXCEPT ![id].finalized = TRUE]
  /\ totalSupply' = totalSupply + req.shares
  /\ balanceOf' = [balanceOf EXCEPT ![req.owner] = @ + req.shares]
  /\ UNCHANGED <<now, totalAssetsPriced, pendingReserved, cash, lastWithdrawalRequest,
                 operator, custody>>

(* expireWithdrawal, by the vault's owner or the request's, re-mints.      *)
ExpireWithdrawal(id) ==
  LET req == withdrawalRequests[id] IN
  /\ ~req.finalized
  /\ now >= req.deadline
  /\ pendingReserved >= req.usdtOut
  /\ withdrawalRequests' = [withdrawalRequests EXCEPT ![id].finalized = TRUE]
  /\ pendingReserved' = pendingReserved - req.usdtOut
  /\ totalSupply' = totalSupply + req.shares
  /\ balanceOf' = [balanceOf EXCEPT ![req.owner] = @ + req.shares]
  /\ UNCHANGED <<now, totalAssetsPriced, cash, lastWithdrawalRequest, operator, custody>>

AttestTotalAssets(newTotalAssets) ==
  /\ newTotalAssets <= MAX_TVL
  /\ newTotalAssets >= pendingReserved
  /\ now >= lastAttestation + ATTEST_TIMELOCK
  /\ totalAssetsPriced > 0 =>
       Distance(newTotalAssets, totalAssetsPriced)
         <= (totalAssetsPriced * MAX_ATTESTATION_DELTA_BPS) \div 10000
  /\ lastAttestation' = now
  /\ totalAssetsPriced' = newTotalAssets
  /\ UNCHANGED <<now, balanceOf, totalSupply, pendingReserved, cash, queue,
                 fundingPackageOpen, custody>>

SetFundingPackageOpen(open) ==
  /\ fundingPackageOpen' = open
  /\ UNCHANGED <<now, books, queue, lastAttestation, custody>>

RequestAgentTransfer(amount) ==
  /\ amount > 0
  /\ amount <= AGENT_TRANSFER_CAP
  /\ Len(agentTransferRequests) < MaxTransfers
  /\ agentTransferRequests' = Append(agentTransferRequests,
       [amount |-> amount, requestedAt |-> now, pending |-> TRUE])
  /\ UNCHANGED <<now, books, queue, operator, agent, proposedAgent, agentProposedAt, lastProposal>>

(* A mutant of ExecuteAgentTransfer: the reserve is not held back.         *)
ExecuteIgnoringReserve(id) ==
  LET req == agentTransferRequests[id] IN
  /\ req.pending
  /\ now >= req.requestedAt + AGENT_TRANSFER_TIMELOCK
  /\ cash >= req.amount
  /\ agentTransferRequests' = [agentTransferRequests EXCEPT ![id].pending = FALSE]
  /\ cash' = cash - req.amount
  /\ UNCHANGED <<now, balanceOf, totalSupply, totalAssetsPriced, pendingReserved,
                 queue, operator, agent, proposedAgent, agentProposedAt, lastProposal>>

ExecuteAgentTransfer(id) ==
  LET req == agentTransferRequests[id] IN
  /\ req.pending
  /\ now >= req.requestedAt + AGENT_TRANSFER_TIMELOCK
  /\ cash >= req.amount + pendingReserved
  /\ agentTransferRequests' = [agentTransferRequests EXCEPT ![id].pending = FALSE]
  /\ cash' = cash - req.amount
  /\ UNCHANGED <<now, balanceOf, totalSupply, totalAssetsPriced, pendingReserved,
                 queue, operator, agent, proposedAgent, agentProposedAt, lastProposal>>

CancelAgentTransfer(id) ==
  /\ agentTransferRequests[id].pending
  /\ agentTransferRequests' = [agentTransferRequests EXCEPT ![id].pending = FALSE]
  /\ UNCHANGED <<now, books, queue, operator, agent, proposedAgent, agentProposedAt, lastProposal>>

(* A mutant of ProposeAgent: a second proposal inherits the first's clock. *)
ProposeKeepingClock(newAgent) ==
  /\ proposedAgent' = newAgent
  /\ agentProposedAt' = IF proposedAgent = None THEN now ELSE agentProposedAt
  /\ lastProposal' = now
  /\ UNCHANGED <<now, books, queue, operator, agent, agentTransferRequests>>

ProposeAgent(newAgent) ==
  /\ proposedAgent' = newAgent
  /\ agentProposedAt' = now
  /\ lastProposal' = now
  /\ UNCHANGED <<now, books, queue, operator, agent, agentTransferRequests>>

AcceptAgent ==
  /\ proposedAgent # None
  /\ now >= agentProposedAt + AGENT_ROTATION_TIMELOCK
  /\ agent' = proposedAgent
  /\ proposedAgent' = None
  /\ agentProposedAt' = 0
  /\ UNCHANGED <<now, books, queue, operator, agentTransferRequests, lastProposal>>

AbortAgentRotation ==
  /\ proposedAgent # None
  /\ proposedAgent' = None
  /\ agentProposedAt' = 0
  /\ UNCHANGED <<now, books, queue, operator, agent, agentTransferRequests, lastProposal>>

(* Anyone may send assets to the vault: the agent returning capital does.  *)
ReceiveAssets(amount) ==
  /\ amount > 0
  /\ cash + amount <= MaxCash
  /\ cash' = cash + amount
  /\ UNCHANGED <<now, balanceOf, totalSupply, totalAssetsPriced, pendingReserved,
                 queue, operator, custody>>

(* Blocks are produced.                                                    *)
Tick ==
  /\ now < EndOfTime
  /\ now' = now + 1
  /\ UNCHANGED <<books, queue, operator, custody>>

PricedStep ==
  \/ \E u \in Users, n \in Amounts : Deposit(u, n) \/ RequestWithdraw(u, n)
  \/ \E u, v \in Users, n \in Amounts : Transfer(u, v, n)
  \/ \E id \in DOMAIN withdrawalRequests : FinalizeWithdraw(id)

ReclaimStep == \E id \in DOMAIN withdrawalRequests : ExpireWithdrawal(id)

(* The calls open to a depositor; an expiry is open to the owner as well.  *)
DepositorStep == PricedStep \/ ReclaimStep

Next ==
  \/ DepositorStep
  \/ \E n \in Valuations : AttestTotalAssets(n)
  \/ \E open \in BOOLEAN : SetFundingPackageOpen(open)
  \/ \E n \in Amounts : RequestAgentTransfer(n) \/ ReceiveAssets(n)
  \/ \E id \in DOMAIN agentTransferRequests : ExecuteAgentTransfer(id) \/ CancelAgentTransfer(id)
  \/ \E a \in Candidates : ProposeAgent(a)
  \/ AcceptAgent
  \/ AbortAgentRotation
  \/ Tick

Spec == Init /\ [][Next]_vars

(* Blocks keep coming, and a user whose request has lapsed reclaims it.    *)
FairSpec ==
  /\ Spec
  /\ WF_vars(Tick)
  /\ \A id \in 1..MaxRequests :
       WF_vars(id \in DOMAIN withdrawalRequests /\ ExpireWithdrawal(id))

-----------------------------------------------------------------------------
(* Types.                                                                  *)
TypeOK ==
  /\ now \in Nat
  /\ balanceOf \in [Users -> Nat]
  /\ totalSupply \in Nat
  /\ totalAssetsPriced \in Nat
  /\ pendingReserved \in Nat
  /\ cash \in Nat
  /\ fundingPackageOpen \in BOOLEAN
  /\ withdrawalRequests \in Seq(WithdrawalRequest)
  /\ lastWithdrawalRequest \in [Users -> Nat]
  /\ lastAttestation \in Nat
  /\ agent \in Agents
  /\ proposedAgent \in Agents \cup {None}
  /\ agentProposedAt \in Nat
  /\ agentTransferRequests \in Seq(AgentTransferRequest)
  /\ lastProposal \in Nat

Open == {id \in DOMAIN withdrawalRequests : ~withdrawalRequests[id].finalized}

(* What each request was priced at.                                        *)
owed == [id \in DOMAIN withdrawalRequests |-> withdrawalRequests[id].usdtOut]

(* The books balance over every interleaving of deposits, transfers and    *)
(* two-step withdrawals: the reserve is exactly what the open requests are *)
(* owed, and the supply exactly what the users hold.                       *)
BooksBalance ==
  /\ pendingReserved = SumFunctionOnSet(owed, Open)
  /\ totalSupply = SumFunctionOnSet(balanceOf, Users)

(* The withdrawal queue keeps the promise of an escrow: each request is    *)
(* settled once, by the payment of the sum it was priced at or by the      *)
(* return of its shares to its owner, whatever happens to the price, the   *)
(* reserve and the vault's assets in between.                              *)
held == [id \in Open |-> [owner |-> withdrawalRequests[id].owner,
                          shares |-> withdrawalRequests[id].shares, sum |-> owed[id]]]
Escrow == INSTANCE WithdrawalEscrow WITH
  Owners <- Users, shares <- balanceOf, assets <- cash,
  escrow <- held, settled <- DOMAIN withdrawalRequests \ Open

WithdrawalsSettleOnce == Escrow!Spec

(* No deposit, withdrawal request, payment or share transfer lowers the    *)
(* share price the others redeem at: all round in favour of the pool (the  *)
(* price is taken before the burn).  The one depositor's call that can is  *)
(* expireWithdrawal, which returns the shares for the sum they were priced *)
(* at even if a share is worth more now; the price it leaves is never      *)
(* below that of the request.                                              *)
SharePriceKept ==
  [][DepositorStep =>
       \/ (netAssets + VIRTUAL_ASSETS) * (totalSupply' + VIRTUAL_SHARES)
            <= (netAssets' + VIRTUAL_ASSETS) * (totalSupply + VIRTUAL_SHARES)
       \/ \E id \in Open :
            /\ ExpireWithdrawal(id)
            /\ owed[id] * (totalSupply' + VIRTUAL_SHARES)
                 <= (netAssets' + VIRTUAL_ASSETS) * withdrawalRequests[id].shares]_vars

(* Once the vault holds enough assets to pay every open request, only a    *)
(* new request can change that: no transfer to the agent, no other payment *)
(* and no expiry takes assets the reserve counts on.                       *)
ReserveStaysCovered ==
  [][cash >= pendingReserved /\ cash' < pendingReserved'
       => Len(withdrawalRequests') > Len(withdrawalRequests)]_vars

(* The agent changes only to an account whose latest proposal has stood    *)
(* for the whole rotation timelock.                                        *)
RotationAnnounced ==
  [][agent' # agent => /\ agent' = proposedAgent
                       /\ now >= lastProposal + AGENT_ROTATION_TIMELOCK]_vars

(* "Guarantees a request can never brick": every withdrawal request is     *)
(* paid or its shares are restored, whatever the operator does with the    *)
(* settlement window, the NAV and the vault's assets.                      *)
NoRequestBricked ==
  \A id \in 1..MaxRequests :
    id \in Open ~> id \in DOMAIN withdrawalRequests /\ withdrawalRequests[id].finalized

(* attestTotalAssets refuses a NAV below the reserve; nothing else brings  *)
(* the reserve above the NAV.                                              *)
ReserveWithinNav == NetDefined

=============================================================================
