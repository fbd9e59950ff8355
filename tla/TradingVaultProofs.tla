------------------------- MODULE TradingVaultProofs -------------------------
(***************************************************************************)
(* Proofs about the trading vault, for every set of users, every limit and *)
(* timelock, and every history of attested NAVs.                           *)
(***************************************************************************)
EXTENDS TradingVault, SumTheorems, SequenceTheorems, TLAPS

-----------------------------------------------------------------------------
(* Rounding down: the quotient is a natural number and never overshoots.   *)
LEMMA Quotient ==
  ASSUME NEW a \in Nat, NEW b \in Nat, b > 0
  PROVE  a \div b \in Nat /\ (a \div b) * b <= a
OBVIOUS

LEMMA ProductNat == ASSUME NEW a \in Nat, NEW b \in Nat PROVE a * b \in Nat
OBVIOUS

(* The part of the assumptions on the constants the proofs rest on.        *)
LEMMA ConstantsTyped ==
  /\ IsFiniteSet(Users) /\ Candidates \subseteq Agents
  /\ Amounts \subseteq Nat /\ Valuations \subseteq Nat
  /\ VIRTUAL_ASSETS \in Nat \ {0} /\ VIRTUAL_SHARES \in Nat \ {0}
  /\ WITHDRAWAL_DEADLINE \in Nat
BY VaultAssumption

(* Settling one request of a queue leaves a queue of the same length.      *)
LEMMA RequestUpdate ==
  ASSUME NEW s \in Seq(WithdrawalRequest), NEW id \in DOMAIN s
  PROVE  [s EXCEPT ![id].finalized = TRUE] \in Seq(WithdrawalRequest)
<1>1. id \in 1..Len(s) /\ s[id] \in WithdrawalRequest
  BY ElementOfSeq
<1> DEFINE e == [s[id] EXCEPT !.finalized = TRUE]
<1>2. e \in WithdrawalRequest
  BY <1>1 DEF WithdrawalRequest
<1> HIDE DEF e
<1>3. [s EXCEPT ![id] = e] \in Seq(WithdrawalRequest)
  BY <1>1, <1>2, ExceptSeq
<1> QED
  BY <1>3 DEF e

LEMMA TransferUpdate ==
  ASSUME NEW s \in Seq(AgentTransferRequest), NEW id \in DOMAIN s
  PROVE  [s EXCEPT ![id].pending = FALSE] \in Seq(AgentTransferRequest)
<1>1. id \in 1..Len(s) /\ s[id] \in AgentTransferRequest
  BY ElementOfSeq
<1> DEFINE e == [s[id] EXCEPT !.pending = FALSE]
<1>2. e \in AgentTransferRequest
  BY <1>1 DEF AgentTransferRequest
<1> HIDE DEF e
<1>3. [s EXCEPT ![id] = e] \in Seq(AgentTransferRequest)
  BY <1>1, <1>2, ExceptSeq
<1> QED
  BY <1>3 DEF e

(* Both prices are defined whenever the reserve is within the NAV.         *)
LEMMA PriceDefined ==
  ASSUME TypeOK, NetDefined, NEW n \in Nat
  PROVE  /\ netAssets \in Nat
         /\ convertToShares(n) \in Nat
         /\ convertToShares(n) * (netAssets + VIRTUAL_ASSETS) <= n * (totalSupply + VIRTUAL_SHARES)
         /\ convertToAssets(n) \in Nat
         /\ convertToAssets(n) * (totalSupply + VIRTUAL_SHARES) <= n * (netAssets + VIRTUAL_ASSETS)
<1>1. netAssets \in Nat
  BY DEF TypeOK, NetDefined, netAssets
<1>2. netAssets + VIRTUAL_ASSETS \in Nat /\ netAssets + VIRTUAL_ASSETS > 0
  BY <1>1, ConstantsTyped
<1>3. totalSupply + VIRTUAL_SHARES \in Nat /\ totalSupply + VIRTUAL_SHARES > 0
  BY ConstantsTyped DEF TypeOK
<1>4. n * (totalSupply + VIRTUAL_SHARES) \in Nat /\ n * (netAssets + VIRTUAL_ASSETS) \in Nat
  BY <1>2, <1>3, ProductNat
<1> QED
  BY <1>1, <1>2, <1>3, <1>4, Quotient DEF convertToShares, convertToAssets

(* What is known of a deposit, or of a request, that does not revert.      *)
LEMMA DepositPriced ==
  ASSUME TypeOK, NEW u \in Users, NEW n \in Amounts, Deposit(u, n)
  PROVE  /\ n \in Nat /\ NetDefined /\ convertToShares(n) \in Nat
         /\ convertToShares(n) * (netAssets + VIRTUAL_ASSETS) <= n * (totalSupply + VIRTUAL_SHARES)
<1>1. n \in Nat
  BY ConstantsTyped
<1>2. NetDefined
  BY DEF Deposit
<1> QED
  BY <1>1, <1>2, PriceDefined

LEMMA RequestPriced ==
  ASSUME TypeOK, NEW u \in Users, NEW n \in Amounts, RequestWithdraw(u, n)
  PROVE  /\ n \in Nat /\ n > 0 /\ n <= balanceOf[u] /\ n <= totalSupply
         /\ NetDefined /\ convertToAssets(n) \in Nat
         /\ convertToAssets(n) * (totalSupply + VIRTUAL_SHARES) <= n * (netAssets + VIRTUAL_ASSETS)
<1>1. n \in Nat
  BY ConstantsTyped
<1>2. n > 0 /\ n <= balanceOf[u] /\ n <= totalSupply /\ NetDefined
  BY DEF RequestWithdraw
<1>3. /\ convertToAssets(n) \in Nat
      /\ convertToAssets(n) * (totalSupply + VIRTUAL_SHARES) <= n * (netAssets + VIRTUAL_ASSETS)
  BY <1>1, <1>2, PriceDefined
<1> QED
  BY <1>1, <1>2, <1>3

-----------------------------------------------------------------------------
(* No call that succeeds drives a balance, the supply, the NAV, the reserve*)
(* or the vault's assets below zero, and the agent is never address(0).    *)
THEOREM VaultTypeCorrect == Spec => []TypeOK
<1>1. Init => TypeOK
  <2> SUFFICES ASSUME Init PROVE TypeOK
    OBVIOUS
  <2>1. withdrawalRequests \in Seq(WithdrawalRequest)
    BY EmptySeq DEF Init
  <2>2. agentTransferRequests \in Seq(AgentTransferRequest)
    BY EmptySeq DEF Init
  <2>3. /\ now \in Nat /\ totalSupply \in Nat /\ totalAssetsPriced \in Nat
        /\ pendingReserved \in Nat /\ cash \in Nat /\ lastAttestation \in Nat
        /\ agentProposedAt \in Nat /\ lastProposal \in Nat
    <3>1. Genesis \in Nat
      BY VaultAssumption
    <3> QED
      BY <3>1 DEF Init
  <2>4. balanceOf \in [Users -> Nat] /\ lastWithdrawalRequest \in [Users -> Nat]
    BY DEF Init
  <2>5. agent \in Agents /\ proposedAgent \in Agents \cup {None}
    <3>1. FirstAgent \in Agents
      BY VaultAssumption
    <3> QED
      BY <3>1 DEF Init
  <2>6. fundingPackageOpen \in BOOLEAN
    BY DEF Init
  <2> QED
    BY <2>1, <2>2, <2>3, <2>4, <2>5, <2>6 DEF TypeOK
<1>2. TypeOK /\ [Next]_vars => TypeOK'
  <2> SUFFICES ASSUME TypeOK, [Next]_vars PROVE TypeOK'
    OBVIOUS
  <2> USE DEF TypeOK, queue, operator, custody, books
  <2>1. ASSUME NEW u \in Users, NEW n \in Amounts, Deposit(u, n) PROVE TypeOK'
    <3> DEFINE s == convertToShares(n)
    <3>1. n \in Nat /\ s \in Nat
      <4> HIDE DEF TypeOK
      <4> QED
        BY <2>1, DepositPriced
    <3>2. /\ cash' = cash + n /\ totalSupply' = totalSupply + s
          /\ totalAssetsPriced' = totalAssetsPriced + n
          /\ balanceOf' = [balanceOf EXCEPT ![u] = balanceOf[u] + s]
          /\ UNCHANGED <<now, pendingReserved, queue, operator, custody>>
      BY <2>1 DEF Deposit
    <3> HIDE DEF s
    <3>3. balanceOf' \in [Users -> Nat]
      BY <3>1, <3>2
    <3>4. cash' \in Nat /\ totalSupply' \in Nat /\ totalAssetsPriced' \in Nat
      BY <3>1, <3>2
    <3> QED
      BY <3>2, <3>3, <3>4
  <2>2. ASSUME NEW u \in Users, NEW n \in Amounts, RequestWithdraw(u, n) PROVE TypeOK'
    <3> DEFINE usdtOut == convertToAssets(n)
               r == [shares |-> n, usdtOut |-> usdtOut, owner |-> u,
                     deadline |-> now + WITHDRAWAL_DEADLINE, finalized |-> FALSE]
    <3>1. n \in Nat /\ usdtOut \in Nat
      <4> HIDE DEF TypeOK
      <4> QED
        BY <2>2, RequestPriced
    <3>2. r \in WithdrawalRequest
      BY <3>1, ConstantsTyped DEF WithdrawalRequest
    <3>3. withdrawalRequests' = Append(withdrawalRequests, r) /\ pendingReserved' = pendingReserved + usdtOut
      BY <2>2 DEF RequestWithdraw
    <3> HIDE DEF usdtOut, r
    <3>4. withdrawalRequests' \in Seq(WithdrawalRequest)
      BY <3>2, <3>3, AppendProperties
    <3>5. balanceOf' \in [Users -> Nat]
      BY <2>2, <3>1 DEF RequestWithdraw
    <3>6. totalSupply' \in Nat /\ pendingReserved' \in Nat
      BY <2>2, <3>1, <3>3 DEF RequestWithdraw
    <3> QED
      BY <2>2, <3>4, <3>5, <3>6 DEF RequestWithdraw
  <2>3. ASSUME NEW u \in Users, NEW v \in Users, NEW n \in Amounts, Transfer(u, v, n) PROVE TypeOK'
    <3>1. n \in Nat
      BY ConstantsTyped
    <3>2. balanceOf' \in [Users -> Nat]
      BY <2>3, <3>1 DEF Transfer
    <3> QED
      BY <2>3, <3>2 DEF Transfer
  <2>4. ASSUME NEW id \in DOMAIN withdrawalRequests, FinalizeWithdraw(id) PROVE TypeOK'
    <3>1. withdrawalRequests[id] \in WithdrawalRequest
      BY ElementOfSeq
    <3>2. withdrawalRequests[id].usdtOut \in Nat
      BY <3>1 DEF WithdrawalRequest
    <3>3. withdrawalRequests' \in Seq(WithdrawalRequest)
      BY <2>4, RequestUpdate DEF FinalizeWithdraw
    <3> DEFINE out == withdrawalRequests[id].usdtOut
    <3>5. /\ pendingReserved >= out /\ pendingReserved' = pendingReserved - out
          /\ totalAssetsPriced >= out /\ totalAssetsPriced' = totalAssetsPriced - out
          /\ cash >= out /\ cash' = cash - out
      BY <2>4 DEF FinalizeWithdraw
    <3> HIDE DEF out
    <3>6. out \in Nat
      BY <3>2 DEF out
    <3>7. /\ pendingReserved \in Nat /\ totalAssetsPriced \in Nat /\ cash \in Nat
      OBVIOUS
    <3>4. pendingReserved' \in Nat /\ totalAssetsPriced' \in Nat /\ cash' \in Nat
      <4> HIDE DEF TypeOK
      <4> QED
        BY <3>5, <3>6, <3>7
    <3> QED
      BY <2>4, <3>3, <3>4 DEF FinalizeWithdraw
  <2>5. ASSUME NEW id \in DOMAIN withdrawalRequests, ExpireWithdrawal(id) PROVE TypeOK'
    <3>1. withdrawalRequests[id] \in WithdrawalRequest
      BY ElementOfSeq
    <3>2. /\ withdrawalRequests[id].usdtOut \in Nat /\ withdrawalRequests[id].shares \in Nat
          /\ withdrawalRequests[id].owner \in Users
      BY <3>1 DEF WithdrawalRequest
    <3>3. withdrawalRequests' \in Seq(WithdrawalRequest)
      BY <2>5, RequestUpdate DEF ExpireWithdrawal
    <3> DEFINE out == withdrawalRequests[id].usdtOut
               s == withdrawalRequests[id].shares
               o == withdrawalRequests[id].owner
    <3>6. /\ pendingReserved >= out /\ pendingReserved' = pendingReserved - out
          /\ totalSupply' = totalSupply + s
          /\ balanceOf' = [balanceOf EXCEPT ![o] = balanceOf[o] + s]
      BY <2>5 DEF ExpireWithdrawal
    <3> HIDE DEF out, s, o
    <3>7. out \in Nat /\ s \in Nat /\ o \in Users
      BY <3>2 DEF out, s, o
    <3>4. pendingReserved' \in Nat /\ totalSupply' \in Nat
      BY <3>6, <3>7
    <3>5. balanceOf' \in [Users -> Nat]
      BY <3>6, <3>7
    <3> QED
      BY <2>5, <3>3, <3>4, <3>5 DEF ExpireWithdrawal
  <2>6. ASSUME NEW n \in Valuations, AttestTotalAssets(n) PROVE TypeOK'
    <3>1. totalAssetsPriced' \in Nat
      BY <2>6, ConstantsTyped DEF AttestTotalAssets
    <3> QED
      BY <2>6, <3>1 DEF AttestTotalAssets
  <2>7. ASSUME NEW open \in BOOLEAN, SetFundingPackageOpen(open) PROVE TypeOK'
    BY <2>7 DEF SetFundingPackageOpen
  <2>8. ASSUME NEW n \in Amounts, RequestAgentTransfer(n) PROVE TypeOK'
    <3> DEFINE r == [amount |-> n, requestedAt |-> now, pending |-> TRUE]
    <3>1. r \in AgentTransferRequest
      BY ConstantsTyped DEF AgentTransferRequest
    <3>2. agentTransferRequests' = Append(agentTransferRequests, r)
      BY <2>8 DEF RequestAgentTransfer
    <3> HIDE DEF r
    <3>3. agentTransferRequests' \in Seq(AgentTransferRequest)
      BY <3>1, <3>2, AppendProperties
    <3> QED
      BY <2>8, <3>3 DEF RequestAgentTransfer
  <2>9. ASSUME NEW n \in Amounts, ReceiveAssets(n) PROVE TypeOK'
    BY <2>9, ConstantsTyped DEF ReceiveAssets
  <2>10. ASSUME NEW id \in DOMAIN agentTransferRequests, ExecuteAgentTransfer(id) PROVE TypeOK'
    <3>1. agentTransferRequests[id] \in AgentTransferRequest
      BY ElementOfSeq
    <3>2. agentTransferRequests[id].amount \in Nat
      BY <3>1 DEF AgentTransferRequest
    <3>3. agentTransferRequests' \in Seq(AgentTransferRequest)
      BY <2>10, TransferUpdate DEF ExecuteAgentTransfer
    <3> DEFINE out == agentTransferRequests[id].amount
    <3>5. cash >= out + pendingReserved /\ cash' = cash - out
      BY <2>10 DEF ExecuteAgentTransfer
    <3> HIDE DEF out
    <3>6. out \in Nat /\ cash \in Nat /\ pendingReserved \in Nat
      BY <3>2 DEF out
    <3>4. cash' \in Nat
      <4> HIDE DEF TypeOK
      <4> QED
        BY <3>5, <3>6
    <3> QED
      BY <2>10, <3>3, <3>4 DEF ExecuteAgentTransfer
  <2>11. ASSUME NEW id \in DOMAIN agentTransferRequests, CancelAgentTransfer(id) PROVE TypeOK'
    <3>1. agentTransferRequests' \in Seq(AgentTransferRequest)
      BY <2>11, TransferUpdate DEF CancelAgentTransfer
    <3> QED
      BY <2>11, <3>1 DEF CancelAgentTransfer
  <2>12. ASSUME NEW a \in Candidates, ProposeAgent(a) PROVE TypeOK'
    <3>1. a \in Agents
      BY ConstantsTyped
    <3> QED
      BY <2>12, <3>1 DEF ProposeAgent
  <2>13. CASE AcceptAgent
    BY <2>13 DEF AcceptAgent
  <2>14. CASE AbortAgentRotation
    BY <2>14 DEF AbortAgentRotation
  <2>15. CASE Tick
    BY <2>15 DEF Tick
  <2>16. CASE UNCHANGED vars
    BY <2>16 DEF vars
  <2> QED
    BY <2>1, <2>2, <2>3, <2>4, <2>5, <2>6, <2>7, <2>8, <2>9, <2>10, <2>11, <2>12, <2>13,
       <2>14, <2>15, <2>16 DEF Next, DepositorStep, PricedStep, ReclaimStep
<1> QED
  BY <1>1, <1>2, PTL DEF Spec

-----------------------------------------------------------------------------
(* The steps of the vault's owner, its agent and the chain: none of them   *)
(* touches shares, withdrawal requests or the reserve.                     *)
OperatorStep ==
  \/ \E n \in Valuations : AttestTotalAssets(n)
  \/ \E open \in BOOLEAN : SetFundingPackageOpen(open)
  \/ \E n \in Amounts : RequestAgentTransfer(n) \/ ReceiveAssets(n)
  \/ \E id \in DOMAIN agentTransferRequests : ExecuteAgentTransfer(id) \/ CancelAgentTransfer(id)
  \/ \E a \in Candidates : ProposeAgent(a)
  \/ AcceptAgent \/ AbortAgentRotation \/ Tick

LEMMA OperatorKeeps ==
  ASSUME OperatorStep \/ UNCHANGED vars
  PROVE  UNCHANGED <<balanceOf, totalSupply, withdrawalRequests, pendingReserved>>
<1> DEFINE Kept == UNCHANGED <<balanceOf, totalSupply, withdrawalRequests, pendingReserved>>
<1>1. ASSUME NEW n \in Valuations, AttestTotalAssets(n) PROVE Kept
  BY <1>1 DEF AttestTotalAssets, queue
<1>2. ASSUME NEW open \in BOOLEAN, SetFundingPackageOpen(open) PROVE Kept
  BY <1>2 DEF SetFundingPackageOpen, books, queue
<1>3. ASSUME NEW n \in Amounts, RequestAgentTransfer(n) PROVE Kept
  BY <1>3 DEF RequestAgentTransfer, books, queue
<1>4. ASSUME NEW n \in Amounts, ReceiveAssets(n) PROVE Kept
  BY <1>4 DEF ReceiveAssets, queue
<1>5. ASSUME NEW id \in DOMAIN agentTransferRequests, ExecuteAgentTransfer(id) PROVE Kept
  BY <1>5 DEF ExecuteAgentTransfer, queue
<1>6. ASSUME NEW id \in DOMAIN agentTransferRequests, CancelAgentTransfer(id) PROVE Kept
  BY <1>6 DEF CancelAgentTransfer, books, queue
<1>7. ASSUME NEW a \in Candidates, ProposeAgent(a) PROVE Kept
  BY <1>7 DEF ProposeAgent, books, queue
<1>8. CASE AcceptAgent
  BY <1>8 DEF AcceptAgent, books, queue
<1>9. CASE AbortAgentRotation
  BY <1>9 DEF AbortAgentRotation, books, queue
<1>10. CASE Tick
  BY <1>10 DEF Tick, books, queue
<1>11. CASE UNCHANGED vars
  BY <1>11 DEF vars
<1> QED
  BY <1>1, <1>2, <1>3, <1>4, <1>5, <1>6, <1>7, <1>8, <1>9, <1>10, <1>11 DEF OperatorStep

(* Of these steps only two move the vault's assets.                        *)
LEMMA CashMoves ==
  ASSUME OperatorStep, cash' # cash
  PROVE  \/ \E n \in Amounts : ReceiveAssets(n)
         \/ \E id \in DOMAIN agentTransferRequests : ExecuteAgentTransfer(id)
<1>1. ASSUME NEW n \in Valuations, AttestTotalAssets(n) PROVE FALSE
  BY <1>1 DEF AttestTotalAssets
<1>2. ASSUME NEW open \in BOOLEAN, SetFundingPackageOpen(open) PROVE FALSE
  BY <1>2 DEF SetFundingPackageOpen, books
<1>3. ASSUME NEW n \in Amounts, RequestAgentTransfer(n) PROVE FALSE
  BY <1>3 DEF RequestAgentTransfer, books
<1>4. ASSUME NEW id \in DOMAIN agentTransferRequests, CancelAgentTransfer(id) PROVE FALSE
  BY <1>4 DEF CancelAgentTransfer, books
<1>5. ASSUME NEW a \in Candidates, ProposeAgent(a) PROVE FALSE
  BY <1>5 DEF ProposeAgent, books
<1>6. ~ AcceptAgent /\ ~ AbortAgentRotation /\ ~ Tick
  BY DEF AcceptAgent, AbortAgentRotation, Tick, books
<1> QED
  BY <1>1, <1>2, <1>3, <1>4, <1>5, <1>6 DEF OperatorStep

(* Among those steps, only an attestation moves the NAV.                   *)
LEMMA NavMoves ==
  ASSUME OperatorStep \/ UNCHANGED vars
  PROVE  totalAssetsPriced' = totalAssetsPriced \/ \E n \in Valuations : AttestTotalAssets(n)
<1> DEFINE Kept == totalAssetsPriced' = totalAssetsPriced
<1>1. ASSUME NEW open \in BOOLEAN, SetFundingPackageOpen(open) PROVE Kept
  BY <1>1 DEF SetFundingPackageOpen, books
<1>2. ASSUME NEW n \in Amounts, RequestAgentTransfer(n) \/ ReceiveAssets(n) PROVE Kept
  BY <1>2 DEF RequestAgentTransfer, ReceiveAssets, books
<1>3. ASSUME NEW id \in DOMAIN agentTransferRequests,
             ExecuteAgentTransfer(id) \/ CancelAgentTransfer(id)
      PROVE  Kept
  BY <1>3 DEF ExecuteAgentTransfer, CancelAgentTransfer, books
<1>4. ASSUME NEW a \in Candidates, ProposeAgent(a) PROVE Kept
  BY <1>4 DEF ProposeAgent, books
<1>5. CASE AcceptAgent \/ AbortAgentRotation \/ Tick
  BY <1>5 DEF AcceptAgent, AbortAgentRotation, Tick, books
<1>6. CASE UNCHANGED vars
  BY <1>6 DEF vars
<1> QED
  BY <1>1, <1>2, <1>3, <1>4, <1>5, <1>6 DEF OperatorStep

-----------------------------------------------------------------------------
(* What the queue holds after a request is settled, and after a new one.   *)
LEMMA SettleEffect ==
  ASSUME TypeOK, NEW id \in DOMAIN withdrawalRequests,
         withdrawalRequests' = [withdrawalRequests EXCEPT ![id].finalized = TRUE]
  PROVE  /\ DOMAIN withdrawalRequests' = DOMAIN withdrawalRequests
         /\ withdrawalRequests'[id].finalized
         /\ \A j \in DOMAIN withdrawalRequests :
              /\ withdrawalRequests'[j].usdtOut = withdrawalRequests[j].usdtOut
              /\ withdrawalRequests'[j].shares = withdrawalRequests[j].shares
              /\ withdrawalRequests'[j].owner = withdrawalRequests[j].owner
              /\ j # id => withdrawalRequests'[j] = withdrawalRequests[j]
<1> DEFINE e == [withdrawalRequests[id] EXCEPT !.finalized = TRUE]
<1>1. withdrawalRequests[id] \in WithdrawalRequest
  BY ElementOfSeq DEF TypeOK
<1>2. /\ e.finalized /\ e.usdtOut = withdrawalRequests[id].usdtOut
      /\ e.shares = withdrawalRequests[id].shares /\ e.owner = withdrawalRequests[id].owner
  BY <1>1 DEF WithdrawalRequest
<1>3. withdrawalRequests' = [withdrawalRequests EXCEPT ![id] = e]
  OBVIOUS
<1> HIDE DEF e
<1>4. /\ DOMAIN withdrawalRequests' = DOMAIN withdrawalRequests
      /\ \A j \in DOMAIN withdrawalRequests :
           withdrawalRequests'[j] = IF j = id THEN e ELSE withdrawalRequests[j]
  BY <1>3
<1> QED
  BY <1>2, <1>4

LEMMA EnqueueEffect ==
  ASSUME TypeOK, NEW r \in WithdrawalRequest,
         withdrawalRequests' = Append(withdrawalRequests, r)
  PROVE  /\ DOMAIN withdrawalRequests' = DOMAIN withdrawalRequests \cup {Len(withdrawalRequests) + 1}
         /\ Len(withdrawalRequests) + 1 \notin DOMAIN withdrawalRequests
         /\ withdrawalRequests'[Len(withdrawalRequests) + 1] = r
         /\ \A j \in DOMAIN withdrawalRequests : withdrawalRequests'[j] = withdrawalRequests[j]
<1>1. withdrawalRequests \in Seq(WithdrawalRequest)
  BY DEF TypeOK
<1>2. /\ withdrawalRequests' \in Seq(WithdrawalRequest)
      /\ Len(withdrawalRequests') = Len(withdrawalRequests) + 1
      /\ withdrawalRequests'[Len(withdrawalRequests) + 1] = r
      /\ \A j \in 1..Len(withdrawalRequests) : withdrawalRequests'[j] = withdrawalRequests[j]
  BY <1>1, AppendProperties
<1>3. /\ DOMAIN withdrawalRequests = 1..Len(withdrawalRequests) /\ Len(withdrawalRequests) \in Nat
      /\ DOMAIN withdrawalRequests' = 1..Len(withdrawalRequests')
  BY <1>1, <1>2, LenProperties
<1> QED
  BY <1>2, <1>3

(* The open requests are finitely many, each owed a natural number.        *)
LEMMA OpenFinite ==
  ASSUME TypeOK
  PROVE  /\ IsFiniteSet(Open) /\ Open \subseteq DOMAIN withdrawalRequests
         /\ \A id \in Open : owed[id] \in Nat /\ owed[id] = withdrawalRequests[id].usdtOut
<1>1. DOMAIN withdrawalRequests = 1..Len(withdrawalRequests) /\ Len(withdrawalRequests) \in Nat
  BY LenProperties DEF TypeOK
<1>2. IsFiniteSet(1..Len(withdrawalRequests))
  BY <1>1, FS_Interval
<1>3. Open \subseteq DOMAIN withdrawalRequests
  BY DEF Open
<1>4. \A id \in DOMAIN withdrawalRequests : withdrawalRequests[id] \in WithdrawalRequest
  BY ElementOfSeq DEF TypeOK
<1>5. \A id \in Open : withdrawalRequests[id].usdtOut \in Nat
  BY <1>3, <1>4 DEF WithdrawalRequest
<1> QED
  BY <1>1, <1>2, <1>3, <1>5, FS_Subset DEF owed

(* Settling an open request releases exactly what it was owed.             *)
LEMMA OwedAfterSettling ==
  ASSUME TypeOK, NEW id \in Open,
         withdrawalRequests' = [withdrawalRequests EXCEPT ![id].finalized = TRUE]
  PROVE  /\ SumFunctionOnSet(owed, Open) = owed[id] + SumFunctionOnSet(owed', Open')
         /\ SumFunctionOnSet(owed', Open') \in Nat
<1>1. id \in DOMAIN withdrawalRequests
  BY DEF Open
<1>2. Open' = Open \ {id}
  BY <1>1, SettleEffect DEF Open
<1>3. \A j \in Open' : owed'[j] = owed[j]
  BY <1>1, <1>2, SettleEffect DEF Open, owed
<1>4. IsFiniteSet(Open) /\ IsFiniteSet(Open') /\ \A j \in Open : owed[j] \in Nat
  BY <1>2, OpenFinite, FS_Subset
<1>5. SumFunctionOnSet(owed', Open') = SumFunctionOnSet(owed, Open')
  BY <1>3, <1>4, SumSame
<1>6. SumFunctionOnSet(owed, Open') \in Nat
  BY <1>2, <1>4, SumNat
<1> QED
  BY <1>2, <1>4, <1>5, <1>6, SumRemove

(* The two steps of the reserve are exact, and so is the supply: every     *)
(* share is held by a user or was burnt by a request, every asset reserved *)
(* is owed to an open request.                                             *)
THEOREM BooksHold == Spec => []BooksBalance
<1>1. Init => BooksBalance
  <2> SUFFICES ASSUME Init PROVE BooksBalance
    OBVIOUS
  <2>1. Open = {} /\ pendingReserved = 0 /\ totalSupply = 0
    BY DEF Init, Open
  <2>2. SumFunctionOnSet(owed, Open) = 0
    BY <2>1, SumEmpty
  <2>3. SumFunctionOnSet(balanceOf, Users) = 0
    BY ConstantsTyped, SumZero DEF Init
  <2> QED
    BY <2>1, <2>2, <2>3 DEF BooksBalance
<1>2. TypeOK /\ BooksBalance /\ [Next]_vars => BooksBalance'
  <2> SUFFICES ASSUME TypeOK, BooksBalance, [Next]_vars PROVE BooksBalance'
    OBVIOUS
  <2>0. /\ IsFiniteSet(Users) /\ \A u \in Users : balanceOf[u] \in Nat
        /\ totalSupply = SumFunctionOnSet(balanceOf, Users)
        /\ pendingReserved = SumFunctionOnSet(owed, Open)
        /\ totalSupply \in Nat /\ pendingReserved \in Nat
    BY ConstantsTyped DEF TypeOK, BooksBalance
  <2> DEFINE SupplyKept == totalSupply' = SumFunctionOnSet(balanceOf', Users)
             ReserveKept == pendingReserved' = SumFunctionOnSet(owed', Open')
  <2>a. ASSUME UNCHANGED <<withdrawalRequests, pendingReserved>> PROVE ReserveKept
    BY <2>0, <2>a DEF owed, Open
  <2>b. ASSUME UNCHANGED <<balanceOf, totalSupply>> PROVE SupplyKept
    BY <2>0, <2>b
  (* One user's balance and the supply move together.                      *)
  <2>c. ASSUME NEW u \in Users, NEW n \in Int, balanceOf[u] + n \in Nat,
               balanceOf' = [balanceOf EXCEPT ![u] = balanceOf[u] + n], totalSupply' = totalSupply + n
        PROVE  SupplyKept
    <3>1. balanceOf'[u] = balanceOf[u] + n /\ \A v \in Users : v # u => balanceOf'[v] = balanceOf[v]
      BY <2>c DEF TypeOK
    <3>2. \A v \in Users : balanceOf'[v] \in Nat
      BY <2>0, <2>c, <3>1
    <3>3. SumFunctionOnSet(balanceOf', Users)
            = SumFunctionOnSet(balanceOf, Users) - balanceOf[u] + balanceOf'[u]
      BY <2>0, <3>1, <3>2, SumUpdate
    <3> QED
      BY <2>0, <2>c, <3>1, <3>3
  <2>1. ASSUME NEW u \in Users, NEW n \in Amounts, Deposit(u, n) PROVE BooksBalance'
    <3> DEFINE s == convertToShares(n)
    <3>1. s \in Nat
      BY <2>1, DepositPriced
    <3>2. balanceOf' = [balanceOf EXCEPT ![u] = balanceOf[u] + s] /\ totalSupply' = totalSupply + s
      BY <2>1 DEF Deposit
    <3> HIDE DEF s
    <3>3. SupplyKept
      <4>1. s \in Int /\ balanceOf[u] + s \in Nat
        BY <2>0, <3>1
      <4> QED
        BY <2>c, <3>2, <4>1
    <3>4. ReserveKept
      BY <2>1, <2>a DEF Deposit, queue
    <3> QED
      BY <3>3, <3>4 DEF BooksBalance
  <2>2. ASSUME NEW u \in Users, NEW n \in Amounts, RequestWithdraw(u, n) PROVE BooksBalance'
    <3> DEFINE a == convertToAssets(n)
               r == [shares |-> n, usdtOut |-> a, owner |-> u,
                     deadline |-> now + WITHDRAWAL_DEADLINE, finalized |-> FALSE]
               id == Len(withdrawalRequests) + 1
    <3>1. n \in Nat /\ a \in Nat
      BY <2>2, RequestPriced
    <3>2. r \in WithdrawalRequest /\ r.usdtOut = a /\ ~r.finalized
      BY <3>1, ConstantsTyped DEF WithdrawalRequest, TypeOK
    <3>3. withdrawalRequests' = Append(withdrawalRequests, r) /\ pendingReserved' = pendingReserved + a
      BY <2>2 DEF RequestWithdraw
    <3>4. /\ balanceOf' = [balanceOf EXCEPT ![u] = balanceOf[u] - n]
          /\ totalSupply' = totalSupply - n /\ n <= balanceOf[u]
      BY <2>2 DEF RequestWithdraw
    <3> HIDE DEF a, r, id
    <3>5. SupplyKept
      <4> DEFINE m == 0 - n
      <4>1. m \in Int /\ balanceOf[u] + m \in Nat /\ balanceOf[u] - n = balanceOf[u] + m
            /\ totalSupply - n = totalSupply + m
        BY <2>0, <3>1, <3>4
      <4>2. balanceOf' = [balanceOf EXCEPT ![u] = balanceOf[u] + m] /\ totalSupply' = totalSupply + m
        BY <3>4, <4>1
      <4> HIDE DEF m
      <4> QED
        BY <2>c, <4>1, <4>2
    <3>6. /\ DOMAIN withdrawalRequests' = DOMAIN withdrawalRequests \cup {id}
          /\ id \notin DOMAIN withdrawalRequests /\ withdrawalRequests'[id] = r
          /\ \A j \in DOMAIN withdrawalRequests : withdrawalRequests'[j] = withdrawalRequests[j]
      BY <3>2, <3>3, EnqueueEffect DEF id
    <3>7. Open' = Open \cup {id} /\ id \notin Open
      BY <3>2, <3>6 DEF Open
    <3>8. owed'[id] = a /\ \A j \in Open : owed'[j] = owed[j]
      BY <3>2, <3>6 DEF owed, Open
    <3>9. IsFiniteSet(Open) /\ \A j \in Open : owed[j] \in Nat
      BY OpenFinite
    <3>10. SumFunctionOnSet(owed', Open') = SumFunctionOnSet(owed', Open) + owed'[id]
      BY <3>1, <3>7, <3>8, <3>9, SumAdd
    <3>11. SumFunctionOnSet(owed', Open) = SumFunctionOnSet(owed, Open)
      BY <3>8, <3>9, SumSame
    <3>12. ReserveKept
      BY <2>0, <3>3, <3>8, <3>10, <3>11
    <3> QED
      BY <3>5, <3>12 DEF BooksBalance
  <2>3. ASSUME NEW u \in Users, NEW v \in Users, NEW n \in Amounts, Transfer(u, v, n) PROVE BooksBalance'
    <3>1. /\ n \in Nat /\ u # v /\ n <= balanceOf[u]
          /\ balanceOf' = [balanceOf EXCEPT ![u] = balanceOf[u] - n, ![v] = balanceOf[v] + n]
      BY <2>3, ConstantsTyped DEF Transfer
    <3> DEFINE mid == [balanceOf EXCEPT ![u] = balanceOf[u] - n]
    <3>2. /\ mid[u] = balanceOf[u] - n /\ mid[v] = balanceOf[v]
          /\ \A w \in Users : w # u => mid[w] = balanceOf[w]
      BY <3>1 DEF TypeOK
    <3>3. /\ balanceOf'[v] = balanceOf[v] + n
          /\ \A w \in Users : w # v => balanceOf'[w] = mid[w]
      BY <3>1 DEF TypeOK
    <3> HIDE DEF mid
    <3>4. \A w \in Users : mid[w] \in Nat /\ balanceOf'[w] \in Nat
      <4>1. \A w \in Users : mid[w] \in Nat
        BY <2>0, <3>1, <3>2
      <4>2. balanceOf'[v] \in Nat
        BY <2>0, <3>1, <3>3
      <4> QED
        BY <3>3, <4>1, <4>2
    <3>5. SumFunctionOnSet(mid, Users) = SumFunctionOnSet(balanceOf, Users) - balanceOf[u] + mid[u]
      BY <2>0, <3>2, <3>4, SumUpdate
    <3>6. SumFunctionOnSet(balanceOf', Users) = SumFunctionOnSet(mid, Users) - mid[v] + balanceOf'[v]
      BY <2>0, <3>3, <3>4, SumUpdate
    <3>7. totalSupply' = totalSupply
      BY <2>3 DEF Transfer
    <3>8. SupplyKept
      BY <2>0, <3>1, <3>2, <3>3, <3>5, <3>6, <3>7
    <3>9. ReserveKept
      BY <2>3, <2>a DEF Transfer, queue
    <3> QED
      BY <3>8, <3>9 DEF BooksBalance
  <2>4. ASSUME NEW id \in DOMAIN withdrawalRequests, FinalizeWithdraw(id) PROVE BooksBalance'
    <3>1. id \in Open /\ withdrawalRequests' = [withdrawalRequests EXCEPT ![id].finalized = TRUE]
      BY <2>4 DEF FinalizeWithdraw, Open
    <3>2. pendingReserved' = pendingReserved - owed[id]
      BY <2>4 DEF FinalizeWithdraw, owed
    <3>3. ReserveKept
      <4>1. /\ SumFunctionOnSet(owed, Open) = owed[id] + SumFunctionOnSet(owed', Open')
            /\ SumFunctionOnSet(owed', Open') \in Nat
        BY <3>1, OwedAfterSettling
      <4>2. owed[id] \in Nat
        BY <3>1, OpenFinite
      <4> QED
        BY <2>0, <3>2, <4>1, <4>2
    <3>4. SupplyKept
      BY <2>4, <2>b DEF FinalizeWithdraw
    <3> QED
      BY <3>3, <3>4 DEF BooksBalance
  <2>5. ASSUME NEW id \in DOMAIN withdrawalRequests, ExpireWithdrawal(id) PROVE BooksBalance'
    <3>1. id \in Open /\ withdrawalRequests' = [withdrawalRequests EXCEPT ![id].finalized = TRUE]
      BY <2>5 DEF ExpireWithdrawal, Open
    <3>2. pendingReserved' = pendingReserved - owed[id]
      BY <2>5 DEF ExpireWithdrawal, owed
    <3>3. ReserveKept
      <4>1. /\ SumFunctionOnSet(owed, Open) = owed[id] + SumFunctionOnSet(owed', Open')
            /\ SumFunctionOnSet(owed', Open') \in Nat
        BY <3>1, OwedAfterSettling
      <4>2. owed[id] \in Nat
        BY <3>1, OpenFinite
      <4> QED
        BY <2>0, <3>2, <4>1, <4>2
    <3>4. SupplyKept
      <4> DEFINE s == withdrawalRequests[id].shares
                 o == withdrawalRequests[id].owner
      <4>1. withdrawalRequests[id] \in WithdrawalRequest
        BY ElementOfSeq DEF TypeOK
      <4>2. s \in Nat /\ o \in Users
        BY <4>1 DEF WithdrawalRequest
      <4>3. balanceOf' = [balanceOf EXCEPT ![o] = balanceOf[o] + s] /\ totalSupply' = totalSupply + s
        BY <2>5 DEF ExpireWithdrawal
      <4> HIDE DEF s, o
      <4>4. s \in Int /\ balanceOf[o] + s \in Nat
        BY <2>0, <4>2
      <4> QED
        BY <2>c, <4>2, <4>3, <4>4
    <3> QED
      BY <3>3, <3>4 DEF BooksBalance
  <2>6. ASSUME UNCHANGED <<balanceOf, totalSupply, withdrawalRequests, pendingReserved>>
        PROVE  BooksBalance'
    BY <2>6, <2>a, <2>b DEF BooksBalance
  <2>7. ASSUME OperatorStep \/ UNCHANGED vars
        PROVE  UNCHANGED <<balanceOf, totalSupply, withdrawalRequests, pendingReserved>>
    BY <2>7, OperatorKeeps
  <2> QED
    <3>1. Next => PricedStep \/ OperatorStep
                  \/ \E id \in DOMAIN withdrawalRequests : ExpireWithdrawal(id)
      BY DEF Next, DepositorStep, ReclaimStep, OperatorStep
    <3> QED
      BY <2>1, <2>2, <2>3, <2>4, <2>5, <2>6, <2>7, <3>1 DEF PricedStep
<1> QED
  BY <1>1, <1>2, VaultTypeCorrect, PTL DEF Spec

-----------------------------------------------------------------------------
(* The withdrawal queue implements the escrow.  A step that does not touch *)
(* the queue leaves the escrow alone.                                      *)
LEMMA HeldStays ==
  ASSUME UNCHANGED withdrawalRequests
  PROVE  UNCHANGED <<held, DOMAIN withdrawalRequests \ Open>>
BY DEF held, Open, owed

(* What the escrow holds of an open request.                               *)
LEMMA HeldEntry ==
  ASSUME TypeOK, NEW id \in Open
  PROVE  /\ id \in DOMAIN withdrawalRequests /\ DOMAIN held = Open
         /\ held[id].owner = withdrawalRequests[id].owner /\ held[id].owner \in Users
         /\ held[id].shares = withdrawalRequests[id].shares /\ held[id].shares \in Nat
         /\ held[id].sum = withdrawalRequests[id].usdtOut /\ held[id].sum \in Nat
<1>1. id \in DOMAIN withdrawalRequests
  BY DEF Open
<1>2. withdrawalRequests[id] \in WithdrawalRequest
  BY <1>1, ElementOfSeq DEF TypeOK
<1> QED
  BY <1>1, <1>2 DEF held, owed, WithdrawalRequest

(* Paying or expiring a request takes it, and only it, out of escrow.      *)
LEMMA SettleRefines ==
  ASSUME TypeOK, NEW id \in Open,
         withdrawalRequests' = [withdrawalRequests EXCEPT ![id].finalized = TRUE]
  PROVE  Escrow!Settle(id)
<1>1. id \in DOMAIN withdrawalRequests
  BY DEF Open
<1>2. /\ DOMAIN withdrawalRequests' = DOMAIN withdrawalRequests
      /\ Open' = Open \ {id} /\ Open \subseteq DOMAIN withdrawalRequests
  BY <1>1, SettleEffect DEF Open
<1>3. \A j \in Open' : /\ withdrawalRequests'[j] = withdrawalRequests[j]
                       /\ owed'[j] = owed[j]
  BY <1>1, <1>2, SettleEffect DEF owed
<1>4. held' = [j \in Open' |-> [owner |-> withdrawalRequests'[j].owner,
                               shares |-> withdrawalRequests'[j].shares, sum |-> owed'[j]]]
  BY DEF held
<1>5. held' = [j \in Open \ {id} |-> held[j]]
  BY <1>2, <1>3, <1>4 DEF held
<1>6. DOMAIN held = Open
  BY DEF held
<1>7. (DOMAIN withdrawalRequests \ Open)' = (DOMAIN withdrawalRequests \ Open) \cup {id}
  BY <1>1, <1>2
<1> QED
  BY <1>5, <1>6, <1>7 DEF Escrow!Settle

(* A request puts the shares it burns into escrow, under a new id.         *)
LEMMA LockRefines ==
  ASSUME TypeOK, NEW u \in Users, NEW n \in Amounts, RequestWithdraw(u, n)
  PROVE  Escrow!Lock(u)
<1> DEFINE a == convertToAssets(n)
           r == [shares |-> n, usdtOut |-> a, owner |-> u,
                 deadline |-> now + WITHDRAWAL_DEADLINE, finalized |-> FALSE]
           id == Len(withdrawalRequests) + 1
<1>1. n \in Nat /\ n > 0 /\ n <= balanceOf[u] /\ a \in Nat
  BY RequestPriced
<1>2. r \in WithdrawalRequest /\ r.usdtOut = a /\ r.shares = n /\ r.owner = u /\ ~r.finalized
  BY <1>1, ConstantsTyped DEF WithdrawalRequest, TypeOK
<1>3. /\ withdrawalRequests' = Append(withdrawalRequests, r)
      /\ balanceOf' = [balanceOf EXCEPT ![u] = balanceOf[u] - n]
      /\ UNCHANGED cash
  BY DEF RequestWithdraw
<1> HIDE DEF a, r, id
<1>4. /\ DOMAIN withdrawalRequests' = DOMAIN withdrawalRequests \cup {id}
      /\ id \notin DOMAIN withdrawalRequests /\ withdrawalRequests'[id] = r
      /\ \A j \in DOMAIN withdrawalRequests : withdrawalRequests'[j] = withdrawalRequests[j]
  BY <1>2, <1>3, EnqueueEffect DEF id
<1>5. Open' = Open \cup {id} /\ id \notin Open /\ Open \subseteq DOMAIN withdrawalRequests
  BY <1>2, <1>4 DEF Open
<1>6. DOMAIN held = Open /\ DOMAIN held' = Open'
  BY DEF held
<1>7. owed'[id] = a /\ \A j \in Open : owed'[j] = owed[j]
  BY <1>2, <1>4 DEF owed, Open
<1>8. held'[id].owner = u /\ held'[id].shares = n
  BY <1>2, <1>4, <1>5 DEF held
<1>9. \A j \in Open : held'[j] = held[j]
  BY <1>4, <1>5, <1>7 DEF held
<1>10. (DOMAIN withdrawalRequests \ Open)' = DOMAIN withdrawalRequests \ Open
  BY <1>4, <1>5
<1>11. id \in DOMAIN held' /\ id \notin DOMAIN held /\ id \notin DOMAIN withdrawalRequests \ Open
  BY <1>4, <1>5, <1>6
<1>12. balanceOf[u] >= held'[id].shares /\ held'[id].shares > 0
  BY <1>1, <1>8 DEF TypeOK
<1>13. balanceOf' = [balanceOf EXCEPT ![u] = @ - held'[id].shares]
  BY <1>3, <1>8
<1>14. DOMAIN held' = DOMAIN held \cup {id}
  BY <1>5, <1>6
<1> QED
  BY <1>3, <1>6, <1>8, <1>9, <1>10, <1>11, <1>12, <1>13, <1>14 DEF Escrow!Lock

(* A deposit that mints shares brings assets in.                           *)
LEMMA DepositPays ==
  ASSUME TypeOK, NEW n \in Amounts, NetDefined, convertToShares(n) > 0
  PROVE  n \in Nat /\ n > 0 /\ convertToShares(n) \in Nat
<1>1. n \in Nat /\ convertToShares(n) \in Nat /\ netAssets \in Nat
      /\ convertToShares(n) * (netAssets + VIRTUAL_ASSETS) <= n * (totalSupply + VIRTUAL_SHARES)
  BY ConstantsTyped, PriceDefined
<1>2. ASSUME n = 0 PROVE FALSE
  <2> DEFINE s == convertToShares(n)
             p == netAssets + VIRTUAL_ASSETS
  <2>1. s \in Nat /\ s > 0 /\ p \in Nat /\ p > 0
    BY <1>1, ConstantsTyped
  <2>2. s * p <= 0
    BY <1>1, <1>2, ConstantsTyped DEF TypeOK
  <2> HIDE DEF s, p
  <2>3. s * p > 0
    BY <2>1
  <2>4. s * p \in Nat
    BY <2>1
  <2> QED
    BY <2>2, <2>3, <2>4
<1> QED
  BY <1>1, <1>2

(* Every request is settled once, by payment of its sum or by the return of*)
(* its shares, whatever is called in between and whatever the NAV does.    *)
THEOREM WithdrawalsRefineEscrow == Spec => WithdrawalsSettleOnce
<1>1. Init => Escrow!Init
  <2> SUFFICES ASSUME Init PROVE Escrow!Init
    OBVIOUS
  <2>1. Open = {} /\ DOMAIN withdrawalRequests = {}
    BY DEF Init, Open
  <2>2. DOMAIN held = {} /\ DOMAIN withdrawalRequests \ Open = {}
    BY <2>1 DEF held
  <2> QED
    BY <2>2 DEF Init, Escrow!Init
<1>2. TypeOK /\ [Next]_vars => [Escrow!Next]_(Escrow!escrowVars)
  <2> SUFFICES ASSUME TypeOK, [Next]_vars PROVE [Escrow!Next]_(Escrow!escrowVars)
    OBVIOUS
  <2> DEFINE Goal == [Escrow!Next]_(Escrow!escrowVars)
  <2>a. ASSUME UNCHANGED <<balanceOf, withdrawalRequests>> PROVE Escrow!MoveAssets
    BY <2>a, HeldStays DEF Escrow!MoveAssets
  <2>1. ASSUME NEW u \in Users, NEW n \in Amounts, Deposit(u, n) PROVE Escrow!Buy(u)
    <3> DEFINE s == convertToShares(n)
    <3>1. n \in Nat /\ n > 0 /\ s \in Nat /\ s > 0
      BY <2>1, DepositPays DEF Deposit
    <3>2. /\ balanceOf' = [balanceOf EXCEPT ![u] = balanceOf[u] + s] /\ cash' = cash + n
          /\ UNCHANGED withdrawalRequests
      BY <2>1 DEF Deposit, queue
    <3> HIDE DEF s
    <3>3. balanceOf'[u] > balanceOf[u] /\ \A v \in Users : v # u => balanceOf'[v] = balanceOf[v]
      BY <3>1, <3>2 DEF TypeOK
    <3>4. cash' > cash
      BY <3>1, <3>2 DEF TypeOK
    <3> QED
      BY <3>2, <3>3, <3>4, HeldStays DEF Escrow!Buy
  <2>2. ASSUME NEW u \in Users, NEW n \in Amounts, RequestWithdraw(u, n) PROVE Escrow!Lock(u)
    BY <2>2, LockRefines
  <2>3. ASSUME NEW u \in Users, NEW v \in Users, NEW n \in Amounts, Transfer(u, v, n)
        PROVE  Escrow!Give(u, v)
    <3>1. /\ n \in Nat /\ u # v /\ UNCHANGED <<cash, withdrawalRequests>>
          /\ balanceOf' = [balanceOf EXCEPT ![u] = balanceOf[u] - n, ![v] = balanceOf[v] + n]
      BY <2>3, ConstantsTyped DEF Transfer, queue
    <3>2. /\ balanceOf'[u] = balanceOf[u] - n /\ balanceOf'[v] = balanceOf[v] + n
          /\ \A w \in Users : w \notin {u, v} => balanceOf'[w] = balanceOf[w]
      BY <3>1 DEF TypeOK
    <3>3. balanceOf[u] \in Nat /\ balanceOf[v] \in Nat
      BY DEF TypeOK
    <3>4. balanceOf'[u] <= balanceOf[u] /\ balanceOf'[u] + balanceOf'[v] = balanceOf[u] + balanceOf[v]
      BY <3>1, <3>2, <3>3
    <3> QED
      BY <3>1, <3>2, <3>4, HeldStays DEF Escrow!Give
  <2>4. ASSUME NEW id \in DOMAIN withdrawalRequests, FinalizeWithdraw(id)
        PROVE  id \in DOMAIN held /\ Escrow!Pay(id)
    <3>1. id \in Open /\ withdrawalRequests' = [withdrawalRequests EXCEPT ![id].finalized = TRUE]
      BY <2>4 DEF FinalizeWithdraw, Open
    <3>2. /\ cash >= withdrawalRequests[id].usdtOut
          /\ cash' = cash - withdrawalRequests[id].usdtOut /\ UNCHANGED balanceOf
      BY <2>4 DEF FinalizeWithdraw
    <3>3. held[id].sum = withdrawalRequests[id].usdtOut /\ DOMAIN held = Open
      BY <3>1, HeldEntry
    <3>4. Escrow!Settle(id)
      BY <3>1, SettleRefines
    <3> QED
      BY <3>1, <3>2, <3>3, <3>4 DEF Escrow!Pay
  <2>5. ASSUME NEW id \in DOMAIN withdrawalRequests, ExpireWithdrawal(id)
        PROVE  id \in DOMAIN held /\ Escrow!Restore(id)
    <3>1. id \in Open /\ withdrawalRequests' = [withdrawalRequests EXCEPT ![id].finalized = TRUE]
      BY <2>5 DEF ExpireWithdrawal, Open
    <3>2. /\ balanceOf' = [balanceOf EXCEPT ![withdrawalRequests[id].owner]
                                              = @ + withdrawalRequests[id].shares]
          /\ UNCHANGED cash
      BY <2>5 DEF ExpireWithdrawal
    <3>3. /\ held[id].owner = withdrawalRequests[id].owner
          /\ held[id].shares = withdrawalRequests[id].shares /\ DOMAIN held = Open
      BY <3>1, HeldEntry
    <3>4. Escrow!Settle(id)
      BY <3>1, SettleRefines
    <3> QED
      BY <3>1, <3>2, <3>3, <3>4 DEF Escrow!Restore
  <2>6. ASSUME OperatorStep \/ UNCHANGED vars
        PROVE  UNCHANGED <<balanceOf, withdrawalRequests>>
    BY <2>6, OperatorKeeps
  <2>7. ASSUME OperatorStep \/ UNCHANGED vars
        PROVE  Goal
    <3>1. Escrow!MoveAssets
      BY <2>6, <2>7, <2>a
    <3> QED
      BY <3>1 DEF Escrow!Next
  <2>8. ASSUME DepositorStep
        PROVE  Escrow!Next
    BY <2>1, <2>2, <2>3, <2>4, <2>5, <2>8 DEF DepositorStep, PricedStep, ReclaimStep, Escrow!Next
  <2> QED
    BY <2>7, <2>8 DEF Next, OperatorStep
<1> QED
  BY <1>1, <1>2, VaultTypeCorrect, PTL DEF Spec, WithdrawalsSettleOnce, Escrow!Spec

-----------------------------------------------------------------------------
(* No open request is owed more than the reserve, and no user holds more   *)
(* than the supply: the subtractions of a payment, an expiry or a burn     *)
(* cannot underflow, so a lapsed request is never kept from its owner.     *)
NoUnderflow ==
  /\ \A id \in Open : withdrawalRequests[id].usdtOut <= pendingReserved
  /\ \A u \in Users : balanceOf[u] <= totalSupply

THEOREM RefundsNeverRevert == Spec => []NoUnderflow
<1>1. TypeOK /\ BooksBalance => NoUnderflow
  <2> SUFFICES ASSUME TypeOK, BooksBalance PROVE NoUnderflow
    OBVIOUS
  <2>1. ASSUME NEW id \in Open PROVE withdrawalRequests[id].usdtOut <= pendingReserved
    <3>1. owed[id] <= SumFunctionOnSet(owed, Open) /\ owed[id] = withdrawalRequests[id].usdtOut
      BY OpenFinite, SumBounds
    <3> QED
      BY <3>1 DEF BooksBalance
  <2>2. ASSUME NEW u \in Users PROVE balanceOf[u] <= totalSupply
    <3>1. \A v \in Users : balanceOf[v] \in Nat
      BY DEF TypeOK
    <3>2. balanceOf[u] <= SumFunctionOnSet(balanceOf, Users)
      BY <3>1, ConstantsTyped, SumBounds
    <3> QED
      BY <3>2 DEF BooksBalance
  <2> QED
    BY <2>1, <2>2 DEF NoUnderflow
<1> QED
  BY <1>1, VaultTypeCorrect, BooksHold, PTL

-----------------------------------------------------------------------------
(* Adding assets and shares, or taking them away, at a price rounded down. *)
LEMMA RoundedIn ==
  ASSUME NEW P \in Int, NEW Q \in Int, NEW a \in Int, NEW s \in Int, s * P <= a * Q
  PROVE  P * (Q + s) <= (P + a) * Q
OBVIOUS

LEMMA RoundedOut ==
  ASSUME NEW P \in Int, NEW Q \in Int, NEW a \in Int, NEW s \in Int, a * Q <= s * P
  PROVE  P * (Q - s) <= (P - a) * Q
OBVIOUS

LEMMA RoundedBack ==
  ASSUME NEW P \in Int, NEW Q \in Int, NEW a \in Int, NEW s \in Int, a * Q <= s * P
  PROVE  a * (Q + s) <= (P + a) * s
OBVIOUS

(* No priced step of a depositor lowers the price of a share.                     *)
LEMMA PriceKept ==
  ASSUME TypeOK, PricedStep
  PROVE  (netAssets + VIRTUAL_ASSETS) * (totalSupply' + VIRTUAL_SHARES)
           <= (netAssets' + VIRTUAL_ASSETS) * (totalSupply + VIRTUAL_SHARES)
<1> DEFINE P == netAssets + VIRTUAL_ASSETS
           Q == totalSupply + VIRTUAL_SHARES
           Kept == P * Q' <= P' * Q
<1>0. P \in Int /\ Q \in Int
  BY ConstantsTyped DEF TypeOK, netAssets
<1>1. ASSUME NEW u \in Users, NEW n \in Amounts, Deposit(u, n) PROVE Kept
  <2> DEFINE s == convertToShares(n)
  <2>1. n \in Nat /\ s \in Nat /\ s * P <= n * Q
    BY <1>1, DepositPriced
  <2>2. P' = P + n /\ Q' = Q + s
    <3>1. /\ totalAssetsPriced' = totalAssetsPriced + n /\ totalSupply' = totalSupply + s
          /\ pendingReserved' = pendingReserved
      BY <1>1 DEF Deposit
    <3> HIDE DEF s
    <3> QED
      BY <2>1, <3>1, ConstantsTyped DEF netAssets, TypeOK
  <2> HIDE DEF s, P, Q
  <2> QED
    BY <1>0, <2>1, <2>2, RoundedIn
<1>2. ASSUME NEW u \in Users, NEW n \in Amounts, RequestWithdraw(u, n) PROVE Kept
  <2> DEFINE a == convertToAssets(n)
  <2>1. n \in Nat /\ a \in Nat /\ a * Q <= n * P
    BY <1>2, RequestPriced
  <2>2. P' = P - a /\ Q' = Q - n
    <3>1. /\ totalAssetsPriced' = totalAssetsPriced /\ pendingReserved' = pendingReserved + a
          /\ totalSupply' = totalSupply - n
      BY <1>2 DEF RequestWithdraw
    <3> HIDE DEF a
    <3> QED
      BY <2>1, <3>1, ConstantsTyped DEF netAssets, TypeOK
  <2> HIDE DEF a, P, Q
  <2> QED
    BY <1>0, <2>1, <2>2, RoundedOut
<1>3. ASSUME NEW u \in Users, NEW v \in Users, NEW n \in Amounts, Transfer(u, v, n) PROVE Kept
  <2>1. P' = P /\ Q' = Q
    BY <1>3 DEF Transfer, netAssets
  <2>2. P * Q \in Int
    BY <1>0
  <2> HIDE DEF P, Q
  <2> QED
    BY <2>1, <2>2
<1>4. ASSUME NEW id \in DOMAIN withdrawalRequests, FinalizeWithdraw(id) PROVE Kept
  <2>1. withdrawalRequests[id] \in WithdrawalRequest
    BY ElementOfSeq DEF TypeOK
  <2>2. withdrawalRequests[id].usdtOut \in Nat
    BY <2>1 DEF WithdrawalRequest
  <2>3. P' = P /\ Q' = Q
    <3> DEFINE out == withdrawalRequests[id].usdtOut
    <3>1. /\ totalAssetsPriced' = totalAssetsPriced - out /\ pendingReserved' = pendingReserved - out
          /\ totalSupply' = totalSupply
      BY <1>4 DEF FinalizeWithdraw
    <3>2. out \in Nat
      BY <2>2
    <3> HIDE DEF out
    <3> QED
      BY <3>1, <3>2, ConstantsTyped DEF netAssets, TypeOK
  <2>4. P * Q \in Int
    BY <1>0
  <2> HIDE DEF P, Q
  <2> QED
    BY <2>3, <2>4
<1> QED
  BY <1>1, <1>2, <1>3, <1>4 DEF PricedStep

(* The price an expiry leaves lies between the present one and that of the *)
(* request.                                                                *)
LEMMA PriceReclaimed ==
  ASSUME TypeOK, NEW id \in DOMAIN withdrawalRequests, ExpireWithdrawal(id)
  PROVE  \/ (netAssets + VIRTUAL_ASSETS) * (totalSupply' + VIRTUAL_SHARES)
              <= (netAssets' + VIRTUAL_ASSETS) * (totalSupply + VIRTUAL_SHARES)
         \/ /\ id \in Open
            /\ owed[id] * (totalSupply' + VIRTUAL_SHARES)
                 <= (netAssets' + VIRTUAL_ASSETS) * withdrawalRequests[id].shares
<1> DEFINE P == netAssets + VIRTUAL_ASSETS
           Q == totalSupply + VIRTUAL_SHARES
           a == withdrawalRequests[id].usdtOut
           s == withdrawalRequests[id].shares
<1>1. P \in Int /\ Q \in Int
  BY ConstantsTyped DEF TypeOK, netAssets
<1>2. a \in Nat /\ s \in Nat
  <2>1. withdrawalRequests[id] \in WithdrawalRequest
    BY ElementOfSeq DEF TypeOK
  <2> QED
    BY <2>1 DEF WithdrawalRequest
<1>3. P' = P + a /\ Q' = Q + s
  <2>1. /\ totalAssetsPriced' = totalAssetsPriced /\ pendingReserved' = pendingReserved - a
        /\ totalSupply' = totalSupply + s
    BY DEF ExpireWithdrawal
  <2> HIDE DEF a, s
  <2> QED
    BY <1>2, <2>1, ConstantsTyped DEF netAssets, TypeOK
<1>4. id \in Open /\ owed[id] = a
  BY DEF ExpireWithdrawal, Open, owed
<1>5. P * Q' <= P' * Q \/ a * Q' <= P' * s
  <2> HIDE DEF P, Q, a, s
  <2>1. s * P \in Int /\ a * Q \in Int
    BY <1>1, <1>2
  <2>2. CASE s * P <= a * Q
    BY <1>1, <1>2, <1>3, <2>2, RoundedIn
  <2>3. CASE a * Q <= s * P
    BY <1>1, <1>2, <1>3, <2>3, RoundedBack
  <2> QED
    BY <2>1, <2>2, <2>3
<1> QED
  BY <1>4, <1>5

(* Depositors never dilute each other, whatever the NAV and the supply.    *)
THEOREM DepositorsNeverDilute == Spec => SharePriceKept
<1> DEFINE Kept == (netAssets + VIRTUAL_ASSETS) * (totalSupply' + VIRTUAL_SHARES)
                     <= (netAssets' + VIRTUAL_ASSETS) * (totalSupply + VIRTUAL_SHARES)
           Back(id) == owed[id] * (totalSupply' + VIRTUAL_SHARES)
                         <= (netAssets' + VIRTUAL_ASSETS) * withdrawalRequests[id].shares
<1>1. TypeOK /\ [Next]_vars =>
        [DepositorStep =>
           \/ (netAssets + VIRTUAL_ASSETS) * (totalSupply' + VIRTUAL_SHARES)
                <= (netAssets' + VIRTUAL_ASSETS) * (totalSupply + VIRTUAL_SHARES)
           \/ \E id \in Open :
                /\ ExpireWithdrawal(id)
                /\ owed[id] * (totalSupply' + VIRTUAL_SHARES)
                     <= (netAssets' + VIRTUAL_ASSETS) * withdrawalRequests[id].shares]_vars
  <2> SUFFICES ASSUME TypeOK, DepositorStep
               PROVE  Kept \/ \E id \in Open : ExpireWithdrawal(id) /\ Back(id)
    OBVIOUS
  <2>1. CASE PricedStep
    BY <2>1, PriceKept
  <2>2. ASSUME NEW id \in DOMAIN withdrawalRequests, ExpireWithdrawal(id)
        PROVE  Kept \/ (id \in Open /\ Back(id))
    BY <2>2, PriceReclaimed
  <2> HIDE DEF Kept, Back
  <2> QED
    BY <2>1, <2>2 DEF DepositorStep, ReclaimStep
<1> QED
  BY <1>1, VaultTypeCorrect, PTL DEF Spec, SharePriceKept

-----------------------------------------------------------------------------
(* A share redeems for at least what the first depositor paid for it.      *)
AtPar == (netAssets + VIRTUAL_ASSETS) * VIRTUAL_SHARES >= (totalSupply + VIRTUAL_SHARES) * VIRTUAL_ASSETS

LEMMA ProductOrder ==
  ASSUME NEW a \in Int, NEW b \in Int, NEW c \in Nat, a <= b
  PROVE  a * c <= b * c
OBVIOUS

LEMMA ProductStrict ==
  ASSUME NEW a \in Int, NEW b \in Int, NEW c \in Nat, c > 0, a < b
  PROVE  a * c < b * c
OBVIOUS

(* A price of P / Q that is no lower than A / S and does not fall stays so.*)
LEMMA PriceStays ==
  ASSUME NEW P \in Int, NEW Q \in Nat, Q > 0, NEW P2 \in Int, NEW Q2 \in Nat,
         NEW A \in Nat, NEW S \in Nat, P * S >= Q * A, P * Q2 <= P2 * Q
  PROVE  P2 * S >= Q2 * A
<1> SUFFICES ASSUME P2 * S < Q2 * A PROVE FALSE
  OBVIOUS
<1>1. (Q * A) * Q2 <= (P * S) * Q2
  BY ProductOrder
<1>2. (P * Q2) * S <= (P2 * Q) * S
  BY ProductOrder
<1>3. (P2 * S) * Q < (Q2 * A) * Q
  BY ProductStrict
<1>4. /\ (P * S) * Q2 = (P * Q2) * S
      /\ (P2 * Q) * S = (P2 * S) * Q
      /\ (Q2 * A) * Q = (Q * A) * Q2
  OBVIOUS
<1>5. /\ (Q * A) * Q2 \in Int /\ (P * S) * Q2 \in Int
      /\ (P2 * Q) * S \in Int /\ (P2 * S) * Q \in Int
  OBVIOUS
<1> QED
  BY <1>1, <1>2, <1>3, <1>4, <1>5

LEMMA ParKept ==
  ASSUME NEW net \in Int, NEW supply \in Nat, NEW net2 \in Int, NEW supply2 \in Nat,
         NEW A \in Nat, NEW S \in Nat, S > 0,
         (net + A) * S >= (supply + S) * A,
         (net + A) * (supply2 + S) <= (net2 + A) * (supply + S)
  PROVE  (net2 + A) * S >= (supply2 + S) * A
<1> DEFINE P == net + A
           Q == supply + S
           P2 == net2 + A
           Q2 == supply2 + S
<1>1. P \in Int /\ P2 \in Int
  OBVIOUS
<1>2. Q \in Nat /\ Q > 0 /\ Q2 \in Nat
  OBVIOUS
<1>3. P * S >= Q * A /\ P * Q2 <= P2 * Q
  OBVIOUS
<1> HIDE DEF P, Q, P2, Q2
<1>4. P2 * S >= Q2 * A
  BY <1>1, <1>2, <1>3, PriceStays
<1> QED
  BY <1>4 DEF P2, Q2

LEMMA Difference == ASSUME NEW a \in Nat, NEW b \in Nat, a - b >= 0 PROVE b <= a
OBVIOUS

(* A price that is no lower than A / S is that of a NAV over the reserve.  *)
LEMMA ParPositive ==
  ASSUME NEW net \in Int, NEW supply \in Nat, NEW A \in Nat, NEW S \in Nat, A > 0, S > 0,
         (net + A) * S >= (supply + S) * A
  PROVE  net >= 0
<1> SUFFICES ASSUME net + A < A PROVE FALSE
  OBVIOUS
<1>1. (net + A) * S < A * S
  BY ProductStrict
<1>2. S * A <= (supply + S) * A
  BY ProductOrder
<1>3. A * S = S * A /\ S * A \in Int /\ (net + A) * S \in Int /\ (supply + S) * A \in Int
  OBVIOUS
<1> QED
  BY <1>1, <1>2, <1>3

(* The reserve can exceed the attested NAV, but not while a share is worth *)
(* its opening price: from such a state no call brings it there, and only  *)
(* an attested loss or an expired request can bring the price below it.    *)
THEOREM ReserveSafeAtPar ==
  Spec => [][AtPar => ReserveWithinNav' /\ (PricedStep => AtPar')]_vars
<1> DEFINE A == VIRTUAL_ASSETS
           S == VIRTUAL_SHARES
           Safe == AtPar => NetDefined' /\ (PricedStep => AtPar')
<1>1. ASSUME TypeOK, TypeOK', AtPar, PricedStep PROVE AtPar' /\ NetDefined'
  <2>1. /\ A \in Nat /\ S \in Nat /\ A > 0 /\ S > 0
        /\ netAssets \in Int /\ totalSupply \in Nat
        /\ netAssets' \in Int /\ totalSupply' \in Nat
    <3>1. A \in Nat /\ S \in Nat /\ A > 0 /\ S > 0
      BY ConstantsTyped
    <3>2. netAssets \in Int /\ totalSupply \in Nat
      BY <1>1 DEF TypeOK, netAssets
    <3>3. totalAssetsPriced' \in Nat /\ pendingReserved' \in Nat /\ totalSupply' \in Nat
      BY <1>1 DEF TypeOK
    <3>4. netAssets' \in Int
      BY <3>3 DEF netAssets
    <3> HIDE DEF A, S
    <3> QED
      BY <3>1, <3>2, <3>3, <3>4
  <2>2. (netAssets + A) * S >= (totalSupply + S) * A
    BY <1>1 DEF AtPar
  <2>3. (netAssets + A) * (totalSupply' + S) <= (netAssets' + A) * (totalSupply + S)
    BY <1>1, PriceKept
  <2>4. (netAssets' + A) * S >= (totalSupply' + S) * A
    <3> HIDE DEF A, S
    <3> QED
      BY <2>1, <2>2, <2>3, ParKept
  <2>5. AtPar'
    BY <2>4 DEF AtPar
  <2>6. netAssets' >= 0
    <3> HIDE DEF A, S
    <3> QED
      BY <2>1, <2>4, ParPositive
  <2>7. NetDefined'
    <3>1. totalAssetsPriced' \in Nat /\ pendingReserved' \in Nat
      BY <1>1 DEF TypeOK
    <3>2. totalAssetsPriced' - pendingReserved' >= 0
      BY <2>6 DEF netAssets
    <3> QED
      BY <3>1, <3>2, Difference DEF NetDefined
  <2> QED
    BY <2>5, <2>7
<1>2. ASSUME TypeOK, AtPar PROVE NetDefined
  <2>1. /\ A \in Nat /\ S \in Nat /\ A > 0 /\ S > 0 /\ netAssets \in Int /\ totalSupply \in Nat
    <3>1. A \in Nat /\ S \in Nat /\ A > 0 /\ S > 0
      BY ConstantsTyped
    <3>2. netAssets \in Int /\ totalSupply \in Nat
      BY <1>2 DEF TypeOK, netAssets
    <3> HIDE DEF A, S
    <3> QED
      BY <3>1, <3>2
  <2>2. (netAssets + A) * S >= (totalSupply + S) * A
    BY <1>2 DEF AtPar
  <2>3. netAssets >= 0
    <3> HIDE DEF A, S
    <3> QED
      BY <2>1, <2>2, ParPositive
  <2> QED
    BY <1>2, <2>3 DEF NetDefined, netAssets, TypeOK
<1>3. ASSUME TypeOK, NetDefined, NEW id \in DOMAIN withdrawalRequests, ExpireWithdrawal(id)
      PROVE  NetDefined'
  <2> DEFINE out == withdrawalRequests[id].usdtOut
  <2>1. withdrawalRequests[id] \in WithdrawalRequest
    BY <1>3, ElementOfSeq DEF TypeOK
  <2>2. out \in Nat
    BY <2>1 DEF WithdrawalRequest
  <2>3. totalAssetsPriced' = totalAssetsPriced /\ pendingReserved' = pendingReserved - out
    BY <1>3 DEF ExpireWithdrawal
  <2> HIDE DEF out
  <2> QED
    BY <1>3, <2>2, <2>3 DEF NetDefined, TypeOK
<1>4. ASSUME NEW n \in Valuations, AttestTotalAssets(n) PROVE NetDefined'
  BY <1>4, ConstantsTyped DEF AttestTotalAssets, NetDefined
<1>5. ASSUME OperatorStep \/ UNCHANGED vars, NetDefined PROVE NetDefined'
  <2>1. pendingReserved' = pendingReserved
    BY <1>5, OperatorKeeps
  <2>2. \/ totalAssetsPriced' = totalAssetsPriced
        \/ \E n \in Valuations : AttestTotalAssets(n)
    BY <1>5, NavMoves
  <2> QED
    BY <1>4, <1>5, <2>1, <2>2 DEF NetDefined
<1>6. TypeOK /\ TypeOK' /\ [Next]_vars => [Safe]_vars
  <2> SUFFICES ASSUME TypeOK, TypeOK', Next, AtPar
               PROVE  NetDefined' /\ (PricedStep => AtPar')
    OBVIOUS
  <2>1. NetDefined
    BY <1>2
  <2>2. \/ PricedStep \/ OperatorStep
        \/ \E id \in DOMAIN withdrawalRequests : ExpireWithdrawal(id)
    BY DEF Next, DepositorStep, ReclaimStep, OperatorStep
  <2> QED
    BY <1>1, <1>3, <1>5, <2>1, <2>2
<1> QED
  BY <1>6, VaultTypeCorrect, PTL DEF Spec, ReserveWithinNav

-----------------------------------------------------------------------------
(* The reserve, once covered, is uncovered by new requests alone.          *)
THEOREM ReserveCovered == Spec => ReserveStaysCovered
<1> DEFINE Uncovered == cash >= pendingReserved /\ cash' < pendingReserved'
           NewRequest == Len(withdrawalRequests') > Len(withdrawalRequests)
<1> USE DEF queue, operator, custody, books
<1>1. TypeOK /\ Next /\ Uncovered => NewRequest
  <2> SUFFICES ASSUME TypeOK, Next, Uncovered PROVE NewRequest
    OBVIOUS
  <2>0. cash \in Int /\ pendingReserved \in Int
    BY DEF TypeOK
  <2>1. cash' # cash \/ pendingReserved' # pendingReserved
    BY <2>0
  <2>2. ASSUME NEW u \in Users, NEW n \in Amounts, Deposit(u, n) PROVE FALSE
    <3>1. n \in Nat /\ cash' = cash + n /\ pendingReserved' = pendingReserved
      BY <2>2, ConstantsTyped DEF Deposit
    <3> QED
      BY <2>0, <3>1
  <2>3. ASSUME NEW u \in Users, NEW n \in Amounts, RequestWithdraw(u, n) PROVE NewRequest
    <3> DEFINE r == [shares |-> n, usdtOut |-> convertToAssets(n), owner |-> u,
                     deadline |-> now + WITHDRAWAL_DEADLINE, finalized |-> FALSE]
    <3>1. n \in Nat /\ convertToAssets(n) \in Nat
      BY <2>3, RequestPriced
    <3>2. r \in WithdrawalRequest
      BY <3>1, ConstantsTyped DEF WithdrawalRequest, TypeOK
    <3>3. withdrawalRequests' = Append(withdrawalRequests, r) /\ withdrawalRequests \in Seq(WithdrawalRequest)
      BY <2>3 DEF RequestWithdraw, TypeOK
    <3> HIDE DEF r
    <3>4. Len(withdrawalRequests') = Len(withdrawalRequests) + 1
      BY <3>2, <3>3, AppendProperties
    <3> QED
      BY <3>3, <3>4, LenProperties
  <2>4. ASSUME NEW id \in DOMAIN withdrawalRequests, FinalizeWithdraw(id) PROVE FALSE
    <3> DEFINE out == withdrawalRequests[id].usdtOut
    <3>1. withdrawalRequests[id] \in WithdrawalRequest
      BY ElementOfSeq DEF TypeOK
    <3>2. out \in Nat
      BY <3>1 DEF WithdrawalRequest
    <3>3. cash' = cash - out /\ pendingReserved' = pendingReserved - out
      BY <2>4 DEF FinalizeWithdraw
    <3> HIDE DEF out
    <3> QED
      BY <2>0, <3>2, <3>3
  <2>5. ASSUME NEW id \in DOMAIN withdrawalRequests, ExpireWithdrawal(id) PROVE FALSE
    <3> DEFINE out == withdrawalRequests[id].usdtOut
    <3>1. withdrawalRequests[id] \in WithdrawalRequest
      BY ElementOfSeq DEF TypeOK
    <3>2. out \in Nat
      BY <3>1 DEF WithdrawalRequest
    <3>3. cash' = cash /\ pendingReserved' = pendingReserved - out
      BY <2>5 DEF ExpireWithdrawal
    <3> HIDE DEF out
    <3> QED
      BY <2>0, <3>2, <3>3
  <2>6. ASSUME NEW id \in DOMAIN agentTransferRequests, ExecuteAgentTransfer(id) PROVE FALSE
    <3> DEFINE amount == agentTransferRequests[id].amount
    <3>1. agentTransferRequests[id] \in AgentTransferRequest
      BY ElementOfSeq DEF TypeOK
    <3>2. amount \in Nat
      BY <3>1 DEF AgentTransferRequest
    <3>3. cash >= amount + pendingReserved /\ cash' = cash - amount /\ pendingReserved' = pendingReserved
      BY <2>6 DEF ExecuteAgentTransfer
    <3> HIDE DEF amount
    <3> QED
      BY <2>0, <3>2, <3>3
  <2>7. ASSUME NEW n \in Amounts, ReceiveAssets(n) PROVE FALSE
    BY <2>0, <2>7, ConstantsTyped DEF ReceiveAssets
  <2>8. ASSUME UNCHANGED <<cash, pendingReserved>> PROVE FALSE
    BY <2>1, <2>8
  <2>9. ASSUME NEW u \in Users, NEW v \in Users, NEW n \in Amounts, Transfer(u, v, n) PROVE FALSE
    BY <2>8, <2>9 DEF Transfer
  <2>10. ASSUME OperatorStep PROVE FALSE
    <3>1. pendingReserved' = pendingReserved
      BY <2>10, OperatorKeeps
    <3>2. CASE cash' = cash
      BY <2>8, <3>1, <3>2
    <3>3. CASE cash' # cash
      BY <2>6, <2>7, <2>10, <3>3, CashMoves
    <3> QED
      BY <3>2, <3>3
  <2>11. Next => \/ PricedStep \/ OperatorStep
                 \/ \E id \in DOMAIN withdrawalRequests : ExpireWithdrawal(id)
    BY DEF Next, DepositorStep, ReclaimStep, OperatorStep
  <2> QED
    BY <2>2, <2>3, <2>4, <2>5, <2>9, <2>10, <2>11 DEF PricedStep
<1>2. TypeOK /\ [Next]_vars => [cash >= pendingReserved /\ cash' < pendingReserved'
                                  => Len(withdrawalRequests') > Len(withdrawalRequests)]_vars
  BY <1>1
<1> QED
  BY <1>2, VaultTypeCorrect, PTL DEF Spec, ReserveStaysCovered

-----------------------------------------------------------------------------
(* A step that is none of the agent's custody leaves its variables alone.  *)
LEMMA CustodySteps ==
  ASSUME [Next]_vars
  PROVE  \/ UNCHANGED custody
         \/ \E id \in DOMAIN agentTransferRequests :
               ExecuteAgentTransfer(id) \/ CancelAgentTransfer(id)
         \/ \E n \in Amounts : RequestAgentTransfer(n)
         \/ \E a \in Candidates : ProposeAgent(a)
         \/ AcceptAgent \/ AbortAgentRotation
<1>1. ASSUME NEW u \in Users, NEW n \in Amounts, Deposit(u, n) \/ RequestWithdraw(u, n)
      PROVE  UNCHANGED custody
  BY <1>1 DEF Deposit, RequestWithdraw
<1>2. ASSUME NEW u \in Users, NEW v \in Users, NEW n \in Amounts, Transfer(u, v, n)
      PROVE  UNCHANGED custody
  BY <1>2 DEF Transfer
<1>3. ASSUME NEW id \in DOMAIN withdrawalRequests, FinalizeWithdraw(id) \/ ExpireWithdrawal(id)
      PROVE  UNCHANGED custody
  BY <1>3 DEF FinalizeWithdraw, ExpireWithdrawal
<1>4. ASSUME NEW n \in Valuations, AttestTotalAssets(n) PROVE UNCHANGED custody
  BY <1>4 DEF AttestTotalAssets
<1>5. ASSUME NEW open \in BOOLEAN, SetFundingPackageOpen(open) PROVE UNCHANGED custody
  BY <1>5 DEF SetFundingPackageOpen
<1>6. ASSUME NEW n \in Amounts, ReceiveAssets(n) PROVE UNCHANGED custody
  BY <1>6 DEF ReceiveAssets
<1>7. CASE Tick
  BY <1>7 DEF Tick
<1>8. CASE UNCHANGED vars
  BY <1>8 DEF vars, custody
<1> QED
  BY <1>1, <1>2, <1>3, <1>4, <1>5, <1>6, <1>7, <1>8 DEF Next, DepositorStep, PricedStep, ReclaimStep

(* The clock of a standing proposal started with the latest proposal.      *)
ClockInv == proposedAgent # None => agentProposedAt = lastProposal

(* An agent takes over only after the whole timelock of its own proposal.  *)
THEOREM RotationTimelocked == Spec => RotationAnnounced
<1> USE DEF queue, operator, custody, books
<1>1. Init => ClockInv
  BY DEF Init, ClockInv
<1>2. ClockInv /\ [Next]_vars => ClockInv'
  <2> SUFFICES ASSUME ClockInv, [Next]_vars PROVE ClockInv'
    OBVIOUS
  <2>1. CASE UNCHANGED <<proposedAgent, agentProposedAt, lastProposal>>
    BY <2>1 DEF ClockInv
  <2>2. CASE \E a \in Candidates : ProposeAgent(a)
    BY <2>2 DEF ProposeAgent, ClockInv
  <2>3. CASE AcceptAgent \/ AbortAgentRotation
    BY <2>3 DEF AcceptAgent, AbortAgentRotation, ClockInv
  <2>4. ASSUME UNCHANGED custody PROVE UNCHANGED <<proposedAgent, agentProposedAt, lastProposal>>
    BY <2>4
  <2>5. ASSUME NEW id \in DOMAIN agentTransferRequests,
               ExecuteAgentTransfer(id) \/ CancelAgentTransfer(id)
        PROVE  UNCHANGED <<proposedAgent, agentProposedAt, lastProposal>>
    BY <2>5 DEF ExecuteAgentTransfer, CancelAgentTransfer
  <2>6. ASSUME NEW n \in Amounts, RequestAgentTransfer(n)
        PROVE  UNCHANGED <<proposedAgent, agentProposedAt, lastProposal>>
    BY <2>6 DEF RequestAgentTransfer
  <2> QED
    BY <2>1, <2>2, <2>3, <2>4, <2>5, <2>6, CustodySteps
<1>3. ClockInv /\ [Next]_vars =>
        [agent' # agent => /\ agent' = proposedAgent
                           /\ now >= lastProposal + AGENT_ROTATION_TIMELOCK]_vars
  <2> SUFFICES ASSUME ClockInv, Next, agent' # agent
               PROVE  agent' = proposedAgent /\ now >= lastProposal + AGENT_ROTATION_TIMELOCK
    BY DEF vars
  <2>1. AcceptAgent
    <3>1. ~ UNCHANGED custody
      OBVIOUS
    <3>2. ASSUME NEW id \in DOMAIN agentTransferRequests,
                 ExecuteAgentTransfer(id) \/ CancelAgentTransfer(id)
          PROVE  FALSE
      BY <3>2 DEF ExecuteAgentTransfer, CancelAgentTransfer
    <3>3. ASSUME NEW n \in Amounts, RequestAgentTransfer(n) PROVE FALSE
      BY <3>3 DEF RequestAgentTransfer
    <3>4. ASSUME NEW a \in Candidates, ProposeAgent(a) PROVE FALSE
      BY <3>4 DEF ProposeAgent
    <3>5. ~ AbortAgentRotation
      BY DEF AbortAgentRotation
    <3> QED
      BY <3>1, <3>2, <3>3, <3>4, <3>5, CustodySteps
  <2> QED
    BY <2>1 DEF AcceptAgent, ClockInv
<1> QED
  BY <1>1, <1>2, <1>3, PTL DEF Spec, RotationAnnounced

=============================================================================
