------------------------- MODULE OnchainLoggerProofs -------------------------
(***************************************************************************)
(* Proofs about the on-chain logger, for any calls of any kind and any     *)
(* number of mishaps.                                                      *)
(***************************************************************************)
EXTENDS OnchainLogger, TLAPS

Stages == InFlight \cup Answered \cup {"idle", "gone"}
Receipts == [call : Calls, nonce : Nat, ok : BOOLEAN]

(* The part of the state a send, an answer or a move touches.              *)
CallsTyped ==
  /\ at \in [Calls -> Stages]
  /\ nonce \in [Calls -> Nat \cup {Unset}]
  /\ mined \subseteq Receipts

-----------------------------------------------------------------------------
(* Answering a call, and moving it on, keep the types.                     *)
LEMMA AnswerTyped ==
  ASSUME CallsTyped, NEW c \in Calls, NEW result \in Answered, Answer(c, result)
  PROVE  CallsTyped'
BY DEF CallsTyped, Answer, Stages

LEMMA MoveTyped ==
  ASSUME CallsTyped, NEW c \in Calls, NEW stage \in Stages, NEW n \in Nat,
         Move(c, stage, n)
  PROVE  CallsTyped'
BY DEF CallsTyped, Move

LEMMA MishapTyped ==
  ASSUME mishaps \in 0..MaxMishaps, Mishap \/ UNCHANGED mishaps
  PROVE  mishaps' \in 0..MaxMishaps
BY LoggerAssumption DEF Mishap

(* A broadcast of any outcome keeps the types.                             *)
LEMMA SendTyped ==
  ASSUME LoggerTypeOK, NEW c \in Calls, NEW n \in Nat,
         \/ FirstSend(c, [call |-> c, nonce |-> n])
         \/ OnlySend(c, [call |-> c, nonce |-> n])
  PROVE  CallsTyped' /\ pool' \subseteq Tx /\ mishaps' \in 0..MaxMishaps
<1> DEFINE tx == [call |-> c, nonce |-> n]
<1>0. CallsTyped /\ pool \subseteq Tx /\ tx \in Tx /\ tx.nonce = n
  BY DEF LoggerTypeOK, CallsTyped, Stages, Receipts, Tx
<1>1. Takes(tx) => pool' \subseteq Tx
  BY <1>0 DEF Takes
<1>2. Mishap \/ UNCHANGED mishaps => mishaps' \in 0..MaxMishaps
  BY MishapTyped DEF LoggerTypeOK
<1>3. Answer(c, "error") => CallsTyped'
  BY <1>0, AnswerTyped DEF Answered
<1>4. Move(c, "waiting", n) \/ Move(c, "failover", n) => CallsTyped'
  BY <1>0, MoveTyped DEF Stages, InFlight
<1>5. CASE FirstSend(c, tx)
  <2>1. Takes(tx) \/ pool' = pool
    BY <1>5 DEF FirstSend, Refuses
  <2>2. Mishap \/ UNCHANGED mishaps
    BY <1>5 DEF FirstSend
  <2>3. Answer(c, "error") \/ Move(c, "waiting", n) \/ Move(c, "failover", n)
    BY <1>0, <1>5 DEF FirstSend
  <2> QED
    BY <1>0, <1>1, <1>2, <1>3, <1>4, <2>1, <2>2, <2>3
<1>6. CASE OnlySend(c, tx)
  <2>1. Takes(tx) \/ pool' = pool
    BY <1>6 DEF OnlySend, Refuses
  <2>2. Mishap \/ UNCHANGED mishaps
    BY <1>6 DEF OnlySend
  <2>3. Answer(c, "error") \/ Move(c, "waiting", n)
    BY <1>0, <1>6 DEF OnlySend
  <2> QED
    BY <1>0, <1>1, <1>2, <1>3, <1>4, <2>1, <2>2, <2>3
<1> QED
  BY <1>5, <1>6

LEMMA NextNonceTyped ==
  ASSUME LoggerTypeOK
  PROVE  NextNonce \in Nat
BY DEF LoggerTypeOK, NextNonce, Unset

LEMMA NumberedTyped ==
  ASSUME LoggerTypeOK, NEW c \in Calls, Numbered(c)
  PROVE  latest' \in Calls \cup {NoCall}
BY DEF LoggerTypeOK, Numbered

(* The logger's state is well typed, and the calls keep within the stages  *)
(* of _send_transaction.                                                   *)
THEOREM LoggerTypeCorrect == LoggerSpec => []LoggerTypeOK
<1>1. LoggerInit => LoggerTypeOK
  <2> SUFFICES ASSUME LoggerInit PROVE LoggerTypeOK
    OBVIOUS
  <2>1. /\ at \in [Calls -> InFlight \cup Answered \cup {"idle", "gone"}]
        /\ nonce \in [Calls -> Nat \cup {Unset}]
        /\ took \in [Calls -> Nat]
    BY DEF LoggerInit
  <2>2. /\ counter \in Nat \cup {Unset}
        /\ latest \in Calls \cup {NoCall}
        /\ halted \in BOOLEAN /\ reseeded \in BOOLEAN
    BY DEF LoggerInit
  <2>3. /\ pool \subseteq Tx
        /\ mined \subseteq Receipts
    BY DEF LoggerInit
  <2>4. height \in Nat /\ mishaps \in 0..MaxMishaps
    BY LoggerAssumption DEF LoggerInit
  <2> QED
    BY <2>1, <2>2, <2>3, <2>4 DEF LoggerTypeOK, Receipts
<1>2. LoggerTypeOK /\ [LoggerNext]_loggerVars => LoggerTypeOK'
  <2> SUFFICES ASSUME LoggerTypeOK, [LoggerNext]_loggerVars PROVE LoggerTypeOK'
    OBVIOUS
  <2>0. CallsTyped
    BY DEF LoggerTypeOK, CallsTyped, Stages, Receipts
  <2>a. ASSUME CallsTyped', pool' \subseteq Tx, mishaps' \in 0..MaxMishaps,
               counter' \in Nat \cup {Unset}, latest' \in Calls \cup {NoCall},
               reseeded' \in BOOLEAN, UNCHANGED <<height, took, halted>>
        PROVE  LoggerTypeOK'
    BY <2>a DEF LoggerTypeOK, CallsTyped, Stages, Receipts
  <2>1. ASSUME NEW c \in Calls, Ask(c) PROVE LoggerTypeOK'
    BY <2>1 DEF Ask, LoggerTypeOK, chainVars, InFlight
  <2>2. ASSUME NEW c \in Calls, Attest(c) PROVE LoggerTypeOK'
    <3>1. height \in Nat
      BY DEF LoggerTypeOK
    <3>2. CallsTyped' /\ pool' \subseteq Tx /\ mishaps' \in 0..MaxMishaps
      BY <2>2, <3>1, SendTyped DEF Attest
    <3> QED
      BY <2>a, <2>2, <3>2 DEF Attest, LoggerTypeOK
  <2>3. ASSUME NEW c \in Calls, Broadcast(c) PROVE LoggerTypeOK'
    <3>1. CallsTyped' /\ pool' \subseteq Tx /\ mishaps' \in 0..MaxMishaps
      BY <2>3, NextNonceTyped, SendTyped DEF Broadcast
    <3>2. counter' \in Nat /\ latest' \in Calls \cup {NoCall}
      BY <2>3, NextNonceTyped, NumberedTyped DEF Broadcast
    <3> QED
      BY <2>a, <2>3, <3>1, <3>2 DEF Broadcast, LoggerTypeOK
  <2>4. ASSUME NEW c \in Calls, SeedFails(c) \/ ReseedFails(c) PROVE LoggerTypeOK'
    <3>1. Answer(c, "error") /\ Mishap
      BY <2>4 DEF SeedFails, ReseedFails
    <3>2. CallsTyped'
      BY <2>0, <3>1, AnswerTyped DEF Answered
    <3>3. mishaps' \in 0..MaxMishaps
      BY <3>1, MishapTyped DEF LoggerTypeOK
    <3>4. UNCHANGED <<counter, chainVars, reseeded, latest>>
      BY <2>4 DEF SeedFails, ReseedFails
    <3> QED
      BY <2>a, <3>2, <3>3, <3>4 DEF LoggerTypeOK, chainVars
  <2>5. ASSUME NEW c \in Calls, FailOver(c) PROVE LoggerTypeOK'
    <3>1. CASE Answer(c, "error") /\ UNCHANGED <<counter, reseeded>>
      <4>1. CallsTyped'
        BY <2>0, <3>1, AnswerTyped DEF Answered
      <4> QED
        BY <2>a, <2>5, <3>1, <4>1 DEF FailOver, LoggerTypeOK, chainVars
    <3>2. CASE Mined(c) /\ Move(c, "waiting", nonce[c]) /\ UNCHANGED <<counter, reseeded>>
      <4>1. nonce[c] \in Nat
        BY <2>0, <3>2 DEF Mined, CallsTyped, Receipts
      <4>2. CallsTyped'
        BY <2>0, <3>2, <4>1, MoveTyped DEF Stages, InFlight
      <4> QED
        BY <2>a, <2>5, <3>2, <4>2 DEF FailOver, LoggerTypeOK, chainVars
    <3>3. CASE Move(c, "reseed", nonce[c]) /\ counter' = Unset /\ reseeded' = TRUE
      <4>1. CallsTyped'
        BY <2>0, <3>3 DEF Move, CallsTyped, Stages, InFlight
      <4> QED
        BY <2>a, <2>5, <3>3, <4>1 DEF FailOver, LoggerTypeOK, chainVars
    <3> QED
      BY <2>5, <3>1, <3>2, <3>3 DEF FailOver
  <2>6. ASSUME NEW c \in Calls, Resend(c) PROVE LoggerTypeOK'
    <3>1. height \in Nat
      BY DEF LoggerTypeOK
    <3>2. CallsTyped' /\ pool' \subseteq Tx /\ mishaps' \in 0..MaxMishaps
      BY <2>6, <3>1, SendTyped DEF Resend
    <3>3. counter' \in Nat /\ latest' \in Calls \cup {NoCall}
      BY <2>6, <3>1, NumberedTyped DEF Resend
    <3> QED
      BY <2>a, <2>6, <3>2, <3>3 DEF Resend, LoggerTypeOK
  <2>7. ASSUME NEW c \in Calls, Receive(c) PROVE LoggerTypeOK'
    <3>1. Answer(c, "ok") \/ Answer(c, "error")
      BY <2>7 DEF Receive
    <3>2. CallsTyped'
      BY <2>0, <3>1, AnswerTyped DEF Answered
    <3> QED
      BY <2>a, <2>7, <3>2 DEF Receive, LoggerTypeOK, chainVars
  <2>8. ASSUME NEW c \in Calls, TimeOut(c) PROVE LoggerTypeOK'
    <3>1. CallsTyped'
      BY <2>0, <2>8, AnswerTyped DEF TimeOut, Answered
    <3>2. mishaps' \in 0..MaxMishaps
      BY <2>8, MishapTyped DEF TimeOut, LoggerTypeOK
    <3> QED
      BY <2>a, <2>8, <3>1, <3>2 DEF TimeOut, LoggerTypeOK, chainVars
  <2>9. ASSUME Mine PROVE LoggerTypeOK'
    <3>1. PICK tx \in pool, ok \in BOOLEAN : tx.nonce = height /\ Execute(tx, ok)
      BY <2>9 DEF Mine
    <3>2. tx.call \in Calls /\ tx.nonce \in Nat
      BY DEF LoggerTypeOK, Tx
    <3>3. mishaps' \in 0..MaxMishaps
      BY <3>1, MishapTyped DEF Execute, Reverts, LoggerTypeOK
    <3>4. took' \in [Calls -> Nat]
      <4>0. took \in [Calls -> Nat] /\ (took' = took \/ took' = [took EXCEPT ![tx.call] = took[tx.call] + 1])
        BY <3>1 DEF Execute, LoggerTypeOK
      <4>1. took[tx.call] + 1 \in Nat
        BY <3>2, <4>0
      <4> QED
        BY <3>2, <4>0, <4>1
    <3>5. mined' \subseteq Receipts
      BY <3>1, <3>2 DEF Execute, LoggerTypeOK, Receipts
    <3>6. height' \in Nat /\ pool' \subseteq Tx
      BY <3>1 DEF Execute, LoggerTypeOK
    <3>8. halted' \in BOOLEAN
      <4>1. halted' = TRUE \/ halted' = FALSE \/ halted' = halted
        BY <3>1 DEF Execute
      <4> QED
        BY <4>1 DEF LoggerTypeOK
    <3>7. UNCHANGED <<counter, at, nonce, reseeded, latest>>
      BY <3>1 DEF Execute
    <3> QED
      BY <3>3, <3>4, <3>5, <3>6, <3>7, <3>8 DEF LoggerTypeOK, Receipts
  <2>10. ASSUME Forget PROVE LoggerTypeOK'
    <3>1. mishaps' \in 0..MaxMishaps /\ pool' \subseteq Tx
      BY <2>10, MishapTyped DEF Forget, LoggerTypeOK
    <3> QED
      BY <2>10, <3>1 DEF Forget, LoggerTypeOK
  <2>11. ASSUME LoggerRestart PROVE LoggerTypeOK'
    <3>1. CallsTyped'
      BY <2>0, <2>11 DEF LoggerRestart, CallsTyped, Stages
    <3>2. mishaps' \in 0..MaxMishaps
      BY <2>11, MishapTyped DEF LoggerRestart, LoggerTypeOK
    <3> QED
      BY <2>a, <2>11, <3>1, <3>2 DEF LoggerRestart, LoggerTypeOK, chainVars
  <2>12. CASE UNCHANGED loggerVars
    BY <2>12 DEF loggerVars, chainVars, LoggerTypeOK
  <2> QED
    BY <2>1, <2>2, <2>3, <2>4, <2>5, <2>6, <2>7, <2>8, <2>9, <2>10, <2>11, <2>12
    DEF LoggerNext, Serve
<1> QED
  BY <1>1, <1>2, PTL DEF LoggerSpec

-----------------------------------------------------------------------------
(* What a call's thread does to the rest: it moves that call, adds no      *)
(* transaction but its own, and reports success only for a good receipt.   *)
MovesCall(c, stage) ==
  /\ at' = [at EXCEPT ![c] = stage]
  /\ pool' \subseteq pool \cup {tx \in Tx : tx.call = c}
  /\ mined' \subseteq mined
  /\ \/ at[c] = "idle" /\ Kind[c] # "attest" /\ stage = "asked" /\ pool' = pool
     \/ at[c] = "idle" /\ Kind[c] = "attest" /\ stage \in {"waiting", "error"}
     \/ at[c] \in InFlight /\ stage \in {"waiting", "failover", "reseed", "error"}
     \/ /\ at[c] \in InFlight /\ stage = "ok"
        /\ Kind[c] = "attest" \/ \E m \in mined : m.call = c /\ m.ok

(* The environment loses a transaction, the process, or nothing.           *)
Loses ==
  /\ \/ UNCHANGED at
     \/ at' = [c \in Calls |-> IF at[c] \in InFlight THEN "gone" ELSE at[c]]
  /\ pool' \subseteq pool
  /\ mined' \subseteq mined

(* A send that ends in the call's waiting, failing over or giving up.      *)
LEMMA SendMoves ==
  ASSUME LoggerTypeOK, NEW c \in Calls, NEW n \in Nat,
         \/ FirstSend(c, [call |-> c, nonce |-> n]) /\ at[c] \in InFlight
         \/ /\ OnlySend(c, [call |-> c, nonce |-> n])
            /\ at[c] \in InFlight \/ (at[c] = "idle" /\ Kind[c] = "attest")
  PROVE  \E stage \in Stages : MovesCall(c, stage)
<1> DEFINE tx == [call |-> c, nonce |-> n]
<1>0. tx \in {x \in Tx : x.call = c} /\ tx.nonce = n
  BY DEF Tx
<1>1. pool' \subseteq pool \cup {x \in Tx : x.call = c}
  <2>1. Takes(tx) \/ pool' = pool
    BY DEF FirstSend, OnlySend, Refuses
  <2> QED
    BY <1>0, <2>1 DEF Takes
<1>2. CASE Answer(c, "error")
  <2>1. MovesCall(c, "error")
    BY <1>1, <1>2 DEF MovesCall, Answer
  <2> QED
    BY <2>1 DEF Stages, Answered
<1>3. CASE Move(c, "waiting", n)
  <2>1. MovesCall(c, "waiting")
    BY <1>1, <1>3 DEF MovesCall, Move
  <2> QED
    BY <2>1 DEF Stages, InFlight
<1>4. CASE Move(c, "failover", n) /\ at[c] \in InFlight
  <2>1. MovesCall(c, "failover")
    BY <1>1, <1>4 DEF MovesCall, Move
  <2> QED
    BY <2>1 DEF Stages, InFlight
<1> QED
  BY <1>0, <1>2, <1>3, <1>4 DEF FirstSend, OnlySend

(* A step mines a transaction, moves one call, or loses something.         *)
LEMMA StepEffects ==
  ASSUME LoggerTypeOK, [LoggerNext]_loggerVars
  PROVE  \/ Mine
         \/ /\ UNCHANGED <<height, took, halted>>
            /\ Loses \/ \E c \in Calls, stage \in Stages : MovesCall(c, stage)
<1>1. ASSUME NEW c \in Calls, Ask(c)
      PROVE  UNCHANGED <<height, took, halted>> /\ MovesCall(c, "asked")
  BY <1>1 DEF Ask, MovesCall, chainVars
<1>2. ASSUME NEW c \in Calls, Attest(c) \/ Broadcast(c) \/ Resend(c)
      PROVE  /\ UNCHANGED <<height, took, halted>>
             /\ \E stage \in Stages : MovesCall(c, stage)
  <2>1. height \in Nat /\ NextNonce \in Nat
    BY NextNonceTyped DEF LoggerTypeOK
  <2>2. UNCHANGED <<height, took, halted>>
    BY <1>2 DEF Attest, Broadcast, Resend
  <2>3. \/ /\ OnlySend(c, [call |-> c, nonce |-> height])
           /\ at[c] \in InFlight \/ (at[c] = "idle" /\ Kind[c] = "attest")
        \/ FirstSend(c, [call |-> c, nonce |-> NextNonce]) /\ at[c] \in InFlight
    <3>1. CASE Attest(c)
      BY <3>1 DEF Attest
    <3>2. CASE Broadcast(c)
      BY <3>2 DEF Broadcast, InFlight
    <3>3. CASE Resend(c)
      BY <3>3 DEF Resend, InFlight
    <3> QED
      BY <1>2, <3>1, <3>2, <3>3
  <2> QED
    BY <2>1, <2>2, <2>3, SendMoves
<1>3. ASSUME NEW c \in Calls, SeedFails(c) \/ ReseedFails(c) \/ TimeOut(c)
      PROVE  UNCHANGED <<height, took, halted>> /\ MovesCall(c, "error")
  <2>1. at[c] \in InFlight /\ Answer(c, "error") /\ UNCHANGED chainVars
    BY <1>3 DEF SeedFails, ReseedFails, TimeOut, InFlight
  <2> QED
    BY <2>1 DEF Answer, MovesCall, chainVars
<1>4. ASSUME NEW c \in Calls, FailOver(c)
      PROVE  /\ UNCHANGED <<height, took, halted>>
             /\ \E stage \in Stages : MovesCall(c, stage)
  <2>0. at[c] \in InFlight /\ UNCHANGED chainVars
    BY <1>4 DEF FailOver, InFlight
  <2>1. \/ Answer(c, "error")
        \/ Move(c, "waiting", nonce[c])
        \/ Move(c, "reseed", nonce[c])
    BY <1>4 DEF FailOver
  <2>2. MovesCall(c, "error") \/ MovesCall(c, "waiting") \/ MovesCall(c, "reseed")
    BY <2>0, <2>1 DEF Answer, Move, MovesCall, chainVars
  <2> QED
    BY <2>0, <2>2 DEF Stages, Answered, InFlight, chainVars
<1>5. ASSUME NEW c \in Calls, Receive(c)
      PROVE  /\ UNCHANGED <<height, took, halted>>
             /\ \E stage \in Stages : MovesCall(c, stage)
  <2>0. at[c] \in InFlight /\ UNCHANGED chainVars
    BY <1>5 DEF Receive, InFlight
  <2>1. PICK m \in mined :
          /\ m.call = c
          /\ Answer(c, IF m.ok \/ Kind[c] = "attest" THEN "ok" ELSE "error")
    BY <1>5 DEF Receive
  <2>2. CASE m.ok \/ Kind[c] = "attest"
    <3>1. MovesCall(c, "ok")
      BY <2>0, <2>1, <2>2 DEF Answer, MovesCall, chainVars
    <3> QED
      BY <2>0, <3>1 DEF Stages, Answered, chainVars
  <2>3. CASE ~(m.ok \/ Kind[c] = "attest")
    <3>1. MovesCall(c, "error")
      BY <2>0, <2>1, <2>3 DEF Answer, MovesCall, chainVars
    <3> QED
      BY <2>0, <3>1 DEF Stages, Answered, chainVars
  <2> QED
    BY <2>2, <2>3
<1>6. Forget \/ LoggerRestart \/ UNCHANGED loggerVars
        => UNCHANGED <<height, took, halted>> /\ Loses
  BY DEF Forget, LoggerRestart, loggerVars, chainVars, Loses
<1>7. "asked" \in Stages /\ "error" \in Stages
  BY DEF Stages, InFlight, Answered
<1> QED
  BY <1>1, <1>2, <1>3, <1>4, <1>5, <1>6, <1>7 DEF LoggerNext, Serve

-----------------------------------------------------------------------------
(* A good receipt is of a call that took effect, what is pending was asked *)
(* for, and no entry is on the trail twice.                                *)
ReceiptInv ==
  /\ \A m \in mined : m.ok => took[m.call] > 0
  /\ \A c \in Calls : Kind[c] # "attest" /\ at[c] = "ok" => took[c] > 0
  /\ \A tx \in pool : at[tx.call] # "idle"
  /\ \A e \in Entries : took[e] <= 1

(* The contract lets every entry in once.                                  *)
LEMMA PermitsOnce ==
  ASSUME LoggerTypeOK, NEW c \in Entries, Permits(c)
  PROVE  took[c] = 0
<1>1. c \in Calls /\ took[c] \in Nat /\ Kind[c] \in {"log", "record"}
  BY DEF LoggerTypeOK, Entries, OfKind
<1>2. CASE Kind[c] = "log"
  BY <1>2 DEF Permits
<1>3. CASE Kind[c] = "record"
  <2>1. ~Closed(DecisionOf[c])
    BY <1>3 DEF Permits
  <2>2. ~(took[c] > 0)
    BY <1>1, <1>3, <2>1 DEF Closed, OfKind
  <2> QED
    BY <1>1, <2>2
<1> QED
  BY <1>1, <1>2, <1>3

LEMMA ExecuteKeepsReceipts ==
  ASSUME LoggerTypeOK, ReceiptInv,
         NEW tx \in pool, NEW ok \in BOOLEAN, Execute(tx, ok)
  PROVE  ReceiptInv'
<1>0. /\ tx.call \in Calls /\ took \in [Calls -> Nat]
      /\ \A m \in mined : m.call \in Calls
  BY DEF LoggerTypeOK, Tx
<1>1. \A c \in Calls : took'[c] = IF ok /\ c = tx.call THEN took[c] + 1 ELSE took[c]
  BY <1>0 DEF Execute
<1>2. \A m \in mined' : m.ok => took'[m.call] > 0
  <2>1. SUFFICES ASSUME NEW m \in mined', m.ok PROVE took'[m.call] > 0
    OBVIOUS
  <2>2. m \in mined \/ m = [call |-> tx.call, nonce |-> tx.nonce, ok |-> ok]
    BY <2>1 DEF Execute
  <2> QED
    BY <1>0, <1>1, <2>1, <2>2 DEF ReceiptInv
<1>3. \A c \in Calls : Kind[c] # "attest" /\ at'[c] = "ok" => took'[c] > 0
  BY <1>0, <1>1 DEF Execute, ReceiptInv
<1>4. \A x \in pool' : at'[x.call] # "idle"
  BY DEF Execute, ReceiptInv
<1>5. \A e \in Entries : took'[e] <= 1
  <2>1. ok => Permits(tx.call)
    BY DEF Execute
  <2>2. ok /\ tx.call \in Entries => took[tx.call] = 0
    BY <2>1, PermitsOnce
  <2> QED
    BY <1>0, <1>1, <2>2 DEF ReceiptInv, Entries, OfKind
<1> QED
  BY <1>2, <1>3, <1>4, <1>5 DEF ReceiptInv

LEMMA ReceiptStep ==
  ASSUME LoggerTypeOK, ReceiptInv, [LoggerNext]_loggerVars
  PROVE  ReceiptInv'
<1>0. at \in [Calls -> Stages] /\ \A tx \in pool : tx.call \in Calls
  BY DEF LoggerTypeOK, Stages, Tx
<1>1. CASE Mine
  BY <1>1, ExecuteKeepsReceipts DEF Mine
<1>2. CASE UNCHANGED <<height, took, halted>> /\ Loses
  BY <1>0, <1>2 DEF Loses, ReceiptInv, InFlight
<1>3. ASSUME NEW c \in Calls, NEW stage \in Stages, MovesCall(c, stage),
             UNCHANGED <<height, took, halted>>
      PROVE  ReceiptInv'
  <2>1. stage # "idle"
    BY <1>3 DEF MovesCall
  <2>2. stage = "ok" /\ Kind[c] # "attest" => took[c] > 0
    BY <1>3 DEF MovesCall, ReceiptInv
  <2>3. \A d \in Calls : at'[d] = IF d = c THEN stage ELSE at[d]
    BY <1>0, <1>3 DEF MovesCall
  <2>4. \A m \in mined' : m.ok => took'[m.call] > 0
    BY <1>3 DEF MovesCall, ReceiptInv
  <2>5. \A d \in Calls : Kind[d] # "attest" /\ at'[d] = "ok" => took'[d] > 0
    BY <1>3, <2>2, <2>3 DEF ReceiptInv
  <2>6. \A x \in pool' : at'[x.call] # "idle"
    <3>1. SUFFICES ASSUME NEW x \in pool' PROVE at'[x.call] # "idle"
      OBVIOUS
    <3>2. x \in pool \/ x.call = c
      BY <1>3 DEF MovesCall
    <3> QED
      BY <1>0, <2>1, <2>3, <3>2 DEF ReceiptInv
  <2> QED
    BY <1>3, <2>4, <2>5, <2>6 DEF ReceiptInv
<1> QED
  BY <1>1, <1>2, <1>3, StepEffects

LEMMA ReceiptsHold == LoggerSpec => []ReceiptInv
<1>1. LoggerInit => ReceiptInv
  BY DEF LoggerInit, ReceiptInv, Entries, OfKind
<1>2. LoggerTypeOK /\ ReceiptInv /\ [LoggerNext]_loggerVars => ReceiptInv'
  BY ReceiptStep
<1> QED
  BY <1>1, <1>2, LoggerTypeCorrect, PTL DEF LoggerSpec

(* A call that returned a hash has taken effect in the contract, whatever  *)
(* broke, was resent, replaced or mined late on the way.                   *)
THEOREM AnswersTrue == LoggerSpec => []AnswersAreTrue
<1>1. ReceiptInv => AnswersAreTrue
  BY DEF ReceiptInv, AnswersAreTrue
<1> QED
  BY <1>1, ReceiptsHold, PTL

-----------------------------------------------------------------------------
(* A transaction that is mined writes its entry, or changes nothing.       *)
LEMMA ExecuteRefines ==
  ASSUME LoggerTypeOK, ReceiptInv,
         NEW tx \in pool, NEW ok \in BOOLEAN, Execute(tx, ok)
  PROVE  [Log!Next]_(Log!logVars)
<1>0. tx.call \in Calls /\ took \in [Calls -> Nat]
  BY DEF LoggerTypeOK, Tx
<1>1. Entries \subseteq Calls
  BY DEF Entries, OfKind
<1>2. UNCHANGED at
  BY DEF Execute
<1>3. CASE ok /\ tx.call \in Entries
  <2>1. took[tx.call] = 0
    BY <1>3, PermitsOnce DEF Execute
  <2>2. at[tx.call] # "idle"
    BY DEF ReceiptInv
  <2>3. [c \in Entries |-> took'[c]] = [[c \in Entries |-> took[c]] EXCEPT ![tx.call] = 1]
    <3>1. \A c \in Calls : took'[c] = IF c = tx.call THEN took[c] + 1 ELSE took[c]
      BY <1>0, <1>3 DEF Execute
    <3>2. \A c \in Entries : took'[c] = IF c = tx.call THEN 1 ELSE took[c]
      BY <1>0, <1>1, <2>1, <3>1
    <3> QED
      BY <1>3, <3>2
  <2>4. Log!Write(tx.call)
    BY <1>2, <1>3, <2>1, <2>2, <2>3 DEF Log!Write
  <2> QED
    BY <1>3, <2>4 DEF Log!Next
<1>4. CASE ~(ok /\ tx.call \in Entries)
  <2>1. [c \in Entries |-> took'[c]] = [c \in Entries |-> took[c]]
    BY <1>0, <1>1, <1>4 DEF Execute
  <2> QED
    BY <1>2, <2>1 DEF Log!logVars
<1> QED
  BY <1>3, <1>4

(* A call that is asked for, confirmed or failed is so in the log; every   *)
(* other move of a call is none of its business.                           *)
LEMMA MoveRefines ==
  ASSUME LoggerTypeOK, ReceiptInv, NEW c \in Calls, NEW stage \in Stages,
         MovesCall(c, stage), UNCHANGED took
  PROVE  [Log!Next]_(Log!logVars)
<1> DEFINE Asked == {e \in Entries : at[e] # "idle"}
           Told == [e \in Entries |-> IF at[e] \in Answered THEN at[e] ELSE "none"]
<1>0. at \in [Calls -> Stages] /\ Entries \subseteq Calls /\ took \in [Calls -> Nat]
  BY DEF LoggerTypeOK, Stages, Entries, OfKind
<1>1. \A d \in Calls : at'[d] = IF d = c THEN stage ELSE at[d]
  BY <1>0 DEF MovesCall
<1>2. [e \in Entries |-> took'[e]] = [e \in Entries |-> took[e]]
  OBVIOUS
<1>3. CASE c \notin Entries \/ (at[c] \in InFlight /\ stage \in InFlight)
  <2>1. Asked' = Asked
    BY <1>0, <1>1, <1>3 DEF InFlight
  <2>2. Told' = Told
    BY <1>0, <1>1, <1>3 DEF InFlight, Answered
  <2> QED
    BY <1>2, <2>1, <2>2 DEF Log!logVars
<1>4. CASE c \in Entries /\ at[c] = "idle" /\ stage = "asked"
  <2>1. Asked' = Asked \cup {c} /\ c \notin Asked
    BY <1>0, <1>1, <1>4
  <2>2. Told' = Told
    BY <1>0, <1>1, <1>4 DEF Answered
  <2>3. Log!Ask(c)
    BY <1>2, <2>1, <2>2 DEF Log!Ask
  <2> QED
    BY <1>4, <2>3 DEF Log!Next
<1>5. CASE c \in Entries /\ at[c] \in InFlight /\ stage \in Answered
  <2>1. Asked' = Asked /\ c \in Asked
    BY <1>0, <1>1, <1>5 DEF InFlight, Answered
  <2>2. Told' = [Told EXCEPT ![c] = stage] /\ Told[c] = "none"
    BY <1>0, <1>1, <1>5 DEF InFlight, Answered
  <2>3. CASE stage = "error"
    <3>1. Log!Fail(c)
      BY <1>2, <2>1, <2>2, <2>3 DEF Log!Fail
    <3> QED
      BY <1>5, <3>1 DEF Log!Next
  <2>4. CASE stage = "ok"
    <3>1. took[c] = 1
      <4>1. Kind[c] # "attest"
        BY <1>5 DEF Entries, OfKind
      <4>2. \E m \in mined : m.call = c /\ m.ok
        BY <1>5, <2>4, <4>1 DEF MovesCall, InFlight
      <4>3. took[c] > 0 /\ took[c] <= 1
        BY <1>5, <4>2 DEF ReceiptInv
      <4> QED
        BY <1>0, <4>3
    <3>2. Log!Confirm(c)
      BY <1>2, <1>5, <2>1, <2>2, <2>4, <3>1 DEF Log!Confirm
    <3> QED
      BY <1>5, <3>2 DEF Log!Next
  <2> QED
    BY <1>5, <2>3, <2>4 DEF Answered
<1>6. \/ c \notin Entries \/ (at[c] \in InFlight /\ stage \in InFlight)
      \/ c \in Entries /\ at[c] = "idle" /\ stage = "asked"
      \/ c \in Entries /\ at[c] \in InFlight /\ stage \in Answered
  BY DEF MovesCall, Entries, OfKind, InFlight, Answered
<1> HIDE DEF Asked, Told
<1> QED
  BY <1>3, <1>4, <1>5, <1>6

LEMMA LossRefines ==
  ASSUME LoggerTypeOK, Loses, UNCHANGED took
  PROVE  UNCHANGED Log!logVars
<1> DEFINE Asked == {e \in Entries : at[e] # "idle"}
           Told == [e \in Entries |-> IF at[e] \in Answered THEN at[e] ELSE "none"]
<1>0. at \in [Calls -> Stages] /\ Entries \subseteq Calls
  BY DEF LoggerTypeOK, Stages, Entries, OfKind
<1>1. \A e \in Entries : at'[e] = at[e] \/ (at[e] \in InFlight /\ at'[e] = "gone")
  <2>1. CASE UNCHANGED at
    BY <2>1
  <2>2. CASE at' = [c \in Calls |-> IF at[c] \in InFlight THEN "gone" ELSE at[c]]
    BY <1>0, <2>2
  <2> QED
    BY <2>1, <2>2 DEF Loses
<1>2. Asked' = Asked
  BY <1>1 DEF InFlight
<1>3. Told' = Told
  BY <1>1 DEF InFlight, Answered
<1> QED
  BY <1>2, <1>3 DEF Log!logVars

(* The logger implements the log its callers rely on: an entry is written  *)
(* at most once, after it was asked for and before its caller is told so.  *)
THEOREM LoggerRefinesLog == LoggerSpec => LogRefined
<1>1. LoggerInit => Log!Init
  BY DEF LoggerInit, Log!Init, Entries, OfKind, Answered
<1>2. LoggerTypeOK /\ ReceiptInv /\ [LoggerNext]_loggerVars => [Log!Next]_(Log!logVars)
  <2> SUFFICES ASSUME LoggerTypeOK, ReceiptInv, [LoggerNext]_loggerVars
               PROVE  [Log!Next]_(Log!logVars)
    OBVIOUS
  <2>1. CASE Mine
    BY <2>1, ExecuteRefines DEF Mine
  <2>2. CASE UNCHANGED <<height, took, halted>> /\ Loses
    BY <2>2, LossRefines
  <2>3. ASSUME NEW c \in Calls, NEW stage \in Stages, MovesCall(c, stage),
               UNCHANGED <<height, took, halted>>
        PROVE  [Log!Next]_(Log!logVars)
    BY <2>3, MoveRefines
  <2> QED
    BY <2>1, <2>2, <2>3, StepEffects
<1> QED
  BY <1>1, <1>2, LoggerTypeCorrect, ReceiptsHold, PTL DEF LoggerSpec, LogRefined, Log!Spec

-----------------------------------------------------------------------------
(* A block adds to the ledger what the contract permits, or nothing.       *)
LEMMA ExecuteKeepsLedger ==
  ASSUME LoggerTypeOK, NEW tx \in pool, NEW ok \in BOOLEAN, Execute(tx, ok)
  PROVE  Chain!Next
<1> DEFINE c == tx.call
           logs == OfKind({"log"})
           loggedNow == [a \in Self |-> {d \in logs : took[d] > 0}]
           closedNow == [a \in Self |-> {d \in logs : Closed(d)}]
<1>0. /\ c \in Calls /\ took \in [Calls -> Nat] /\ halted \in BOOLEAN
      /\ logs \subseteq Calls /\ OfKind({"record"}) \subseteq Calls
      /\ "agent" \in Self
  BY DEF LoggerTypeOK, Tx, OfKind, Self
<1>1. \A d \in Calls : took'[d] = IF ok /\ d = c THEN took[d] + 1 ELSE took[d]
  BY <1>0 DEF Execute
<1>2. \A d \in Calls : ~ok \/ d # c => (took'[d] > 0) = (took[d] > 0)
  BY <1>1
<1>3. ok => took'[c] > 0 /\ Permits(c)
  BY <1>0, <1>1 DEF Execute
<1> HIDE DEF c
<1>4. CASE ok /\ Kind[c] = "log"
  <2>1. ~halted /\ took[c] = 0 /\ c \in logs
    BY <1>0, <1>3, <1>4 DEF Permits, OfKind
  <2>2. halted' = halted
    BY <1>4 DEF Execute, c
  <2>3. {d \in logs : took'[d] > 0} = {d \in logs : took[d] > 0} \cup {c}
    BY <1>0, <1>2, <1>3, <1>4, <2>1
  <2>4. \A d \in OfKind({"record"}) : (took'[d] > 0) = (took[d] > 0)
    BY <1>0, <1>2, <1>4 DEF OfKind
  <2>5. \A d \in logs : Closed(d)' = Closed(d)
    BY <2>4 DEF Closed
  <2>6. loggedNow' = [loggedNow EXCEPT !["agent"] = @ \cup {c}]
    BY <2>3 DEF Self
  <2>7. closedNow' = closedNow
    BY <2>5
  <2>8. \A a \in Self : c \notin loggedNow[a] /\ ~[b \in Self |-> halted][a]
    BY <2>1
  <2>9. Chain!Log("agent", c)
    BY <1>0, <2>2, <2>6, <2>7, <2>8 DEF Chain!Log
  <2> QED
    BY <1>0, <2>1, <2>9 DEF Chain!Next
<1>5. CASE ok /\ Kind[c] = "record"
  <2> DEFINE log == DecisionOf[c]
  <2>1. log \in logs /\ c \in OfKind({"record"})
    BY <1>0, <1>5, LoggerAssumption DEF OfKind
  <2>2. took[log] > 0 /\ ~Closed(log)
    BY <1>3, <1>5 DEF Permits
  <2>3. halted' = halted
    BY <1>5 DEF Execute, c
  <2>4. \A d \in logs : (took'[d] > 0) = (took[d] > 0)
    BY <1>0, <1>2, <1>5 DEF OfKind
  <2>5. Closed(log)'
    BY <1>3, <1>5, <2>1 DEF Closed
  <2>6. \A d \in logs : d # log => Closed(d)' = Closed(d)
    <3>1. \A r \in OfKind({"record"}) : DecisionOf[r] # log => (took'[r] > 0) = (took[r] > 0)
      BY <1>0, <1>2
    <3> QED
      BY <3>1 DEF Closed
  <2> HIDE DEF log
  <2>7. {d \in logs : Closed(d)'} = {d \in logs : Closed(d)} \cup {log}
    BY <2>1, <2>5, <2>6
  <2>8. closedNow' = [closedNow EXCEPT !["agent"] = @ \cup {log}]
    BY <2>7 DEF Self
  <2>9. loggedNow' = loggedNow
    BY <2>4
  <2>10. log \in loggedNow["agent"] \ closedNow["agent"]
    BY <1>0, <2>1, <2>2
  <2>11. Chain!Close("agent", log)
    BY <2>3, <2>8, <2>9, <2>10 DEF Chain!Close
  <2> QED
    BY <1>0, <2>1, <2>11 DEF Chain!Next
<1>6. CASE ~ok \/ Kind[c] \notin {"log", "record"}
  <2>1. \A d \in logs \cup OfKind({"record"}) : (took'[d] > 0) = (took[d] > 0)
    BY <1>0, <1>2, <1>6 DEF OfKind
  <2>2. loggedNow' = loggedNow
    BY <2>1
  <2>3. \A d \in logs : Closed(d)' = Closed(d)
    BY <2>1 DEF Closed
  <2>4. closedNow' = closedNow
    BY <2>3
  <2>5. halted' \in BOOLEAN
    <3>1. halted' = TRUE \/ halted' = FALSE \/ halted' = halted
      BY DEF Execute
    <3> QED
      BY <1>0, <3>1
  <2>6. [a \in Self |-> halted'] = [[a \in Self |-> halted] EXCEPT !["agent"] = halted']
    BY DEF Self
  <2>7. Chain!Switch("agent")
    BY <2>2, <2>4, <2>5, <2>6 DEF Chain!Switch
  <2> QED
    BY <1>0, <2>7 DEF Chain!Next
<1> QED
  BY <1>4, <1>5, <1>6

(* However the nodes treat the account's transactions, what the chain holds*)
(* of its decisions and receipts is a ledger of the contract: the logger's *)
(* model asks of the chain what the contract's model provides.             *)
THEOREM ChainKeepsLedger == LoggerSpec => ChainIsLedger
<1>1. LoggerInit => Chain!Init
  <2> SUFFICES ASSUME LoggerInit PROVE Chain!Init
    OBVIOUS
  <2>1. halted = FALSE /\ \A c \in Calls : ~(took[c] > 0)
    BY DEF LoggerInit
  <2>2. {c \in OfKind({"log"}) : took[c] > 0} = {} /\ {c \in OfKind({"log"}) : Closed(c)} = {}
    BY <2>1 DEF OfKind, Closed
  <2> QED
    BY <2>1, <2>2 DEF Chain!Init
<1>2. LoggerTypeOK /\ [LoggerNext]_loggerVars => [Chain!Next]_(Chain!ledgerVars)
  <2> SUFFICES ASSUME LoggerTypeOK, [LoggerNext]_loggerVars
               PROVE  [Chain!Next]_(Chain!ledgerVars)
    OBVIOUS
  <2>1. CASE Mine
    BY <2>1, ExecuteKeepsLedger DEF Mine
  <2>2. CASE UNCHANGED <<height, took, halted>>
    BY <2>2 DEF Chain!ledgerVars, Closed
  <2> QED
    BY <2>1, <2>2, StepEffects
<1> QED
  BY <1>1, <1>2, LoggerTypeCorrect, PTL DEF LoggerSpec, ChainIsLedger, Chain!Spec

-----------------------------------------------------------------------------
(* A send of call c under the number n, of any outcome.                    *)
Sends(c, n) ==
  /\ pool' \subseteq pool \cup {[call |-> c, nonce |-> n]}
  /\ mined' \subseteq mined
  /\ \/ /\ at' = [at EXCEPT ![c] = "error"]
        /\ nonce' = [nonce EXCEPT ![c] = Unset]
     \/ /\ \E stage \in {"waiting", "failover"} : at' = [at EXCEPT ![c] = stage]
        /\ nonce' = [nonce EXCEPT ![c] = n]

(* A call that is asked for, is answered, or finds its receipt.            *)
Settles(c) ==
  /\ UNCHANGED <<pool, counter, latest, reseeded>>
  /\ mined' \subseteq mined
  /\ \/ /\ at[c] = "idle"
        /\ at' = [at EXCEPT ![c] = "asked"]
        /\ UNCHANGED nonce
     \/ /\ at[c] \in InFlight
        /\ \E r \in Answered :
             /\ at' = [at EXCEPT ![c] = r]
             /\ r = "ok" => Kind[c] = "attest" \/ \E m \in mined : m.call = c /\ m.ok
        /\ nonce' = [nonce EXCEPT ![c] = Unset]
     \/ /\ at[c] = "failover"
        /\ at' = [at EXCEPT ![c] = "waiting"]
        /\ UNCHANGED nonce

LEMMA SendIsSend ==
  ASSUME NEW c \in Calls, NEW n \in Nat,
         \/ FirstSend(c, [call |-> c, nonce |-> n])
         \/ OnlySend(c, [call |-> c, nonce |-> n])
  PROVE  Sends(c, n)
<1> DEFINE tx == [call |-> c, nonce |-> n]
<1>0. tx.nonce = n
  OBVIOUS
<1>1. pool' \subseteq pool \cup {tx}
  <2>1. Takes(tx) \/ pool' = pool
    BY DEF FirstSend, OnlySend, Refuses
  <2> QED
    BY <2>1 DEF Takes
<1>2. Answer(c, "error") \/ Move(c, "waiting", n) \/ Move(c, "failover", n)
  BY <1>0 DEF FirstSend, OnlySend
<1>3. CASE Answer(c, "error")
  BY <1>1, <1>3 DEF Answer, Sends
<1>4. CASE Move(c, "waiting", n)
  BY <1>1, <1>4 DEF Move, Sends
<1>5. CASE Move(c, "failover", n)
  BY <1>1, <1>5 DEF Move, Sends
<1> QED
  BY <1>2, <1>3, <1>4, <1>5

(* A step of the logger, as far as numbers and stages go.                  *)
LEMMA NumberEffects ==
  ASSUME LoggerTypeOK, [LoggerNext]_loggerVars
  PROVE  \/ Mine
         \/ /\ UNCHANGED <<height, took, halted>>
            /\ \/ \E c \in Calls :
                    /\ at[c] = "idle" /\ Kind[c] = "attest"
                    /\ Sends(c, height)
                    /\ UNCHANGED <<counter, latest, reseeded>>
               \/ \E c \in Calls :
                    /\ at[c] = "asked"
                    /\ Sends(c, NextNonce)
                    /\ counter' = NextNonce /\ Numbered(c) /\ UNCHANGED reseeded
               \/ \E c \in Calls : Settles(c)
               \/ \E c \in Calls :
                    at[c] = "reseed" /\ Sends(c, height) /\ UNCHANGED reseeded
               \/ \E c \in Calls :
                    /\ at[c] = "failover" /\ at' = [at EXCEPT ![c] = "reseed"]
                    /\ UNCHANGED <<nonce, pool, mined>> /\ reseeded' = TRUE
               \/ LoggerRestart
               \/ /\ pool' \subseteq pool
                  /\ UNCHANGED <<counter, at, nonce, mined, latest, reseeded>>
<1>0. /\ height \in Nat /\ NextNonce \in Nat
      /\ nonce \in [Calls -> Nat \cup {Unset}]
  BY NextNonceTyped DEF LoggerTypeOK
<1>1. ASSUME NEW c \in Calls, Ask(c)
      PROVE  UNCHANGED <<height, took, halted>> /\ Settles(c)
  BY <1>1 DEF Ask, Settles, chainVars
<1>2. ASSUME NEW c \in Calls, Attest(c)
      PROVE  /\ UNCHANGED <<height, took, halted>>
             /\ at[c] = "idle" /\ Kind[c] = "attest" /\ Sends(c, height)
             /\ UNCHANGED <<counter, latest, reseeded>>
  BY <1>0, <1>2, SendIsSend DEF Attest
<1>3. ASSUME NEW c \in Calls, Broadcast(c)
      PROVE  /\ UNCHANGED <<height, took, halted>>
             /\ at[c] = "asked" /\ Sends(c, NextNonce)
             /\ counter' = NextNonce /\ Numbered(c) /\ UNCHANGED reseeded
  BY <1>0, <1>3, SendIsSend DEF Broadcast
<1>4. ASSUME NEW c \in Calls, SeedFails(c) \/ ReseedFails(c) \/ TimeOut(c)
      PROVE  UNCHANGED <<height, took, halted>> /\ Settles(c)
  <2>1. at[c] \in InFlight /\ Answer(c, "error")
    BY <1>4 DEF SeedFails, ReseedFails, TimeOut, InFlight
  <2>2. UNCHANGED <<counter, chainVars, reseeded, latest>>
    BY <1>4 DEF SeedFails, ReseedFails, TimeOut
  <2> QED
    BY <2>1, <2>2 DEF Answer, Settles, Answered, chainVars
<1>5. ASSUME NEW c \in Calls, FailOver(c)
      PROVE  /\ UNCHANGED <<height, took, halted>>
             /\ \/ Settles(c)
                \/ /\ at[c] = "failover" /\ at' = [at EXCEPT ![c] = "reseed"]
                   /\ UNCHANGED <<nonce, pool, mined>> /\ reseeded' = TRUE
  <2>0. at[c] = "failover" /\ UNCHANGED <<chainVars, latest>>
    BY <1>5 DEF FailOver
  <2>1. [nonce EXCEPT ![c] = nonce[c]] = nonce
    BY <1>0
  <2>2. CASE Answer(c, "error") /\ UNCHANGED <<counter, reseeded>>
    BY <2>0, <2>2 DEF Answer, Settles, Answered, InFlight, chainVars
  <2>3. CASE Move(c, "waiting", nonce[c]) /\ UNCHANGED <<counter, reseeded>>
    BY <2>0, <2>1, <2>3 DEF Move, Settles, chainVars
  <2>4. CASE Move(c, "reseed", nonce[c]) /\ reseeded' = TRUE
    BY <2>0, <2>1, <2>4 DEF Move, chainVars
  <2> QED
    BY <1>5, <2>2, <2>3, <2>4 DEF FailOver
<1>6. ASSUME NEW c \in Calls, Resend(c)
      PROVE  /\ UNCHANGED <<height, took, halted>>
             /\ at[c] = "reseed" /\ Sends(c, height) /\ UNCHANGED reseeded
  BY <1>0, <1>6, SendIsSend DEF Resend
<1>7. ASSUME NEW c \in Calls, Receive(c)
      PROVE  UNCHANGED <<height, took, halted>> /\ Settles(c)
  <2>0. at[c] \in InFlight /\ UNCHANGED <<counter, chainVars, reseeded, latest>>
    BY <1>7 DEF Receive, InFlight
  <2>1. PICK m \in mined :
          /\ m.call = c
          /\ Answer(c, IF m.ok \/ Kind[c] = "attest" THEN "ok" ELSE "error")
    BY <1>7 DEF Receive
  <2>2. CASE m.ok \/ Kind[c] = "attest"
    BY <2>0, <2>1, <2>2 DEF Answer, Settles, Answered, chainVars
  <2>3. CASE ~(m.ok \/ Kind[c] = "attest")
    BY <2>0, <2>1, <2>3 DEF Answer, Settles, Answered, chainVars
  <2> QED
    BY <2>2, <2>3
<1>8. Forget \/ UNCHANGED loggerVars =>
        /\ UNCHANGED <<height, took, halted>>
        /\ pool' \subseteq pool
        /\ UNCHANGED <<counter, at, nonce, mined, latest, reseeded>>
  BY DEF Forget, loggerVars, chainVars
<1>9. LoggerRestart => UNCHANGED <<height, took, halted>>
  BY DEF LoggerRestart, chainVars
<1>10. \/ \E c \in Calls : Ask(c) \/ Attest(c) \/ Serve(c)
       \/ Mine \/ Forget \/ LoggerRestart \/ UNCHANGED loggerVars
  BY DEF LoggerNext
<1>11. CASE \E c \in Calls : Ask(c) \/ Attest(c) \/ Serve(c)
  <2>1. PICK c \in Calls : Ask(c) \/ Attest(c) \/ Serve(c)
    BY <1>11
  <2>2. CASE Ask(c)
    BY <1>1, <2>2
  <2>3. CASE Attest(c)
    BY <1>2, <2>3
  <2>4. CASE Broadcast(c)
    BY <1>3, <2>4
  <2>5. CASE SeedFails(c) \/ ReseedFails(c) \/ TimeOut(c)
    BY <1>4, <2>5
  <2>6. CASE FailOver(c)
    BY <1>5, <2>6
  <2>7. CASE Resend(c)
    BY <1>6, <2>7
  <2>8. CASE Receive(c)
    BY <1>7, <2>8
  <2> QED
    BY <2>1, <2>2, <2>3, <2>4, <2>5, <2>6, <2>7, <2>8 DEF Serve
<1>12. CASE Forget \/ UNCHANGED loggerVars
  BY <1>8, <1>12
<1>13. CASE LoggerRestart
  BY <1>9, <1>13
<1> QED
  BY <1>10, <1>11, <1>12, <1>13

-----------------------------------------------------------------------------
(* A call has a number while it is sent and awaited, and a pending         *)
(* transaction is of a call that was sent; only a reseeded counter sends   *)
(* a call twice.                                                           *)
PlaceInv ==
  /\ \A c \in Calls : nonce[c] # Unset <=> at[c] \in {"failover", "reseed", "waiting"}
  /\ \A tx \in pool : at[tx.call] \notin {"idle", "asked"}
  /\ \A c \in Calls : at[c] = "reseed" => reseeded

(* The counter is at or above every number the logger has given out, and   *)
(* a call in flight owns its pending transaction.                          *)
CountInv ==
  ~reseeded =>
    /\ \A c \in Calls : nonce[c] # Unset /\ Kind[c] # "attest" =>
         counter # Unset /\ nonce[c] <= counter
    /\ \A tx \in pool : Kind[tx.call] # "attest" =>
         counter # Unset /\ tx.nonce <= counter
    /\ \A tx \in pool : nonce[tx.call] # Unset => tx.nonce = nonce[tx.call]

NumberInv == PlaceInv /\ CountInv

(* What a send leaves of the other calls, and makes of its own.            *)
LEMMA SendPointwise ==
  ASSUME LoggerTypeOK, NEW c \in Calls, NEW n \in Nat, Sends(c, n)
  PROVE  /\ \A d \in Calls : d # c => at'[d] = at[d] /\ nonce'[d] = nonce[d]
         /\ \/ at'[c] = "error" /\ nonce'[c] = Unset
            \/ at'[c] \in {"waiting", "failover"} /\ nonce'[c] = n
         /\ \A tx \in pool' : tx \in pool \/ (tx.call = c /\ tx.nonce = n)
<1>0. at \in [Calls -> Stages] /\ nonce \in [Calls -> Nat \cup {Unset}]
  BY DEF LoggerTypeOK, Stages
<1>1. \A tx \in pool' : tx \in pool \/ (tx.call = c /\ tx.nonce = n)
  BY DEF Sends
<1>2. CASE /\ at' = [at EXCEPT ![c] = "error"]
           /\ nonce' = [nonce EXCEPT ![c] = Unset]
  BY <1>0, <1>1, <1>2
<1>3. CASE /\ \E stage \in {"waiting", "failover"} : at' = [at EXCEPT ![c] = stage]
           /\ nonce' = [nonce EXCEPT ![c] = n]
  BY <1>0, <1>1, <1>3
<1> QED
  BY <1>2, <1>3 DEF Sends

LEMMA SettlePointwise ==
  ASSUME LoggerTypeOK, NEW c \in Calls, Settles(c)
  PROVE  /\ \A d \in Calls : d # c => at'[d] = at[d] /\ nonce'[d] = nonce[d]
         /\ \/ at[c] = "idle" /\ at'[c] = "asked" /\ nonce'[c] = nonce[c]
            \/ /\ at[c] \in InFlight /\ at'[c] \in Answered /\ nonce'[c] = Unset
               /\ at'[c] = "ok" =>
                    Kind[c] = "attest" \/ \E m \in mined : m.call = c /\ m.ok
            \/ at[c] = "failover" /\ at'[c] = "waiting" /\ nonce'[c] = nonce[c]
<1>0. at \in [Calls -> Stages] /\ nonce \in [Calls -> Nat \cup {Unset}]
  BY DEF LoggerTypeOK, Stages
<1>1. CASE /\ at[c] = "idle"
           /\ at' = [at EXCEPT ![c] = "asked"]
           /\ UNCHANGED nonce
  BY <1>0, <1>1
<1>2. CASE /\ at[c] \in InFlight
           /\ \E r \in Answered :
                /\ at' = [at EXCEPT ![c] = r]
                /\ r = "ok" => Kind[c] = "attest" \/ \E m \in mined : m.call = c /\ m.ok
           /\ nonce' = [nonce EXCEPT ![c] = Unset]
  BY <1>0, <1>2
<1>3. CASE /\ at[c] = "failover"
           /\ at' = [at EXCEPT ![c] = "waiting"]
           /\ UNCHANGED nonce
  BY <1>0, <1>3
<1> QED
  BY <1>1, <1>2, <1>3 DEF Settles

LEMMA NumberStep ==
  ASSUME LoggerTypeOK, NumberInv, [LoggerNext]_loggerVars
  PROVE  NumberInv'
<1>0. /\ at \in [Calls -> Stages] /\ nonce \in [Calls -> Nat \cup {Unset}]
      /\ height \in Nat /\ NextNonce \in Nat /\ counter \in Nat \cup {Unset}
      /\ \A tx \in pool : tx.call \in Calls /\ tx.nonce \in Nat
      /\ -1 \notin Nat
  BY NextNonceTyped DEF LoggerTypeOK, Stages, Tx
<1> USE DEF NumberInv, PlaceInv, CountInv, Unset
<1>1. CASE Mine
  <2>1. UNCHANGED <<counter, at, nonce, reseeded>> /\ pool' \subseteq pool
    BY <1>1 DEF Mine, Execute
  <2> QED
    BY <1>0, <2>1
<1>2. ASSUME NEW c \in Calls, at[c] = "idle", Kind[c] = "attest", Sends(c, height),
             UNCHANGED <<counter, latest, reseeded>>
      PROVE  NumberInv'
  BY <1>0, <1>2, SendPointwise
<1>3. ASSUME NEW c \in Calls, at[c] = "asked", Sends(c, NextNonce),
             counter' = NextNonce, UNCHANGED reseeded
      PROVE  NumberInv'
  <2>0. counter # Unset => counter < NextNonce
    BY <1>0 DEF NextNonce
  <2>1. PlaceInv'
    BY <1>0, <1>3, SendPointwise
  <2>2. CountInv'
    BY <1>0, <1>3, <2>0, SendPointwise
  <2> QED
    BY <2>1, <2>2
<1>4. ASSUME NEW c \in Calls, Settles(c)
      PROVE  NumberInv'
  <2>0. UNCHANGED <<pool, counter, reseeded>>
    BY <1>4 DEF Settles
  <2>1. PlaceInv'
    BY <1>0, <1>4, <2>0, SettlePointwise DEF InFlight, Answered
  <2>2. CountInv'
    BY <1>0, <1>4, <2>0, SettlePointwise DEF InFlight, Answered
  <2> QED
    BY <2>1, <2>2
<1>5. ASSUME NEW c \in Calls, at[c] = "reseed", Sends(c, height), UNCHANGED reseeded
      PROVE  NumberInv'
  BY <1>0, <1>5, SendPointwise
<1>6. ASSUME NEW c \in Calls, at[c] = "failover", at' = [at EXCEPT ![c] = "reseed"],
             UNCHANGED <<nonce, pool>>, reseeded' = TRUE
      PROVE  NumberInv'
  BY <1>0, <1>6
<1>7. CASE LoggerRestart
  BY <1>0, <1>7 DEF LoggerRestart, InFlight, chainVars
<1>8. CASE pool' \subseteq pool /\ UNCHANGED <<counter, at, nonce, mined, latest, reseeded>>
  BY <1>0, <1>8
<1> QED
  BY <1>1, <1>2, <1>3, <1>4, <1>5, <1>6, <1>7, <1>8, NumberEffects

LEMMA NumbersHold == LoggerSpec => []NumberInv
<1>1. LoggerInit => NumberInv
  BY DEF LoggerInit, NumberInv, PlaceInv, CountInv
<1>2. LoggerTypeOK /\ NumberInv /\ [LoggerNext]_loggerVars => NumberInv'
  BY NumberStep
<1> QED
  BY <1>1, <1>2, LoggerTypeCorrect, PTL DEF LoggerSpec

-----------------------------------------------------------------------------
(* As long as the counter is not read from a node again and no attestation *)
(* is sent past it, no two calls in flight share a number.                 *)
THEOREM NumbersApart == LoggerSpec => []NoncesApart
<1>1. LoggerInit => NoncesApart
  BY DEF LoggerInit, NoncesApart
<1>2. LoggerTypeOK /\ NumberInv /\ NumberInv' /\ NoncesApart /\ [LoggerNext]_loggerVars
        => NoncesApart'
  <2> SUFFICES ASSUME LoggerTypeOK, NumberInv, NumberInv', NoncesApart,
                      [LoggerNext]_loggerVars
               PROVE  NoncesApart'
    OBVIOUS
  <2>0. /\ at \in [Calls -> Stages] /\ nonce \in [Calls -> Nat \cup {Unset}]
        /\ height \in Nat /\ NextNonce \in Nat /\ counter \in Nat \cup {Unset}
        /\ \A tx \in pool : tx.call \in Calls /\ tx.nonce \in Nat
        /\ -1 \notin Nat
    BY NextNonceTyped DEF LoggerTypeOK, Stages, Tx
  <2> USE DEF NoncesApart, OfKind, Unset
  <2>1. CASE Mine
    <3>1. UNCHANGED <<at, nonce, reseeded>> /\ pool' \subseteq pool
      BY <2>1 DEF Mine, Execute
    <3> QED
      BY <3>1
  <2>2. ASSUME NEW c \in Calls, at[c] = "idle", Kind[c] = "attest", Sends(c, height)
        PROVE  NoncesApart'
    <3>1. at'[c] # "idle"
      BY <2>0, <2>2, SendPointwise
    <3> QED
      BY <2>2, <3>1
  <2>3. ASSUME NEW c \in Calls, at[c] = "asked", Sends(c, NextNonce),
               UNCHANGED reseeded
        PROVE  NoncesApart'
    <3> SUFFICES ASSUME ~reseeded', \A d \in Calls : Kind[d] = "attest" => at'[d] = "idle"
                 PROVE  \A d \in Calls : nonce'[d] # Unset =>
                          /\ \A e \in Calls : nonce'[e] = nonce'[d] => e = d
                          /\ \A tx \in pool' : tx.nonce = nonce'[d] => tx.call = d
      BY DEF NoncesApart
    <3>1. \A d \in Calls : Kind[d] = "attest" => at[d] = "idle"
      BY <2>0, <2>3, SendPointwise
    <3>2. \A d \in Calls : nonce[d] # Unset => nonce[d] < NextNonce
      BY <2>0, <2>3, <3>1 DEF NumberInv, PlaceInv, CountInv, NextNonce
    <3>3. \A tx \in pool : tx.nonce < NextNonce
      BY <2>0, <2>3, <3>1 DEF NumberInv, PlaceInv, CountInv, NextNonce
    <3> QED
      BY <2>0, <2>3, <3>1, <3>2, <3>3, SendPointwise
  <2>4. ASSUME NEW c \in Calls, Settles(c)
        PROVE  NoncesApart'
    <3>1. UNCHANGED <<pool, reseeded>>
      BY <2>4 DEF Settles
    <3>2. \A d \in Calls : Kind[d] = "attest" => (at'[d] = "idle" => at[d] = "idle")
      BY <2>0, <2>4, SettlePointwise DEF Answered
    <3>3. \A d \in Calls : nonce'[d] # Unset => nonce'[d] = nonce[d]
      BY <2>0, <2>4, SettlePointwise
    <3> QED
      BY <2>0, <3>1, <3>2, <3>3
  <2>5. ASSUME NEW c \in Calls, at[c] = "reseed", UNCHANGED reseeded
        PROVE  NoncesApart'
    BY <2>5 DEF NumberInv, PlaceInv
  <2>6. CASE reseeded' = TRUE
    BY <2>6
  <2>7. CASE LoggerRestart
    BY <2>7 DEF LoggerRestart
  <2>8. CASE pool' \subseteq pool /\ UNCHANGED <<counter, at, nonce, mined, latest, reseeded>>
    BY <2>8
  <2> QED
    BY <2>1, <2>2, <2>3, <2>4, <2>5, <2>6, <2>7, <2>8, NumberEffects
<1> QED
  BY <1>1, <1>2, LoggerTypeCorrect, NumbersHold, PTL DEF LoggerSpec

-----------------------------------------------------------------------------
(* Behind a halt that was numbered last every pending clear has a lower    *)
(* number, and once the halt is mined a number that is used up.            *)
HaltInv ==
  /\ \A m \in mined : at[m.call] \notin {"idle", "asked"}
  /\ ~reseeded /\ latest # NoCall =>
       /\ at[latest] \notin {"idle", "asked"}
       /\ Kind[latest] = "halt" =>
            /\ at[latest] = "ok" \/ (\E m \in mined : m.call = latest /\ m.ok) =>
                 halted /\ \A tx \in pool : Kind[tx.call] = "clear" => tx.nonce < height
            /\ nonce[latest] # Unset =>
                 \A tx \in pool : Kind[tx.call] = "clear" => tx.nonce < nonce[latest]

LEMMA MineKeepsHalt ==
  ASSUME LoggerTypeOK, NumberInv, HaltInv,
         NEW tx \in pool, NEW ok \in BOOLEAN, tx.nonce = height, Execute(tx, ok)
  PROVE  HaltInv'
<1>0. /\ tx.call \in Calls /\ height \in Nat /\ height' = height + 1
      /\ \A x \in pool : x.call \in Calls /\ x.nonce \in Nat
      /\ UNCHANGED <<at, nonce, reseeded, latest>>
      /\ pool' \subseteq pool
  BY DEF LoggerTypeOK, Tx, Execute
<1>1. \A m \in mined' : at'[m.call] \notin {"idle", "asked"}
  <2>1. SUFFICES ASSUME NEW m \in mined' PROVE at[m.call] \notin {"idle", "asked"}
    BY <1>0
  <2>2. m \in mined \/ m.call = tx.call
    BY DEF Execute
  <2> QED
    BY <2>2 DEF HaltInv, NumberInv, PlaceInv
<1>2. SUFFICES ASSUME ~reseeded, latest # NoCall, Kind[latest] = "halt"
               PROVE  /\ at[latest] = "ok" \/ (\E m \in mined' : m.call = latest /\ m.ok) =>
                           halted' /\ \A x \in pool' : Kind[x.call] = "clear" => x.nonce < height'
                      /\ nonce[latest] # Unset =>
                           \A x \in pool' : Kind[x.call] = "clear" => x.nonce < nonce[latest]
  BY <1>0, <1>1 DEF HaltInv
<1>3. latest \in Calls /\ at[latest] \notin {"idle", "asked"}
  BY <1>2 DEF LoggerTypeOK, HaltInv
<1>4. nonce[latest] # Unset =>
        \A x \in pool' : Kind[x.call] = "clear" => x.nonce < nonce[latest]
  BY <1>0, <1>2 DEF HaltInv
<1>5. CASE at[latest] = "ok" \/ (\E m \in mined : m.call = latest /\ m.ok)
  <2>1. halted /\ \A x \in pool : Kind[x.call] = "clear" => x.nonce < height
    BY <1>2, <1>5 DEF HaltInv
  <2>2. Kind[tx.call] # "clear"
    BY <1>0, <2>1
  <2>3. halted'
    BY <2>1, <2>2 DEF Execute
  <2> QED
    BY <1>0, <1>4, <2>1, <2>3
<1>6. CASE tx.call = latest /\ at[latest] \in InFlight
  <2>1. nonce[latest] # Unset
    BY <1>3, <1>6 DEF NumberInv, PlaceInv, InFlight
  <2>2. nonce[latest] = height
    BY <1>2, <1>6, <2>1 DEF NumberInv, CountInv
  <2>3. halted'
    BY <1>2, <1>6 DEF Execute
  <2>4. \A x \in pool' : Kind[x.call] = "clear" => x.nonce < height'
    BY <1>0, <1>4, <2>1, <2>2
  <2> QED
    BY <1>4, <2>3, <2>4
<1>7. CASE /\ ~(at[latest] = "ok" \/ (\E m \in mined : m.call = latest /\ m.ok))
           /\ ~(tx.call = latest /\ at[latest] \in InFlight)
  <2>1. \A m \in mined' : m \in mined \/ (m.call = tx.call /\ at[tx.call] \in InFlight)
    BY DEF Execute
  <2>2. ~\E m \in mined' : m.call = latest /\ m.ok
    BY <1>7, <2>1
  <2> QED
    BY <1>4, <1>7, <2>2
<1> QED
  BY <1>5, <1>6, <1>7

LEMMA HaltStep ==
  ASSUME LoggerTypeOK, NumberInv, HaltInv, [LoggerNext]_loggerVars
  PROVE  HaltInv'
<1>0. /\ at \in [Calls -> Stages] /\ nonce \in [Calls -> Nat \cup {Unset}]
      /\ height \in Nat /\ NextNonce \in Nat /\ counter \in Nat \cup {Unset}
      /\ \A tx \in pool : tx.call \in Calls /\ tx.nonce \in Nat
      /\ \A m \in mined : m.call \in Calls
      /\ latest \in Calls \cup {NoCall} /\ NoCall \notin Calls
      /\ -1 \notin Nat
  BY NextNonceTyped, LoggerAssumption DEF LoggerTypeOK, Stages, Tx
<1> USE DEF HaltInv, Unset
<1>1. CASE Mine
  BY <1>1, MineKeepsHalt DEF Mine
<1>2. ASSUME NEW c \in Calls, at[c] = "idle", Kind[c] = "attest", Sends(c, height),
             UNCHANGED <<counter, latest, reseeded>>, UNCHANGED <<height, took, halted>>
      PROVE  HaltInv'
  <2>0. mined' \subseteq mined
    BY <1>2 DEF Sends
  <2>1. \A m \in mined' : at'[m.call] \notin {"idle", "asked"}
    BY <1>0, <1>2, <2>0, SendPointwise
  <2>2. \A tx \in pool' : Kind[tx.call] = "clear" => tx \in pool
    BY <1>0, <1>2, SendPointwise
  <2>3. ~reseeded /\ latest # NoCall => at'[latest] = at[latest] /\ nonce'[latest] = nonce[latest]
    BY <1>0, <1>2, SendPointwise
  <2> QED
    BY <1>2, <2>0, <2>1, <2>2, <2>3
<1>3. ASSUME NEW c \in Calls, at[c] = "asked", Sends(c, NextNonce),
             counter' = NextNonce, Numbered(c), UNCHANGED reseeded,
             UNCHANGED <<height, took, halted>>
      PROVE  HaltInv'
  <2>0. mined' \subseteq mined
    BY <1>3 DEF Sends
  <2>1. \A m \in mined' : at'[m.call] \notin {"idle", "asked"}
    BY <1>0, <1>3, <2>0, SendPointwise
  <2>2. CASE Kind[c] \notin {"halt", "clear"}
    <3>1. \A tx \in pool' : Kind[tx.call] = "clear" => tx \in pool
      BY <1>0, <1>3, <2>2, SendPointwise
    <3>2. ~reseeded /\ latest # NoCall => at'[latest] = at[latest] /\ nonce'[latest] = nonce[latest]
      BY <1>0, <1>3, SendPointwise
    <3>3. UNCHANGED latest
      BY <1>3, <2>2 DEF Numbered
    <3> QED
      BY <1>3, <2>0, <2>1, <3>1, <3>2, <3>3
  <2>3. CASE Kind[c] \in {"halt", "clear"}
    <3>1. latest' = c
      BY <1>3, <2>3 DEF Numbered
    <3>2. /\ at'[c] \notin {"idle", "asked", "ok"}
          /\ nonce'[c] = Unset \/ nonce'[c] = NextNonce
      BY <1>0, <1>3, SendPointwise
    <3>3. ~\E m \in mined' : m.call = c
      BY <1>3, <2>0
    <3>4. ~reseeded /\ Kind[c] = "halt" =>
            \A tx \in pool' : Kind[tx.call] = "clear" => tx.nonce < NextNonce
      <4>1. SUFFICES ASSUME ~reseeded, Kind[c] = "halt",
                            NEW tx \in pool', Kind[tx.call] = "clear"
                     PROVE  tx.nonce < NextNonce
        OBVIOUS
      <4>2. tx \in pool
        BY <1>0, <1>3, <4>1, SendPointwise
      <4> QED
        BY <1>0, <4>1, <4>2 DEF NumberInv, CountInv, NextNonce
    <3> QED
      BY <1>3, <2>1, <3>1, <3>2, <3>3, <3>4
  <2> QED
    BY <2>2, <2>3
<1>4. ASSUME NEW c \in Calls, Settles(c), UNCHANGED <<height, took, halted>>
      PROVE  HaltInv'
  <2>0. UNCHANGED <<pool, latest, reseeded>> /\ mined' \subseteq mined
    BY <1>4 DEF Settles
  <2>1. \A d \in Calls : at[d] \notin {"idle", "asked"} => at'[d] \notin {"idle", "asked"}
    BY <1>0, <1>4, SettlePointwise DEF Answered
  <2>2. \A d \in Calls : at'[d] = "ok" /\ Kind[d] # "attest" =>
          at[d] = "ok" \/ \E m \in mined : m.call = d /\ m.ok
    BY <1>0, <1>4, SettlePointwise
  <2>3. \A d \in Calls : nonce'[d] # Unset => nonce'[d] = nonce[d]
    BY <1>0, <1>4, SettlePointwise
  <2>4. \A m \in mined' : at'[m.call] \notin {"idle", "asked"}
    BY <1>0, <2>0, <2>1
  <2> QED
    BY <1>0, <1>4, <2>0, <2>1, <2>2, <2>3, <2>4
<1>5. ASSUME NEW c \in Calls, at[c] = "reseed", Sends(c, height), UNCHANGED reseeded
      PROVE  HaltInv'
  <2>1. reseeded'
    BY <1>5 DEF NumberInv, PlaceInv
  <2>2. \A m \in mined' : at'[m.call] \notin {"idle", "asked"}
    BY <1>0, <1>5, SendPointwise DEF Sends
  <2> QED
    BY <2>1, <2>2
<1>6. ASSUME NEW c \in Calls, at' = [at EXCEPT ![c] = "reseed"],
             UNCHANGED mined, reseeded' = TRUE
      PROVE  HaltInv'
  BY <1>0, <1>6
<1>7. CASE LoggerRestart
  BY <1>7 DEF LoggerRestart
<1>8. CASE /\ pool' \subseteq pool
           /\ UNCHANGED <<height, took, halted>>
           /\ UNCHANGED <<counter, at, nonce, mined, latest, reseeded>>
  BY <1>8
<1> QED
  BY <1>1, <1>2, <1>3, <1>4, <1>5, <1>6, <1>7, <1>8, NumberEffects

LEMMA HaltHolds == LoggerSpec => []HaltInv
<1>1. LoggerInit => HaltInv
  BY DEF LoggerInit, HaltInv
<1>2. LoggerTypeOK /\ NumberInv /\ HaltInv /\ [LoggerNext]_loggerVars => HaltInv'
  BY HaltStep
<1> QED
  BY <1>1, <1>2, LoggerTypeCorrect, NumbersHold, PTL DEF LoggerSpec

(* While the counter was never reseeded, a halt that was answered stands   *)
(* in the contract until a later clear is numbered.                        *)
THEOREM AnsweredHaltStands == LoggerSpec => []HaltStands
<1>1. HaltInv => HaltStands
  BY DEF HaltInv, HaltStands
<1> QED
  BY <1>1, HaltHolds, PTL

=============================================================================
