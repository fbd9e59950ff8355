----------------------- MODULE FundingArbPackageProofs -----------------------
(***************************************************************************)
(* Proofs about the funding-arb package, for any number of runs and        *)
(* instruments, any capacity and every set of exchange answers.            *)
(***************************************************************************)
EXTENDS FundingArbPackage, FiniteSetTheorems, TLAPS

-----------------------------------------------------------------------------
(* How far a run is: its instrument, and what it has logged and recorded.  *)
StageInv ==
  \A p \in Pkgs : /\ pc[p] # "idle" => asset[p] \in Assets
                  /\ p \in open => asset[p] \in Assets
                  /\ pc[p] \in {"idle", "fetching"} => logged[p] = 0
                  /\ pc[p] = "logging" => logged[p] \in 0..1
                  /\ pc[p] \in {"idle"} \cup (Running \ {"recording"}) => receipts[p] = 0
                  /\ pc[p] = "recording" => receipts[p] \in 0..1

LEMMA StageHolds == Spec => [](TypeOK /\ StageInv)
<1> USE DEF Goto, package, registry, exchange, gate
<1>1. Init => TypeOK /\ StageInv
  <2> SUFFICES ASSUME Init PROVE TypeOK /\ StageInv
    OBVIOUS
  <2> USE DEF Init, AtRest, Running, Results
  <2>a. /\ pc \in [Pkgs -> AtRest \cup Running]
        /\ asset \in [Pkgs -> Assets \cup {NoAsset}]
        /\ logged \in [Pkgs -> 0..2]
        /\ receipts \in [Pkgs -> 0..2]
    OBVIOUS
  <2>b. /\ leg \in [Pkgs -> [Legs -> Results]]
        /\ closing \in [Pkgs -> [Legs -> {"none", "filled", "unfilled"}]]
    OBVIOUS
  <2>c. /\ state \in [Pkgs -> {"none", "PENDING_FILL", "LOCKED", "SETTLED", "ABORTED"}]
        /\ unwound \in [Pkgs -> BOOLEAN]
        /\ refusal \in [Pkgs -> {"none", "halt", "quota", "loss", "stale"}]
    OBVIOUS
  <2>d. /\ open \subseteq Pkgs
        /\ active \subseteq Assets
        /\ held \in [Pkgs -> SUBSET Legs]
        /\ resting \in [Pkgs -> SUBSET Legs]
        /\ partial \in [Pkgs -> SUBSET Legs]
        /\ stale \subseteq Pkgs
    OBVIOUS
  <2>e. killed \in BOOLEAN /\ spent \in BOOLEAN /\ lossHit \in BOOLEAN
    OBVIOUS
  <2>1. TypeOK
    BY <2>a, <2>b, <2>c, <2>d, <2>e DEF TypeOK
  <2>2. StageInv
    BY DEF Init, StageInv
  <2> QED
    BY <2>1, <2>2
<1>2. TypeOK /\ StageInv /\ [Next]_vars => TypeOK' /\ StageInv'
  <2> SUFFICES ASSUME TypeOK, StageInv, [Next]_vars PROVE TypeOK' /\ StageInv'
    OBVIOUS
  <2> USE DEF TypeOK, StageInv, AtRest, Running, Results
  <2>1. ASSUME NEW p \in Pkgs, NEW a \in Assets, Begin(p, a) PROVE TypeOK' /\ StageInv'
    <3>1. TypeOK'
      BY <2>1 DEF Begin
    <3>2. StageInv'
      BY <2>1 DEF Begin
    <3> QED
      BY <3>1, <3>2
  <2>2. ASSUME NEW p \in Pkgs, Propose(p) PROVE TypeOK' /\ StageInv'
    BY <2>2 DEF Propose
  <2>3. ASSUME NEW p \in Pkgs,
               GiveUp(p) \/ LogFails(p) \/ StartUnwind(p) \/ SubmitUnwind(p) \/ RecordFails(p)
        PROVE  TypeOK' /\ StageInv'
    <3>1. CASE GiveUp(p)
      BY <3>1 DEF GiveUp
    <3>2. CASE LogFails(p)
      BY <3>2 DEF LogFails
    <3>3. CASE StartUnwind(p)
      BY <3>3 DEF StartUnwind
    <3>4. CASE SubmitUnwind(p)
      BY <3>4 DEF SubmitUnwind
    <3>5. CASE RecordFails(p)
      BY <3>5 DEF RecordFails
    <3> QED
      BY <2>3, <3>1, <3>2, <3>3, <3>4, <3>5
  <2>4. ASSUME NEW p \in Pkgs, LogLeg(p) PROVE TypeOK' /\ StageInv'
    BY <2>4 DEF LogLeg
  <2>5. ASSUME NEW p \in Pkgs, SubmitLeg(p) PROVE TypeOK' /\ StageInv'
    BY <2>5 DEF SubmitLeg
  <2>6. ASSUME NEW p \in Pkgs, RefuseLeg(p) PROVE TypeOK' /\ StageInv'
    BY <2>6 DEF RefuseLeg, Verdict
  <2>7. ASSUME NEW p \in Pkgs, NEW answer \in Answers, NEW part \in BOOLEAN,
               LegAnswers(p, answer, part)
        PROVE  TypeOK' /\ StageInv'
    BY <2>7 DEF LegAnswers, NextLeg, Legs
  <2>8. ASSUME NEW p \in Pkgs, LegErrors(p) PROVE TypeOK' /\ StageInv'
    <3>0. NextLeg(p) \in Legs /\ held \in [Pkgs -> SUBSET Legs] /\ resting \in [Pkgs -> SUBSET Legs]
      BY DEF NextLeg, Legs
    <3>1. held' \in [Pkgs -> SUBSET Legs] /\ resting' \in [Pkgs -> SUBSET Legs]
      <4> HIDE DEF TypeOK, StageInv
      <4>1. /\ held' = held \/ held' = [held EXCEPT ![p] = held[p] \cup {NextLeg(p)}]
            /\ resting' = resting \/ resting' = [resting EXCEPT ![p] = resting[p] \cup {NextLeg(p)}]
        BY <2>8 DEF LegErrors
      <4>2. /\ held[p] \cup {NextLeg(p)} \in SUBSET Legs
            /\ resting[p] \cup {NextLeg(p)} \in SUBSET Legs
        BY <3>0
      <4> QED
        BY <3>0, <4>1, <4>2
    <3>2. /\ pc[p] = "opening"
          /\ pc' = [pc EXCEPT ![p] = "raised"]
          /\ UNCHANGED <<package, registry, partial, gate>>
      BY <2>8 DEF LegErrors
    <3> QED
      BY <3>1, <3>2
  <2>9. ASSUME NEW p \in Pkgs, Lock(p) PROVE TypeOK' /\ StageInv'
    BY <2>9 DEF Lock
  <2>10. ASSUME NEW p \in Pkgs, Abort(p) PROVE TypeOK' /\ StageInv'
    BY <2>10 DEF Abort, Release
  <2>11. ASSUME NEW p \in Pkgs, RefuseUnwind(p) PROVE TypeOK' /\ StageInv'
    BY <2>11 DEF RefuseUnwind, Verdict
  <2>12. ASSUME NEW p \in Pkgs, NEW answer \in Answers, NEW part \in BOOLEAN,
                UnwindAnswers(p, answer, part)
         PROVE  TypeOK' /\ StageInv'
    <3> DEFINE k == IF 1 \in Unclosed(p) THEN 1 ELSE 2
               results == [closing[p] EXCEPT ![k] = IF answer \in Fills
                                                    THEN "filled" ELSE "unfilled"]
    <3>0. k \in Legs /\ results \in [Legs -> {"none", "filled", "unfilled"}]
      BY DEF Legs
    <3>1. /\ pc[p] = "closing"
          /\ closing' = [closing EXCEPT ![p] = results]
          /\ held' = held \/ held' = [held EXCEPT ![p] = held[p] \ {k}]
          /\ partial' = partial \/ partial' = [partial EXCEPT ![p] = partial[p] \cup {k}]
          /\ killed' = (killed \/ answer = "collar")
          /\ UNCHANGED <<asset, logged, leg, refusal, receipts, resting, stale, spent, lossHit>>
          /\ \/ /\ state' = [state EXCEPT ![p] = "ABORTED"]
                /\ unwound' = [unwound EXCEPT ![p] = Safe(p, results)]
                /\ open' = open \ {p} /\ active' = active \ {asset[p]}
                /\ pc' = [pc EXCEPT ![p] = "done"]
             \/ /\ pc' = [pc EXCEPT ![p] = "unwinding"]
                /\ UNCHANGED <<state, unwound, open, active>>
      BY <2>12 DEF UnwindAnswers, Release
    <3>2. Safe(p, results) \in BOOLEAN
      BY DEF Safe
    <3> HIDE DEF k, results
    <3>3. closing' \in [Pkgs -> [Legs -> {"none", "filled", "unfilled"}]]
      BY <3>0, <3>1
    <3>4. held' \in [Pkgs -> SUBSET Legs]
      <4>1. held \in [Pkgs -> SUBSET Legs] /\ held[p] \ {k} \in SUBSET Legs
        OBVIOUS
      <4> HIDE DEF TypeOK, StageInv
      <4> QED
        BY <3>1, <4>1
    <3>10. partial' \in [Pkgs -> SUBSET Legs]
      <4>1. partial \in [Pkgs -> SUBSET Legs] /\ partial[p] \cup {k} \in SUBSET Legs
        BY <3>0
      <4> HIDE DEF TypeOK, StageInv
      <4> QED
        BY <3>1, <4>1
    <3>5. /\ pc' \in [Pkgs -> AtRest \cup Running]
          /\ state' \in [Pkgs -> {"none", "PENDING_FILL", "LOCKED", "SETTLED", "ABORTED"}]
      BY <3>1
    <3>9. unwound' \in [Pkgs -> BOOLEAN]
      <4> DEFINE s == Safe(p, results)
      <4>1. unwound' = unwound \/ unwound' = [unwound EXCEPT ![p] = s]
        BY <3>1
      <4>2. s \in BOOLEAN /\ unwound \in [Pkgs -> BOOLEAN]
        BY <3>2
      <4> HIDE DEF s, TypeOK, StageInv
      <4> QED
        BY <4>1, <4>2
    <3>6. open' \subseteq Pkgs /\ active' \subseteq Assets /\ killed' \in BOOLEAN
      BY <3>1
    <3>7. TypeOK'
      <4>1. UNCHANGED <<asset, logged, leg, refusal, receipts, resting, stale, spent, lossHit>>
        BY <3>1
      <4> HIDE DEF StageInv
      <4> QED
        BY <3>3, <3>4, <3>5, <3>6, <3>9, <3>10, <4>1
    <3>8. StageInv'
      BY <3>1
    <3> QED
      BY <3>7, <3>8
  <2>13. ASSUME NEW p \in Pkgs, UnwindErrors(p) PROVE TypeOK' /\ StageInv'
    <3>0. held \in [Pkgs -> SUBSET Legs]
      OBVIOUS
    <3>1. held' \in [Pkgs -> SUBSET Legs]
      <4> HIDE DEF TypeOK, StageInv
      <4>1. \/ held' = held
            \/ held' = [held EXCEPT ![p] = held[p] \ {IF 1 \in Unclosed(p) THEN 1 ELSE 2}]
        BY <2>13 DEF UnwindErrors
      <4>2. held[p] \ {IF 1 \in Unclosed(p) THEN 1 ELSE 2} \in SUBSET Legs
        BY <3>0
      <4> QED
        BY <3>0, <4>1, <4>2
    <3>2. /\ pc[p] = "closing"
          /\ pc' = [pc EXCEPT ![p] = "raised"]
          /\ UNCHANGED <<package, registry, resting, partial, gate>>
      BY <2>13 DEF UnwindErrors
    <3> QED
      BY <3>1, <3>2
  <2>14. ASSUME NEW p \in Pkgs, Settle(p) PROVE TypeOK' /\ StageInv'
    BY <2>14 DEF Settle, Release
  <2>15. ASSUME NEW p \in Pkgs, Record(p) PROVE TypeOK' /\ StageInv'
    BY <2>15 DEF Record
  <2>16. ASSUME NEW p \in Pkgs, NEW k \in Legs, LateFill(p, k) PROVE TypeOK' /\ StageInv'
    BY <2>16 DEF LateFill
  <2>17. ASSUME NEW p \in Pkgs, Age(p) PROVE TypeOK' /\ StageInv'
    BY <2>17 DEF Age
  <2>18. ASSUME Operate \/ LossReached \/ CountMoves \/ Midnight PROVE TypeOK' /\ StageInv'
    <3>1. killed' \in BOOLEAN /\ lossHit' \in BOOLEAN
      BY <2>18 DEF Operate, LossReached, CountMoves, Midnight
    <3>2. spent' \in BOOLEAN
      BY <2>18 DEF Operate, LossReached, CountMoves, Midnight
    <3>3. UNCHANGED <<pc, package, registry, exchange, stale>>
      BY <2>18 DEF Operate, LossReached, CountMoves, Midnight
    <3> QED
      BY <3>1, <3>2, <3>3
  <2>19. ASSUME Restart PROVE TypeOK' /\ StageInv'
    <3>1. /\ pc' \in [Pkgs -> AtRest \cup Running]
          /\ \A p \in Pkgs :
               pc'[p] = pc[p] \/ (pc'[p] = "lost" /\ (pc[p] \in Running \/ p \in open))
      BY <2>19 DEF Restart
    <3>2. open' = {} /\ active' = {} /\ stale' = {} /\ killed' \in BOOLEAN
      BY <2>19 DEF Restart
    <3>3. UNCHANGED <<package, exchange, spent, lossHit>>
      BY <2>19 DEF Restart
    <3> QED
      BY <3>1, <3>2, <3>3
  <2>20. ASSUME UNCHANGED vars PROVE TypeOK' /\ StageInv'
    BY <2>20 DEF vars
  <2> QED
    BY <2>1, <2>2, <2>3, <2>4, <2>5, <2>6, <2>7, <2>8, <2>9, <2>10, <2>11, <2>12, <2>13,
       <2>14, <2>15, <2>16, <2>17, <2>18, <2>19, <2>20 DEF Next
<1> QED
  BY <1>1, <1>2, PTL DEF Spec

(* Every reachable state of the packages has the declared types.           *)
THEOREM PackageTypeCorrect == Spec => []TypeOK
  BY StageHolds, PTL

-----------------------------------------------------------------------------
(* A step seen from one run: it is a step of that run, or it leaves the    *)
(* run's own record alone, at most losing it in a restart.                 *)
Own(q) ==
  \/ \E a \in Assets : Begin(q, a)
  \/ Propose(q) \/ GiveUp(q) \/ LogLeg(q) \/ LogFails(q)
  \/ SubmitLeg(q) \/ RefuseLeg(q)
  \/ Lock(q) \/ Abort(q) \/ StartUnwind(q)
  \/ SubmitUnwind(q) \/ RefuseUnwind(q)
  \/ LegErrors(q) \/ UnwindErrors(q)
  \/ \E answer \in Answers, part \in BOOLEAN :
       LegAnswers(q, answer, part) \/ UnwindAnswers(q, answer, part)
  \/ Settle(q) \/ Record(q) \/ RecordFails(q)
  \/ \E k \in Legs : LateFill(q, k)

Elsewhere(q) ==
  /\ pc'[q] = pc[q] \/ pc'[q] = "lost"
  /\ asset'[q] = asset[q]
  /\ logged'[q] = logged[q]
  /\ leg'[q] = leg[q]
  /\ closing'[q] = closing[q]
  /\ state'[q] = state[q]
  /\ unwound'[q] = unwound[q]
  /\ refusal'[q] = refusal[q]
  /\ held'[q] = held[q]
  /\ resting'[q] = resting[q]
  /\ partial'[q] = partial[q]
  /\ q \in open => q \in open' \/ pc'[q] = "lost"
  /\ q \in open' => q \in open /\ pc'[q] = pc[q]

LEMMA StepOfRun ==
  ASSUME TypeOK, [Next]_vars, NEW q \in Pkgs
  PROVE  Own(q) \/ Elsewhere(q)
<1> USE DEF Goto, package, registry, exchange, gate, TypeOK
<1>1. ASSUME NEW p \in Pkgs, NEW a \in Assets, Begin(p, a), p # q PROVE Elsewhere(q)
  BY <1>1 DEF Begin, Elsewhere
<1>2. ASSUME NEW p \in Pkgs, Propose(p), p # q PROVE Elsewhere(q)
  BY <1>2 DEF Propose, Elsewhere
<1>3. ASSUME NEW p \in Pkgs, GiveUp(p), p # q PROVE Elsewhere(q)
  BY <1>3 DEF GiveUp, Elsewhere
<1>4. ASSUME NEW p \in Pkgs, LogLeg(p), p # q PROVE Elsewhere(q)
  BY <1>4 DEF LogLeg, Elsewhere
<1>5. ASSUME NEW p \in Pkgs, LogFails(p), p # q PROVE Elsewhere(q)
  BY <1>5 DEF LogFails, Elsewhere
<1>6. ASSUME NEW p \in Pkgs, SubmitLeg(p), p # q PROVE Elsewhere(q)
  BY <1>6 DEF SubmitLeg, Elsewhere
<1>7. ASSUME NEW p \in Pkgs, RefuseLeg(p), p # q PROVE Elsewhere(q)
  BY <1>7 DEF RefuseLeg, Elsewhere
<1>8. ASSUME NEW p \in Pkgs, Lock(p), p # q PROVE Elsewhere(q)
  BY <1>8 DEF Lock, Elsewhere
<1>9. ASSUME NEW p \in Pkgs, Abort(p), p # q PROVE Elsewhere(q)
  BY <1>9 DEF Abort, Release, Elsewhere
<1>10. ASSUME NEW p \in Pkgs, StartUnwind(p), p # q PROVE Elsewhere(q)
  BY <1>10 DEF StartUnwind, Elsewhere
<1>11. ASSUME NEW p \in Pkgs, SubmitUnwind(p), p # q PROVE Elsewhere(q)
  BY <1>11 DEF SubmitUnwind, Elsewhere
<1>12. ASSUME NEW p \in Pkgs, RefuseUnwind(p), p # q PROVE Elsewhere(q)
  BY <1>12 DEF RefuseUnwind, Elsewhere
<1>13. ASSUME NEW p \in Pkgs, LegErrors(p), p # q PROVE Elsewhere(q)
  BY <1>13 DEF LegErrors, Elsewhere
<1>14. ASSUME NEW p \in Pkgs, UnwindErrors(p), p # q PROVE Elsewhere(q)
  BY <1>14 DEF UnwindErrors, Elsewhere
<1>15. ASSUME NEW p \in Pkgs, NEW answer \in Answers, NEW part \in BOOLEAN,
              LegAnswers(p, answer, part), p # q
       PROVE  Elsewhere(q)
  BY <1>15 DEF LegAnswers, Elsewhere
<1>16. ASSUME NEW p \in Pkgs, NEW answer \in Answers, NEW part \in BOOLEAN,
              UnwindAnswers(p, answer, part), p # q
       PROVE  Elsewhere(q)
  BY <1>16 DEF UnwindAnswers, Release, Elsewhere
<1>17. ASSUME NEW p \in Pkgs, Settle(p), p # q PROVE Elsewhere(q)
  BY <1>17 DEF Settle, Release, Elsewhere
<1>18. ASSUME NEW p \in Pkgs, Record(p), p # q PROVE Elsewhere(q)
  BY <1>18 DEF Record, Elsewhere
<1>19. ASSUME NEW p \in Pkgs, RecordFails(p), p # q PROVE Elsewhere(q)
  BY <1>19 DEF RecordFails, Elsewhere
<1>20. ASSUME NEW p \in Pkgs, NEW k \in Legs, LateFill(p, k), p # q PROVE Elsewhere(q)
  BY <1>20 DEF LateFill, Elsewhere
<1>21. ASSUME \/ \E p \in Pkgs : Age(p)
              \/ Operate \/ LossReached \/ CountMoves \/ Midnight \/ UNCHANGED vars
       PROVE  Elsewhere(q)
  BY <1>21 DEF Age, Operate, LossReached, CountMoves, Midnight, vars, Elsewhere
<1>22. ASSUME Restart PROVE Elsewhere(q)
  BY <1>22 DEF Restart, Elsewhere
<1> HIDE DEF Elsewhere
<1> QED
  BY <1>1, <1>2, <1>3, <1>4, <1>5, <1>6, <1>7, <1>8, <1>9, <1>10, <1>11, <1>12, <1>13, <1>14,
     <1>15, <1>16, <1>17, <1>18, <1>19, <1>20, <1>21, <1>22 DEF Next, Own

-----------------------------------------------------------------------------
(* The log gates the legs: nothing is at the exchange for a run that is    *)
(* still logging, and dispatch starts with both decisions logged.          *)
Gated(p) ==
  /\ pc[p] \in {"idle", "fetching", "logging"} => held[p] = {} /\ resting[p] = {}
  /\ pc[p] \in {"dispatching", "opening"} => logged[p] = 2
  /\ held[p] # {} \/ resting[p] # {} => logged[p] = 2

(* No leg of a package reaches the exchange before both its decisions are  *)
(* on the chain.                                                           *)
THEOREM LogGatesLegs == Spec => []LogIsHardGate
<1> DEFINE Inv == \A p \in Pkgs : Gated(p)
<1>1. Init => Inv
  BY DEF Init, Gated
<1>2. TypeOK /\ StageInv /\ Inv /\ [Next]_vars => Inv'
  <2> SUFFICES ASSUME TypeOK, StageInv, Inv, [Next]_vars, NEW q \in Pkgs PROVE Gated(q)'
    OBVIOUS
  <2>0. Own(q) \/ Elsewhere(q)
    BY StepOfRun
  <2> USE DEF Goto, package, registry, exchange, gate, TypeOK, StageInv, Gated
  <2>1. CASE \E a \in Assets : Begin(q, a)
    BY <2>1 DEF Begin
  <2>2. CASE Propose(q)
    BY <2>2 DEF Propose
  <2>3. CASE GiveUp(q)
    BY <2>3 DEF GiveUp
  <2>4. CASE LogLeg(q)
    BY <2>4 DEF LogLeg
  <2>5. CASE LogFails(q)
    BY <2>5 DEF LogFails
  <2>6. CASE SubmitLeg(q)
    BY <2>6 DEF SubmitLeg
  <2>7. CASE RefuseLeg(q)
    BY <2>7 DEF RefuseLeg
  <2>8. CASE Lock(q)
    BY <2>8 DEF Lock
  <2>9. CASE Abort(q)
    BY <2>9 DEF Abort, Release
  <2>10. CASE StartUnwind(q)
    BY <2>10 DEF StartUnwind
  <2>11. CASE SubmitUnwind(q)
    BY <2>11 DEF SubmitUnwind
  <2>12. CASE RefuseUnwind(q)
    BY <2>12 DEF RefuseUnwind
  <2>13. CASE LegErrors(q)
    BY <2>13 DEF LegErrors, NextLeg
  <2>14. CASE UnwindErrors(q)
    BY <2>14 DEF UnwindErrors
  <2>15. CASE \E answer \in Answers, part \in BOOLEAN : LegAnswers(q, answer, part)
    BY <2>15 DEF LegAnswers, NextLeg
  <2>16. CASE \E answer \in Answers, part \in BOOLEAN : UnwindAnswers(q, answer, part)
    BY <2>16 DEF UnwindAnswers, Release
  <2>17. CASE Settle(q)
    BY <2>17 DEF Settle, Release
  <2>18. CASE Record(q)
    BY <2>18 DEF Record
  <2>19. CASE RecordFails(q)
    BY <2>19 DEF RecordFails
  <2>20. CASE \E k \in Legs : LateFill(q, k)
    BY <2>20 DEF LateFill
  <2>21. CASE Elsewhere(q)
    BY <2>21 DEF Elsewhere
  <2> HIDE DEF Gated
  <2> QED
    BY <2>0, <2>1, <2>2, <2>3, <2>4, <2>5, <2>6, <2>7, <2>8, <2>9, <2>10, <2>11,
       <2>12, <2>13, <2>14, <2>15, <2>16, <2>17, <2>18, <2>19, <2>20, <2>21 DEF Own
<1>3. Inv => LogIsHardGate
  BY DEF Gated, LogIsHardGate
<1> HIDE DEF Inv
<1> QED
  BY <1>1, <1>2, <1>3, StageHolds, PTL DEF Spec

-----------------------------------------------------------------------------
(* A run refused for the halt or the quota was refused an opening leg, and *)
(* a run that is still opening has no answer for its second leg.           *)
Refused(p) ==
  /\ pc[p] \in {"idle", "fetching", "logging", "dispatching", "opening"} => leg[p][2] = "none"
  /\ refusal[p] # "none" => pc[p] \in {"raised", "lost"}
  /\ pc[p] = "raised" /\ refusal[p] \in {"halt", "quota"} => leg[p][2] = "none"

(* Neither the halt nor a used-up quota keeps a filled leg from closing.   *)
THEOREM ClosingPassesHalt == Spec => []UnwindPassesHalt
<1> DEFINE Inv == \A p \in Pkgs : Refused(p)
<1>1. Init => Inv
  BY DEF Init, Refused, Legs
<1>2. TypeOK /\ StageInv /\ Inv /\ [Next]_vars => Inv'
  <2> SUFFICES ASSUME TypeOK, StageInv, Inv, [Next]_vars, NEW q \in Pkgs PROVE Refused(q)'
    OBVIOUS
  <2>0. Own(q) \/ Elsewhere(q)
    BY StepOfRun
  <2> USE DEF Goto, package, registry, exchange, gate, TypeOK, StageInv, Refused
  <2>1. CASE \E a \in Assets : Begin(q, a)
    BY <2>1 DEF Begin
  <2>2. CASE Propose(q)
    BY <2>2 DEF Propose
  <2>3. CASE GiveUp(q)
    BY <2>3 DEF GiveUp
  <2>4. CASE LogLeg(q)
    BY <2>4 DEF LogLeg
  <2>5. CASE LogFails(q)
    BY <2>5 DEF LogFails
  <2>6. CASE SubmitLeg(q)
    BY <2>6 DEF SubmitLeg
  <2>7. CASE RefuseLeg(q)
    BY <2>7 DEF RefuseLeg, Verdict
  <2>8. CASE Lock(q)
    BY <2>8 DEF Lock
  <2>9. CASE Abort(q)
    BY <2>9 DEF Abort, Release
  <2>10. CASE StartUnwind(q)
    BY <2>10 DEF StartUnwind
  <2>11. CASE SubmitUnwind(q)
    BY <2>11 DEF SubmitUnwind
  <2>12. CASE RefuseUnwind(q)
    BY <2>12 DEF RefuseUnwind, Verdict
  <2>13. CASE LegErrors(q)
    BY <2>13 DEF LegErrors, NextLeg
  <2>14. CASE UnwindErrors(q)
    BY <2>14 DEF UnwindErrors
  <2>15. CASE \E answer \in Answers, part \in BOOLEAN : LegAnswers(q, answer, part)
    <3> PICK answer \in Answers, part \in BOOLEAN : LegAnswers(q, answer, part)
      BY <2>15
    <3>1. pc[q] = "opening" /\ refusal' = refusal
      BY DEF LegAnswers
    <3>2. pc'[q] = IF NextLeg(q) = 2 THEN "resolving" ELSE "dispatching"
      BY DEF LegAnswers
    <3>3. NextLeg(q) # 2 => leg'[q][2] = leg[q][2]
      BY DEF LegAnswers, NextLeg, Legs
    <3> QED
      BY <3>1, <3>2, <3>3
  <2>16. CASE \E answer \in Answers, part \in BOOLEAN : UnwindAnswers(q, answer, part)
    BY <2>16 DEF UnwindAnswers, Release
  <2>17. CASE Settle(q)
    BY <2>17 DEF Settle, Release
  <2>18. CASE Record(q)
    BY <2>18 DEF Record
  <2>19. CASE RecordFails(q)
    BY <2>19 DEF RecordFails
  <2>20. CASE \E k \in Legs : LateFill(q, k)
    BY <2>20 DEF LateFill
  <2>21. CASE Elsewhere(q)
    BY <2>21 DEF Elsewhere
  <2> HIDE DEF Refused
  <2> QED
    BY <2>0, <2>1, <2>2, <2>3, <2>4, <2>5, <2>6, <2>7, <2>8, <2>9, <2>10, <2>11,
       <2>12, <2>13, <2>14, <2>15, <2>16, <2>17, <2>18, <2>19, <2>20, <2>21 DEF Own
<1>3. Inv => UnwindPassesHalt
  BY DEF Refused, UnwindPassesHalt
<1> HIDE DEF Inv
<1> QED
  BY <1>1, <1>2, <1>3, StageHolds, PTL DEF Spec

-----------------------------------------------------------------------------
(* A leg the run knows as filled is on, until the run may lock; and a run  *)
(* is locked only there.                                                   *)
Backed(p) ==
  /\ pc[p] \in {"idle", "fetching", "logging", "dispatching", "opening"} => leg[p][2] = "none"
  /\ pc[p] \in {"idle", "fetching", "logging", "dispatching", "opening", "resolving"} =>
       \A k \in FilledLegs(p) : k \in held[p]
  /\ pc[p] \in {"idle", "fetching", "logging", "dispatching", "opening", "resolving",
               "unwinding", "closing"} => state[p] \notin {"LOCKED", "SETTLED"}
  /\ state[p] \in {"LOCKED", "SETTLED"} => 
       held[p] = Legs /\ \A k \in Legs : leg[p][k] \in {"clean", "unpriced"}

(* A package that is locked or settled has both legs on, and none that was *)
(* measured past its limit.                                                *)
THEOREM LockHolds == Spec => []LockedUnbreached
<1> DEFINE Inv == \A p \in Pkgs : Backed(p)
<1>1. Init => Inv
  BY DEF Init, Backed, FilledLegs, Legs
<1>2. TypeOK /\ StageInv /\ Inv /\ [Next]_vars => Inv'
  <2> SUFFICES ASSUME TypeOK, StageInv, Inv, [Next]_vars, NEW q \in Pkgs PROVE Backed(q)'
    OBVIOUS
  <2>0. Own(q) \/ Elsewhere(q)
    BY StepOfRun
  <2> USE DEF Goto, package, registry, exchange, gate, TypeOK, StageInv, Backed, FilledLegs, Legs
  <2>1. CASE \E a \in Assets : Begin(q, a)
    BY <2>1 DEF Begin
  <2>2. CASE Propose(q)
    BY <2>2 DEF Propose
  <2>3. CASE GiveUp(q)
    BY <2>3 DEF GiveUp
  <2>4. CASE LogLeg(q)
    BY <2>4 DEF LogLeg
  <2>5. CASE LogFails(q)
    BY <2>5 DEF LogFails
  <2>6. CASE SubmitLeg(q)
    BY <2>6 DEF SubmitLeg
  <2>7. CASE RefuseLeg(q)
    BY <2>7 DEF RefuseLeg
  <2>8. CASE Lock(q)
    <3>1. /\ pc[q] = "resolving" /\ pc'[q] = "settling"
          /\ \A k \in Legs : leg[q][k] \notin {"none", "unfilled", "breached"}
          /\ UNCHANGED <<leg, held>>
      BY <2>8 DEF Lock, Lockable
    <3>2. leg[q][1] \in Results /\ leg[q][2] \in Results
      OBVIOUS
    <3>3. \A k \in Legs : leg[q][k] \in {"clean", "unpriced"}
      BY <3>1, <3>2 DEF Results
    <3>4. held'[q] = Legs
      <4>1. held[q] \subseteq Legs
        OBVIOUS
      <4> QED
        BY <3>1, <4>1
    <3> QED
      BY <3>1, <3>3, <3>4
  <2>9. CASE Abort(q)
    BY <2>9 DEF Abort, Release
  <2>10. CASE StartUnwind(q)
    BY <2>10 DEF StartUnwind
  <2>11. CASE SubmitUnwind(q)
    BY <2>11 DEF SubmitUnwind
  <2>12. CASE RefuseUnwind(q)
    BY <2>12 DEF RefuseUnwind
  <2>13. CASE LegErrors(q)
    BY <2>13 DEF LegErrors, NextLeg
  <2>14. CASE UnwindErrors(q)
    BY <2>14 DEF UnwindErrors
  <2>15. CASE \E answer \in Answers, part \in BOOLEAN : LegAnswers(q, answer, part)
    <3> PICK answer \in Answers, part \in BOOLEAN : LegAnswers(q, answer, part)
      BY <2>15
    <3>1. pc[q] = "opening" /\ pc'[q] \in {"resolving", "dispatching"} /\ state' = state
      BY DEF LegAnswers
    <3>2. NextLeg(q) \in Legs
      BY DEF NextLeg
    <3>3. /\ \A k \in Legs \ {NextLeg(q)} : leg'[q][k] = leg[q][k]
          /\ leg'[q][NextLeg(q)] \notin {"none", "unfilled"} => answer \in Fills
          /\ NextLeg(q) = 1 => leg'[q][2] = leg[q][2]
      BY <3>2 DEF LegAnswers, Fills
    <3>4. held'[q] = IF answer \in Fills THEN held[q] \cup {NextLeg(q)} ELSE held[q]
      BY DEF LegAnswers
    <3>5. \A k \in Legs : leg'[q][k] \notin {"none", "unfilled"} => k \in held'[q]
      BY <3>1, <3>2, <3>3, <3>4
    <3>6. pc'[q] # "resolving" => leg'[q][2] = "none"
      BY <3>1, <3>2, <3>3 DEF LegAnswers, NextLeg
    <3> QED
      BY <3>1, <3>5, <3>6
  <2>16. CASE \E answer \in Answers, part \in BOOLEAN : UnwindAnswers(q, answer, part)
    BY <2>16 DEF UnwindAnswers, Release
  <2>17. CASE Settle(q)
    BY <2>17 DEF Settle, Release
  <2>18. CASE Record(q)
    BY <2>18 DEF Record
  <2>19. CASE RecordFails(q)
    BY <2>19 DEF RecordFails
  <2>20. CASE \E k \in Legs : LateFill(q, k)
    BY <2>20 DEF LateFill
  <2>21. CASE Elsewhere(q)
    BY <2>21 DEF Elsewhere
  <2> HIDE DEF Backed
  <2> QED
    BY <2>0, <2>1, <2>2, <2>3, <2>4, <2>5, <2>6, <2>7, <2>8, <2>9, <2>10, <2>11,
       <2>12, <2>13, <2>14, <2>15, <2>16, <2>17, <2>18, <2>19, <2>20, <2>21 DEF Own
<1>3. Inv => LockedUnbreached
  BY DEF Backed, LockedUnbreached, Legs
<1> HIDE DEF Inv
<1> QED
  BY <1>1, <1>2, <1>3, StageHolds, PTL DEF Spec

-----------------------------------------------------------------------------
(* A run is registered from its proposal to its release, and after it only *)
(* when it raised.                                                         *)
Reserving == {"logging", "dispatching", "opening", "resolving", "unwinding", "closing", "settling"}

Reserved(p) ==
  /\ pc[p] \in Reserving => p \in open
  /\ p \in open => pc[p] \in Reserving \cup {"raised"}

LEMMA ReservedHolds == Spec => [](\A p \in Pkgs : Reserved(p))
<1> DEFINE Inv == \A p \in Pkgs : Reserved(p)
<1>1. Init => Inv
  BY DEF Init, Reserved, Reserving
<1>2. TypeOK /\ StageInv /\ Inv /\ [Next]_vars => Inv'
  <2> SUFFICES ASSUME TypeOK, StageInv, Inv, [Next]_vars, NEW q \in Pkgs PROVE Reserved(q)'
    OBVIOUS
  <2>0. Own(q) \/ Elsewhere(q)
    BY StepOfRun
  <2> USE DEF Goto, package, registry, exchange, gate, TypeOK, StageInv, Reserved, Reserving
  <2>1. CASE \E a \in Assets : Begin(q, a)
    BY <2>1 DEF Begin
  <2>2. CASE Propose(q)
    BY <2>2 DEF Propose
  <2>3. CASE GiveUp(q)
    BY <2>3 DEF GiveUp
  <2>4. CASE LogLeg(q)
    BY <2>4 DEF LogLeg
  <2>5. CASE LogFails(q)
    BY <2>5 DEF LogFails
  <2>6. CASE SubmitLeg(q)
    BY <2>6 DEF SubmitLeg
  <2>7. CASE RefuseLeg(q)
    BY <2>7 DEF RefuseLeg
  <2>8. CASE Lock(q)
    BY <2>8 DEF Lock
  <2>9. CASE Abort(q)
    BY <2>9 DEF Abort, Release
  <2>10. CASE StartUnwind(q)
    BY <2>10 DEF StartUnwind
  <2>11. CASE SubmitUnwind(q)
    BY <2>11 DEF SubmitUnwind
  <2>12. CASE RefuseUnwind(q)
    BY <2>12 DEF RefuseUnwind
  <2>13. CASE LegErrors(q)
    BY <2>13 DEF LegErrors
  <2>14. CASE UnwindErrors(q)
    BY <2>14 DEF UnwindErrors
  <2>15. CASE \E answer \in Answers, part \in BOOLEAN : LegAnswers(q, answer, part)
    BY <2>15 DEF LegAnswers
  <2>16. CASE \E answer \in Answers, part \in BOOLEAN : UnwindAnswers(q, answer, part)
    BY <2>16 DEF UnwindAnswers, Release
  <2>17. CASE Settle(q)
    BY <2>17 DEF Settle, Release
  <2>18. CASE Record(q)
    BY <2>18 DEF Record
  <2>19. CASE RecordFails(q)
    BY <2>19 DEF RecordFails
  <2>20. CASE \E k \in Legs : LateFill(q, k)
    BY <2>20 DEF LateFill
  <2>21. CASE Elsewhere(q)
    BY <2>21 DEF Elsewhere
  <2> HIDE DEF Reserved
  <2> QED
    BY <2>0, <2>1, <2>2, <2>3, <2>4, <2>5, <2>6, <2>7, <2>8, <2>9, <2>10, <2>11,
       <2>12, <2>13, <2>14, <2>15, <2>16, <2>17, <2>18, <2>19, <2>20, <2>21 DEF Own
<1> HIDE DEF Inv
<1>3. Spec => []Inv
  BY <1>1, <1>2, StageHolds, PTL DEF Spec
<1> QED
  BY <1>3 DEF Inv

(* The capacity check makes a proposal safe for the registry, whatever     *)
(* happened since the run began.                                           *)
LEMMA ProposeAgrees ==
  ASSUME TypeOK, RegistryAgrees, NEW p \in Pkgs, Propose(p)
  PROVE  RegistryAgrees'
<1> USE DEF TypeOK
<1>1. /\ asset' = asset /\ open' = open \cup {p} /\ active' = active \cup {asset[p]}
      /\ Cardinality(open) < MaxOpen /\ asset[p] \notin active
  BY DEF Propose, CanOpen
<1>2. active' = {asset'[q] : q \in open'}
  BY <1>1 DEF RegistryAgrees
<1>3. \A q, r \in open' : asset'[q] = asset'[r] => q = r
  BY <1>1 DEF RegistryAgrees
<1>4. IsFiniteSet(open)
  BY PackageAssumption, FS_Subset
<1>5. Cardinality(open') <= MaxOpen
  <2>1. Cardinality(open) \in Nat
    BY <1>4, FS_CardinalityType
  <2>2. Cardinality(open \cup {p}) \in {Cardinality(open), Cardinality(open) + 1}
    BY <1>4, FS_AddElement
  <2> QED
    BY <1>1, <2>1, <2>2, PackageAssumption
<1> QED
  BY <1>2, <1>3, <1>5 DEF RegistryAgrees

LEMMA ReleaseAgrees ==
  ASSUME TypeOK, RegistryAgrees, NEW p \in open, Release(p), asset' = asset
  PROVE  RegistryAgrees'
<1> USE DEF TypeOK
<1>1. active' = {asset'[q] : q \in open'}
  BY DEF Release, RegistryAgrees
<1>2. \A q, r \in open' : asset'[q] = asset'[r] => q = r
  BY DEF Release, RegistryAgrees
<1>3. IsFiniteSet(open)
  BY PackageAssumption, FS_Subset
<1>4. /\ Cardinality(open') <= Cardinality(open)
      /\ Cardinality(open) \in Nat /\ Cardinality(open') \in Nat
  BY <1>3, FS_Subset, FS_CardinalityType DEF Release
<1>5. Cardinality(open') <= MaxOpen
  BY <1>4, PackageAssumption DEF RegistryAgrees
<1> QED
  BY <1>1, <1>2, <1>5 DEF RegistryAgrees

(* The reserved instruments are those of the open packages, one each, and  *)
(* the packages stay within max_concurrent_packages.                       *)
THEOREM RegistryHolds == Spec => []RegistryAgrees
<1> DEFINE Inv == \A p \in Pkgs : Reserved(p)
<1>1. Init => RegistryAgrees
  <2>1. Cardinality({}) = 0
    BY FS_EmptySet
  <2> QED
    BY <2>1, PackageAssumption DEF Init, RegistryAgrees
<1>2. TypeOK /\ Inv /\ RegistryAgrees /\ [Next]_vars => RegistryAgrees'
  <2> SUFFICES ASSUME TypeOK, Inv, RegistryAgrees, [Next]_vars PROVE RegistryAgrees'
    OBVIOUS
  <2>1. ASSUME UNCHANGED <<asset, open, active>> PROVE RegistryAgrees'
    BY <2>1 DEF RegistryAgrees
  <2>2. ASSUME NEW p \in Pkgs, NEW a \in Assets, Begin(p, a) PROVE RegistryAgrees'
    <3>1. p \notin open
      BY <2>2 DEF Begin, Reserved, Reserving
    <3>2. \A q \in open : asset'[q] = asset[q]
      BY <2>2, <3>1 DEF Begin, TypeOK
    <3>3. UNCHANGED <<open, active>>
      BY <2>2 DEF Begin, registry
    <3> QED
      BY <3>2, <3>3 DEF RegistryAgrees
  <2>3. ASSUME NEW p \in Pkgs, Propose(p) PROVE RegistryAgrees'
    BY <2>3, ProposeAgrees
  <2>4. ASSUME NEW p \in Pkgs, Abort(p) \/ Settle(p) PROVE RegistryAgrees'
    <3>1. p \in open /\ Release(p) /\ asset' = asset
      BY <2>4 DEF Abort, Settle, Reserved, Reserving
    <3> QED
      BY <3>1, ReleaseAgrees
  <2>5. ASSUME NEW p \in Pkgs, NEW answer \in Answers, NEW part \in BOOLEAN,
               UnwindAnswers(p, answer, part)
        PROVE  RegistryAgrees'
    <3>1. p \in open /\ asset' = asset
      BY <2>5 DEF UnwindAnswers, Reserved, Reserving
    <3>2. Release(p) \/ UNCHANGED <<open, active>>
      BY <2>5 DEF UnwindAnswers, registry
    <3> QED
      BY <2>1, <3>1, <3>2, ReleaseAgrees
  <2>6. ASSUME Restart PROVE RegistryAgrees'
    <3>1. open' = {} /\ active' = {} /\ Cardinality({}) = 0
      BY <2>6, FS_EmptySet DEF Restart
    <3> QED
      BY <3>1, PackageAssumption DEF RegistryAgrees
  <2>7. ASSUME NEW p \in Pkgs,
               \/ GiveUp(p) \/ LogLeg(p) \/ LogFails(p) \/ SubmitLeg(p) \/ RefuseLeg(p)
               \/ Lock(p) \/ StartUnwind(p) \/ SubmitUnwind(p) \/ RefuseUnwind(p)
               \/ LegErrors(p) \/ UnwindErrors(p) \/ Record(p) \/ RecordFails(p) \/ Age(p)
               \/ \E answer \in Answers, part \in BOOLEAN : LegAnswers(p, answer, part)
               \/ \E k \in Legs : LateFill(p, k)
        PROVE  UNCHANGED <<asset, open, active>>
    BY <2>7 DEF GiveUp, LogLeg, LogFails, SubmitLeg, RefuseLeg, Lock, StartUnwind, SubmitUnwind,
       RefuseUnwind, LegErrors, UnwindErrors, Record, RecordFails, Age, LegAnswers, LateFill,
       package, registry
  <2>8. ASSUME Operate \/ LossReached \/ CountMoves \/ Midnight \/ UNCHANGED vars
        PROVE  UNCHANGED <<asset, open, active>>
    BY <2>8 DEF Operate, LossReached, CountMoves, Midnight, vars, package, registry
  <2> QED
    BY <2>1, <2>2, <2>3, <2>4, <2>5, <2>6, <2>7, <2>8 DEF Next
<1> HIDE DEF Inv
<1>3. Spec => []Inv
  BY ReservedHolds DEF Inv
<1> QED
  BY <1>1, <1>2, <1>3, StageHolds, PTL DEF Spec

-----------------------------------------------------------------------------
(* What the unwind knows of a filled leg no order of which was filled in   *)
(* part: it is off once its close filled, and no entry order of it is still*)
(* live.  A run under way has an answer to each order that is.             *)
Early == {"idle", "fetching", "logging", "dispatching", "opening"}
Entering == Early \cup {"resolving"}

(* A package whose filled leg is on says so.                               *)
Told(p) ==
  p \in open \/ pc[p] = "lost" \/ state[p] = "SETTLED" \/ (state[p] = "ABORTED" /\ ~unwound[p])

Claimed(p) ==
  /\ pc[p] \in Early => leg[p][2] = "none"
  /\ pc[p] \in Entering => \A k \in Legs : closing[p][k] = "none"
  /\ pc[p] \notin {"raised", "lost"} => \A k \in resting[p] : leg[p][k] # "none"
  /\ \A k \in resting[p] : k \in FilledLegs(p) => k \in partial[p]
  /\ \A k \in FilledLegs(p) \ partial[p] : closing[p][k] = "filled" => k \notin held[p]
  /\ (held[p] \cap FilledLegs(p)) \ partial[p] # {} => Told(p)

(* A step that sends nothing and keeps the record of the legs.             *)
LEMMA ClaimStays ==
  ASSUME NEW q \in Pkgs, Claimed(q),
         leg'[q] = leg[q], closing'[q] = closing[q],
         held'[q] = held[q], resting'[q] = resting[q], partial'[q] = partial[q],
         pc'[q] \in Early => pc[q] \in Early,
         pc'[q] \in Entering => pc[q] \in Entering,
         pc'[q] \notin {"raised", "lost"} => pc[q] \notin {"raised", "lost"},
         FilledLegs(q) # {} /\ Told(q) => Told(q)'
  PROVE  Claimed(q)'
<1>1. FilledLegs(q)' = FilledLegs(q)
  BY DEF FilledLegs
<1> QED
  BY <1>1 DEF Claimed

(* A package that says it is unwound has no filled leg on but one with an  *)
(* order filled in part; one with another leg on is open, lost, settled, or*)
(* says it is not unwound.                                                 *)
THEOREM ClaimHolds == Spec => []ClaimIsHonest
<1> DEFINE Inv == \A p \in Pkgs : Claimed(p)
<1> DEFINE Registered == \A p \in Pkgs : Reserved(p)
<1>1. Init => Inv
  BY DEF Init, Claimed, Told, Early, Entering, Legs, FilledLegs
<1>2. TypeOK /\ StageInv /\ Registered /\ Inv /\ [Next]_vars => Inv'
  <2> SUFFICES ASSUME TypeOK, StageInv, Registered, Inv, [Next]_vars, NEW q \in Pkgs
               PROVE  Claimed(q)'
    OBVIOUS
  <2>0. Own(q) \/ Elsewhere(q)
    BY StepOfRun
  <2>q. Claimed(q) /\ Reserved(q)
    OBVIOUS
  <2> USE <2>q
  <2> USE DEF Goto, package, registry, exchange, gate, TypeOK, StageInv, Reserved, Reserving, Legs
  <2>1. CASE \E a \in Assets : Begin(q, a)
    <3>1. /\ pc[q] = "idle" /\ pc'[q] = "fetching"
          /\ UNCHANGED <<leg, closing, exchange, open, state, unwound>>
      BY <2>1 DEF Begin
    <3> QED
      BY <3>1, ClaimStays DEF Early, Entering, Told
  <2>2. CASE Propose(q)
    <3>1. /\ pc[q] = "fetching" /\ pc'[q] = "logging"
          /\ UNCHANGED <<leg, closing, exchange>> /\ q \in open'
      BY <2>2 DEF Propose
    <3> QED
      BY <3>1, ClaimStays DEF Early, Entering, Told
  <2>3. CASE GiveUp(q)
    <3>1. /\ pc[q] = "fetching" /\ pc'[q] = "done"
          /\ UNCHANGED <<leg, closing, exchange, open, state, unwound>>
      BY <2>3 DEF GiveUp
    <3> QED
      BY <3>1, ClaimStays DEF Early, Entering, Told
  <2>4. CASE LogLeg(q)
    <3>1. /\ pc[q] = "logging" /\ pc'[q] \in {"logging", "dispatching"}
          /\ UNCHANGED <<leg, closing, exchange, open, state, unwound>>
      BY <2>4 DEF LogLeg
    <3> QED
      BY <3>1, ClaimStays DEF Early, Entering, Told
  <2>5. CASE LogFails(q)
    <3>1. /\ pc[q] = "logging" /\ pc'[q] = "raised"
          /\ UNCHANGED <<leg, closing, exchange, open, state, unwound>>
      BY <2>5 DEF LogFails
    <3> QED
      BY <3>1, ClaimStays DEF Early, Entering, Told
  <2>6. CASE SubmitLeg(q)
    <3>1. /\ pc[q] = "dispatching" /\ pc'[q] = "opening"
          /\ UNCHANGED <<leg, closing, exchange, open, state, unwound>>
      BY <2>6 DEF SubmitLeg
    <3> QED
      BY <3>1, ClaimStays DEF Early, Entering, Told
  <2>7. CASE RefuseLeg(q)
    <3>1. /\ pc[q] = "dispatching" /\ pc'[q] = "raised"
          /\ UNCHANGED <<leg, closing, exchange, open, state, unwound>>
      BY <2>7 DEF RefuseLeg
    <3> QED
      BY <3>1, ClaimStays DEF Early, Entering, Told
  <2>8. CASE Lock(q)
    <3>1. /\ pc[q] = "resolving" /\ pc'[q] = "settling"
          /\ UNCHANGED <<leg, closing, exchange, open>> /\ q \in open
      BY <2>8 DEF Lock
    <3> QED
      BY <3>1, ClaimStays DEF Early, Entering, Told
  <2>9. CASE Abort(q)
    <3>1. /\ pc[q] = "resolving" /\ pc'[q] = "done"
          /\ UNCHANGED <<leg, closing, exchange>> /\ FilledLegs(q) = {}
      BY <2>9 DEF Abort
    <3> QED
      BY <3>1, ClaimStays DEF Early, Entering, Told
  <2>10. CASE StartUnwind(q)
    <3>1. /\ pc[q] = "resolving" /\ pc'[q] = "unwinding"
          /\ UNCHANGED <<leg, closing, exchange, open, state, unwound>>
      BY <2>10 DEF StartUnwind
    <3> QED
      BY <3>1, ClaimStays DEF Early, Entering, Told
  <2>11. CASE SubmitUnwind(q)
    <3>1. /\ pc[q] = "unwinding" /\ pc'[q] = "closing"
          /\ UNCHANGED <<leg, closing, exchange, open, state, unwound>>
      BY <2>11 DEF SubmitUnwind
    <3> QED
      BY <3>1, ClaimStays DEF Early, Entering, Told
  <2>12. CASE RefuseUnwind(q)
    <3>1. /\ pc[q] = "unwinding" /\ pc'[q] = "raised"
          /\ UNCHANGED <<leg, closing, exchange, open, state, unwound>>
      BY <2>12 DEF RefuseUnwind
    <3> QED
      BY <3>1, ClaimStays DEF Early, Entering, Told
  <2>13. CASE LegErrors(q)
    <3> DEFINE k == NextLeg(q)
    <3>1. /\ pc[q] = "opening" /\ pc'[q] = "raised" /\ q \in open'
          /\ leg'[q] = leg[q] /\ closing'[q] = closing[q] /\ partial'[q] = partial[q]
          /\ \A j \in resting'[q] : j \in resting[q] \/ j = k
      BY <2>13 DEF LegErrors
    <3>2. /\ \A j \in Legs : closing[q][j] = "none"
          /\ leg[q][2] = "none"
      BY <3>1 DEF Claimed, Entering, Early
    <3>3. FilledLegs(q)' = FilledLegs(q) /\ FilledLegs(q) \subseteq Legs /\ k \notin FilledLegs(q)
      BY <3>1, <3>2 DEF FilledLegs, NextLeg
    <3> QED
      <4> HIDE DEF TypeOK, StageInv, Reserved, k
      <4>1. Told(q)'
        BY <3>1 DEF Told
      <4>2. \A j \in FilledLegs(q)' : closing'[q][j] # "filled"
        BY <3>1, <3>2, <3>3
      <4>3. pc'[q] \notin Entering /\ pc'[q] \notin Early
        BY <3>1 DEF Entering, Early
      <4>4. \A j \in resting'[q] : j \in FilledLegs(q)' => j \in partial'[q]
        BY <3>1, <3>3 DEF Claimed
      <4> HIDE DEF Told
      <4> QED
        BY <3>1, <4>1, <4>2, <4>3, <4>4 DEF Claimed
  <2>14. CASE UnwindErrors(q)
    <3>1. /\ pc[q] = "closing" /\ pc'[q] = "raised" /\ q \in open'
          /\ leg'[q] = leg[q] /\ closing'[q] = closing[q]
          /\ resting'[q] = resting[q] /\ partial'[q] = partial[q]
          /\ \A k \in Legs : k \in held'[q] => k \in held[q]
      BY <2>14 DEF UnwindErrors
    <3>2. FilledLegs(q)' = FilledLegs(q) /\ FilledLegs(q) \subseteq Legs
      BY <3>1 DEF FilledLegs
    <3> QED
      <4> HIDE DEF TypeOK, StageInv, Reserved
      <4>1. Told(q)'
        BY <3>1 DEF Told
      <4>2. \A k \in FilledLegs(q) \ partial[q] : closing'[q][k] = "filled" => k \notin held'[q]
        BY <3>1, <3>2 DEF Claimed
      <4>3. pc'[q] \notin Entering /\ pc'[q] \notin Early
        BY <3>1 DEF Entering, Early
      <4>4. \A k \in resting'[q] : k \in FilledLegs(q) => k \in partial[q]
        BY <3>1 DEF Claimed
      <4> HIDE DEF Told
      <4> QED
        BY <3>1, <3>2, <4>1, <4>2, <4>3, <4>4 DEF Claimed
  <2>15. CASE \E answer \in Answers, part \in BOOLEAN : LegAnswers(q, answer, part)
    <3> PICK answer \in Answers, part \in BOOLEAN : LegAnswers(q, answer, part)
      BY <2>15
    <3> DEFINE k == NextLeg(q)
    <3>a. pc[q] = "opening"
      BY DEF LegAnswers
    <3>b. leg[q][2] = "none" /\ \A j \in Legs : closing[q][j] = "none"
      BY <3>a DEF Claimed, Entering, Early
    <3>1. k \in Legs /\ leg[q][k] = "none" /\ k \notin resting[q]
      BY <3>a, <3>b DEF NextLeg, Claimed
    <3>2. /\ q \in open' /\ closing'[q] = closing[q]
          /\ pc'[q] = IF k = 2 THEN "resolving" ELSE "dispatching"
      BY <3>a DEF LegAnswers
    <3>3. /\ leg'[q][k] # "none"
          /\ leg'[q][k] # "unfilled" => answer \in Fills
          /\ \A j \in Legs \ {k} : leg'[q][j] = leg[q][j]
      BY <3>1 DEF LegAnswers, Fills
    <3>4. /\ resting'[q] = IF answer = "pending" \/ (answer \in Fills /\ part)
                            THEN resting[q] \cup {k} ELSE resting[q]
          /\ partial'[q] = IF answer \in Fills /\ part THEN partial[q] \cup {k} ELSE partial[q]
      BY DEF LegAnswers
    <3>5. answer = "pending" => answer \notin Fills
      BY DEF Fills
    <3>c. resting[q] \subseteq Legs
      OBVIOUS
    <3> HIDE DEF k, TypeOK, StageInv, Reserved
    <3>6. \A j \in resting'[q] : leg'[q][j] # "none"
      BY <3>a, <3>c, <3>1, <3>3, <3>4 DEF Claimed
    <3>7. \A j \in resting'[q] : j \in FilledLegs(q)' => j \in partial'[q]
      <4> SUFFICES ASSUME NEW j \in resting'[q], j \in FilledLegs(q)' PROVE j \in partial'[q]
        OBVIOUS
      <4>1. CASE j = k
        <5>1. answer \in Fills
          BY <3>3, <4>1 DEF FilledLegs
        <5> QED
          BY <3>1, <3>4, <3>5, <4>1, <5>1
      <4>2. CASE j # k
        <5>1. j \in resting[q] /\ j \in FilledLegs(q)
          BY <3>3, <3>4, <4>2 DEF FilledLegs
        <5> QED
          BY <3>4, <5>1 DEF Claimed
      <4> QED
        BY <4>1, <4>2
    <3>8. \A j \in Legs : closing'[q][j] = "none"
      BY <3>b, <3>2
    <3>9. pc'[q] \in {"resolving", "dispatching"} /\ (pc'[q] # "resolving" => leg'[q][2] = "none")
      BY <3>1, <3>2, <3>3, <3>b
    <3>10. \A j \in FilledLegs(q)' : closing'[q][j] # "filled"
      BY <3>8 DEF FilledLegs
    <3> QED
      BY <3>2, <3>6, <3>7, <3>8, <3>9, <3>10 DEF Claimed, Entering, Early, Told
  <2>16. CASE \E answer \in Answers, part \in BOOLEAN : UnwindAnswers(q, answer, part)
    <3> PICK answer \in Answers, part \in BOOLEAN : UnwindAnswers(q, answer, part)
      BY <2>16
    <3> DEFINE k == IF 1 \in Unclosed(q) THEN 1 ELSE 2
    <3> DEFINE results == [closing[q] EXCEPT ![k] = IF answer \in Fills
                                                    THEN "filled" ELSE "unfilled"]
    <3>1. k \in Legs /\ closing'[q] = results /\ leg' = leg /\ resting' = resting
      BY DEF UnwindAnswers
    <3>2. pc[q] = "closing" /\ pc'[q] \in {"unwinding", "done"}
      BY DEF UnwindAnswers
    <3>3. /\ held'[q] = IF answer \in Fills /\ ~part THEN held[q] \ {k} ELSE held[q]
          /\ partial'[q] = IF answer \in Fills /\ part THEN partial[q] \cup {k} ELSE partial[q]
      BY DEF UnwindAnswers
    <3>4. \/ state'[q] = "ABORTED" /\ unwound'[q] = Safe(q, results)
          \/ q \in open'
      BY <3>2 DEF UnwindAnswers
    <3>5. FilledLegs(q)' = FilledLegs(q) /\ FilledLegs(q) \subseteq Legs
      BY <3>1 DEF FilledLegs
    <3>6. \A j \in Legs \ {k} : results[j] = closing[q][j]
      BY <3>1
    <3>7. results[k] = "filled" => answer \in Fills
      BY <3>1
    <3> HIDE DEF k, results
    <3>8. \A j \in FilledLegs(q) \ partial'[q] : results[j] = "filled" => j \notin held'[q]
      <4> SUFFICES ASSUME NEW j \in FilledLegs(q), j \notin partial'[q], results[j] = "filled"
                   PROVE  j \notin held'[q]
        OBVIOUS
      <4> HIDE DEF TypeOK, StageInv, Reserved
      <4>1. held'[q] \subseteq held[q] /\ partial[q] \subseteq partial'[q]
        BY <3>3
      <4>2. CASE j = k
        BY <3>3, <3>7, <4>2
      <4>3. CASE j # k
        BY <3>5, <3>6, <4>1, <4>3 DEF Claimed
      <4> QED
        BY <4>2, <4>3
    <3>9. (held'[q] \cap FilledLegs(q)) \ partial'[q] # {} =>
            q \in open' \/ (state'[q] = "ABORTED" /\ ~unwound'[q])
      <4> SUFFICES ASSUME (held'[q] \cap FilledLegs(q)) \ partial'[q] # {}
                   PROVE  q \in open' \/ (state'[q] = "ABORTED" /\ ~unwound'[q])
        OBVIOUS
      <4>1. ~Safe(q, results)
        BY <3>8 DEF Safe
      <4> HIDE DEF TypeOK
      <4> QED
        BY <3>4, <4>1
    <3>10. /\ \A j \in resting'[q] : leg'[q][j] # "none"
           /\ \A j \in resting'[q] : j \in FilledLegs(q) => j \in partial'[q]
      <4> HIDE DEF TypeOK, StageInv, Reserved
      <4> QED
        BY <3>1, <3>2, <3>3 DEF Claimed
    <3> QED
      <4> HIDE DEF TypeOK, StageInv, Reserved
      <4> QED
        BY <3>1, <3>2, <3>5, <3>8, <3>9, <3>10 DEF Claimed, Entering, Early, Told
  <2>17. CASE Settle(q)
    <3>1. /\ pc[q] = "settling" /\ pc'[q] = "recording"
          /\ UNCHANGED <<leg, closing, exchange>> /\ state'[q] = "SETTLED"
      BY <2>17 DEF Settle
    <3> QED
      BY <3>1, ClaimStays DEF Early, Entering, Told
  <2>18. CASE Record(q)
    <3>1. /\ pc[q] = "recording" /\ pc'[q] \in {"recording", "done"}
          /\ UNCHANGED <<leg, closing, exchange, open, state, unwound>>
      BY <2>18 DEF Record
    <3> QED
      BY <3>1, ClaimStays DEF Early, Entering, Told
  <2>19. CASE RecordFails(q)
    <3>1. /\ pc[q] = "recording" /\ pc'[q] = "raised"
          /\ UNCHANGED <<leg, closing, exchange, open, state, unwound>>
      BY <2>19 DEF RecordFails
    <3> QED
      BY <3>1, ClaimStays DEF Early, Entering, Told
  <2>20. CASE \E k \in Legs : LateFill(q, k)
    <3> PICK k \in Legs : LateFill(q, k)
      BY <2>20
    <3>1. /\ k \in resting[q] /\ pc' = pc /\ UNCHANGED <<leg, closing, partial, open, state, unwound>>
          /\ resting'[q] = resting[q] \ {k} /\ held'[q] = held[q] \cup {k}
      BY DEF LateFill
    <3> HIDE DEF TypeOK, StageInv, Reserved
    <3>2. k \notin FilledLegs(q) \ partial[q] /\ FilledLegs(q)' = FilledLegs(q)
      BY <3>1 DEF FilledLegs, Claimed
    <3>3. Told(q)' <=> Told(q)
      BY <3>1 DEF Told
    <3>4. /\ \A j \in FilledLegs(q) \ partial[q] : j \in held'[q] => j \in held[q]
          /\ (held'[q] \cap FilledLegs(q)) \ partial[q] = (held[q] \cap FilledLegs(q)) \ partial[q]
      BY <3>1, <3>2
    <3> HIDE DEF Told
    <3> QED
      BY <3>1, <3>2, <3>3, <3>4 DEF Claimed
  <2>21. CASE Elsewhere(q)
    <3>1. /\ pc'[q] = pc[q] \/ pc'[q] = "lost"
          /\ leg'[q] = leg[q] /\ closing'[q] = closing[q]
          /\ held'[q] = held[q] /\ resting'[q] = resting[q] /\ partial'[q] = partial[q]
          /\ state'[q] = state[q] /\ unwound'[q] = unwound[q]
          /\ q \in open => q \in open' \/ pc'[q] = "lost"
      BY <2>21 DEF Elsewhere
    <3> QED
      BY <3>1, ClaimStays DEF Early, Entering, Told
  <2> QED
    BY <2>0, <2>1, <2>2, <2>3, <2>4, <2>5, <2>6, <2>7, <2>8, <2>9, <2>10, <2>11,
       <2>12, <2>13, <2>14, <2>15, <2>16, <2>17, <2>18, <2>19, <2>20, <2>21 DEF Own
<1>3. Inv => ClaimIsHonest
  BY DEF Claimed, ClaimIsHonest, Told
<1> HIDE DEF Inv, Registered
<1>4. Spec => []Registered
  BY ReservedHolds DEF Registered
<1> QED
  BY <1>1, <1>2, <1>3, <1>4, StageHolds, PTL DEF Spec

-----------------------------------------------------------------------------
(* A run that is neither cut off nor in the middle of an order knows of    *)
(* every leg that is on, if none stays pending: only the rest of an order  *)
(* filled in part is still live.                                           *)
Answered(p) ==
  /\ pc[p] \in Early => leg[p][2] = "none"
  /\ pc[p] \notin {"raised", "lost"} =>
       held[p] \subseteq FilledLegs(p) /\ resting[p] \subseteq FilledLegs(p)

LEMMA AnsweredStays ==
  ASSUME NEW q \in Pkgs, Answered(q),
         leg'[q] = leg[q], held'[q] = held[q], resting'[q] = resting[q],
         pc'[q] \in Early => pc[q] \in Early,
         pc'[q] \notin {"raised", "lost"} => pc[q] \notin {"raised", "lost"}
  PROVE  Answered(q)'
<1>1. FilledLegs(q)' = FilledLegs(q)
  BY DEF FilledLegs
<1> QED
  BY <1>1 DEF Answered

(* When the exchange leaves no order pending past the polls, a run that    *)
(* ends without an error and without an order filled in part leaves both   *)
(* legs on or none, or its package says that it is aborted and not unwound.*)
THEOREM NakedLegTold ==
  ASSUME "pending" \notin Answers
  PROVE  Spec => [](\A p \in Pkgs : pc[p] = "done" /\ partial[p] = {} =>
                      \/ held[p] \in {{}, Legs}
                      \/ state[p] = "ABORTED" /\ ~unwound[p])
<1> DEFINE Inv == \A p \in Pkgs : Answered(p)
           Registered == \A p \in Pkgs : Reserved(p)
           Ended == \A p \in Pkgs : pc[p] = "done" /\ partial[p] = {} =>
                      \/ held[p] \in {{}, Legs}
                      \/ state[p] = "ABORTED" /\ ~unwound[p]
<1>1. Init => Inv
  BY DEF Init, Answered, Early, FilledLegs, Legs
<1>2. TypeOK /\ Inv /\ [Next]_vars => Inv'
  <2> SUFFICES ASSUME TypeOK, Inv, [Next]_vars, NEW q \in Pkgs PROVE Answered(q)'
    OBVIOUS
  <2>0. Own(q) \/ Elsewhere(q)
    BY StepOfRun
  <2>q. Answered(q)
    OBVIOUS
  <2> USE <2>q
  <2> USE DEF Goto, package, registry, exchange, gate, TypeOK
  <2>1. CASE \E a \in Assets : Begin(q, a)
    BY <2>1, AnsweredStays DEF Begin, Early
  <2>2. CASE Propose(q)
    BY <2>2, AnsweredStays DEF Propose, Early
  <2>3. CASE GiveUp(q)
    BY <2>3, AnsweredStays DEF GiveUp, Early
  <2>4. CASE LogLeg(q)
    BY <2>4, AnsweredStays DEF LogLeg, Early
  <2>5. CASE LogFails(q)
    BY <2>5, AnsweredStays DEF LogFails, Early
  <2>6. CASE SubmitLeg(q)
    BY <2>6, AnsweredStays DEF SubmitLeg, Early
  <2>7. CASE RefuseLeg(q)
    BY <2>7, AnsweredStays DEF RefuseLeg, Early
  <2>8. CASE Lock(q)
    BY <2>8, AnsweredStays DEF Lock, Early
  <2>9. CASE Abort(q)
    BY <2>9, AnsweredStays DEF Abort, Release, Early
  <2>10. CASE StartUnwind(q)
    BY <2>10, AnsweredStays DEF StartUnwind, Early
  <2>11. CASE SubmitUnwind(q)
    BY <2>11, AnsweredStays DEF SubmitUnwind, Early
  <2>12. CASE RefuseUnwind(q)
    BY <2>12, AnsweredStays DEF RefuseUnwind, Early
  <2>13. CASE Settle(q)
    BY <2>13, AnsweredStays DEF Settle, Release, Early
  <2>14. CASE Record(q)
    BY <2>14, AnsweredStays DEF Record, Early
  <2>15. CASE RecordFails(q)
    BY <2>15, AnsweredStays DEF RecordFails, Early
  <2>16. CASE LegErrors(q)
    <3>1. pc[q] = "opening" /\ pc'[q] = "raised" /\ leg'[q] = leg[q]
      BY <2>16 DEF LegErrors
    <3> QED
      BY <3>1 DEF Answered, Early
  <2>17. CASE UnwindErrors(q)
    <3>1. pc[q] = "closing" /\ pc'[q] = "raised" /\ leg'[q] = leg[q] /\ resting'[q] = resting[q]
      BY <2>17 DEF UnwindErrors
    <3> QED
      BY <3>1 DEF Answered, Early
  <2>18. ASSUME NEW answer \in Answers, NEW part \in BOOLEAN,
                LegAnswers(q, answer, part)
         PROVE  Answered(q)'
    <3> DEFINE k == NextLeg(q)
               filled == answer \in Fills
    <3>1. answer # "pending"
      OBVIOUS
    <3>2. /\ pc[q] = "opening"
          /\ pc'[q] = IF k = 2 THEN "resolving" ELSE "dispatching"
          /\ leg'[q] = [leg[q] EXCEPT ![k] = IF answer \in {"clean", "unpriced"} THEN answer
                                             ELSE IF filled THEN "breached" ELSE "unfilled"]
          /\ held'[q] \subseteq IF filled THEN held[q] \cup {k} ELSE held[q]
          /\ resting'[q] \subseteq IF filled THEN resting[q] \cup {k} ELSE resting[q]
      BY <2>18, <3>1 DEF LegAnswers
    <3>3. leg[q][2] = "none" /\ held[q] \subseteq FilledLegs(q) /\ resting[q] \subseteq FilledLegs(q)
      BY <3>2 DEF Answered, Early
    <3>4. k \in Legs /\ leg[q][k] = "none" /\ leg[q] \in [Legs -> Results]
      BY <3>3 DEF NextLeg, Legs
    <3>5. \A j \in Legs : j # k => leg'[q][j] = leg[q][j]
      BY <3>2, <3>4
    <3>6. filled => leg'[q][k] \notin {"none", "unfilled"}
      BY <3>2, <3>4
    <3>7. k \notin FilledLegs(q)
      BY <3>4 DEF FilledLegs
    <3>8. FilledLegs(q) \subseteq FilledLegs(q)' /\ (filled => k \in FilledLegs(q)')
      <4> HIDE DEF k, filled
      <4> QED
        BY <3>4, <3>5, <3>6, <3>7 DEF FilledLegs
    <3>9. held'[q] \subseteq FilledLegs(q)' /\ resting'[q] \subseteq FilledLegs(q)'
      <4> HIDE DEF k, filled
      <4> QED
        BY <3>2, <3>3, <3>8
    <3>10. pc'[q] \in Early => leg'[q][2] = "none"
      BY <3>2, <3>3, <3>4, <3>5 DEF Early, Legs
    <3> QED
      BY <3>9, <3>10 DEF Answered
  <2>19. ASSUME NEW answer \in Answers, NEW part \in BOOLEAN,
                UnwindAnswers(q, answer, part)
         PROVE  Answered(q)'
    <3>1. /\ pc[q] = "closing" /\ pc'[q] \in {"done", "unwinding"}
          /\ leg'[q] = leg[q] /\ resting'[q] = resting[q] /\ held'[q] \subseteq held[q]
      BY <2>19 DEF UnwindAnswers
    <3>2. FilledLegs(q)' = FilledLegs(q)
      BY <3>1 DEF FilledLegs
    <3> QED
      BY <3>1, <3>2 DEF Answered, Early
  <2>20. ASSUME NEW k \in Legs, LateFill(q, k) PROVE Answered(q)'
    <3>1. /\ k \in resting[q] /\ pc' = pc /\ leg' = leg
          /\ resting'[q] \subseteq resting[q] /\ held'[q] = held[q] \cup {k}
      BY <2>20 DEF LateFill
    <3>2. FilledLegs(q)' = FilledLegs(q)
      BY <3>1 DEF FilledLegs
    <3> QED
      BY <3>1, <3>2 DEF Answered
  <2>21. CASE Elsewhere(q)
    BY <2>21, AnsweredStays DEF Elsewhere, Early
  <2> QED
    BY <2>0, <2>1, <2>2, <2>3, <2>4, <2>5, <2>6, <2>7, <2>8, <2>9, <2>10, <2>11, <2>12, <2>13,
       <2>14, <2>15, <2>16, <2>17, <2>18, <2>19, <2>20, <2>21
    DEF Own
<1>3. TypeOK /\ Inv /\ Registered /\ LockedUnbreached /\ ClaimIsHonest => Ended
  <2> SUFFICES ASSUME TypeOK, Inv, Registered, LockedUnbreached, ClaimIsHonest,
                      NEW p \in Pkgs, pc[p] = "done", partial[p] = {}, held[p] # {}
               PROVE  held[p] = Legs \/ (state[p] = "ABORTED" /\ ~unwound[p])
    OBVIOUS
  <2>1. held[p] \subseteq FilledLegs(p)
    BY DEF Answered
  <2>2. p \notin open
    BY DEF Reserved, Reserving
  <2>3. state[p] = "SETTLED" \/ (state[p] = "ABORTED" /\ ~unwound[p])
    BY <2>1, <2>2 DEF ClaimIsHonest
  <2> QED
    BY <2>3 DEF LockedUnbreached
<1> HIDE DEF Inv, Registered, Ended
<1>4. Spec => []Inv
  BY <1>1, <1>2, PackageTypeCorrect, PTL DEF Spec
<1>5. Spec => []Registered
  BY ReservedHolds DEF Registered
<1>6. Spec => []Ended
  BY <1>3, <1>4, <1>5, LockHolds, ClaimHolds, PackageTypeCorrect, PTL
<1> QED
  BY <1>6 DEF Ended

-----------------------------------------------------------------------------
(* The package's state follows the run: pending from its proposal to its   *)
(* last answer, locked while it settles; only an aborted package says it is*)
(* unwound, and no closing leg has answered before the unwind.             *)
Coursed(p) ==
  /\ pc[p] \in {"idle", "fetching"} => state[p] = "none"
  /\ pc[p] \in Reserving \ {"settling"} => state[p] = "PENDING_FILL"
  /\ pc[p] = "settling" => state[p] = "LOCKED"
  /\ unwound[p] => state[p] = "ABORTED"
  /\ pc[p] \in {"idle", "fetching", "logging", "dispatching", "opening", "resolving"} =>
       \A k \in Legs : closing[p][k] = "none"

LEMMA CourseHolds == Spec => [](\A p \in Pkgs : Coursed(p))
<1> DEFINE Inv == \A p \in Pkgs : Coursed(p)
<1>1. Init => Inv
  BY DEF Init, Coursed, Reserving
<1>2. TypeOK /\ StageInv /\ Inv /\ [Next]_vars => Inv'
  <2> SUFFICES ASSUME TypeOK, StageInv, Inv, [Next]_vars, NEW q \in Pkgs PROVE Coursed(q)'
    OBVIOUS
  <2>0. Own(q) \/ Elsewhere(q)
    BY StepOfRun
  <2> USE DEF Goto, package, registry, exchange, gate, TypeOK, StageInv, Coursed, Reserving
  <2>1. CASE \E a \in Assets : Begin(q, a)
    BY <2>1 DEF Begin
  <2>2. CASE Propose(q)
    BY <2>2 DEF Propose
  <2>3. CASE GiveUp(q)
    BY <2>3 DEF GiveUp
  <2>4. CASE LogLeg(q)
    BY <2>4 DEF LogLeg
  <2>5. CASE LogFails(q)
    BY <2>5 DEF LogFails
  <2>6. CASE SubmitLeg(q)
    BY <2>6 DEF SubmitLeg
  <2>7. CASE RefuseLeg(q)
    BY <2>7 DEF RefuseLeg
  <2>8. CASE Lock(q)
    BY <2>8 DEF Lock
  <2>9. CASE Abort(q)
    BY <2>9 DEF Abort, Release
  <2>10. CASE StartUnwind(q)
    BY <2>10 DEF StartUnwind
  <2>11. CASE SubmitUnwind(q)
    BY <2>11 DEF SubmitUnwind
  <2>12. CASE RefuseUnwind(q)
    BY <2>12 DEF RefuseUnwind
  <2>13. CASE LegErrors(q)
    BY <2>13 DEF LegErrors
  <2>14. CASE UnwindErrors(q)
    BY <2>14 DEF UnwindErrors
  <2>15. CASE \E answer \in Answers, part \in BOOLEAN : LegAnswers(q, answer, part)
    BY <2>15 DEF LegAnswers
  <2>16. CASE \E answer \in Answers, part \in BOOLEAN : UnwindAnswers(q, answer, part)
    BY <2>16 DEF UnwindAnswers, Release
  <2>17. CASE Settle(q)
    BY <2>17 DEF Settle, Release
  <2>18. CASE Record(q)
    BY <2>18 DEF Record
  <2>19. CASE RecordFails(q)
    BY <2>19 DEF RecordFails
  <2>20. CASE \E k \in Legs : LateFill(q, k)
    BY <2>20 DEF LateFill
  <2>21. CASE Elsewhere(q)
    BY <2>21 DEF Elsewhere
  <2> HIDE DEF Coursed
  <2> QED
    BY <2>0, <2>1, <2>2, <2>3, <2>4, <2>5, <2>6, <2>7, <2>8, <2>9, <2>10, <2>11,
       <2>12, <2>13, <2>14, <2>15, <2>16, <2>17, <2>18, <2>19, <2>20, <2>21 DEF Own
<1> HIDE DEF Inv
<1>3. Spec => []Inv
  BY <1>1, <1>2, StageHolds, PTL DEF Spec
<1> QED
  BY <1>3 DEF Inv

(* The state the abstract lifecycle sees.                                  *)
OnLegs == [p \in Pkgs |-> KnownOn(p)]
SafePkgs == {p \in Pkgs : unwound[p]}
Course == <<state, open, OnLegs, SafePkgs>>

(* A step that leaves the packages' records and the registry alone is a    *)
(* stuttering step of the lifecycle.                                       *)
LEMMA QuietStep ==
  ASSUME UNCHANGED <<leg, closing, state, unwound, open>>
  PROVE  UNCHANGED Course
BY DEF Course, OnLegs, SafePkgs, KnownOn, FilledLegs

(* A leg answers, or a closing leg does that is not the last.              *)
LEMMA AnswersMove ==
  ASSUME TypeOK, NEW p \in open, state[p] = "PENDING_FILL",
         UNCHANGED <<state, open, unwound>>,
         \A q \in Pkgs \ {p} : leg'[q] = leg[q] /\ closing'[q] = closing[q]
  PROVE  Life!MoveLegs
<1>1. \A q \in Pkgs \ {p} : KnownOn(q)' = KnownOn(q)
  BY DEF KnownOn, FilledLegs
<1>2. KnownOn(p)' \subseteq Legs
  BY DEF KnownOn, FilledLegs
<1>3. \A q \in Pkgs : OnLegs'[q] # OnLegs[q] => q = p /\ OnLegs'[q] \subseteq Legs
  BY <1>1, <1>2 DEF OnLegs
<1>4. SafePkgs' = SafePkgs
  BY DEF SafePkgs
<1> QED
  BY <1>3, <1>4 DEF Life!MoveLegs, Life!Pending, OnLegs, SafePkgs

(* An abort, with the last closing leg or without one.                     *)
LEMMA AbortEnds ==
  ASSUME TypeOK, NEW p \in open, state[p] = "PENDING_FILL", ~unwound[p],
         state' = [state EXCEPT ![p] = "ABORTED"],
         open' = open \ {p},
         \A q \in Pkgs \ {p} : KnownOn(q)' = KnownOn(q) /\ unwound'[q] = unwound[q],
         KnownOn(p)' \subseteq KnownOn(p),
         unwound'[p] => KnownOn(p)' = {}
  PROVE  Life!Abort(p)
<1>0. p \in Pkgs
  BY DEF TypeOK
<1>1. OnLegs' = [OnLegs EXCEPT ![p] = KnownOn(p)']
  BY <1>0 DEF OnLegs
<1>2. KnownOn(p)' \in SUBSET OnLegs[p]
  BY <1>0 DEF OnLegs
<1>3. SafePkgs' = SafePkgs \/ (SafePkgs' = SafePkgs \cup {p} /\ KnownOn(p)' = {})
  BY <1>0 DEF SafePkgs
<1> QED
  BY <1>1, <1>2, <1>3 DEF Life!Abort, Life!Pending, OnLegs, SafePkgs

(* Every run of the coroutine, whatever fails or restarts, keeps the       *)
(* lifecycle that multi_leg.py gives a package: locked with every leg known*)
(* to be on, said to be unwound with none, and still once ended or lost.   *)
THEOREM LifecycleHolds == Spec => LifecycleKept
<1> DEFINE Registered == \A p \in Pkgs : Reserved(p)
<1> DEFINE OnCourse == \A p \in Pkgs : Coursed(p)
<1>1. Init => Life!Init
  BY DEF Init, Life!Init, KnownOn, FilledLegs
<1>2. TypeOK /\ Registered /\ OnCourse /\ [Next]_vars => [Life!Next]_(Life!lifeVars)
  <2> SUFFICES ASSUME TypeOK, Registered, OnCourse, [Next]_vars
               PROVE  Life!Next \/ UNCHANGED Course
    BY DEF Course, OnLegs, SafePkgs, Life!lifeVars
  <2> USE DEF Goto, package, registry, exchange, gate
  <2>0. \A p \in Pkgs : /\ pc[p] \in Reserving \ {"settling"} =>
                             p \in open /\ state[p] = "PENDING_FILL" /\ ~unwound[p]
                        /\ pc[p] = "settling" => p \in open
    BY DEF Coursed, Reserved, Reserving
  <2>1. ASSUME NEW p \in Pkgs, Propose(p) PROVE Life!Propose(p)
    <3>1. UNCHANGED <<leg, closing, unwound>>
      BY <2>1 DEF Propose
    <3>2. UNCHANGED <<OnLegs, SafePkgs>>
      BY <3>1 DEF OnLegs, SafePkgs, KnownOn, FilledLegs
    <3>3. state[p] = "none"
      BY <2>1 DEF Propose, Coursed
    <3>4. /\ Cardinality(open) < MaxOpen
          /\ state' = [state EXCEPT ![p] = "PENDING_FILL"]
          /\ open' = open \cup {p}
      BY <2>1 DEF Propose, CanOpen
    <3>5. Life!Cardinality(open) = Cardinality(open)  (* its own copy of FiniteSets *)
      BY DEF Cardinality, Life!Cardinality
    <3> QED
      BY <3>2, <3>3, <3>4, <3>5 DEF Life!Propose, OnLegs, SafePkgs
  <2>2. ASSUME NEW p \in Pkgs, NEW answer \in Answers, NEW part \in BOOLEAN,
               LegAnswers(p, answer, part)
        PROVE  Life!MoveLegs
    <3>1. pc[p] \in Reserving \ {"settling"} /\ UNCHANGED <<state, open, unwound>>
      BY <2>2 DEF LegAnswers, Reserving
    <3>2. \A q \in Pkgs \ {p} : leg'[q] = leg[q] /\ closing'[q] = closing[q]
      BY <2>2 DEF LegAnswers, TypeOK
    <3> QED
      BY <2>0, <3>1, <3>2, AnswersMove
  <2>3. ASSUME NEW p \in Pkgs, NEW answer \in Answers, NEW part \in BOOLEAN, UnwindAnswers(p, answer, part)
        PROVE  Life!MoveLegs \/ Life!Abort(p)
    <3> DEFINE k == IF 1 \in Unclosed(p) THEN 1 ELSE 2
    <3> DEFINE results == [closing[p] EXCEPT ![k] = IF answer \in Fills
                                                    THEN "filled" ELSE "unfilled"]
    <3>1. p \in open /\ state[p] = "PENDING_FILL" /\ ~unwound[p]
      BY <2>0, <2>3 DEF UnwindAnswers, Reserving
    <3>2. k \in Legs /\ leg' = leg /\ closing' = [closing EXCEPT ![p] = results]
      BY <2>3 DEF UnwindAnswers, Legs
    <3>3. \A q \in Pkgs \ {p} : leg'[q] = leg[q] /\ closing'[q] = closing[q]
      BY <3>2 DEF TypeOK
    <3>4. CASE UNCHANGED <<state, unwound, registry>>
      BY <3>1, <3>3, <3>4, AnswersMove
    <3>5. CASE /\ Unclosed(p) = {k}
               /\ state' = [state EXCEPT ![p] = "ABORTED"]
               /\ unwound' = [unwound EXCEPT ![p] = Safe(p, results)]
               /\ Release(p)
      <4>1. \A q \in Pkgs \ {p} : KnownOn(q)' = KnownOn(q) /\ unwound'[q] = unwound[q]
        BY <3>3, <3>5 DEF KnownOn, FilledLegs, TypeOK
      <4>2. FilledLegs(p)' = FilledLegs(p) /\ closing'[p] = results
        BY <3>2 DEF FilledLegs, TypeOK
      <4>3. closing[p][k] = "none" /\ \A j \in Legs \ {k} : results[j] = closing[p][j]
        BY <3>2, <3>5 DEF Unclosed, TypeOK
      <4> HIDE DEF k, results
      <4>4. KnownOn(p)' \subseteq KnownOn(p)
        BY <4>2, <4>3 DEF KnownOn, FilledLegs
      <4>5. unwound'[p] = Safe(p, results)
        BY <3>5 DEF TypeOK
      <4>6. unwound'[p] => KnownOn(p)' = {}
        BY <4>2, <4>5 DEF KnownOn, Safe
      <4>7. open' = open \ {p}
        BY <3>5 DEF Release
      <4> QED
        BY <3>1, <3>5, <4>1, <4>4, <4>6, <4>7, AbortEnds
    <3> QED
      BY <2>3, <3>4, <3>5 DEF UnwindAnswers
  <2>4. ASSUME NEW p \in Pkgs, Abort(p) PROVE Life!Abort(p)
    <3>1. /\ p \in open /\ state[p] = "PENDING_FILL" /\ ~unwound[p]
          /\ state' = [state EXCEPT ![p] = "ABORTED"] /\ open' = open \ {p}
          /\ UNCHANGED <<leg, closing, unwound>>
      BY <2>0, <2>4 DEF Abort, Release, Reserving
    <3>2. \A q \in Pkgs : KnownOn(q)' = KnownOn(q)
      BY <3>1 DEF KnownOn, FilledLegs
    <3> QED
      BY <3>1, <3>2, AbortEnds
  <2>5. ASSUME NEW p \in Pkgs, Lock(p) PROVE Life!Lock(p)
    <3>1. /\ p \in open /\ state[p] = "PENDING_FILL"
          /\ FilledLegs(p) = Legs /\ \A k \in Legs : closing[p][k] = "none"
          /\ state' = [state EXCEPT ![p] = "LOCKED"]
          /\ UNCHANGED <<leg, closing, unwound, open>>
      BY <2>0, <2>5 DEF Lock, Lockable, Coursed, Reserving
    <3>2. UNCHANGED <<OnLegs, SafePkgs>>
      BY <3>1 DEF OnLegs, SafePkgs, KnownOn, FilledLegs
    <3>3. OnLegs[p] = Legs
      BY <3>1 DEF OnLegs, KnownOn, FilledLegs
    <3> QED
      BY <3>1, <3>2, <3>3 DEF Life!Lock, Life!Pending, OnLegs, SafePkgs
  <2>6. ASSUME NEW p \in Pkgs, Settle(p) PROVE Life!Settle(p)
    <3>1. UNCHANGED <<leg, closing, unwound>>
      BY <2>6 DEF Settle
    <3>2. UNCHANGED <<OnLegs, SafePkgs>>
      BY <3>1 DEF OnLegs, SafePkgs, KnownOn, FilledLegs
    <3> QED
      BY <2>0, <2>6, <3>2 DEF Settle, Release, Life!Settle, OnLegs, SafePkgs
  <2>7. ASSUME Restart PROVE Life!Lose
    <3>1. UNCHANGED <<leg, closing, unwound, state>> /\ open' = {}
      BY <2>7 DEF Restart
    <3>2. UNCHANGED <<OnLegs, SafePkgs>>
      BY <3>1 DEF OnLegs, SafePkgs, KnownOn, FilledLegs
    <3> QED
      BY <3>1, <3>2 DEF Life!Lose, OnLegs, SafePkgs
  <2>8. ASSUME NEW p \in Pkgs,
               \/ \E a \in Assets : Begin(p, a)
               \/ GiveUp(p) \/ LogLeg(p) \/ LogFails(p) \/ SubmitLeg(p) \/ RefuseLeg(p)
               \/ StartUnwind(p) \/ SubmitUnwind(p) \/ RefuseUnwind(p)
               \/ LegErrors(p) \/ UnwindErrors(p) \/ Record(p) \/ RecordFails(p) \/ Age(p)
               \/ \E k \in Legs : LateFill(p, k)
        PROVE  UNCHANGED <<leg, closing, state, unwound, open>>
    BY <2>8 DEF Begin, GiveUp, LogLeg, LogFails, SubmitLeg, RefuseLeg, StartUnwind, SubmitUnwind,
       RefuseUnwind, LegErrors, UnwindErrors, Record, RecordFails, Age, LateFill
  <2>9. ASSUME Operate \/ LossReached \/ CountMoves \/ Midnight \/ UNCHANGED vars
        PROVE  UNCHANGED <<leg, closing, state, unwound, open>>
    BY <2>9 DEF Operate, LossReached, CountMoves, Midnight, vars
  <2> HIDE DEF Registered, OnCourse
  <2> QED
    BY <2>1, <2>2, <2>3, <2>4, <2>5, <2>6, <2>7, <2>8, <2>9, QuietStep DEF Next, Life!Next
<1> HIDE DEF Registered, OnCourse
<1>3. Spec => []Registered
  BY ReservedHolds DEF Registered
<1>4. Spec => []OnCourse
  BY CourseHolds DEF OnCourse
<1> QED
  BY <1>1, <1>2, <1>3, <1>4, StageHolds, PTL DEF Spec, LifecycleKept, Life!Spec

=============================================================================
