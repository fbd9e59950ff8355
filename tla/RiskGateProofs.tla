--------------------------- MODULE RiskGateProofs ---------------------------
(***************************************************************************)
(* Proofs about the risk gate, for every set of callers, every limit and   *)
(* every bound.                                                            *)
(***************************************************************************)
EXTENDS RiskGate, TLAPS

-----------------------------------------------------------------------------
(* Lemmas about ledgers: what overwriting one counter of one day does.     *)

LEMMA BlankLedger == Blank \in Ledger
BY DEF Blank, Ledger

LEMMA BlankValue == \A d \in Days, f \in Fields : Blank[d][f] = 0
BY DEF Blank

LEMMA LedgerValue ==
  ASSUME NEW L \in Ledger, NEW d \in Days, NEW f \in Fields
  PROVE  L[d][f] \in Nat
BY DEF Ledger

LEMMA FieldNames == "trades" \in Fields /\ "loss" \in Fields
BY DEF Fields

LEMMA Overwrite ==
  ASSUME NEW L \in Ledger, NEW d \in Days, NEW f \in Fields, NEW n \in Nat
  PROVE  /\ [L EXCEPT ![d][f] = n] \in Ledger
         /\ [L EXCEPT ![d][f] = n][d][f] = n
         /\ \A e \in Days, g \in Fields :
              e # d \/ g # f => [L EXCEPT ![d][f] = n][e][g] = L[e][g]
BY DEF Ledger

(* The disk either takes the whole new store or keeps what it had.         *)
LEMMA IncrementEffect ==
  ASSUME store \in Ledger, file \in Ledger,
         NEW d \in Days, NEW f \in Fields, NEW n \in Nat, Increment(d, f, n)
  PROVE  /\ store' \in Ledger /\ file' \in Ledger
         /\ store'[d][f] = store[d][f] + n
         /\ \A e \in Days, g \in Fields : e # d \/ g # f => store'[e][g] = store[e][g]
         /\ file' = store' \/ file' = file
<1>1. store[d][f] + n \in Nat
  BY LedgerValue
<1>2. store' = [store EXCEPT ![d][f] = store[d][f] + n]
  BY DEF Increment
<1>3. store' \in Ledger
  BY <1>1, <1>2, Overwrite
<1>4. store'[d][f] = store[d][f] + n
  BY <1>1, <1>2, Overwrite
<1>5. \A e \in Days, g \in Fields : e # d \/ g # f => store'[e][g] = store[e][g]
  BY <1>1, <1>2, Overwrite
<1>6. file' = store' \/ file' = file
  BY DEF Increment
<1> QED
  BY <1>3, <1>4, <1>5, <1>6

(* Booting rehydrates exactly the current day.                             *)
LEMMA RehydrateEffect ==
  ASSUME NEW L \in Ledger, NEW t \in Days
  PROVE  /\ [Blank EXCEPT ![t] = L[t]] \in Ledger
         /\ [Blank EXCEPT ![t] = L[t]][t] = L[t]
         /\ \A e \in Days, f \in Fields : e # t => [Blank EXCEPT ![t] = L[t]][e][f] = 0
<1>0. [Blank EXCEPT ![t] = L[t]] \in Ledger
  BY BlankLedger DEF Ledger
<1>1. [Blank EXCEPT ![t] = L[t]][t] = L[t]
  BY BlankLedger DEF Ledger
<1>2. \A e \in Days, f \in Fields : e # t => [Blank EXCEPT ![t] = L[t]][e][f] = 0
  BY BlankLedger, BlankValue DEF Ledger
<1> QED
  BY <1>0, <1>1, <1>2

-----------------------------------------------------------------------------
(* The model is well typed: whatever the callers, the operator, the disk   *)
(* and the restarts do, the counters stay counters and a call stays a call.*)
THEOREM TypeCorrect == Spec => []TypeOK
<1>1. Init => TypeOK
  <2> SUFFICES ASSUME Init PROVE TypeOK
    OBVIOUS
  <2>1. 0 \in Days
    BY GateAssumption DEF Days
  <2>2. cache \in Ledger /\ store \in Ledger /\ file \in Ledger
    BY BlankLedger DEF Init
  <2>3. pin \in [Callers -> Days] /\ key \in [Callers -> Days] /\ count \in [Callers -> Nat]
    BY <2>1 DEF Init
  <2>4. sent \in [Days -> Nat] /\ booked \in [Days -> Nat]
    BY DEF Init
  <2> QED
    BY <2>1, <2>2, <2>3, <2>4 DEF Init, TypeOK
<1>2. TypeOK /\ [Next]_vars => TypeOK'
  <2> SUFFICES ASSUME TypeOK, [Next]_vars PROVE TypeOK'
    OBVIOUS
  <2> USE DEF TypeOK
  <2>1. ASSUME NEW c \in Callers, StartCycle(c) PROVE TypeOK'
    BY <2>1 DEF StartCycle, gateVars, history
  <2>2. ASSUME NEW c \in Callers, NEW o \in Orders, Screen(c, o) PROVE TypeOK'
    BY <2>2 DEF Screen, gateVars, history
  <2>3. ASSUME NEW c \in Callers, ReadCount(c) PROVE TypeOK'
    <3>1. cache[key[c]]["trades"] + 1 \in Nat
      BY LedgerValue, FieldNames
    <3> QED
      BY <2>3, <3>1 DEF ReadCount, gateVars, history
  <2>4. ASSUME NEW c \in Callers, WriteCount(c) PROVE TypeOK'
    <3>1. cache' \in Ledger
      BY <2>4, Overwrite, FieldNames DEF WriteCount
    <3>2. store' \in Ledger /\ file' \in Ledger
      BY <2>4, IncrementEffect, FieldNames DEF WriteCount
    <3>3. sent' \in [Days -> Nat] /\ key' \in [Callers -> Days] /\ count' \in [Callers -> Nat]
      <4>1. 0 \in Days
        BY GateAssumption DEF Days
      <4> QED
        BY <2>4, <4>1 DEF WriteCount
    <3> QED
      BY <2>4, <3>1, <3>2, <3>3 DEF WriteCount
  <2>5. ASSUME NEW c \in Callers, ReportVolume(c) PROVE TypeOK'
    <3>1. file' \in Ledger
      BY <2>5 DEF ReportVolume
    <3> QED
      BY <2>5, <3>1 DEF ReportVolume, gateVars, callVars, history
  <2>6. ASSUME NEW c \in Callers, NEW l \in Losses, FinishCycle(c, l) PROVE TypeOK'
    <3> DEFINE d == pin[c]
    <3>0. d \in Days /\ l \in Nat
      BY GateAssumption
    <3>1. cache' \in Ledger
      <4>1. cache[d]["loss"] + l \in Nat
        BY <3>0, LedgerValue, FieldNames
      <4>2. [cache EXCEPT ![d]["loss"] = cache[d]["loss"] + l] \in Ledger
        BY <3>0, <4>1, Overwrite, FieldNames
      <4> QED
        BY <2>6, <4>2 DEF FinishCycle, gateVars
    <3>2. store' \in Ledger /\ file' \in Ledger
      <4>1. CASE l = 0
        BY <2>6, <4>1 DEF FinishCycle, gateVars
      <4>2. CASE l # 0
        BY <2>6, <3>0, <4>2, IncrementEffect, FieldNames DEF FinishCycle
      <4> QED
        BY <4>1, <4>2
    <3>3. killed' \in BOOLEAN /\ mustHalt' \in BOOLEAN
      BY <2>6 DEF FinishCycle, Halt, gateVars
    <3>4. booked' \in [Days -> Nat]
      BY <2>6, <3>0 DEF FinishCycle
    <3>5. pc' \in [Callers -> {"idle", "cycle", "screened", "counting"}] /\ pin' \in [Callers -> Days]
      <4>1. 0 \in Days
        BY GateAssumption DEF Days
      <4> QED
        BY <2>6, <4>1 DEF FinishCycle
    <3> QED
      BY <2>6, <3>1, <3>2, <3>3, <3>4, <3>5 DEF FinishCycle
  <2>7. CASE Activate
    BY <2>7 DEF Activate, Halt, callVars
  <2>8. CASE Deactivate
    BY <2>8 DEF Deactivate, callVars
  <2>9. CASE SwitchChainHalt
    BY <2>9 DEF SwitchChainHalt, gateVars, callVars, history
  <2>10. CASE NewDay
    BY <2>10, GateAssumption DEF NewDay, Days, gateVars, callVars, history
  <2>11. CASE Crash
    <3>1. 0 \in Days
      BY GateAssumption DEF Days
    <3> QED
      BY <2>11, <3>1, BlankLedger DEF Crash
  <2>12. CASE Boot
    <3>1. store' \in Ledger /\ cache' \in Ledger
      BY <2>12, BlankLedger, RehydrateEffect DEF Boot
    <3>2. killed' \in BOOLEAN /\ mustHalt' \in BOOLEAN /\ lost' \in BOOLEAN
      BY <2>12 DEF Boot
    <3> QED
      BY <2>12, <3>1, <3>2 DEF Boot, callVars
  <2>13. CASE UNCHANGED vars
    BY <2>13 DEF vars
  <2> QED
    BY <2>1, <2>2, <2>3, <2>4, <2>5, <2>6, <2>7, <2>8, <2>9, <2>10, <2>11, <2>12, <2>13 DEF Next
<1> QED
  BY <1>1, <1>2, PTL DEF Spec

-----------------------------------------------------------------------------
(* Only three kinds of call, midnight and a restart touch the counters.    *)
LEMMA CounterSteps ==
  ASSUME [Next]_vars
  PROVE  \/ UNCHANGED <<up, day, cache, store, file, sent, booked, lost>>
         \/ \E c \in Callers : WriteCount(c) \/ ReportVolume(c) \/ \E l \in Losses : FinishCycle(c, l)
         \/ NewDay \/ Crash \/ Boot
<1>1. ASSUME NEW c \in Callers, StartCycle(c) \/ ReadCount(c) \/ \E o \in Orders : Screen(c, o)
      PROVE  UNCHANGED <<up, day, cache, store, file, sent, booked, lost>>
  BY <1>1 DEF StartCycle, ReadCount, Screen, gateVars, history
<1>2. ASSUME Activate \/ Deactivate \/ SwitchChainHalt \/ UNCHANGED vars
      PROVE  UNCHANGED <<up, day, cache, store, file, sent, booked, lost>>
  BY <1>2 DEF Activate, Deactivate, SwitchChainHalt, gateVars, history, vars
<1> QED
  BY <1>1, <1>2 DEF Next

(* What the store has to know: every approval and every loss.              *)
Knows(L) == \A d \in Days : L[d]["trades"] = sent[d] /\ L[d]["loss"] = booked[d]

(* While the process is down, the file is what knows.                      *)
ExactInv == ~lost => Knows(IF up THEN store ELSE file)

(* How the three counting calls change the store and the history.          *)
LEMMA WriteCountEffect ==
  ASSUME TypeOK, NEW c \in Callers, WriteCount(c)
  PROVE  /\ key[c] \in Days
         /\ store'[key[c]]["trades"] = store[key[c]]["trades"] + 1
         /\ \A e \in Days, g \in Fields :
              e # key[c] \/ g # "trades" => store'[e][g] = store[e][g]
         /\ cache'[key[c]]["trades"] = count[c]
         /\ \A e \in Days, g \in Fields :
              e # key[c] \/ g # "trades" => cache'[e][g] = cache[e][g]
         /\ file' = store' \/ file' = file
         /\ sent' = [sent EXCEPT ![key[c]] = @ + 1]
         /\ UNCHANGED <<up, day, booked, lost>>
<1>1. key[c] \in Days /\ count[c] \in Nat /\ cache \in Ledger /\ store \in Ledger /\ file \in Ledger
  BY DEF TypeOK
<1>2. Increment(key[c], "trades", 1) /\ cache' = [cache EXCEPT ![key[c]]["trades"] = count[c]]
  BY DEF WriteCount
<1>3. /\ store'[key[c]]["trades"] = store[key[c]]["trades"] + 1
      /\ \A e \in Days, g \in Fields :
           e # key[c] \/ g # "trades" => store'[e][g] = store[e][g]
      /\ file' = store' \/ file' = file
  BY <1>1, <1>2, IncrementEffect, FieldNames
<1>4. /\ cache'[key[c]]["trades"] = count[c]
      /\ \A e \in Days, g \in Fields :
           e # key[c] \/ g # "trades" => cache'[e][g] = cache[e][g]
  BY <1>1, <1>2, Overwrite, FieldNames
<1>5. sent' = [sent EXCEPT ![key[c]] = @ + 1] /\ UNCHANGED <<up, day, booked, lost>>
  BY DEF WriteCount
<1> QED
  BY <1>1, <1>3, <1>4, <1>5

LEMMA ReportVolumeEffect ==
  ASSUME NEW c \in Callers, ReportVolume(c)
  PROVE  /\ file' = store \/ file' = file
         /\ UNCHANGED <<up, day, cache, store, sent, booked, lost, raced, pc, pin, key, count>>
BY DEF ReportVolume, gateVars, callVars, history

LEMMA FinishCycleEffect ==
  ASSUME TypeOK, NEW c \in Callers, NEW l \in Losses, FinishCycle(c, l), l # 0
  PROVE  /\ pin[c] \in Days /\ l \in Nat
         /\ store'[pin[c]]["loss"] = store[pin[c]]["loss"] + l
         /\ \A e \in Days, g \in Fields :
              e # pin[c] \/ g # "loss" => store'[e][g] = store[e][g]
         /\ cache'[pin[c]]["loss"] = cache[pin[c]]["loss"] + l
         /\ \A e \in Days, g \in Fields :
              e # pin[c] \/ g # "loss" => cache'[e][g] = cache[e][g]
         /\ file' = store' \/ file' = file
         /\ booked' = [booked EXCEPT ![pin[c]] = @ + l]
         /\ UNCHANGED <<up, day, sent, lost>>
<1>1. pin[c] \in Days /\ l \in Nat /\ cache \in Ledger /\ store \in Ledger /\ file \in Ledger
  BY GateAssumption DEF TypeOK
<1>2. /\ Increment(pin[c], "loss", l)
      /\ cache' = [cache EXCEPT ![pin[c]]["loss"] = cache[pin[c]]["loss"] + l]
  BY DEF FinishCycle
<1>3. /\ store'[pin[c]]["loss"] = store[pin[c]]["loss"] + l
      /\ \A e \in Days, g \in Fields :
           e # pin[c] \/ g # "loss" => store'[e][g] = store[e][g]
      /\ file' = store' \/ file' = file
  BY <1>1, <1>2, IncrementEffect, FieldNames
<1>4. cache[pin[c]]["loss"] + l \in Nat
  BY <1>1, LedgerValue, FieldNames
<1>5. /\ cache'[pin[c]]["loss"] = cache[pin[c]]["loss"] + l
      /\ \A e \in Days, g \in Fields :
           e # pin[c] \/ g # "loss" => cache'[e][g] = cache[e][g]
  <2> DEFINE n == cache[pin[c]]["loss"] + l
             d == pin[c]
  <2>1. n \in Nat /\ d \in Days /\ cache' = [cache EXCEPT ![d]["loss"] = n]
    BY <1>1, <1>2, <1>4
  <2> HIDE DEF n, d
  <2>2. /\ cache'[d]["loss"] = n
        /\ \A e \in Days, g \in Fields : e # d \/ g # "loss" => cache'[e][g] = cache[e][g]
    <3>1. cache \in Ledger /\ "loss" \in Fields
      BY <1>1, FieldNames
    <3>2. /\ [cache EXCEPT ![d]["loss"] = n][d]["loss"] = n
          /\ \A e \in Days, g \in Fields :
               e # d \/ g # "loss" => [cache EXCEPT ![d]["loss"] = n][e][g] = cache[e][g]
      BY <2>1, <3>1, Overwrite
    <3> QED
      BY <2>1, <3>2
  <2> QED
    BY <2>2 DEF n, d
<1>6. booked' = [booked EXCEPT ![pin[c]] = @ + l] /\ UNCHANGED <<up, day, sent, lost>>
  BY DEF FinishCycle
<1> QED
  BY <1>1, <1>3, <1>5, <1>6

(* The store is exact until a restart loses counts: it never matters how   *)
(* many file writes failed, only whether the last one before a crash did.  *)
THEOREM StoreExact == Spec => []StoreIsExact
<1>1. Init => ExactInv
  BY BlankValue, FieldNames DEF Init, ExactInv, Knows
<1>2. TypeOK /\ ExactInv /\ [Next]_vars => ExactInv'
  <2> SUFFICES ASSUME TypeOK, ExactInv, [Next]_vars, ~lost' PROVE Knows(IF up THEN store ELSE file)'
    BY DEF ExactInv
  <2> USE FieldNames
  <2>1. CASE UNCHANGED <<up, day, cache, store, file, sent, booked, lost>>
    BY <2>1 DEF ExactInv, Knows
  <2>2. ASSUME NEW c \in Callers, WriteCount(c) PROVE Knows(IF up THEN store ELSE file)'
    <3>1. up /\ up'
      BY <2>2 DEF WriteCount
    <3> QED
      BY <2>2, <3>1, WriteCountEffect DEF ExactInv, Knows, TypeOK
  <2>3. ASSUME NEW c \in Callers, ReportVolume(c) PROVE Knows(IF up THEN store ELSE file)'
    <3>1. up /\ up'
      BY <2>3 DEF ReportVolume
    <3> QED
      BY <2>3, <3>1, ReportVolumeEffect DEF ExactInv, Knows, TypeOK
  <2>4. ASSUME NEW c \in Callers, NEW l \in Losses, FinishCycle(c, l)
        PROVE  Knows(IF up THEN store ELSE file)'
    <3>1. up /\ up' /\ UNCHANGED <<sent, lost>>
      BY <2>4 DEF FinishCycle
    <3>2. CASE l = 0
      BY <2>4, <3>1, <3>2 DEF FinishCycle, gateVars, ExactInv, Knows
    <3>3. CASE l # 0
      BY <2>4, <3>1, <3>3, FinishCycleEffect DEF ExactInv, Knows, TypeOK
    <3> QED
      BY <3>2, <3>3
  <2>5. CASE NewDay
    BY <2>5 DEF NewDay, gateVars, history, ExactInv, Knows
  <2>6. CASE Crash
    BY <2>6 DEF Crash, ExactInv, Knows
  <2>7. CASE Boot
    <3>1. store' = file
      BY <2>7 DEF Boot
    <3>2. ~lost
      BY <2>7 DEF Boot
    <3> QED
      BY <2>7, <3>1, <3>2 DEF Boot, ExactInv, Knows
  <2> QED
    BY CounterSteps, <2>1, <2>2, <2>3, <2>4, <2>5, <2>6, <2>7
<1>3. ExactInv => StoreIsExact
  BY DEF ExactInv, Knows, StoreIsExact
<1> QED
  BY <1>1, <1>2, <1>3, TypeCorrect, PTL DEF Spec

-----------------------------------------------------------------------------
(* Days to come are blank everywhere, and no call refers to one.           *)
FreshInv ==
  /\ \A d \in Days, f \in Fields :
       d > day => cache[d][f] = 0 /\ store[d][f] = 0 /\ file[d][f] = 0
  /\ \A c \in Callers : pin[c] <= day /\ key[c] <= day

LEMMA FreshHolds == Spec => []FreshInv
<1>1. Init => FreshInv
  BY BlankValue DEF Init, FreshInv, Days
<1>2. TypeOK /\ FreshInv /\ [Next]_vars => FreshInv'
  <2> SUFFICES ASSUME TypeOK, FreshInv, [Next]_vars PROVE FreshInv'
    OBVIOUS
  <2>0. day \in Nat /\ \A d \in Days : d \in Nat
    BY GateAssumption DEF TypeOK, Days
  <2>1. ASSUME NEW c \in Callers, StartCycle(c) PROVE FreshInv'
    BY <2>0, <2>1 DEF StartCycle, gateVars, FreshInv, TypeOK
  <2>2. ASSUME NEW c \in Callers, NEW o \in Orders, Screen(c, o) PROVE FreshInv'
    BY <2>0, <2>2 DEF Screen, gateVars, FreshInv, TypeOK
  <2>3. ASSUME NEW c \in Callers, ReadCount(c) PROVE FreshInv'
    BY <2>3 DEF ReadCount, gateVars, FreshInv
  <2>4. ASSUME NEW c \in Callers, WriteCount(c) PROVE FreshInv'
    <3>1. \A a \in Callers : pin'[a] <= day' /\ key'[a] <= day'
      BY <2>0, <2>4 DEF WriteCount, FreshInv, TypeOK
    <3>2. key[c] <= day
      BY DEF FreshInv
    <3> QED
      BY <2>0, <2>4, <3>1, <3>2, WriteCountEffect DEF FreshInv
  <2>5. ASSUME NEW c \in Callers, ReportVolume(c) PROVE FreshInv'
    BY <2>0, <2>5, ReportVolumeEffect DEF FreshInv
  <2>6. ASSUME NEW c \in Callers, NEW l \in Losses, FinishCycle(c, l) PROVE FreshInv'
    <3>1. \A a \in Callers : pin'[a] <= day' /\ key'[a] <= day'
      BY <2>0, <2>6 DEF FinishCycle, FreshInv, TypeOK
    <3>2. CASE l = 0
      BY <2>6, <3>1, <3>2 DEF FinishCycle, gateVars, FreshInv
    <3>3. CASE l # 0
      <4>1. pin[c] <= day
        BY DEF FreshInv
      <4> QED
        BY <2>0, <2>6, <3>1, <3>3, <4>1, FinishCycleEffect DEF FreshInv
    <3> QED
      BY <3>2, <3>3
  <2>7. CASE Activate \/ Deactivate \/ SwitchChainHalt \/ UNCHANGED vars
    BY <2>7 DEF Activate, Deactivate, SwitchChainHalt, gateVars, callVars, vars, FreshInv
  <2>8. CASE NewDay
    <3>1. \A a \in Callers : pin[a] \in Nat /\ key[a] \in Nat
      BY <2>0 DEF TypeOK
    <3> QED
      BY <2>0, <2>8, <3>1 DEF NewDay, gateVars, callVars, FreshInv
  <2>9. CASE Crash
    <3>1. /\ day' = day /\ cache' = Blank /\ store' = Blank /\ file' = file
          /\ \A a \in Callers : pin'[a] = 0 /\ key'[a] = 0
      BY <2>9 DEF Crash
    <3> QED
      BY <2>0, <3>1, BlankValue DEF FreshInv
  <2>10. CASE Boot
    <3>1. day' = day /\ file' = file /\ pin' = pin /\ key' = key
      BY <2>10 DEF Boot, callVars
    <3>2. \A d \in Days, f \in Fields : d > day => store'[d][f] = 0
      BY <2>10, BlankValue DEF Boot, FreshInv
    <3>3. \A d \in Days, f \in Fields : d # day => cache'[d][f] = 0
      <4>1. store' \in Ledger /\ cache' = [Blank EXCEPT ![day] = store'[day]]
        BY <2>10, BlankLedger DEF Boot, TypeOK
      <4>2. \A e \in Days, f \in Fields : e # day => [Blank EXCEPT ![day] = store'[day]][e][f] = 0
        <5>1. day \in Days
          BY DEF TypeOK
        <5> QED
          BY <4>1, <5>1, RehydrateEffect
      <4> QED
        BY <4>1, <4>2
    <3> QED
      BY <2>0, <3>1, <3>2, <3>3 DEF FreshInv
  <2> QED
    BY <2>1, <2>2, <2>3, <2>4, <2>5, <2>6, <2>7, <2>8, <2>9, <2>10 DEF Next
<1> QED
  BY <1>1, <1>2, TypeCorrect, PTL DEF Spec

-----------------------------------------------------------------------------
(* The days a running process can still be asked about - today, and the    *)
(* days its cycles pinned - have their losses in the cache.                *)
Follows(d) == cache[d]["loss"] = store[d]["loss"]

LossInv ==
  /\ ~up => \A c \in Callers : pc[c] = "idle"
  /\ up => Follows(day) /\ \A c \in Callers : pc[c] # "idle" => Follows(pin[c])

LEMMA LossInvHolds == Spec => []LossInv
<1>1. Init => LossInv
  BY DEF Init, LossInv, Follows
<1>2. TypeOK /\ FreshInv /\ LossInv /\ [Next]_vars => LossInv'
  <2> SUFFICES ASSUME TypeOK, FreshInv, LossInv, [Next]_vars PROVE LossInv'
    OBVIOUS
  <2> USE FieldNames
  <2>1. ASSUME NEW c \in Callers, StartCycle(c) PROVE LossInv'
    BY <2>1 DEF StartCycle, gateVars, LossInv, Follows, TypeOK
  <2>2. ASSUME NEW c \in Callers, NEW o \in Orders, Screen(c, o) PROVE LossInv'
    BY <2>2 DEF Screen, gateVars, LossInv, Follows, TypeOK
  <2>3. ASSUME NEW c \in Callers, ReadCount(c) PROVE LossInv'
    BY <2>3 DEF ReadCount, gateVars, LossInv, Follows, TypeOK
  <2>4. ASSUME NEW c \in Callers, WriteCount(c) PROVE LossInv'
    <3>1. up' /\ pin' = pin /\ \A a \in Callers : pc'[a] # "idle" => pc[a] # "idle"
      BY <2>4 DEF WriteCount, TypeOK
    <3>2. \A d \in Days : Follows(d) => Follows(d)'
      BY <2>4, WriteCountEffect DEF Follows
    <3>3. up /\ day' = day
      BY <2>4, WriteCountEffect DEF WriteCount
    <3>4. day \in Days /\ \A a \in Callers : pin[a] \in Days
      BY DEF TypeOK
    <3> HIDE DEF Follows
    <3> QED
      BY <3>1, <3>2, <3>3, <3>4 DEF LossInv
  <2>5. ASSUME NEW c \in Callers, ReportVolume(c) PROVE LossInv'
    BY <2>5, ReportVolumeEffect DEF LossInv, Follows
  <2>6. ASSUME NEW c \in Callers, NEW l \in Losses, FinishCycle(c, l) PROVE LossInv'
    <3>1. /\ up /\ up' /\ day' = day
          /\ \A a \in Callers : pc'[a] # "idle" => pc[a] # "idle" /\ pin'[a] = pin[a]
      BY <2>6 DEF FinishCycle, TypeOK
    <3>2. CASE l = 0
      BY <2>6, <3>1, <3>2 DEF FinishCycle, gateVars, LossInv, Follows
    <3>3. CASE l # 0
      <4>1. \A d \in Days : Follows(d) => Follows(d)'
        BY <2>6, <3>3, FinishCycleEffect DEF Follows
      <4> QED
        BY <3>1, <4>1 DEF LossInv, TypeOK
    <3> QED
      BY <3>2, <3>3
  <2>7. CASE Activate \/ Deactivate \/ SwitchChainHalt \/ UNCHANGED vars
    BY <2>7 DEF Activate, Deactivate, SwitchChainHalt, gateVars, callVars, vars, LossInv, Follows
  <2>8. CASE NewDay
    <3>1. UNCHANGED <<up, cache, store, pc, pin>> /\ day' = day + 1 /\ day' \in Days
      BY <2>8, GateAssumption DEF NewDay, gateVars, callVars, TypeOK, Days
    <3>2. Follows(day')
      BY <3>1, GateAssumption DEF FreshInv, Follows, TypeOK, Days
    <3> QED
      BY <3>1, <3>2 DEF LossInv, Follows
  <2>9. CASE Crash
    BY <2>9 DEF Crash, LossInv
  <2>10. CASE Boot
    <3>1. store' \in Ledger /\ cache' = [Blank EXCEPT ![day] = store'[day]]
      BY <2>10, BlankLedger DEF Boot, TypeOK
    <3>2. [Blank EXCEPT ![day] = store'[day]][day] = store'[day]
      BY <3>1, RehydrateEffect DEF TypeOK
    <3> QED
      BY <2>10, <3>1, <3>2 DEF Boot, callVars, LossInv, Follows
  <2> QED
    BY <2>1, <2>2, <2>3, <2>4, <2>5, <2>6, <2>7, <2>8, <2>9, <2>10 DEF Next
<1> QED
  BY <1>1, <1>2, TypeCorrect, FreshHolds, PTL DEF Spec

(* Every loss of today, and of any day a running cycle is pinned to, is    *)
(* visible to check_order and report_loss, over restarts and midnights.    *)
THEOREM LossVisible == Spec => []LossIsVisible
<1>1. TypeOK /\ StoreIsExact /\ LossInv => LossIsVisible
  BY DEF TypeOK, StoreIsExact, LossInv, Follows, LossIsVisible
<1> QED
  BY <1>1, TypeCorrect, StoreExact, LossInvHolds, PTL

(* A breached day admits no order, whatever restarts and deactivations     *)
(* follow the breach.                                                      *)
THEOREM BreachBlocks == Spec => []BreachedDayAdmitsNothing
<1>1. TypeOK /\ LossIsVisible => BreachedDayAdmitsNothing
  BY GateAssumption DEF TypeOK, LossIsVisible, BreachedDayAdmitsNothing, Verdict, Order,
                        EarlyFaults, LateFaults
<1> QED
  BY <1>1, TypeCorrect, LossVisible, PTL

-----------------------------------------------------------------------------
(* A caller that has read the count holds at most one more than the store. *)
AheadInv ==
  /\ up => \A d \in Days, f \in Fields : cache[d][f] <= store[d][f]
  /\ \A c \in Callers : pc[c] = "counting" => count[c] <= store[key[c]]["trades"] + 1

(* Racing callers of check_order lose counts from the cache and never      *)
(* invent them, whatever the number of callers.                            *)
THEOREM NeverAhead == Spec => []CacheNeverAhead
<1>1. Init => AheadInv
  BY BlankValue DEF Init, AheadInv
<1>2. TypeOK /\ LossInv /\ AheadInv /\ [Next]_vars => AheadInv'
  <2> SUFFICES ASSUME TypeOK, LossInv, AheadInv, [Next]_vars PROVE AheadInv'
    OBVIOUS
  <2> USE FieldNames
  <2>0. \A d \in Days, f \in Fields : cache[d][f] \in Nat /\ store[d][f] \in Nat
    BY LedgerValue DEF TypeOK
  <2>1. ASSUME NEW c \in Callers, StartCycle(c) PROVE AheadInv'
    BY <2>1 DEF StartCycle, gateVars, AheadInv, TypeOK
  <2>2. ASSUME NEW c \in Callers, NEW o \in Orders, Screen(c, o) PROVE AheadInv'
    <3>1. \A a \in Callers : pc'[a] = "counting" => pc[a] = "counting" /\ key'[a] = key[a]
      BY <2>2 DEF Screen, TypeOK
    <3> QED
      BY <2>2, <3>1 DEF Screen, gateVars, AheadInv
  <2>3. ASSUME NEW c \in Callers, ReadCount(c) PROVE AheadInv'
    <3>1. UNCHANGED <<up, cache, store, key>>
      BY <2>3 DEF ReadCount, gateVars
    <3>2. up /\ key[c] \in Days /\ count'[c] = cache[key[c]]["trades"] + 1
      BY <2>3 DEF ReadCount, TypeOK
    <3>3. count'[c] <= store[key[c]]["trades"] + 1
      BY <2>0, <3>2 DEF AheadInv
    <3>4. \A a \in Callers : a # c => pc'[a] = pc[a] /\ count'[a] = count[a]
      BY <2>3 DEF ReadCount, TypeOK
    <3> QED
      BY <3>1, <3>3, <3>4 DEF AheadInv
  <2>4. ASSUME NEW c \in Callers, WriteCount(c) PROVE AheadInv'
    <3>1. count[c] <= store[key[c]]["trades"] + 1
      BY <2>4 DEF WriteCount, AheadInv
    <3>2. \A d \in Days, f \in Fields : store'[d][f] >= store[d][f]
      BY <2>0, <2>4, WriteCountEffect
    <3>3. \A d \in Days, f \in Fields : cache'[d][f] <= store'[d][f]
      <4>1. up /\ \A d \in Days, f \in Fields : cache[d][f] <= store[d][f]
        BY <2>4 DEF WriteCount, AheadInv
      <4>2. cache'[key[c]]["trades"] <= store'[key[c]]["trades"]
        BY <2>4, <3>1, WriteCountEffect
      <4>3. ASSUME NEW d \in Days, NEW f \in Fields, d # key[c] \/ f # "trades"
            PROVE  cache'[d][f] <= store'[d][f]
        <5>1. cache'[d][f] = cache[d][f] /\ store'[d][f] = store[d][f]
          BY <2>4, <4>3, WriteCountEffect
        <5> QED
          BY <4>1, <5>1
      <4> QED
        BY <4>2, <4>3
    <3>4. \A a \in Callers : pc'[a] = "counting" => /\ pc[a] = "counting"
                                                    /\ key'[a] = key[a] /\ count'[a] = count[a]
      BY <2>4 DEF WriteCount, TypeOK
    <3>5. \A a \in Callers : pc'[a] = "counting" => count'[a] <= store'[key'[a]]["trades"] + 1
      <4> SUFFICES ASSUME NEW a \in Callers, pc'[a] = "counting"
                   PROVE  count'[a] <= store'[key'[a]]["trades"] + 1
        OBVIOUS
      <4>1. key[a] \in Days /\ count[a] \in Nat /\ count[a] <= store[key[a]]["trades"] + 1
        BY <3>4 DEF AheadInv, TypeOK
      <4>2. store' \in Ledger
        BY <2>4, IncrementEffect DEF WriteCount, TypeOK
      <4>3. store'[key[a]]["trades"] \in Nat
        BY <4>1, <4>2, LedgerValue
      <4> QED
        BY <2>0, <3>2, <3>4, <4>1, <4>3
    <3> QED
      BY <3>3, <3>5 DEF AheadInv
  <2>5. ASSUME NEW c \in Callers, ReportVolume(c) PROVE AheadInv'
    BY <2>5, ReportVolumeEffect DEF AheadInv
  <2>6. ASSUME NEW c \in Callers, NEW l \in Losses, FinishCycle(c, l) PROVE AheadInv'
    <3>1. up /\ UNCHANGED <<key, count>>
      BY <2>6 DEF FinishCycle
    <3>2. \A a \in Callers : pc'[a] = "counting" => pc[a] = "counting"
      BY <2>6 DEF FinishCycle, TypeOK
    <3>3. CASE l = 0
      BY <2>6, <3>1, <3>2, <3>3 DEF FinishCycle, gateVars, AheadInv
    <3>4. CASE l # 0
      <4>1. \A d \in Days, f \in Fields : cache'[d][f] <= store'[d][f]
        <5>1. up /\ \A d \in Days, f \in Fields : cache[d][f] <= store[d][f]
          BY <3>1 DEF AheadInv
        <5>2. cache'[pin[c]]["loss"] <= store'[pin[c]]["loss"]
          <6>1. cache[pin[c]]["loss"] <= store[pin[c]]["loss"]
            BY <5>1, <2>6, <3>4, FinishCycleEffect
          <6> QED
            BY <2>0, <6>1, <2>6, <3>4, FinishCycleEffect
        <5>3. ASSUME NEW d \in Days, NEW f \in Fields, d # pin[c] \/ f # "loss"
              PROVE  cache'[d][f] <= store'[d][f]
          <6>1. cache'[d][f] = cache[d][f] /\ store'[d][f] = store[d][f]
            BY <5>3, <2>6, <3>4, FinishCycleEffect
          <6> QED
            BY <5>1, <6>1
        <5> QED
          BY <5>2, <5>3
      <4>2. \A d \in Days : store'[d]["trades"] = store[d]["trades"]
        BY <2>6, <3>4, FinishCycleEffect
      <4> QED
        BY <3>1, <3>2, <4>1, <4>2 DEF AheadInv, TypeOK
    <3> QED
      BY <3>3, <3>4
  <2>7. CASE Activate \/ Deactivate \/ SwitchChainHalt \/ NewDay \/ UNCHANGED vars
    BY <2>7 DEF Activate, Deactivate, SwitchChainHalt, NewDay, gateVars, callVars, vars, AheadInv
  <2>8. CASE Crash
    BY <2>8 DEF Crash, AheadInv
  <2>9. CASE Boot
    <3>1. store' \in Ledger /\ day \in Days /\ cache' = [Blank EXCEPT ![day] = store'[day]]
      BY <2>9, BlankLedger DEF Boot, TypeOK
    <3>2. \A d \in Days, f \in Fields : store'[d][f] \in Nat
      BY <3>1, LedgerValue
    <3>3. cache'[day] = store'[day] /\ \A d \in Days, f \in Fields : d # day => cache'[d][f] = 0
      BY <3>1, RehydrateEffect
    <3>4. \A c \in Callers : pc'[c] = "idle"
      BY <2>9 DEF Boot, callVars, LossInv
    <3> QED
      BY <3>2, <3>3, <3>4 DEF AheadInv
  <2> QED
    BY <2>1, <2>2, <2>3, <2>4, <2>5, <2>6, <2>7, <2>8, <2>9 DEF Next
<1>3. AheadInv => CacheNeverAhead
  BY FieldNames DEF AheadInv, CacheNeverAhead
<1> QED
  BY <1>1, <1>2, <1>3, TypeCorrect, LossInvHolds, PTL DEF Spec

-----------------------------------------------------------------------------
(* As long as no two callers were at the counters at once, what check_order*)
(* established still holds when it reaches check 10.                       *)
Cleared(d) == /\ cache[d]["trades"] = store[d]["trades"]
              /\ store[d]["trades"] < MaxDailyTrades
              /\ ~lost => booked[d] < MaxDailyLoss

NoRaceInv ==
  /\ \A a, b \in Callers : InCheck10(a) /\ InCheck10(b) => a = b
  /\ up => cache[day]["trades"] = store[day]["trades"]
  /\ \A c \in Callers : InCheck10(c) => Cleared(key[c])
  /\ \A c \in Callers : pc[c] = "counting" => count[c] = cache[key[c]]["trades"] + 1
  /\ ~lost => \A d \in Days : sent[d] <= MaxDailyTrades

LEMMA NoRaceHolds == Spec => [](~raced => NoRaceInv)
<1>1. Init => (~raced => NoRaceInv)
  <2> SUFFICES ASSUME Init PROVE NoRaceInv
    OBVIOUS
  <2>1. \A c \in Callers : pc[c] = "idle"
    BY DEF Init
  <2>2. \A d \in Days : sent[d] <= MaxDailyTrades
    BY GateAssumption DEF Init
  <2> QED
    BY <2>1, <2>2 DEF Init, NoRaceInv, InCheck10
<1>2. TypeOK /\ FreshInv /\ LossInv /\ LossIsVisible /\ StoreIsExact /\ (~raced => NoRaceInv)
        /\ [Next]_vars => (~raced' => NoRaceInv')
  <2> SUFFICES ASSUME TypeOK, FreshInv, LossInv, LossIsVisible, StoreIsExact, ~raced => NoRaceInv,
                      [Next]_vars, ~raced'
               PROVE  NoRaceInv'
    OBVIOUS
  <2> USE FieldNames
  <2>0. \A d \in Days, f \in Fields : cache[d][f] \in Nat /\ store[d][f] \in Nat
    BY LedgerValue DEF TypeOK
  <2>a. \A d \in Days : sent[d] \in Nat /\ booked[d] \in Nat
    BY DEF TypeOK
  <2>b. NoRaceInv
    <3>1. ASSUME NEW c \in Callers, StartCycle(c) \/ ReadCount(c) \/ WriteCount(c) \/ ReportVolume(c)
          PROVE  raced' = raced
      BY <3>1 DEF StartCycle, ReadCount, WriteCount, ReportVolume, history
    <3>2. ASSUME NEW c \in Callers, \/ \E o \in Orders : Screen(c, o)
                                    \/ \E l \in Losses : FinishCycle(c, l)
          PROVE  raced => raced'
      BY <3>2 DEF Screen, FinishCycle
    <3>3. ASSUME \/ Activate \/ Deactivate \/ SwitchChainHalt
                 \/ NewDay \/ Crash \/ Boot \/ UNCHANGED vars
          PROVE  raced' = raced
      BY <3>3 DEF Activate, Deactivate, SwitchChainHalt, NewDay, Crash, Boot, history, vars
    <3> QED
      BY <3>1, <3>2, <3>3 DEF Next
  <2>1. ASSUME NEW c \in Callers, StartCycle(c) PROVE NoRaceInv'
    <3>1. UNCHANGED <<up, day, cache, store, key, count, sent, booked, lost>>
      BY <2>1 DEF StartCycle, gateVars, history
    <3>2. \A a \in Callers : pc'[a] = pc[a] \/ pc'[a] = "cycle"
      BY <2>1 DEF StartCycle, TypeOK
    <3> QED
      BY <2>b, <3>1, <3>2 DEF NoRaceInv, Cleared, InCheck10
  <2>2. ASSUME NEW c \in Callers, NEW o \in Orders, Screen(c, o) PROVE NoRaceInv'
    <3>1. UNCHANGED <<up, day, cache, store, count, sent, booked, lost>> /\ up
      BY <2>2 DEF Screen, gateVars
    <3>2. CASE ~Counted(o)
      BY <2>2, <2>b, <3>1, <3>2 DEF Screen, NoRaceInv, Cleared, InCheck10
    <3>3. CASE Counted(o)
      <4>1. cache[day]["trades"] < MaxDailyTrades /\ cache[day]["loss"] < MaxDailyLoss
        <5>1. ~o.unwind /\ Verdict(o) = "APPROVED"
          BY <2>2, <3>3 DEF Screen, Counted
        <5>2. o.fault \notin EarlyFaults
          BY <5>1 DEF Verdict, EarlyFaults
        <5>3. ~(cache[day]["trades"] >= MaxDailyTrades) /\ ~(cache[day]["loss"] >= MaxDailyLoss)
          BY <5>1, <5>2 DEF Verdict
        <5>4. cache[day]["trades"] \in Nat /\ cache[day]["loss"] \in Nat
          BY <2>0 DEF TypeOK
        <5> QED
          BY <5>3, <5>4, GateAssumption
      <4>2. Cleared(day)
        BY <2>b, <3>1, <4>1 DEF Cleared, NoRaceInv, LossIsVisible
      <4>3. /\ pc' = [pc EXCEPT ![c] = "screened"]
            /\ key'[c] = day
            /\ \A a \in Callers : a # c => ~InCheck10(a)
        BY <2>2, <3>3 DEF Screen, TypeOK, OthersInCheck10
      <4>4. \A a \in Callers : InCheck10(a)' => a = c /\ pc'[a] = "screened"
        BY <4>3 DEF InCheck10, TypeOK
      <4>5. \A a \in Callers : InCheck10(a)' => Cleared(key[a])'
        BY <3>1, <4>2, <4>3, <4>4 DEF Cleared
      <4>6. \A a \in Callers : pc'[a] # "counting"
        BY <4>4 DEF InCheck10
      <4> QED
        BY <2>b, <3>1, <4>4, <4>5, <4>6 DEF NoRaceInv
    <3> QED
      BY <3>2, <3>3
  <2>3. ASSUME NEW c \in Callers, ReadCount(c) PROVE NoRaceInv'
    <3>1. UNCHANGED <<up, day, cache, store, key, sent, booked, lost>>
      BY <2>3 DEF ReadCount, gateVars, history
    <3>2. InCheck10(c) /\ count'[c] = cache[key[c]]["trades"] + 1
      BY <2>3 DEF ReadCount, InCheck10, TypeOK
    <3>3. \A a \in Callers : InCheck10(a)' => a = c
      BY <2>3, <2>b, <3>2 DEF ReadCount, InCheck10, NoRaceInv, TypeOK
    <3>4. \A a \in Callers : pc'[a] = "counting" => a = c
      BY <3>3 DEF InCheck10
    <3> QED
      BY <2>b, <3>1, <3>2, <3>3, <3>4 DEF NoRaceInv, Cleared
  <2>4. ASSUME NEW c \in Callers, WriteCount(c) PROVE NoRaceInv'
    <3>1. up /\ pc[c] = "counting" /\ key[c] \in Days /\ InCheck10(c)
      BY <2>4 DEF WriteCount, InCheck10, TypeOK
    <3>2. \A a \in Callers : ~InCheck10(a)'
      BY <2>4, <2>b, <3>1 DEF WriteCount, InCheck10, NoRaceInv, TypeOK
    <3>3. cache[key[c]]["trades"] = store[key[c]]["trades"] /\ store[key[c]]["trades"] < MaxDailyTrades
      BY <2>b, <3>1 DEF NoRaceInv, Cleared
    <3>4. cache'[key[c]]["trades"] = store'[key[c]]["trades"]
      <4>1. count[c] = cache[key[c]]["trades"] + 1
        BY <2>b, <3>1 DEF NoRaceInv
      <4>2. /\ cache'[key[c]]["trades"] = count[c]
            /\ store'[key[c]]["trades"] = store[key[c]]["trades"] + 1
        BY <2>4, WriteCountEffect
      <4> QED
        BY <3>3, <4>1, <4>2
    <3>5. cache'[day]["trades"] = store'[day]["trades"]
      <4>1. CASE day = key[c]
        BY <3>4, <4>1
      <4>2. CASE day # key[c]
        <5>1. day \in Days /\ cache[day]["trades"] = store[day]["trades"]
          BY <2>b, <3>1 DEF NoRaceInv, TypeOK
        <5>2. cache'[day]["trades"] = cache[day]["trades"] /\ store'[day]["trades"] = store[day]["trades"]
          BY <2>4, <4>2, <5>1, WriteCountEffect
        <5> QED
          BY <5>1, <5>2
      <4> QED
        BY <4>1, <4>2
    <3>6. ASSUME ~lost', NEW d \in Days PROVE sent'[d] <= MaxDailyTrades
      <4>1. ~lost /\ sent' = [sent EXCEPT ![key[c]] = sent[key[c]] + 1]
        BY <2>4, <3>6 DEF WriteCount
      <4>2. sent[key[c]] < MaxDailyTrades
        BY <3>1, <3>3, <4>1 DEF StoreIsExact
      <4>3. CASE d = key[c]
        BY <2>a, <3>1, <4>1, <4>2, <4>3, GateAssumption DEF TypeOK
      <4>4. CASE d # key[c]
        BY <2>b, <4>1, <4>4 DEF NoRaceInv, TypeOK
      <4> QED
        BY <4>3, <4>4
    <3>7. \A a \in Callers : pc'[a] # "counting"
      BY <3>2 DEF InCheck10
    <3>8. day' = day
      BY <2>4, WriteCountEffect
    <3> QED
      BY <3>2, <3>5, <3>6, <3>7, <3>8 DEF NoRaceInv
  <2>5. ASSUME NEW c \in Callers, ReportVolume(c) PROVE NoRaceInv'
    BY <2>5, <2>b, ReportVolumeEffect DEF NoRaceInv, Cleared, InCheck10
  <2>6. ASSUME NEW c \in Callers, NEW l \in Losses, FinishCycle(c, l) PROVE NoRaceInv'
    <3>1. UNCHANGED <<up, day, key, count, sent, lost>> /\ day \in Days
      BY <2>6 DEF FinishCycle, TypeOK
    <3>2. \A a \in Callers : pc'[a] = pc[a] \/ pc'[a] = "idle"
      BY <2>6 DEF FinishCycle, TypeOK
    <3>3. CASE l = 0
      <4>1. UNCHANGED <<cache, store, booked>>
        BY <2>6, <3>3 DEF FinishCycle, gateVars
      <4> QED
        BY <2>b, <3>1, <3>2, <4>1 DEF NoRaceInv, Cleared, InCheck10
    <3>4. CASE l # 0
      <4>1. pc[c] = "cycle" /\ \A a \in Callers : a # c => ~InCheck10(a)
        BY <2>6, <3>4 DEF FinishCycle, OthersInCheck10
      <4>2. \A a \in Callers : ~InCheck10(a)' /\ pc'[a] # "counting"
        BY <3>2, <4>1 DEF InCheck10
      <4>3. cache'[day]["trades"] = cache[day]["trades"] /\ store'[day]["trades"] = store[day]["trades"]
        BY <2>6, <3>1, <3>4, FinishCycleEffect
      <4> QED
        BY <2>b, <3>1, <4>2, <4>3 DEF NoRaceInv
    <3> QED
      BY <3>3, <3>4
  <2>7. CASE Activate \/ Deactivate \/ SwitchChainHalt \/ UNCHANGED vars
    <3>1. UNCHANGED <<up, day, cache, store, pc, key, count, sent, booked, lost>>
      BY <2>7 DEF Activate, Deactivate, SwitchChainHalt, gateVars, callVars, history, vars
    <3> QED
      BY <2>b, <3>1 DEF NoRaceInv, InCheck10, Cleared
  <2>8. CASE NewDay
    <3>1. /\ UNCHANGED <<up, cache, store, pc, key, count, sent, booked, lost>>
          /\ day' = day + 1 /\ day' \in Days
      BY <2>8, GateAssumption DEF NewDay, gateVars, callVars, history, TypeOK, Days
    <3>2. cache[day']["trades"] = 0 /\ store[day']["trades"] = 0
      BY <3>1, GateAssumption DEF FreshInv, TypeOK, Days
    <3> QED
      BY <2>b, <3>1, <3>2 DEF NoRaceInv, InCheck10, Cleared
  <2>9. CASE Crash
    <3>1. ~up' /\ sent' = sent /\ (lost => lost') /\ \A a \in Callers : pc'[a] = "idle"
      BY <2>9 DEF Crash
    <3> QED
      BY <2>b, <3>1 DEF NoRaceInv, InCheck10
  <2>10. CASE Boot
    <3>1. store' \in Ledger /\ day \in Days /\ cache' = [Blank EXCEPT ![day] = store'[day]]
      BY <2>10, BlankLedger DEF Boot, TypeOK
    <3>2. cache'[day] = store'[day]
      BY <3>1, RehydrateEffect
    <3>3. day' = day /\ sent' = sent /\ \A a \in Callers : pc'[a] = "idle"
      BY <2>10 DEF Boot, callVars, LossInv
    <3>4. lost => lost'
      <4>1. lost' = lost \/ lost' = (lost \/ file # Blank)
        BY <2>10 DEF Boot
      <4> QED
        BY <4>1
    <3> QED
      BY <2>b, <3>2, <3>3, <3>4 DEF NoRaceInv, InCheck10
  <2> QED
    BY <2>1, <2>2, <2>3, <2>4, <2>5, <2>6, <2>7, <2>8, <2>9, <2>10 DEF Next
<1> QED
  BY <1>1, <1>2, TypeCorrect, FreshHolds, LossInvHolds, LossVisible, StoreExact, PTL DEF Spec

(* The daily quota is exceeded only after two callers have been at the     *)
(* counters at once, or a restart has lost counts.                         *)
THEOREM QuotaSafe == Spec => []QuotaHeld
<1>1. (~raced => NoRaceInv) => QuotaHeld
  BY DEF NoRaceInv, QuotaHeld
<1> QED
  BY <1>1, NoRaceHolds, PTL

(* No order is sent on a day already breached, under the same condition.   *)
THEOREM SendsBeforeBreach == Spec => NoSendPastBreach
<1>1. TypeOK /\ (~raced => NoRaceInv) /\ [Next]_vars
        => [\A d \in Days : sent'[d] > sent[d] /\ ~lost /\ ~raced => booked[d] < MaxDailyLoss]_vars
  <2> SUFFICES ASSUME TypeOK, NoRaceInv, [Next]_vars, ~UNCHANGED vars,
                      NEW d \in Days, sent'[d] > sent[d], ~lost
               PROVE  booked[d] < MaxDailyLoss
    OBVIOUS
  <2>1. PICK c \in Callers : WriteCount(c)
    <3>1. sent[d] \in Nat /\ sent' # sent
      BY DEF TypeOK
    <3> QED
      BY <3>1 DEF Next, StartCycle, Screen, ReadCount, ReportVolume, FinishCycle, Activate,
                  Deactivate, SwitchChainHalt, NewDay, Crash, Boot, history, vars
  <2>2. d = key[c]
    BY <2>1 DEF WriteCount, TypeOK
  <2> QED
    BY <2>1, <2>2 DEF WriteCount, NoRaceInv, InCheck10, Cleared
<1> QED
  BY <1>1, TypeCorrect, NoRaceHolds, PTL DEF Spec, NoSendPastBreach

(* Without such a race every approval is counted once: between calls the   *)
(* cached count of the day is the number of approvals granted, over        *)
(* midnights, failed writes and restarts that lose nothing.                *)
THEOREM CountedOnceWithoutRace == Spec => [](~raced => EveryApprovalCounted)
<1>1. TypeOK /\ (~raced => NoRaceInv) /\ StoreIsExact => (~raced => EveryApprovalCounted)
  BY DEF TypeOK, NoRaceInv, StoreIsExact, EveryApprovalCounted
<1> QED
  BY <1>1, TypeCorrect, NoRaceHolds, StoreExact, PTL

-----------------------------------------------------------------------------
(* Only a restart drops a halt: while the process lives, a halt - set by   *)
(* the operator, by a fill past the collar, by a loss report or mirrored   *)
(* from the chain - stands until it is deactivated, whoever else runs.     *)
THEOREM HaltStandsWhileUp == Spec /\ []up => []HaltUntilCleared
<1> USE DEF gateVars, callVars, history
<1>1. Init => HaltUntilCleared
  BY DEF Init, HaltUntilCleared
<1>2. HaltUntilCleared /\ up /\ up' /\ [Next]_vars => HaltUntilCleared'
  <2> SUFFICES ASSUME HaltUntilCleared, up, up', [Next]_vars PROVE HaltUntilCleared'
    OBVIOUS
  <2>0. mustHalt => killed
    BY DEF HaltUntilCleared
  <2>1. ASSUME UNCHANGED <<killed, mustHalt>> PROVE HaltUntilCleared'
    BY <2>0, <2>1 DEF HaltUntilCleared
  <2>2. ASSUME NEW c \in Callers,
               \/ StartCycle(c) \/ ReadCount(c) \/ WriteCount(c) \/ ReportVolume(c)
               \/ \E o \in Orders : Screen(c, o)
        PROVE  UNCHANGED <<killed, mustHalt>>
    <3>1. CASE StartCycle(c)
      BY <3>1 DEF StartCycle
    <3>2. CASE ReadCount(c)
      BY <3>2 DEF ReadCount
    <3>3. CASE WriteCount(c)
      BY <3>3 DEF WriteCount
    <3>4. CASE ReportVolume(c)
      BY <3>4 DEF ReportVolume
    <3>5. CASE \E o \in Orders : Screen(c, o)
      BY <3>5 DEF Screen
    <3> QED
      BY <2>2, <3>1, <3>2, <3>3, <3>4, <3>5
  <2>3. ASSUME NEW c \in Callers, NEW l \in Losses, FinishCycle(c, l) PROVE HaltUntilCleared'
    <3>1. UNCHANGED <<killed, mustHalt>> \/ Halt
      BY <2>3 DEF FinishCycle
    <3> QED
      BY <2>1, <3>1 DEF Halt, HaltUntilCleared
  <2>4. CASE Activate
    BY <2>4 DEF Activate, Halt, HaltUntilCleared
  <2>5. CASE Deactivate
    BY <2>5 DEF Deactivate, HaltUntilCleared
  <2>6. CASE SwitchChainHalt \/ NewDay \/ UNCHANGED vars
    BY <2>1, <2>6 DEF SwitchChainHalt, NewDay, vars
  <2>7. ~Crash /\ ~Boot
    BY DEF Crash, Boot
  <2> QED
    BY <2>1, <2>2, <2>3, <2>4, <2>5, <2>6, <2>7 DEF Next
<1> QED
  BY <1>1, <1>2, PTL DEF Spec

=============================================================================
