-------------------------- MODULE FundingArbPackage --------------------------
(***************************************************************************)
(* The delta-neutral funding-arb package: agent.py's _run_funding_arb_     *)
(* package, the MultiLegExecutionManager and LiveFillSimulator it drives   *)
(* (multi_leg.py), and the executor's place_order under each leg           *)
(* (execution/executor.py).                                                *)
(*                                                                         *)
(* Each package is one run of the coroutine: it reserves an instrument,    *)
(* logs a decision for each leg, sends the short perp leg and then the spot*)
(* leg, and locks, or closes what was filled.  Runs for several assets, and*)
(* of overlapping cycles, interleave at every await.                       *)
(*                                                                         *)
(* The risk gate is reduced to the checks that move under a package: halt, *)
(* daily quota, daily loss, price age.  The count the quota is tested on is*)
(* shared with every other order and written without a lock (module        *)
(* RiskGate); here the surroundings move it.  A fill is reduced to what    *)
(* _verify_fill makes of its price, if it has one, and to whether it is    *)
(* whole: a part of an order counts as a fill, as it does in the code.     *)
(* A closing order left pending is not followed further.                   *)
(***************************************************************************)
EXTENDS Integers, FiniteSets

CONSTANTS
  Pkgs,             (* runs of the coroutine                                *)
  Assets,           (* perp instruments                                     *)
  NoAsset,
  MaxOpen,          (* max_concurrent_packages                              *)
  Answers           (* what the exchange may answer                         *)

ASSUME PackageAssumption ==
  /\ IsFiniteSet(Pkgs)
  /\ NoAsset \notin Assets
  /\ MaxOpen \in Nat
  /\ Answers \subseteq {"clean", "unpriced", "slipped", "collar", "pending", "refused", "error"}

(* Steps in dispatch order: 1 is short_perp, 2 is buy_spot.                *)
Legs == 1..2

VARIABLES
  pc,          (* where each run stands                                     *)
  asset,       (* the perp the run is for                                   *)
  logged,      (* decisions logged on-chain                                 *)
  leg,         (* leg_results: "none" until the leg has answered            *)
  closing,     (* unwind_results, by leg                                    *)
  state,       (* pkg.state; "none" before the package exists               *)
  unwound,     (* pkg.unwound                                               *)
  refusal,     (* the gate's reason for the refusal that ended the run      *)
  receipts,    (* executions recorded on-chain                              *)
  open,        (* _open_packages                                            *)
  active,      (* _active_instruments                                       *)
  held,        (* legs whose position is on at the exchange, if only in part*)
  resting,     (* entry orders still live at the exchange                   *)
  partial,     (* legs with an order answered as filled in part             *)
  stale,       (* runs whose reference prices have outlived the cap         *)
  killed,      (* the gate's kill switch                                    *)
  spent,       (* today's trade count, as the gate reads it, is at the quota*)
  lossHit      (* today's loss has reached the limit                        *)

package == <<asset, logged, leg, closing, state, unwound, refusal, receipts>>
registry == <<open, active>>
exchange == <<held, resting, partial>>
gate == <<stale, killed, spent, lossHit>>
vars == <<pc, asset, logged, leg, closing, state, unwound, refusal, receipts, open, active,
          held, resting, partial, stale, killed, spent, lossHit>>

AtRest == {"idle", "done", "raised", "lost"}
Running == {"fetching", "logging", "dispatching", "opening", "resolving", "unwinding", "closing",
            "settling", "recording"}
Results == {"none", "clean", "unpriced", "breached", "unfilled"}
Fills == {"clean", "unpriced", "slipped", "collar"}  (* answers that report a fill *)

-----------------------------------------------------------------------------
Init ==
  /\ pc = [p \in Pkgs |-> "idle"]
  /\ asset = [p \in Pkgs |-> NoAsset]
  /\ logged = [p \in Pkgs |-> 0]
  /\ leg = [p \in Pkgs |-> [k \in Legs |-> "none"]]
  /\ closing = [p \in Pkgs |-> [k \in Legs |-> "none"]]
  /\ state = [p \in Pkgs |-> "none"]
  /\ unwound = [p \in Pkgs |-> FALSE]
  /\ refusal = [p \in Pkgs |-> "none"]
  /\ receipts = [p \in Pkgs |-> 0]
  /\ open = {}
  /\ active = {}
  /\ held = [p \in Pkgs |-> {}]
  /\ resting = [p \in Pkgs |-> {}]
  /\ partial = [p \in Pkgs |-> {}]
  /\ stale = {}
  /\ killed = FALSE
  /\ spent = FALSE
  /\ lossHit = FALSE

Goto(p, label) == pc' = [pc EXCEPT ![p] = label]

(* A mutant of Verdict: the halt holds back a closing leg like any order.  *)
VerdictNoBypass(p, unwind) ==
  IF killed THEN "halt"
  ELSE IF ~unwind /\ spent THEN "quota"
  ELSE IF lossHit THEN "loss"
  ELSE IF p \in stale THEN "stale"
  ELSE "approved"

(* check_order for a leg of p: a closing leg passes the halt and the quota,*)
(* and nothing else.                                                       *)
Verdict(p, unwind) ==
  IF killed /\ ~unwind THEN "halt"
  ELSE IF ~unwind /\ spent THEN "quota"
  ELSE IF lossHit THEN "loss"
  ELSE IF p \in stale THEN "stale"
  ELSE "approved"

CanOpen(a) == Cardinality(open) < MaxOpen /\ a \notin active

(* _funding_arb_opportunity passes; the spot data is fetched next.         *)
Begin(p, a) ==
  /\ pc[p] = "idle"
  /\ CanOpen(a)
  /\ asset' = [asset EXCEPT ![p] = a]
  /\ Goto(p, "fetching")
  /\ UNCHANGED <<logged, leg, closing, state, unwound, refusal, receipts, registry, exchange, gate>>

(* A mutant of Propose, with the capacity check of Begin taken as enough.  *)
ProposeUnchecked(p) ==
  /\ pc[p] = "fetching"
  /\ Verdict(p, FALSE) = "approved"
  /\ open' = open \cup {p}
  /\ active' = active \cup {asset[p]}
  /\ state' = [state EXCEPT ![p] = "PENDING_FILL"]
  /\ Goto(p, "logging")
  /\ UNCHANGED <<asset, logged, leg, closing, unwound, refusal, receipts, exchange, gate>>

(* Both pre-flight checks pass - neither counts a trade, so one free slot  *)
(* admits both - and propose_package finds capacity again.                 *)
Propose(p) ==
  /\ pc[p] = "fetching"
  /\ Verdict(p, FALSE) = "approved"
  /\ CanOpen(asset[p])
  /\ open' = open \cup {p}
  /\ active' = active \cup {asset[p]}
  /\ state' = [state EXCEPT ![p] = "PENDING_FILL"]
  /\ Goto(p, "logging")
  /\ UNCHANGED <<asset, logged, leg, closing, unwound, refusal, receipts, exchange, gate>>

(* No price, no edge, a rejected pre-flight check or no capacity.          *)
GiveUp(p) ==
  /\ pc[p] = "fetching"
  /\ Goto(p, "done")
  /\ UNCHANGED <<package, registry, exchange, gate>>

(* A mutant of LogLeg: dispatch starts after the first decision.           *)
LogFirstLeg(p) ==
  /\ pc[p] = "logging"
  /\ logged' = [logged EXCEPT ![p] = @ + 1]
  /\ Goto(p, "dispatching")
  /\ UNCHANGED <<asset, leg, closing, state, unwound, refusal, receipts, registry, exchange, gate>>

LogLeg(p) ==
  /\ pc[p] = "logging"
  /\ logged' = [logged EXCEPT ![p] = @ + 1]
  /\ Goto(p, IF logged[p] = 1 THEN "dispatching" ELSE "logging")
  /\ UNCHANGED <<asset, leg, closing, state, unwound, refusal, receipts, registry, exchange, gate>>

(* A failed log ends the run; the package is not released.                 *)
LogFails(p) ==
  /\ pc[p] = "logging"
  /\ Goto(p, "raised")
  /\ UNCHANGED <<package, registry, exchange, gate>>

-----------------------------------------------------------------------------
(* dispatch_concurrent: the next leg is the first without a result.        *)
NextLeg(p) == IF leg[p][1] = "none" THEN 1 ELSE 2

(* place_order admits the leg; the order goes out.  Its own count is one of*)
(* those CountMoves stands for.                                            *)
SubmitLeg(p) ==
  /\ pc[p] = "dispatching"
  /\ Verdict(p, FALSE) = "approved"
  /\ Goto(p, "opening")
  /\ UNCHANGED <<package, registry, exchange, gate>>

(* place_order raises; nothing between here and run_trading_cycle catches  *)
(* it, so neither resolver runs and the package is not released.           *)
RefuseLeg(p) ==
  /\ pc[p] = "dispatching"
  /\ Verdict(p, FALSE) # "approved"
  /\ refusal' = [refusal EXCEPT ![p] = Verdict(p, FALSE)]
  /\ Goto(p, "raised")
  /\ UNCHANGED <<asset, logged, leg, closing, state, unwound, receipts, registry, exchange, gate>>

(* The leg answers: filled within the step's limit, without a price to     *)
(* compare (slippage None, which breaches nothing), past the limit, or past*)
(* the hard collar (which trips the kill switch); still pending after the  *)
(* polls (and nobody cancels it); or refused.  When a part was filled the  *)
(* rest stays at the exchange.                                             *)
LegAnswers(p, answer, part) ==
  LET k == NextLeg(p)
      filled == answer \in Fills
      live == answer = "pending" \/ (filled /\ part)
  IN
  /\ pc[p] = "opening"
  /\ answer # "error"
  /\ leg' = [leg EXCEPT ![p][k] = IF answer \in {"clean", "unpriced"} THEN answer
                                  ELSE IF filled THEN "breached" ELSE "unfilled"]
  /\ held' = [held EXCEPT ![p] = IF filled THEN @ \cup {k} ELSE @]
  /\ resting' = [resting EXCEPT ![p] = IF live THEN @ \cup {k} ELSE @]
  /\ partial' = [partial EXCEPT ![p] = IF filled /\ part THEN @ \cup {k} ELSE @]
  /\ killed' = (killed \/ answer = "collar")
  /\ Goto(p, IF k = 2 THEN "resolving" ELSE "dispatching")
  /\ UNCHANGED <<asset, logged, closing, state, unwound, refusal, receipts, registry,
                 stale, spent, lossHit>>

(* The command fails, or the status poll after it: place_order raises, and *)
(* the order may have reached the exchange, to fill at once or later.      *)
LegErrors(p) ==
  /\ pc[p] = "opening"
  /\ \/ UNCHANGED <<held, resting>>
     \/ held' = [held EXCEPT ![p] = @ \cup {NextLeg(p)}] /\ UNCHANGED resting
     \/ resting' = [resting EXCEPT ![p] = @ \cup {NextLeg(p)}] /\ UNCHANGED held
  /\ Goto(p, "raised")
  /\ UNCHANGED <<package, registry, partial, gate>>

-----------------------------------------------------------------------------
FilledLegs(p) == {k \in Legs : leg[p][k] \notin {"none", "unfilled"}}

(* _release, for the package and its first step's instrument.              *)
Release(p) ==
  /\ open' = open \ {p}
  /\ active' = active \ {asset[p]}

(* A mutant of Lockable: resolve asks for fills before it asks for         *)
(* breaches.                                                               *)
LockableFillsFirst(p) == FilledLegs(p) = Legs

(* dispatch_concurrent locks a package of fills none of which breached its *)
(* limit: a fill without a price has no slippage and breaches nothing.     *)
Lockable(p) == FilledLegs(p) = Legs /\ \A k \in Legs : leg[p][k] # "breached"

Lock(p) ==
  /\ pc[p] = "resolving"
  /\ Lockable(p)
  /\ state' = [state EXCEPT ![p] = "LOCKED"]
  /\ Goto(p, "settling")
  /\ UNCHANGED <<asset, logged, leg, closing, unwound, refusal, receipts, registry, exchange, gate>>

(* resolve: nothing filled is a clean abort; otherwise every filled leg is *)
(* to be closed, by resolve_slippage_breach or resolve_partial_fill.       *)
Abort(p) ==
  /\ pc[p] = "resolving"
  /\ ~Lockable(p)
  /\ FilledLegs(p) = {}
  /\ state' = [state EXCEPT ![p] = "ABORTED"]
  /\ Release(p)
  /\ Goto(p, "done")
  /\ UNCHANGED <<asset, logged, leg, closing, unwound, refusal, receipts, exchange, gate>>

(* A mutant of StartUnwind: the package is released before its legs are    *)
(* closed.                                                                 *)
StartUnwindReleased(p) ==
  /\ pc[p] = "resolving"
  /\ ~Lockable(p)
  /\ FilledLegs(p) # {}
  /\ Release(p)
  /\ Goto(p, "unwinding")
  /\ UNCHANGED <<package, exchange, gate>>

StartUnwind(p) ==
  /\ pc[p] = "resolving"
  /\ ~Lockable(p)
  /\ FilledLegs(p) # {}
  /\ Goto(p, "unwinding")
  /\ UNCHANGED <<package, registry, exchange, gate>>

Unclosed(p) == {k \in FilledLegs(p) : closing[p][k] = "none"}

SubmitUnwind(p) ==
  /\ pc[p] = "unwinding"
  /\ Verdict(p, TRUE) = "approved"
  /\ Goto(p, "closing")
  /\ UNCHANGED <<package, registry, exchange, gate>>

(* The gate refuses a closing leg: the resolver raises, the remaining legs *)
(* are not tried and the package is not released.                          *)
RefuseUnwind(p) ==
  /\ pc[p] = "unwinding"
  /\ Verdict(p, TRUE) # "approved"
  /\ refusal' = [refusal EXCEPT ![p] = Verdict(p, TRUE)]
  /\ Goto(p, "raised")
  /\ UNCHANGED <<asset, logged, leg, closing, state, unwound, receipts, registry, exchange, gate>>

(* A mutant of Safe: one closed leg is enough.                             *)
SafeIfAny(p, results) == \E k \in FilledLegs(p) : results[k] = "filled"

(* "Only claim the position is safe if every unwind leg actually filled."  *)
Safe(p, results) == \A k \in FilledLegs(p) : results[k] = "filled"

(* The first unclosed leg answers; a closing order filled in part counts as*)
(* filled and leaves the rest of the leg on.  After the last one the       *)
(* package is aborted and released, closed or not.                         *)
UnwindAnswers(p, answer, part) ==
  LET k == IF 1 \in Unclosed(p) THEN 1 ELSE 2
      filled == answer \in Fills
      last == Unclosed(p) = {k}
      results == [closing[p] EXCEPT ![k] = IF filled THEN "filled" ELSE "unfilled"]
  IN
  /\ pc[p] = "closing"
  /\ answer # "error"
  /\ closing' = [closing EXCEPT ![p] = results]
  /\ held' = [held EXCEPT ![p] = IF filled /\ ~part THEN @ \ {k} ELSE @]
  /\ partial' = [partial EXCEPT ![p] = IF filled /\ part THEN @ \cup {k} ELSE @]
  /\ killed' = (killed \/ answer = "collar")
  /\ \/ /\ last
        /\ state' = [state EXCEPT ![p] = "ABORTED"]
        /\ unwound' = [unwound EXCEPT ![p] = Safe(p, results)]
        /\ Release(p)
        /\ Goto(p, "done")
     \/ /\ ~last
        /\ Goto(p, "unwinding")
        /\ UNCHANGED <<state, unwound, registry>>
  /\ UNCHANGED <<asset, logged, leg, refusal, receipts, resting, stale, spent, lossHit>>

UnwindErrors(p) ==
  /\ pc[p] = "closing"
  /\ \/ UNCHANGED held
     \/ held' = [held EXCEPT ![p] = @ \ {IF 1 \in Unclosed(p) THEN 1 ELSE 2}]
  /\ Goto(p, "raised")
  /\ UNCHANGED <<package, registry, resting, partial, gate>>

Settle(p) ==
  /\ pc[p] = "settling"
  /\ state[p] = "LOCKED"
  /\ state' = [state EXCEPT ![p] = "SETTLED"]
  /\ Release(p)
  /\ Goto(p, "recording")
  /\ UNCHANGED <<asset, logged, leg, closing, unwound, refusal, receipts, exchange, gate>>

(* A mutant of Record: the loop runs past the last leg.                    *)
RecordOnceMore(p) ==
  /\ pc[p] = "recording"
  /\ receipts' = [receipts EXCEPT ![p] = @ + 1]
  /\ Goto(p, IF receipts[p] = 2 THEN "done" ELSE "recording")
  /\ UNCHANGED <<asset, logged, leg, closing, state, unwound, refusal, registry, exchange, gate>>

Record(p) ==
  /\ pc[p] = "recording"
  /\ receipts' = [receipts EXCEPT ![p] = @ + 1]
  /\ Goto(p, IF receipts[p] = 1 THEN "done" ELSE "recording")
  /\ UNCHANGED <<asset, logged, leg, closing, state, unwound, refusal, registry, exchange, gate>>

(* record_execution raises: the later leg is not recorded.                 *)
RecordFails(p) ==
  /\ pc[p] = "recording"
  /\ Goto(p, "raised")
  /\ UNCHANGED <<package, registry, exchange, gate>>

-----------------------------------------------------------------------------
(* What happens around a package.                                          *)
LateFill(p, k) ==
  /\ k \in resting[p]
  /\ resting' = [resting EXCEPT ![p] = @ \ {k}]
  /\ held' = [held EXCEPT ![p] = @ \cup {k}]
  /\ UNCHANGED <<pc, package, registry, partial, gate>>

(* The reference prices age while the run still has orders to send.        *)
Age(p) ==
  /\ pc[p] \in Running \ {"settling", "recording"}
  /\ p \notin stale
  /\ stale' = stale \cup {p}
  /\ UNCHANGED <<pc, package, registry, exchange, killed, spent, lossHit>>

(* The operator's kill-switch calls.                                       *)
Operate ==
  /\ killed' = ~killed
  /\ UNCHANGED <<pc, package, registry, exchange, stale, spent, lossHit>>

(* Another cycle reports a loss that reaches the limit.                    *)
LossReached ==
  /\ ~lossHit
  /\ lossHit' = TRUE
  /\ killed' = TRUE
  /\ UNCHANGED <<pc, package, registry, exchange, stale, spent>>

(* The shared count reaches the quota, by this run's orders or others, or a*)
(* racing write takes it back below.                                       *)
CountMoves ==
  /\ spent' = ~spent
  /\ UNCHANGED <<pc, package, registry, exchange, stale, killed, lossHit>>

Midnight ==
  /\ spent \/ lossHit
  /\ spent' = FALSE
  /\ lossHit' = FALSE
  /\ UNCHANGED <<pc, package, registry, exchange, stale, killed>>

(* Packages live in memory only; counters and the on-chain halt come back. *)
Restart ==
  /\ pc' = [p \in Pkgs |-> IF pc[p] \in Running \/ p \in open THEN "lost" ELSE pc[p]]
  /\ open' = {}
  /\ active' = {}
  /\ stale' = {}
  /\ killed' \in BOOLEAN
  /\ UNCHANGED <<package, exchange, spent, lossHit>>

Next ==
  \/ \E p \in Pkgs :
       \/ \E a \in Assets : Begin(p, a)
       \/ Propose(p) \/ GiveUp(p) \/ LogLeg(p) \/ LogFails(p)
       \/ SubmitLeg(p) \/ RefuseLeg(p)
       \/ Lock(p) \/ Abort(p) \/ StartUnwind(p)
       \/ SubmitUnwind(p) \/ RefuseUnwind(p)
       \/ "error" \in Answers /\ (LegErrors(p) \/ UnwindErrors(p))
       \/ \E answer \in Answers, part \in BOOLEAN :
            LegAnswers(p, answer, part) \/ UnwindAnswers(p, answer, part)
       \/ Settle(p) \/ Record(p) \/ RecordFails(p)
       \/ \E k \in Legs : LateFill(p, k)
       \/ Age(p)
  \/ Operate \/ LossReached \/ CountMoves \/ Midnight \/ Restart

Spec == Init /\ [][Next]_vars

-----------------------------------------------------------------------------
(* Types.                                                                  *)
TypeOK ==
  /\ pc \in [Pkgs -> AtRest \cup Running]
  /\ asset \in [Pkgs -> Assets \cup {NoAsset}]
  /\ logged \in [Pkgs -> 0..2]
  /\ leg \in [Pkgs -> [Legs -> Results]]
  /\ closing \in [Pkgs -> [Legs -> {"none", "filled", "unfilled"}]]
  /\ state \in [Pkgs -> {"none", "PENDING_FILL", "LOCKED", "SETTLED", "ABORTED"}]
  /\ unwound \in [Pkgs -> BOOLEAN]
  /\ refusal \in [Pkgs -> {"none", "halt", "quota", "loss", "stale"}]
  /\ receipts \in [Pkgs -> 0..2]
  /\ open \subseteq Pkgs
  /\ active \subseteq Assets
  /\ held \in [Pkgs -> SUBSET Legs]
  /\ resting \in [Pkgs -> SUBSET Legs]
  /\ partial \in [Pkgs -> SUBSET Legs]
  /\ stale \subseteq Pkgs
  /\ killed \in BOOLEAN
  /\ spent \in BOOLEAN
  /\ lossHit \in BOOLEAN

(* The registry that bounds the packages: the reserved instruments are     *)
(* those of the open packages, each reserved once, and there are never more*)
(* open packages than max_concurrent_packages - though every run tested    *)
(* the capacity before it awaited the spot data, and others proposed since.*)
RegistryAgrees ==
  /\ active = {asset[p] : p \in open}
  /\ \A p, q \in open : asset[p] = asset[q] => p = q
  /\ Cardinality(open) <= MaxOpen

(* A package "can never silently reach LOCKED on a bad-priced fill": one   *)
(* that is locked or settled has both legs on, and none that was measured  *)
(* past its limit.  It says no more than that: a leg without a fill price  *)
(* is locked with nothing measured, and one filled in part is locked as it *)
(* is.                                                                     *)
LockedUnbreached ==
  \A p \in Pkgs : state[p] \in {"LOCKED", "SETTLED"} =>
    held[p] = Legs /\ \A k \in Legs : leg[p][k] \in {"clean", "unpriced"}

(* "The onchain log is the hard gate": no leg of a package reaches the     *)
(* exchange, filled or resting, before both decisions are on the chain.    *)
LogIsHardGate ==
  \A p \in Pkgs : held[p] # {} \/ resting[p] # {} => logged[p] = 2

(* What an aborted package says of itself is true of the exchange, for the *)
(* legs none of whose orders was filled in part: when it says it is        *)
(* unwound, no such leg it knows as filled is still on; and when one is,   *)
(* the package is still open, or lost, or says it is not unwound.  A part  *)
(* of a closing order is enough for the package to call the leg closed -   *)
(* multi_leg.py's "never silently mark it unwound" does not hold of it.    *)
ClaimIsHonest ==
  \A p \in Pkgs : (held[p] \cap FilledLegs(p)) \ partial[p] # {} =>
    \/ p \in open
    \/ pc[p] = "lost"
    \/ state[p] = "SETTLED"
    \/ state[p] = "ABORTED" /\ ~unwound[p]

(* The comments on the gate's unwind admission: neither the halt a bad fill*)
(* trips nor a used-up quota keeps a filled leg from being closed.         *)
UnwindPassesHalt ==
  \A p \in Pkgs : pc[p] = "raised" /\ refusal[p] \in {"halt", "quota"}
                    => leg[p][2] = "none"

(* However runs interleave, fail at an await or are cut off by a restart,  *)
(* the manager's packages run the course its documentation gives them:     *)
(* locked with every leg known to be on, unwound with none, ended or lost  *)
(* for good.  A leg is known to be on once a fill of it was answered, until*)
(* a fill of its closing order is.                                         *)
KnownOn(p) == {k \in FilledLegs(p) : closing[p][k] # "filled"}
Life == INSTANCE PackageLifecycle WITH
          Packages <- Pkgs,
          AllLegs  <- Legs,
          Capacity <- MaxOpen,
          stage    <- state,
          slots    <- open,
          on       <- [p \in Pkgs |-> KnownOn(p)],
          safe     <- {p \in Pkgs : unwound[p]}
LifecycleKept == Life!Spec

(* multi_leg.py: a package is "unwound automatically on a partial fill     *)
(* rather than left as unintended directional exposure".  A run that has   *)
(* ended leaves both legs on, or none.                                     *)
NoNakedLeg ==
  \A p \in Pkgs : pc[p] \in {"done", "raised"} => Cardinality(held[p]) # 1

=============================================================================
