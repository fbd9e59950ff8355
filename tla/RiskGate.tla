------------------------------ MODULE RiskGate ------------------------------
(***************************************************************************)
(* The pre-trade risk gate (execution/risk_gate.py): check_order with its  *)
(* daily counters, report_loss / report_volume, the local kill switch and  *)
(* its boot-time mirror of the on-chain one, and DurableDailyCounters, the *)
(* JSON file that carries the counters over a restart.                     *)
(*                                                                         *)
(* A caller is an order path that runs check_order to its end on a thread  *)
(* of its own: the event loop for directional orders, a worker thread for  *)
(* the legs of each funding-arb package.  Their reads and writes of        *)
(* _daily_trade_count interleave.                                          *)
(*                                                                         *)
(* An order is reduced to what check_order tells apart: whether it is an   *)
(* unwind, whether it is live (count_trade), and the first stateless check *)
(* its terms fail, if any.  No check reads the daily volume: it is left    *)
(* out, but not the rewrite of the file that comes with it.                *)
(***************************************************************************)
EXTENDS Integers

CONSTANTS
  Callers,          (* order paths that call check_order concurrently       *)
  MaxDailyTrades,   (* max_daily_trades                                     *)
  MaxDailyLoss,     (* max_daily_loss_usd                                   *)
  Losses,           (* equity drops a cycle can report; 0 is "no drop"      *)
  Orders,           (* orders submitted to the gate                         *)
  LastDay,          (* bound: the last UTC day explored                     *)
  MaxSends,         (* bound: approvals granted per day                     *)
  MaxBooked         (* bound: loss booked per day                           *)

(* The stateless rejections, before and after the two daily limits.        *)
EarlyFaults == {"ASSET_NOT_ALLOWED", "CONFIDENCE_TOO_LOW", "INVALID_ORDER_SIZE",
                "REGIME_SIZE_CAP", "POSITION_TOO_LARGE"}
LateFaults  == {"FAT_FINGER_REJECTED", "NO_PRICE_REFERENCE", "SLIPPAGE_EXCEEDED",
                "REDUCE_ONLY_VIOLATION", "STALE_PRICE"}

Order == [unwind : BOOLEAN, live : BOOLEAN, fault : EarlyFaults \cup LateFaults \cup {"none"}]

ASSUME GateAssumption ==
  /\ MaxDailyTrades \in Nat
  /\ MaxDailyLoss \in Nat \ {0}
  /\ Losses \subseteq Nat
  /\ Orders \subseteq Order
  /\ LastDay \in Nat
  /\ MaxSends \in Nat
  /\ MaxBooked \in Nat

Days == 0..LastDay
Fields == {"trades", "loss"}
Ledger == [Days -> [Fields -> Nat]]
Blank == [d \in Days |-> [f \in Fields |-> 0]]

VARIABLES
  up,         (* the process is running                                     *)
  day,        (* the current UTC day                                        *)
  killed,     (* _kill_switch_active                                        *)
  chainHalt,  (* TradeAuditTrail.killSwitchActive(agent)                    *)
  cache,      (* _daily_trade_count and _daily_loss by day key              *)
  store,      (* DurableDailyCounters._data                                 *)
  file,       (* the JSON file on disk                                      *)
  pc,         (* where each caller is: no cycle, in a cycle, or in check 10 *)
  pin,        (* the UTC day each caller's cycle started in                 *)
  key,        (* the day key its check_order computed                       *)
  count,      (* the incremented count it has read and not yet written      *)
  sent,       (* history: counted approvals granted, by day                 *)
  booked,     (* history: losses reported, by day                           *)
  lost,       (* history: some restart came up with less than was counted   *)
  raced,      (* history: an order or a loss came in during another's check *)
              (* 10, so that two callers were at the counters at once       *)
  mustHalt    (* history: activated and not explicitly deactivated since    *)

gateVars == <<killed, cache, store>>
callVars == <<pc, pin, key, count>>
history == <<sent, booked, lost, raced, mustHalt>>
vars == <<up, day, killed, chainHalt, cache, store, file, pc, pin, key, count,
          sent, booked, lost, raced, mustHalt>>

-----------------------------------------------------------------------------
(* Mutants of Verdict, as check_order would be with a limit tested one too *)
(* late, or with closing legs let past the loss limit as well.             *)
VerdictQuotaLate(o) ==
  IF killed /\ ~o.unwind THEN "KILL_SWITCH_ACTIVE"
  ELSE IF o.fault \in EarlyFaults THEN o.fault
  ELSE IF ~o.unwind /\ cache[day]["trades"] > MaxDailyTrades THEN "DAILY_TRADE_LIMIT_EXCEEDED"
  ELSE IF cache[day]["loss"] >= MaxDailyLoss THEN "DAILY_LOSS_LIMIT_EXCEEDED"
  ELSE IF o.fault \in LateFaults THEN o.fault
  ELSE "APPROVED"
VerdictUnwindExempt(o) ==
  IF killed /\ ~o.unwind THEN "KILL_SWITCH_ACTIVE"
  ELSE IF o.fault \in EarlyFaults THEN o.fault
  ELSE IF ~o.unwind /\ cache[day]["trades"] >= MaxDailyTrades THEN "DAILY_TRADE_LIMIT_EXCEEDED"
  ELSE IF ~o.unwind /\ cache[day]["loss"] >= MaxDailyLoss THEN "DAILY_LOSS_LIMIT_EXCEEDED"
  ELSE IF o.fault \in LateFaults THEN o.fault
  ELSE "APPROVED"

(* check_order's result for order o against today's cached counters, the   *)
(* checks in the order of the code.                                        *)
Verdict(o) ==
  IF killed /\ ~o.unwind THEN "KILL_SWITCH_ACTIVE"
  ELSE IF o.fault \in EarlyFaults THEN o.fault
  ELSE IF ~o.unwind /\ cache[day]["trades"] >= MaxDailyTrades THEN "DAILY_TRADE_LIMIT_EXCEEDED"
  ELSE IF cache[day]["loss"] >= MaxDailyLoss THEN "DAILY_LOSS_LIMIT_EXCEEDED"
  ELSE IF o.fault \in LateFaults THEN o.fault
  ELSE "APPROVED"

(* Only the executor's check of a live entry consumes a daily slot.        *)
Counted(o) == o.live /\ ~o.unwind

(* Mutants of Increment: the store takes over the cache's total instead of *)
(* adding to its own, or keeps its old total when the file write fails.    *)
IncrementFromCache(d, field, amount) ==
  /\ store' = [store EXCEPT ![d][field] = cache'[d][field]]
  /\ \/ file' = store'
     \/ UNCHANGED file
IncrementRollsBack(d, field, amount) ==
  \/ /\ store' = [store EXCEPT ![d][field] = @ + amount]
     /\ file' = store'
  \/ UNCHANGED <<store, file>>

(* increment: add to the in-memory store, then try to rewrite the file.  A *)
(* failed write is reported and leaves the file as it was; a later write   *)
(* carries the whole store.                                                *)
Increment(d, field, amount) ==
  /\ store' = [store EXCEPT ![d][field] = @ + amount]
  /\ \/ file' = store'
     \/ UNCHANGED file

(* activate_kill_switch as the gate sees it.                               *)
Halt == killed' = TRUE /\ mustHalt' = TRUE

-----------------------------------------------------------------------------
Init ==
  /\ up = TRUE
  /\ day = 0
  /\ killed = FALSE
  /\ chainHalt = FALSE
  /\ cache = Blank
  /\ store = Blank
  /\ file = Blank
  /\ pc = [c \in Callers |-> "idle"]
  /\ pin = [c \in Callers |-> 0]
  /\ key = [c \in Callers |-> 0]
  /\ count = [c \in Callers |-> 0]
  /\ sent = [d \in Days |-> 0]
  /\ booked = [d \in Days |-> 0]
  /\ lost = FALSE
  /\ raced = FALSE
  /\ mustHalt = FALSE

(* run_trading_cycle pins the day whose limits will bear its losses.       *)
StartCycle(c) ==
  /\ up
  /\ pc[c] = "idle"
  /\ pc' = [pc EXCEPT ![c] = "cycle"]
  /\ pin' = [pin EXCEPT ![c] = day]
  /\ UNCHANGED <<up, day, gateVars, chainHalt, file, key, count, history>>

InCheck10(c) == pc[c] \in {"screened", "counting"}
OthersInCheck10(c) == \E b \in Callers \ {c} : InCheck10(b)

(* Checks 0 to 9.  A rejection ends the call and changes nothing, and so   *)
(* does an approval that is not counted; a counted one goes on to check 10.*)
Screen(c, o) ==
  /\ up
  /\ pc[c] = "cycle"
  /\ sent[day] < MaxSends
  /\ Verdict(o) = "APPROVED"
  /\ IF Counted(o)
     THEN /\ pc' = [pc EXCEPT ![c] = "screened"]
          /\ key' = [key EXCEPT ![c] = day]
          /\ raced' = (raced \/ OthersInCheck10(c))
     ELSE UNCHANGED <<pc, key, raced>>
  /\ UNCHANGED <<up, day, gateVars, chainHalt, file, pin, count, sent, booked, lost, mustHalt>>

(* A mutant of ReadCount: the slot is given back instead of taken.         *)
ReadCountDown(c) ==
  /\ up
  /\ pc[c] = "screened"
  /\ pc' = [pc EXCEPT ![c] = "counting"]
  /\ count' = [count EXCEPT ![c] = cache[key[c]]["trades"] - 1]
  /\ UNCHANGED <<up, day, gateVars, chainHalt, file, pin, key, history>>

(* Check 10, first half: count = _daily_trade_count.get(key, 0) + 1.       *)
ReadCount(c) ==
  /\ up
  /\ pc[c] = "screened"
  /\ pc' = [pc EXCEPT ![c] = "counting"]
  /\ count' = [count EXCEPT ![c] = cache[key[c]]["trades"] + 1]
  /\ UNCHANGED <<up, day, gateVars, chainHalt, file, pin, key, history>>

(* Check 10, second half: write the count back, count it in the store, and *)
(* return the approval that lets the order go out.                         *)
WriteCount(c) ==
  LET d == key[c] IN
  /\ up
  /\ pc[c] = "counting"
  /\ cache' = [cache EXCEPT ![d]["trades"] = count[c]]
  /\ Increment(d, "trades", 1)
  /\ sent' = [sent EXCEPT ![d] = @ + 1]
  /\ pc' = [pc EXCEPT ![c] = "cycle"]
  /\ key' = [key EXCEPT ![c] = 0]
  /\ count' = [count EXCEPT ![c] = 0]
  /\ UNCHANGED <<up, day, killed, chainHalt, pin, booked, lost, raced, mustHalt>>

(* report_volume increments the store as well: what earlier failed writes  *)
(* left out of the file gets another chance to be saved.                   *)
ReportVolume(c) ==
  /\ up
  /\ pc[c] = "cycle"
  /\ file' = store \/ UNCHANGED file
  /\ UNCHANGED <<up, day, gateVars, chainHalt, callVars, history>>

(* The end of a cycle: an equity drop l > 0 is reported against the pinned *)
(* day, and trips the kill switch when that day's total reaches the limit. *)
FinishCycle(c, l) ==
  LET d == pin[c] IN
  /\ up
  /\ pc[c] = "cycle"
  /\ booked[d] + l <= MaxBooked
  /\ pc' = [pc EXCEPT ![c] = "idle"]
  /\ pin' = [pin EXCEPT ![c] = 0]
  /\ IF l = 0
     THEN UNCHANGED <<gateVars, file, booked, raced, mustHalt>>
     ELSE /\ cache' = [cache EXCEPT ![d]["loss"] = @ + l]
          /\ Increment(d, "loss", l)
          /\ booked' = [booked EXCEPT ![d] = @ + l]
          /\ raced' = (raced \/ OthersInCheck10(c))
          /\ IF cache[d]["loss"] + l >= MaxDailyLoss /\ ~killed
             THEN Halt
             ELSE UNCHANGED <<killed, mustHalt>>
  /\ UNCHANGED <<up, day, chainHalt, key, count, sent, lost>>

(* activate_kill_switch by the operator, or by a fill beyond the executor's*)
(* hard collar.                                                            *)
Activate ==
  /\ up
  /\ Halt
  /\ UNCHANGED <<up, day, chainHalt, cache, store, file, callVars, sent, booked, lost, raced>>

(* deactivate_kill_switch.                                                 *)
Deactivate ==
  /\ up
  /\ killed' = FALSE
  /\ mustHalt' = FALSE
  /\ UNCHANGED <<up, day, chainHalt, cache, store, file, callVars, sent, booked, lost, raced>>

(* The agent's on-chain kill switch is set or cleared.                     *)
SwitchChainHalt ==
  /\ chainHalt' = ~chainHalt
  /\ UNCHANGED <<up, day, gateVars, file, callVars, history>>

NewDay ==
  /\ day < LastDay
  /\ day' = day + 1
  /\ UNCHANGED <<up, gateVars, chainHalt, file, callVars, history>>

(* The process dies: caches, the kill switch and every call are gone.      *)
Crash ==
  /\ up
  /\ up' = FALSE
  /\ killed' = FALSE
  /\ cache' = Blank
  /\ store' = Blank
  /\ pc' = [c \in Callers |-> "idle"]
  /\ pin' = [c \in Callers |-> 0]
  /\ key' = [c \in Callers |-> 0]
  /\ count' = [c \in Callers |-> 0]
  /\ lost' = (lost \/ file # store)
  /\ UNCHANGED <<day, chainHalt, file, sent, booked, raced, mustHalt>>

(* Mutants of Boot: the constructor before the counters were rehydrated,   *)
(* and one that rehydrates the trade count alone.                          *)
BootForgets ==
  /\ ~up
  /\ up' = TRUE
  /\ store' = file /\ lost' = lost
  /\ cache' = Blank
  /\ killed' = chainHalt
  /\ mustHalt' = (mustHalt \/ killed')
  /\ UNCHANGED <<day, chainHalt, file, callVars, sent, booked, raced>>
BootTradesOnly ==
  /\ ~up
  /\ up' = TRUE
  /\ store' = file /\ lost' = lost
  /\ cache' = [Blank EXCEPT ![day]["trades"] = store'[day]["trades"]]
  /\ killed' = chainHalt
  /\ mustHalt' = (mustHalt \/ killed')
  /\ UNCHANGED <<day, chainHalt, file, callVars, sent, booked, raced>>

(* The constructor: load the file (an unreadable one counts as empty),     *)
(* rehydrate the current day only, then mirror an on-chain halt if the     *)
(* chain can be read.                                                      *)
Boot ==
  /\ ~up
  /\ up' = TRUE
  /\ \/ store' = file /\ lost' = lost
     \/ store' = Blank /\ lost' = (lost \/ file # Blank)
  /\ cache' = [Blank EXCEPT ![day] = store'[day]]
  /\ \/ killed' = chainHalt
     \/ killed' = FALSE
  /\ mustHalt' = (mustHalt \/ killed')
  /\ UNCHANGED <<day, chainHalt, file, callVars, sent, booked, raced>>

Next ==
  \/ \E c \in Callers : \/ StartCycle(c)
                        \/ \E o \in Orders : Screen(c, o)
                        \/ ReadCount(c)
                        \/ WriteCount(c)
                        \/ ReportVolume(c)
                        \/ \E l \in Losses : FinishCycle(c, l)
  \/ Activate
  \/ Deactivate
  \/ SwitchChainHalt
  \/ NewDay
  \/ Crash
  \/ Boot

Spec == Init /\ [][Next]_vars

-----------------------------------------------------------------------------
(* Types.                                                                  *)
TypeOK ==
  /\ up \in BOOLEAN /\ killed \in BOOLEAN /\ chainHalt \in BOOLEAN
  /\ lost \in BOOLEAN /\ raced \in BOOLEAN /\ mustHalt \in BOOLEAN
  /\ day \in Days
  /\ cache \in Ledger /\ store \in Ledger /\ file \in Ledger
  /\ pc \in [Callers -> {"idle", "cycle", "screened", "counting"}]
  /\ pin \in [Callers -> Days] /\ key \in [Callers -> Days] /\ count \in [Callers -> Nat]
  /\ sent \in [Days -> Nat] /\ booked \in [Days -> Nat]

(* As long as no restart has lost counts, the store that the next write    *)
(* puts on disk knows every approval and every loss of every day, however  *)
(* the callers of check_order interleave and however many writes failed    *)
(* before (DurableDailyCounters.increment under its lock).                 *)
StoreIsExact ==
  up /\ ~lost => \A d \in Days : store[d]["trades"] = sent[d] /\ store[d]["loss"] = booked[d]

(* A racing read-modify-write of the cached count can only lose counts: no *)
(* day's cache ever shows more than the store holds.                       *)
CacheNeverAhead ==
  up => \A d \in Days : /\ cache[d]["trades"] <= store[d]["trades"]
                       /\ cache[d]["loss"] <= store[d]["loss"]

(* check_order's loss test sees every loss of the current day, and a       *)
(* report pinned to an earlier day adds to that day's full total: a day a  *)
(* running cycle pinned is a day this process has rehydrated.  (The        *)
(* README's note on daily counters has a restart reset them; it is older   *)
(* than the store.  RestartResets states what it says.)                    *)
LossIsVisible ==
  up /\ ~lost => /\ cache[day]["loss"] = booked[day]
                 /\ \A c \in Callers : pc[c] # "idle" =>
                                         cache[pin[c]]["loss"] = booked[pin[c]]

(* Once the losses of a day reach the limit, check_order admits no order   *)
(* that day, entry or unwind, whatever deactivations and restarts follow.  *)
BreachedDayAdmitsNothing ==
  up /\ ~lost /\ booked[day] >= MaxDailyLoss => \A o \in Orders : Verdict(o) # "APPROVED"

(* The daily quota: unless two callers were at the counters at once, no    *)
(* day ever sees more counted approvals than max_daily_trades, over any    *)
(* number of midnights, failed file writes and restarts that lose no       *)
(* counts.                                                                 *)
QuotaHeld ==
  ~lost /\ ~raced => \A d \in Days : sent[d] <= MaxDailyTrades

(* Unless two callers were at the counters at once, an approval is never   *)
(* granted on a day whose losses had reached the limit, also when midnight *)
(* or a restart falls between the loss and the order.                      *)
NoSendPastBreach ==
  [][\A d \in Days : sent'[d] > sent[d] /\ ~lost /\ ~raced => booked[d] < MaxDailyLoss]_vars

(* "counts the trade, once": outside a call, the cached count of the       *)
(* current day is the number of approvals granted.                         *)
EveryApprovalCounted ==
  up /\ ~lost /\ (\A c \in Callers : pc[c] \in {"idle", "cycle"})
    => cache[day]["trades"] = sent[day]

(* The README's note on daily counters: "a process restart resets today's  *)
(* accumulated loss/trade counts".                                         *)
RestartResets ==
  [][~up /\ up' => cache' = Blank]_vars

(* A halt stays in force until it is explicitly deactivated.               *)
HaltUntilCleared ==
  up /\ mustHalt => killed

=============================================================================
