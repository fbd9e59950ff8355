# A verification project for the portfolio risk copilot

The program is an autonomous trading agent: a Python service that turns signals
into orders on an exchange, behind a risk gate, and two Solidity contracts - an
audit trail that every order must be logged on first, and a pooled vault that
lends capital to the agent.  This directory holds TLA+ models of the parts that
keep state and can go wrong in an order nobody wrote a test for, the TLC
configurations that check them on small instances, and TLAPS proofs of their
most important properties for all values of the constants.

Paths below are relative to `src/`, the repository's root.

## 1. Inventory

| Part | Code | State it keeps | Operations |
|---|---|---|---|
| Risk gate | `src/execution/risk_gate.py` | kill switch, daily trade / loss / volume counters by UTC day, regime volatility | `check_order` (checks 0 to 10), `report_loss`, `report_volume`, activate / deactivate, rehydration and on-chain sync at boot |
| Durable counters | `risk_gate.py`, `DurableDailyCounters` | an in-memory table and a JSON file | `increment`, load, atomic rewrite |
| Order executor | `src/execution/executor.py` | none of its own | `place_order`, `_cli_size` (dollars into lots), `_await_fill`, `_verify_fill` (collar, hard collar) |
| Trading cycle, directional path | `src/agent.py` | day pinned per cycle, last equity | `run_trading_cycle`, `_process_asset`, `_report_cycle_loss` |
| Funding-arb coroutine | `src/agent.py`, `_run_funding_arb_package` | locals of one run | log twice, dispatch, resolve, settle, record |
| Multi-leg manager | `src/multi_leg.py` | open packages, reserved instruments, one record per package | propose, dispatch, resolve (abort, unwind), settle |
| Audit trail contract | `contracts/contracts/TradeAuditTrail.sol` | parameters, halt, decisions, receipts, index, daily buckets | `setRiskParams`, halt, `logDecision`, `recordExecution` |
| Vault contract | `contracts/contracts/TradingVault.sol` | shares, attested NAV, reserve, withdrawal queue, agent transfers, agent rotation | deposit, two-step withdrawal, attestation, transfers, rotation |
| On-chain logger | `src/audit_logger.py`, `src/rpc.py` | nonce counter and its lock, active endpoint | `log_decision`, `record_execution`, activate / deactivate, all through `_send_transaction` (numbering, failover, one retry, receipt) |
| Curator | `src/curator.py` | profile, cooldown, trailing PnL | `request_switch`, `record_trade_pnl` |
| HTTP service | `src/main.py` | one agent, its gate and its logger | `/trade`, kill-switch endpoints, `/api/v1/vault/attest`, views |
| Integrity gate, signals | `src/data_integrity.py`, `signals.py` | none | `check_market_data`; regime filter, three strategies, `ensemble_signal` |
| Validation, auditor | `validation.py`, `auditor.py` | none | offline statistics, read-only checks |
| Alerting, reconciliation, local log, vault API, exchange CLI, web pages, scripts | | a cool-down; otherwise none | input and output |

**How they interact.**  A `/trade` call runs a cycle.  A cycle pins the UTC
day, walks its assets, and for each one asks the gate (without counting), logs
a decision on the audit trail, waits for the receipt, and calls the executor,
which asks the gate again - this time counting - and sends the order.  Funding-arb
assets run a package of two legs instead, whose gate checks run in worker
threads.  At its end the cycle compares the account's equity with the last
one it saw and reports a drop to the gate, which may trip the kill switch.  The
gate's halt is local; the contract has a halt of its own, set by the same
endpoints - locally first when tripping, on the chain first when lifting - and
mirrored once, when the gate is constructed.  All writes to the audit trail go
through one logger from several threads; NAV attestations use the same account
with a nonce of their own.  The vault is linked
to the agent only by the capital it transfers and the NAV the agent attests.

**What is hard here.**

- *Interleaving.*  Cycles overlap; packages overlap within and between cycles
  at every `await`; the gate's counters are read and written in worker threads
  without a lock, next to a store that has one.
- *Stale reads.*  Capacity, prices and quota are checked before receipts and
  market data are awaited, and used after.
- *Partial failure.*  The second leg of a package can be refused, time out, fill
  badly, or fill late; an unwind can fail half-way; a log can fail before either.
- *Restarts.*  Counters come back from a file whose writes may have failed; the
  local kill switch and the open packages do not come back at all.
- *The chain.*  A broadcast may get through although its answer is lost, a
  transaction may be mined long after its caller gave up or be forgotten, a gap
  in the nonces holds everything behind it.
- *Midnight.*  Daily limits reset while cycles are running, and lazily in the
  contract.
- *Rounding and call order in the vault.*  Prices are integer quotients with a
  virtual offset, and depositors, agent and owner act in any order.

**What makes each part correct** is stated in section 4, property by property;
`PROJECT.json` lists the hazards at their lines and the properties that would
catch them.

## 2. Plan

Modules, in the order they are written:

1. `RiskGate` - the last line before an order.  *Done.*
2. `TradingVault` - depositors' money.  *Done.*
3. `TradeAuditTrail` - the hard gate on the chain.  *Done.*
4. `FundingArbPackage` - the most concurrent path of the agent.  *Done.*
5. `OnchainLogger` - every write to the chain, over a chain that may lose an
   answer, sit on a transaction or forget it.  *Done*, with its abstract
   specification `AtMostOnceLog`.
6. `Signals` - from a market snapshot to an order and its lots.  *Done.*
7. `TradingCycle` - the service: the directional path, the equity feed, the
   kill-switch and attestation endpoints and restarts, composed with
   `OnchainLogger` and `Signals`.  *Done.*

The curator needs no module: in the running service nothing calls its switching
operations (section 6).

Beside them stand four abstract specifications, each of which says what one part
promises another: `AtMostOnceLog` (the logger, to its callers), `DecisionLedger`
(the contract, to the agents), `WithdrawalEscrow` (the vault, to a depositor) and
`PackageLifecycle` (the multi-leg manager, to whoever starts a package).  All four
are *done*: checked on an instance and proved for all values of the constants.

A *daily budget* common to the gate and the contract was considered and dropped: the
gate keeps its quota only while no two orders are in check 10 together, so the
abstract specification would say no more than `QuotaSafe` and `QuotaHolds` do.

## 3. Modules

Each component has a module `X`, a module `MCX` with the instance TLC uses, one
`.cfg` per run, and a module `XProofs` with its theorems.  Definitions keep the
source's names where TLA+ allows it; every definition that models code is listed
with its lines under `map` in `PROJECT.json`.

### RiskGate

`Verdict(o)` is `check_order` up to its first failing check, in the order of the
code.  The stateless checks (whitelist, confidence, size, regime cap, fat finger,
slippage, reduce-only, price age) are reduced to "the first one this order
fails": an order is a record `[unwind, live, fault]`.  Check 10 - read the cached
count, write it back, increment the store - is two actions, `ReadCount` and
`WriteCount`, because that is where another thread can come in; in `Increment`
the file write may fail, in which case a later write carries the whole table.
`Crash` clears what lives in memory, `Boot` loads the file (an unreadable one
counts as empty), rehydrates the current day only and mirrors the chain's halt
if the chain can be read.  `StartCycle` / `FinishCycle` are the day a cycle pins
and the loss it reports at its end.

`sent`, `booked`, `lost`, `raced` and `mustHalt` are history: they record what
happened and guard nothing, except that `sent` and `booked` carry two of the
bounds.  `raced` is set when an order enters check 10, or a loss is booked, while
another caller is in it: the quota and the limit are only promised without that.
The daily volume is left out: no check reads it, and all that `report_volume` does
to the rest is to write the file again (`ReportVolume`).

### TradingVault

One action per external function that moves shares, assets, the reserve, the
NAV or the agent role; its guard is the conjunction of the conditions under
which the call does not revert, the checked subtractions of Solidity 0.8
included.  `Tick` advances the block time.  Amounts are small integers and the
quotients are those of the contract, virtual amounts included.

What depositors may call is `DepositorStep`: the calls priced at the present NAV
(`PricedStep`) and the expiry of a request (`ReclaimStep`).  A priced call never
lowers the share price.  An expiry may: it returns the shares of the request for
the sum they were priced at, although a share may be worth more by then - if only
by what the request itself rounded off.  `SharePriceKept` states both, and that the
price an expiry leaves is never below that of its request.

`WithdrawalEscrow` is what the vault promises a depositor who withdraws, with no
time, price, NAV or agent in it: the shares of a request lie in escrow against a
fixed sum, until that sum is paid or they return to their owner, once.  In the
refinement (`WithdrawalsSettleOnce`) the escrow is `held`, the open requests with
what they are `owed`; the requests no longer open are the settled ones.  That the
sum is fixed at the request, and not when it is paid, is part of the promise.

### TradeAuditTrail

One action per external function.  The daily counters reset lazily: `Trades`,
`Volume` and `Loss` read zero when the bucket is of an earlier day, as the code
does when the next decision comes.  A signature is the account it recovers to.

`DecisionLedger` is what an agent can rely on of the contract, without limits, days,
arrays and indices: nothing is logged under its kill switch, no id twice, a
receipt closes a decision of the agent that files it, once, and nothing that stands
goes away.  `LedgerKept` says that the contract implements it, each account with
its own entries of the two arrays.  It is also the specification the logger's
chain is held to, in `ChainIsLedger`: what `TradeAuditTrail` guarantees is what
`OnchainLogger` assumes, so the two models cannot drift apart.

### FundingArbPackage

One process per run of the coroutine, with a program point (`pc`) for each await:
`idle -> fetching -> logging -> dispatching <-> opening -> resolving ->` then
either `settling -> recording -> done`, or `unwinding <-> closing -> done`, with
`raised` wherever the code raises and nothing catches it.  The exchange's answer
is chosen freely from `Answers`; a failed command may or may not have reached
the exchange; an order that was still pending after the polls stays `resting` and
may fill at any later time.  `held` is what is really on at the exchange; `leg` is
what the package believes.  Around the runs, prices age, the operator flips the
halt, other cycles trade and report losses, midnight passes and the process
restarts.

The gate's trade count belongs to `RiskGate`, where two threads can pass the last
slot together.  Here `spent` says whether a reader finds it at the quota, and
`CountMoves` moves it at any time: a leg's own approval included, whose effect on
the count is not tied to the step that was approved.

A fill may come without a price (`unpriced`): it has no slippage, so no collar
trips, and the package is locked with a leg nobody measured.  An order may be filled
in part (`partial`, history): the package takes it as filled, as
`LiveFillSimulator` and `_await_fill` do, so a leg closed in part counts as closed
while the rest is on.

`PackageLifecycle` is the course that `multi_leg.py` documents, with no orders,
prices, log or gate: pending, then locked with every leg on and settled, or
aborted.  A package takes legs on and closes them only while it is pending and
holds one of the manager's slots; one that says it is unwound has none on; what
has ended, or was lost in a restart, never moves again.  The legs it sees
(`KnownOn`) are those the manager knows to be on - a fill answered, its closing
order not yet filled; what may be on beyond that is `NoNakedLeg`'s subject.

### OnchainLogger and AtMostOnceLog

A *call* is one use of `log_decision`, `record_execution` or a kill-switch
operation, and goes `idle -> asked -> waiting -> ok | error`, by way of `failover`
and `reseed` when the connection breaks.  `Broadcast` is the part of
`_send_transaction` under the nonce lock up to the first answer; what a lost
connection leaves behind - `FailOver`, `Resend`, `ReseedFails` - still holds the
lock (`LockFree`).  `counter` is `_nonce_counter`, and moves before the broadcast
whether that succeeds or not.  `Receive` and `TimeOut` end the wait for the receipt,
outside the lock.  `Attest` is `vault_attest`: same account, nonce from the node, no
look at the receipt's status; reading the nonce and sending are one step.

The chain is what nodes make of one account: `pool` holds at most one
transaction per nonce, `Mine` takes the one whose nonce is `height`, and `Permits`
says what the contract requires (the halt, an unused id, a logged decision
without a receipt).  The
contract's own limits are `TradeAuditTrail`'s business; here they may refuse a log
or an attestation at any time, as a *mishap*.  So are broken connections,
forgotten or late transactions, and restarts.

`AtMostOnceLog` is what the callers rely on, in three variables: an entry is
written at most once, after it was asked for and before its caller is told it
stands; a caller told of an error knows nothing.  `LogRefined` is the refinement:
`asked` are the entries whose call is not idle, `written` is how often the call
took effect, `answer` is how it ended.

### Signals

`check_market_data`, `trend_regime`, the three strategies, `ensemble_signal`,
`_compute_order_size`, `_signal_to_order` and `_cli_size` as functions of a
snapshot.  A snapshot is a record of the statistics the code compares (z-score,
moving averages, regime window, funding rate, age), not of price series.
Confidences are basis points and sizes whole dollars, rounded down where the code
rounds to cents; `Score` is four times the score of the code, to stay in the
integers.  Which snapshots come to an order is the set `Wanted`, and which of them
the gate's stateless checks let pass is `Admissible`.

### TradingCycle

EXTENDS both.  A *trade* is the cycle of one instrument:

    idle -> fetched -> logging -> sending <-> polling -> recording -> closing -> read -> ended

`StartCycle` is `/trade` with the snapshot, `Decide` is `_process_asset` up to the
log, `PlaceOrder` is the executor's second question to the gate once the log has
answered, `Send` and `Poll` are the order and `_await_fill`, `AfterRecord` follows
the receipt, `ReadEquity` and `ReportLoss` are `_report_cycle_loss` outside and
inside its lock.  A trade waits in `logging` and `recording` for a call of the
logger, which `ServeCall` carries on; the answer to a deactivation also ends that
request, which lifts the local halt after a success only.  The gate's counters
are `RiskGate`'s business: here the gate may refuse for its own reasons, as one
of the bounded `extras`.  A request for several assets is several trades side by
side, whose equity is then read once per trade instead of once.

Losses are booked by UTC day: a cycle is pinned to the day it starts on (`pin`),
and `booked` has a total for each.  The clock is only looked at when a cycle
starts, so midnight needs no action of its own: `StartCycle` may find that the
`day` has moved on.  `fell` is history: by how much the readings of the cycles
pinned to each day have fallen, gains subtracted.

What a trade waits for in `sending`, `polling` and `closing` is the exchange's command
line (`AtCli`), which `OkxCli.run` awaits without a time limit; `CliReturns` are the
steps that follow its end, `Resume` all others.

## 4. Runs

| Run | Instance | Distinct states | What it shows |
|---|---|---|---|
| `gate_limits` | 2 callers, 2 days, quota 1, loss limit 2 | 1.2 M | `LossIsVisible`, `BreachedDayAdmitsNothing`, `QuotaHeld`, `NoSendPastBreach`: the daily limits hold over midnight, crashes, failed writes and operator calls, as long as no restart lost counts and, for the last two, no two callers were at the counters together; `StoreIsExact`, `CacheNeverAhead`: whatever races, the store counts everything and the cache errs downwards only |
| `gate_counted_once` | 2 callers | violation | `EveryApprovalCounted` fails: one trade counted for two approvals |
| `gate_halt_restart` | 1 caller | violation | `HaltUntilCleared` fails: a local halt does not survive a restart |
| `gate_restart_resets` | 1 caller | violation | `RestartResets` fails: today's counts come back from the file |
| `vault_books` | 2 users, 3 ticks, 2 requests, 1 transfer | 0.95 M | `BooksBalance`, `SharePriceKept`, `ReserveStaysCovered`, and the refinement `WithdrawalsSettleOnce` |
| `vault_custody` | 1 user, 2 agents, fair | 29 k | `RotationAnnounced`, and the liveness property `NoRequestBricked` |
| `vault_nav_floor` | 1 user | violation | `ReserveWithinNav` fails after an attested loss |
| `trail_log` | 2 agents, 3 ids, 2 days of trading | 0.5 M | `TrailConsistent`, `QuotaPerDay`, `NoDecisionPastLoss`, and the refinement `LedgerKept` |
| `trail_tightening` | 1 agent | violation | `NeverLoosened` fails: a position limit of 0 reopens all parameters |
| `package_legs` | 2 runs, 2 instruments | 0.5 M | `RegistryAgrees`, `LockedUnbreached`, `LogIsHardGate`, `ClaimIsHonest`, `UnwindPassesHalt`, and the refinement `LifecycleKept` |
| `service_cycles` | 2 trades, 7 calls, 7 snapshots, 2 days, at most 2 mishaps or surprises, fair | 0.37 M | of the logger: `AnswersAreTrue`, `NoncesApart`, `HaltStands`, and the refinements `LogRefined` and `ChainIsLedger`; of the cycle: `OrdersAreLogged`, `ListedIsOnTrail`, `NetLossTripped`, `EvidenceIsIndependent`, `OrderWithinDecision`; of the endpoints: `LiftedOnChain`; liveness: `CallsReturn`, `CyclesEnd` |
| `package_naked_leg` | 1 run, an exchange that fills everything cleanly | violation | `NoNakedLeg` fails: the gate refuses the second leg and the first stays on |

Every property of a passing run has a mutant: a variant of one definition, in
the module beside it, that stands for a plausible bug (a swapped check, a
forgotten reset, a price taken after the burn) and makes TLC find the property
violated under the same configuration.

### Bounds, and why they are enough

- *Callers, runs, agents, users: two.*  Every race in this code is between two
  parties over one counter, registry or reserve; the proofs cover any number.
- *Quotas and limits of 1 or 2*, so that a limit is reached, and passed by a
  mutant, within one day; *two days* (three for the trail, whose buckets start at
  day 1), so that a cycle, a count and a request can straddle midnight.
- *`MaxSends`, `MaxBooked`* stop the counters above their limits, not below:
  `MaxSends` exceeds the quota by one.
- *Vault*: `MaxCash` 4 and valuations 1, 4 and 6 with a virtual offset of 2 make
  every quotient round, NAV rise above and fall below the deposits, and the
  reserve exceed the cash.  Two requests and one transfer are the fewest that
  compete for the cash.  Timelocks are one tick, the rotation's is two where the
  rotation is checked; `Genesis` is late enough for the contract's zero-initialised
  clocks to have run out, as they have on a real chain.
- *Packages*: the instruments are two so that two runs can also compete for
  one.  The answers checked are `clean`, `unpriced`, `collar`, `pending` and `error`: to
  a package `slipped` is `collar` with the halt cleared again, and `refused` is
  `pending` that never fills, so both add no behaviour.  Runs and instruments are
  symmetric, and `PackageView` takes two states for one when they differ only in what
  neither a step nor a property reads again: the instrument of a run that is neither
  fetching nor registered (`Release` reads it for registered runs only, as
  `ReservedHolds` proves), the staleness of a run that has sent its last order,
  whether a fill had a price, and, of a run that has ended, everything but which of
  its legs are known and on.

- *Service.*  Two trades - one on a linear swap, one on spot - and one call of each
  operator endpoint, with equities 1 to 4 around a first reading of 3 and a loss
  limit of 2: one drop may reach it, or two of three cycles of a day together, and
  a loss may fall on either side of a midnight (`LastDay` 1).  `Budget` bounds
  everything nobody has to expect, mishaps and `extras` together, to two in a
  behaviour: a second cycle, a midnight before it, an operator's request, a gain of
  the equity, a bad fill, a refusal for reasons of another module, a
  broken connection, a lost transaction, a restart.  Two is the fewest that let
  one failure meet another (a lost answer and the failure of its retry; a late
  deactivation and a halt), and every mutant falls within it; the safety theorems
  hold for any number.
  `counter`, `height` and the nonces need no bound of their own: each call is
  made once and retried at most once.
- *Snapshots.*  The seven are one for each way a snapshot comes to an order or
  not (the comments in `MCTradingCycle` name them); two come to an order.
  `MIN_CONFIDENCE_BPS` is 6000 and momentum is enabled in this run.  With the
  service's default of 7000 an ensemble of two agreeing price-action strategies
  cannot pass anyway, because it is averaged over three signals, and with
  momentum off there is nothing to haircut: the run checks the setting in which
  the haircut matters.

Deadlock checking is off for the package and service runs only: their runs and
calls are finite and come to an end.

### Fairness

Two runs assume any.  In `vault_custody`, `WF(Tick)`: blocks keep coming.
`WF(ExpireWithdrawal)` per request: `expireWithdrawal` can be called by the
request's owner (and the vault's), whose interest it is, from the deadline on,
and nothing the agent does can disable it.  Payment (`finalizeWithdraw`) is *not*
assumed fair, because the settlement window and the cash are in the agent's hands.
In `service_cycles`, `WF(Progress)`, where `Progress` is the next step of a coroutine
that waits neither for a call nor for the exchange's command line (`Resume`), of a
call's worker thread, or of a block with the due transaction: as long as one of them
can move, one of them does.  The event loop resumes what is ready, threads are
scheduled by the operating system, the waits of a call are bounded (120 seconds for a
receipt, the HTTP provider's timeout), and blocks keep coming.  It is one fairness
condition for all of them together, which suffices because each moves finitely
often.  The command line is *not* among them: `okx_cli.py:169` awaits
`communicate()` without a time limit, and a command that hangs holds its cycle for
good.  `CyclesEnd` therefore says two things: nothing else ever holds a cycle, and
under the condition that the command always returns - an assumption of the
property, not of the specification - every cycle ends, resting orders and failed
receipts included.  Nothing is assumed of operators, or of transactions whose turn
has not come.
No liveness is claimed for the gate, the packages or the agent of the vault.

### What `service_cycles` leaves standing

Behaviours of the model that no property forbids, because the code states
nothing against them or another layer holds, and which a reader should know:

- *A halt can be lost locally.*  A halt requested while a deactivation is under way
  is erased when that request clears the local gate (`main.py:658`).
  `LiftedOnChain` and `HaltStands` say what is left: the local gate opens only
  after the chain has been lifted, and a halt that is numbered after the
  deactivation and answered stands in the contract, which refuses every decision.
- *A resend is not "never".*  `audit_logger.py:304` says "Unknown state => never
  resend", but any failure of the look-up, a pending transaction included, leads
  to a resend.  The contract's refusal of a known id makes it harmless for the log
  (`LogRefined` fails without it).  A halt or a clear may take effect twice.
- *The reseeded counter.*  It is read from the mined count, so after a failover,
  a restart or next to an attestation a new call can replace one that is still
  pending; the one replaced times out.  `NoncesApart` and `HaltStands` therefore
  carry their condition, and `AnswersAreTrue` holds without it.
- *A gap.*  When a broadcast fails for good, its number is spent, and later
  transactions wait until a failover or a restart.  Their callers time out
  (`CallsReturn`), and trading stops behind the hard gate.
- *Executed and not listed.*  When the receipt of an order fails on the chain, the
  exception takes the whole result of the asset with it: the execution is
  missing from the response, and its volume is not reported.  Only the converse,
  `ListedIsOnTrail`, holds.  An order whose status cannot be read is recorded as failed
  although it may be on.
- *Shorts are logged as longs.*  `_process_asset` builds its decision without
  `is_short` (`agent.py:930`), so `recordExecution`, which books losses by direction
  (`LossOf` in `TradeAuditTrail`), takes the gain of a directional short for a loss and
  misses its loss.  The direction of a decision is not part of `TradingCycle`; the
  agent's own limit reads the equity and does not depend on it.
- *Equity readings out of order* book a drop twice or late, never too little
  (`NetLossTripped`); a loss across a restart is not seen at all, and a loss spread
  over midnight counts half for each day: the limit is a limit per day of cycle
  starts, so cycles of two days may lose almost twice as much between them.
- *The exchange's command line may hang* (see Fairness), and with it its cycle.

### What `package_legs` leaves standing

- *Locked unverified.*  `multi_leg.py:138-140` says a package "can never silently
  reach LOCKED on a bad-priced fill", and `executor.py:214` that "a non-checkable fill
  is never silently marked good".  A fill without a price has `slippage_pct` None
  (`executor.py:218-227`) and passes both tests of the manager.  `LockedUnbreached`
  says what is left: no leg that was measured is past its limit.
- *Unwound in part.*  `multi_leg.py:364` takes a partially filled closing order as
  filled, so `unwound` may be True with the rest of the leg on, against "never
  silently mark it unwound" (`multi_leg.py:181-183`).  `ClaimIsHonest` leaves out the
  legs with an order filled in part, and `NakedLegTold` the packages with one.
- *Slots do not come back* when a log or a leg raises (`agent.py:616`): the registry
  stays within its bound (`RegistryAgrees`), and full until a restart.

### What the violations say

The six violation runs check one sentence of the repository each, quoted in
`PROJECT.json` under `findings`:

1. `risk_gate.py` says the final check "counts the trade, once"; two threads in
   check 10 count two trades as one.
2. The kill switch halts "until explicitly cleared"; it is cleared by a restart
   unless the chain's halt was set too.
3. `attestTotalAssets` keeps the NAV at or above the reserve; a withdrawal request
   priced with the virtual amounts after a loss does not, and then every
   conversion reverts until the request is expired.
4. Risk parameters "can only be tightened"; the test that protects them reads the
   position limit, and a limit tightened to 0 switches the test off.
5. Packages are "unwound automatically on a partial fill"; a refusal by the gate
   raises past both resolvers, so the first leg stays on, unhedged.
6. The README says a restart resets today's loss and trade counts; they are read
   back from the counter file.  `LossIsVisible`, `BreachedDayAdmitsNothing`,
   `QuotaHeld` and `NoSendPastBreach` state the opposite of that note, and hold: the
   README is older than the file.

For each of the first five a theorem of section 5 says where the sentence does hold:
as long as no two orders were in check 10 together (`CountedOnceWithoutRace`), while
the process stays up (`HaltStandsWhileUp`), from
a state where a share is worth its opening price (`ReserveSafeAtPar`), as long as no
position limit is set back to 0 (`TightenedOnly`), and, for a run that ends without
an error, when no order stays pending past the polls or is filled in part (`NakedLegTold`).  The run shows
that the sentence fails without the hypothesis, the theorem what holds with it.

## 5. Proofs

`tlapm` checks every theorem below with no step left open.  The theorems hold for
all values of the constants that satisfy the named assumption of the module
(`GateAssumption`, `VaultAssumption`, `TrailAssumption`, `PackageAssumption`,
`LoggerAssumption`, `SignalsAssumption`, `CycleAssumption`), which
only say that limits are natural numbers, that sets of inputs have the right
type, that the packages of a process and the accounts of a vault are finitely
many, and the like; TLC evaluates them in every run.

| Theorem | States | Argument |
|---|---|---|
| `TypeCorrect`, `VaultTypeCorrect`, `TrailTypeCorrect`, `PackageTypeCorrect` | `[]TypeOK` | inductive; the trail needs `IndexInv` (an index points at a decision with its id) and the package `StageInv` (what a run has logged and recorded at each program point) |
| `StoreExact` | `[]StoreIsExact` | `ExactInv`: while nothing is lost, the store - or the file while the process is down - knows every count |
| `LossVisible`, `BreachBlocks` | the loss check sees all losses | `FreshInv` (days not yet reached, and days pinned, are accounted for) and `LossInv`; the breach follows from `Verdict` |
| `NeverAhead` | `[]CacheNeverAhead` | `AheadInv` also bounds the count a caller has read and not yet written |
| `QuotaSafe`, `SendsBeforeBreach` | the quota, and no approval past a breach, for any callers | `NoRaceInv`: while nothing has raced, what a caller between the two halves of check 10 has seen is still true.  The condition is needed: `gate_counted_once` shows a race |
| `CountedOnceWithoutRace` | as long as no two callers raced, `[]EveryApprovalCounted` | `NoRaceInv` with `StoreExact`: between calls the cached count is the store's |
| `HaltStandsWhileUp` | without a restart, `[]HaltUntilCleared` | inductive for `[]up`: every other step that touches the switch sets it or clears it on request |
| `BooksHold` | `[]BooksBalance` | inductive with `TypeOK`: each call moves at most two summands of the reserve or the supply.  `SumTheorems` has the lemmas on sums over finite sets (adding, dropping and changing an element, bounds), by induction over the subsets of a finite set |
| `RefundsNeverRevert` | no request is owed more than the reserve, nobody holds more than the supply | from `BooksBalance`: a summand is at most the sum, so the checked subtractions of a payment or an expiry never revert |
| `WithdrawalsRefineEscrow` | `WithdrawalsSettleOnce` | each call maps to one step of `WithdrawalEscrow` or a stutter; `TypeOK` and the guards suffice |
| `DepositorsNeverDilute` | `SharePriceKept` | each quotient rounds in favour of the pool; two lemmas on integer division, any offset.  For an expiry, `PriceReclaimed`: adding back the shares for the rounded-down sum leaves a price no lower than the quotient they were priced with |
| `ReserveCovered` | `ReserveStaysCovered` | by cases on the call |
| `ReserveSafeAtPar` | at or above the opening price (`AtPar`) no call brings the reserve above the NAV, and no priced call takes the price below it | `PriceKept` (the step behind `DepositorsNeverDilute`) carries `AtPar` over a `PricedStep`, and `AtPar` puts the reserve within the NAV; an expiry only releases reserve, an attestation is guarded.  TLC shows that both can end `AtPar`: an attested loss, and an expired request by the rounding of its price |
| `RotationTimelocked` | `RotationAnnounced` | `ClockInv`: the clock of a pending proposal is that of the last one |
| `QuotaHolds` | `[]QuotaPerDay` | `BucketInv` (no decision is later than its agent's bucket) and `QuotaInv` (the counter is the cardinality of that day's decisions) |
| `LossCloses` | `NoDecisionPastLoss` | `LossInv`: the counter of the bucket's day is what was booked on it |
| `TightenedOnly` | `[]NeverLoosened` when no call sets a position limit back to 0 (`LimitsStaySet`) | `CapInv`: the limit in force is set and is at most the one each of the agent's decisions was checked against |
| `TrailHolds` | `[]TrailConsistent` | `IndexInv` and `ReceiptInv`: a decision is marked executed exactly when a receipt with its id exists, filed by its agent, and receipts have distinct ids |
| `TrailIsLedger` | `LedgerKept` | a call appends to one array at most; a new entry adds its id to one account's set and leaves the others (`LogGrowsLedger`, `ReceiptGrowsLedger`) |
| `RegistryHolds` | `[]RegistryAgrees` | `Reserved`: a run is in the registry exactly from proposal to release, or after it raised; the capacity test in `Propose` does the rest |
| `LogGatesLegs`, `LockHolds`, `ClosingPassesHalt`, `ClaimHolds` | the safety of one package | one local invariant each (`Gated`, `Backed`, `Refused`, `Claimed`) over a single run; `StepOfRun` shows that a step is one of that run or leaves its record alone, so nothing else needs to be looked at |
| `NakedLegTold` | a run that is done leaves both legs on or none, or its package is aborted and says it is not unwound, when no answer is `pending` and no order of the package was filled in part | `Answered`: for a run that did not raise and was not lost, every leg that is on was answered; then `LockHolds` and `ClaimHolds` |
| `LifecycleHolds` | `LifecycleKept` | `Coursed` (the state of a package at each program point) with `Reserved`; then an action per action: answers move legs (`AnswersMove`), the last of them ends the package (`AbortEnds`), whatever leaves the records alone is a stutter (`QuietStep`) |
| `LoggerTypeCorrect`, `CycleTypeCorrect` | `[]LoggerTypeOK`, `[]TypeOK` | inductive; the cycle needs `DecidedInv` (a trade past its decision holds an admissible snapshot) |
| `AnswersTrue` | `[]AnswersAreTrue` | `ReceiptInv`: a receipt that says ok belongs to a call that has taken effect |
| `LoggerRefinesLog` | `LogRefined` | `StepEffects` sorts the logger's steps into asking, moving, answering, mining and losing; each is a step of the log or a stutter, given `ReceiptInv` |
| `ChainKeepsLedger` | `ChainIsLedger` | only the execution of a mined transaction changes what stands on the chain (`ExecuteKeepsLedger`), and `Permits` is the ledger's guard |
| `NumbersApart` | `[]NoncesApart` | `PlaceInv` and `CountInv`: before any reseeding, numbers in flight and in the pool lie at or below the counter, each in one place |
| `AnsweredHaltStands` | `[]HaltStands` | `HaltInv`: transactions are mined in the order they were numbered, so nothing numbered before an answered halt is still pending |
| `LotsWithinSize`, `PriceActionIsNotEnough` | the lots, the ensemble | bounds on each strategy's confidence: with the haircut, two agreeing price-action strategies score at most 57000 where a tradeable ensemble of three needs 72000; integer division |
| `CycleRunsLogger`, `ServiceLogger` | the service implements `LoggerSpec` | every action of the service is one of the logger or leaves its variables alone; the five theorems above follow in the composition |
| `NetLossTrips` | `[]NetLossTripped` | `FeedInv`: the losses booked on a day are at least the net fall of its readings, and a day booked up to the limit has tripped the switch |
| `OrdersHaveIndependentEvidence`, `OrdersWithinDecision` | `[]EvidenceIsIndependent`, `[]OrderWithinDecision` | `DecidedInv` with the two theorems about `Signals` |
| `LoggedBeforeOrdered`, `ListedOnTrail`, `LiftedAfterChain` | the hard gate, the receipts, the two halts | `OrderInv`: what a trade waits for has been asked, and what it has passed has taken effect; `AnswersTrue` at the step that passes it |

**What the proofs corrected.**  Working out `ChainKeepsLedger` showed that the
logger's chain was more generous than the contract: two receipts for one decision
were both permitted, because `Permits` asked only whether the decision was logged.
The trading cycle never files two, so no run noticed; `Closed` is now part of the
guard, as `decisionExecuted` is in `recordExecution`.

**Only model-checked.**  `NoRequestBricked`, `CallsReturn` and `CyclesEnd`: liveness
under fairness is out of this prover's reach.  Every other property of the passing
runs is stated by a theorem.  The sums of `BooksBalance` are within reach
because they range over a finite set: `SumTheorems` states its inductions over
families of subsets, which are sets and need no operator as a parameter.  What a
recursive definition computes for every input is not proved anywhere, and no
theorem needs it.

## 6. Not modelled, and why

- *Floating point.*  Prices, confidence, volatility and signals are reals in the
  code; `RiskGate` and `FundingArbPackage` keep what is decided from them, as a
  verdict or an answer, and `Signals` computes with integers of a fixed unit.  The
  last digit of a float is not modelled, nor are the tolerance of 1e-12 in
  `_cli_size` and the cents of a size; a price window without any deviation
  counts as a z-score of 0.  How the statistics are computed from a price series is
  left out.
- *Share allowances, events, hashes, texts and fees* in the contracts: no property
  is about them.  The `isMarketOrder` parameter is always cleared by
  `setRiskParams`.
- *`close_package`* of the multi-leg manager, and the executor's cancel and amend:
  no trading path calls them.  The paper simulator is replaced by the live one.
- *Dry runs, a service without a logger, linear sizing*: the first two place no
  order and log nothing, the third is an option nobody sets by default.
  The regime throttle is one of the gate's own reasons in `RiskGate`.
- *The logger's* `set_risk_params` (called by a script), payload hashes, signatures and
  reads.  After a failover the contract object stays bound to the old endpoint, so
  estimates and builds may fail there; that is one of the ways a call raises.
- *The curator's switches.*  `request_switch` and `record_trade_pnl`, with the cooldown
  and the automatic revert, are called from the tests only: in the service the
  profile is the default one.  Its knobs are constants of `Signals`.  `agent.py`
  reads them again for `GET /curator-profile` and for every overlapping cycle, with
  the same outcome.  `config/profiles.yaml` gives the defensive profile an empty
  allowlist ("no new trades opened, only unwinds"), which `agent.py:265` turns
  into no allowlist at all: in `Signals`, as in the code, an empty `Allowed` lets
  every strategy through.
- *Validation and auditor*: offline functions of their input.  The integrity
  gate's ledger, freshness and orphan checks are never given figures.
- *Alerting, reconciliation, local log, vault API, exchange CLI, web pages and
  scripts*: input and output that no decision depends on.
