# THBC settlement service: specification and proofs

TLA+ models of the THBC settlement service (a Rust workspace: `thbc-core`, `thbc-logic`,
`thbc-ledger`, `thbc-persistence`, `thbc-api`, `thbc-service`), the TLC configurations that
check them, and TLAPS proofs. The service is the off-chain half of a fiat-backed token: bank
deposits mint THBC up to an attested reserve (on-ramp), and holders escrow THBC to get fiat
back or, failing that, their tokens (off-ramp). All paths below are relative to the repository.

## 1. The system

| Part | Keeps | Operations | Talks to |
|---|---|---|---|
| Ledger port (`thbc-core/src/ports.rs`; `SimulatedLedger`, `ChainBridgeLedger`) | supply, attestation, published encumbrance, nullifiers, balances, escrow records, inventory, a clock | `snapshot`, `issue`, `escrow_redemption`, `confirm_redemption`, `reclaim_redemption`, `update_attestation` | nothing; called by every service |
| Issuance (`thbc-logic/src/issuance.rs`, `thbc-core/src/deposit.rs`) | nothing of its own between calls | `handle_deposit` per webhook; `retry_all_held`/`retry_held` from the reconciler | deposit rows, compliance screen, ledger, clock |
| Reserve (`thbc-logic/src/reserve.rs`, `thbc-core/src/reserve.rs`) | nothing | `attest`, `current`, `headroom` | deposit rows, ledger |
| Redemption (`thbc-logic/src/redemption.rs`, `thbc-core/src/redemption.rs`) | Δ | `request`, `process_payout`, `confirm`, `reclaim`, `sweep_reclaimable` | redemption rows, ledger, payout queue, clock |
| Reconciliation (`thbc-core/src/reconcile.rs`) | report history | `run` | both kinds of rows, ledger |
| Exchange (`thbc-core/src/exchange.rs`, `thbc-logic/src/treasury.rs`) | nothing | two quotes | ledger snapshot |
| Chain Bridge adapter (`thbc-ledger/src/chain_bridge.rs`) | a NATS connection, nothing per call | the ledger port, as signed messages to a stream and account queries | the Chain Bridge, through JetStream and core NATS |
| Configuration and start-up (`bin/thbc-service`) | the environment | `from_env`, `validate`, `build`, `run_migrations`, `spawn_reconciler` | Postgres, NATS |
| Repositories (`thbc-persistence`) | deposits by digest of the bank reference, redemptions by `(user, seq)` | insert with conflict, find, unconditional update, sums, `next_seq` | Postgres or a mutex-guarded map |
| API (`thbc-api`) and process (`bin/thbc-service`) | wiring | HTTP handlers, reconciler task, shutdown | the services |

**Who runs concurrently.** Every HTTP request is a tokio task; the reconciler is another. A
service method is a chain of port calls, each an `.await`; nothing serialises two methods, no
transaction spans two port calls, and a service keeps no lock. One port call is atomic: the
simulated ledger and the in-memory repositories take one mutex, a Postgres call is one
statement. A client that disconnects drops its handler's future at whatever `.await` it is
suspended at; a restart drops all of them.

**What is hard.**
* `Repository::update` is `UPDATE .. WHERE key = ..` (or a map insert): it overwrites the row
  with the caller's copy whatever state the row has reached since that copy was read.
* A deposit whose screen has passed is in the state `held()` lists while its own delivery is
  still driving it, so the sweep and the delivery drive it at the same time.
* The bank delivers webhooks at least once, and concurrently.
* A ledger reply can be `Submitted` (unknown: it may land later or never), `Failed`, or an error
  before or after the request took effect.
* The ceiling is checked on a snapshot, an encumbrance sum and a `now` taken at three moments,
  and again by the ledger at a fourth.
* Two clocks: the services use `SystemClock`, the simulated ledger its own `State.now`.
* A process can stop between any two port calls, with money moved and not recorded.
* Over the Chain Bridge a write is a message: the stream may deliver it twice, the reply may be
  lost, the wait may end first, and the caller may send the same intent again under a new id.
* A snapshot over the bridge is two account queries, at two moments, either of which can fail.
* One process serves several kinds of deployment; what outlives a restart depends on which, and the
  check that keeps its migrations out of a shared database is a comparison of two strings.

The hazards, each at its line with the properties that watch it, are listed in `PROJECT.json`.

**What makes each part correct.** *Ledger*: tokens are conserved; a mint stays within a fresh
ceiling and uses its nullifier once; a burn is final. *Issuance*: a bank reference is minted for
at most once, for what was first recorded; records and answers never claim a mint that did not
happen; a held deposit is eventually retried. *Reserve*: what is published is an encumbrance the
records hold. *Redemption*: rows, escrows and wires agree; tokens go back no earlier than Δ; a
holder gets them back if the issuer does nothing. *Reconciliation*: a report of drift means drift.
*Adapter*: one transaction per intent; what a caller is told is true of the chain. *Exchange*: the
exact price, truncated in the platform's favour, and of an inventory that was there. *Process*:
nothing pretended behind the real ledger, its own database, one row per transfer, a loop that goes on.

## 2. Modules

| Module | Models | Proofs |
|---|---|---|
| `Treasury` | `SimulatedLedger`, the reserve rules, both clocks | `TreasuryProofs` |
| `Issuance` (extends `Treasury`) | `IssuanceService`, the deposit rows and `ReserveService::attest` over that ledger | `IssuanceProofs` |
| `Redemption` (extends `Treasury`) | `RedemptionService`, the redemption rows and the payout queue over that ledger | `RedemptionProofs` |
| `Settlement` (extends `Redemption`, an `INSTANCE` of `Issuance`) | both legs at once, and `ReconciliationService::run` reading them | `SettlementProofs` |
| `MintPromise`, `EscrowPromise` | what each leg promises, seen from outside: the abstract specifications that `Issuance` and `Redemption` implement | |
| `LedgerPromise` | what a service may rely on of `issue` and `confirm_redemption`: the abstract specification | |
| `ChainBridge` (implements `LedgerPromise`) | `ChainBridgeLedger`'s writes through every wait of `request`, the stream, the bridge and the chain | `ChainBridgeProofs` |
| `Exchange` | both quotes, their widths and refusals, over the simulated, the bridge's and the unaddressed snapshot | `ExchangeProofs` |
| `Service` | configuration, the order of start-up, restarts, `BankRef::new`, the webhook's record, the reconciler loop | `ServiceProofs` |
| `Sums` | nothing: the facts about sums over finite sets that the proofs share | `Sums` |
| `MCTreasury`, `MCIssuance`, `MCRedemption`, `MCSettlement`, `MCChainBridge`, `MCExchange`, `MCService` | small instances for TLC | |

The two legs compose with the ledger by conjoining its actions: `IssueConfirmed(p)` is the
service's step and `LedgerIssue(..)` together, because the port call is atomic. A ledger call has
a plain action (the reply is Confirmed) and a `..Refused` one (an `Err` that changes nothing).
`Issuance` and `Redemption` can each be checked and proved alone: `Redemption` lets an arbitrary
on-ramp mint (`OnRamp`), and a burn, which `Issuance` leaves out, only makes room below its
ceiling. `Settlement` puts the real steps together: `OnRampNext` and `OffRampNext` over one
ledger and one clock, a restart that ends the tasks of both, and a reconciliation whose four reads any of them separate.

`MintPromise` and `EscrowPromise` are what is left of a leg when its tasks, copies, retries, late
landings and restarts are taken away. To `MintPromise` a transfer is heard once, refused or
cleared once, and minted once, for the wallet and amount heard first; `Issuance` maps a row and its
nullifier to it (`Book`). To `EscrowPromise` a redemption's tokens are held once, then burned or
returned once, and wired at most once for the amount held; `Redemption` maps a row and its escrow
record to it (`Vault`). Neither says that a wire is queued only while the tokens are not returned:
that is `WireHasTokens`, which the code does not keep.

`ChainBridge` stands under the other modules: `LedgerPromise` is the part of the ledger port that
`Issuance` and `Redemption` assume of a lossy ledger (an effect once per reference, Confirmed only
after it, Failed for good, Submitted saying nothing), and `ChainBridge` implements it. `Service`
stands above them: what `Issuance` takes fifteen actions for is in `Service` one step with every
place the row can be left at, so that restarts, spellings and the loop can be combined with it.

**State.** `supply`, `attested`, `encumbered`, `nullifiers`, `balances`, `escrows`, `inventory`
and `ledgerNow` are the fields of the simulator's `State`; an absent escrow record is the record
with status `"none"`, and `burned: bool` is status `"held"`/`"burned"`. `deposits` and
`redemptions` are the tables, with `"none"` for no row. Amounts, references and users are small
sets; a bank reference is its digest. `pc[p]` is the `.await` a task is suspended at, `job[p]`,
`at[p]`, `snap[p]` the locals it carries across. `inflight` and `late` are requests the ledger
has accepted and nobody waits for. A task that has returned keeps its outcome in `pc` (with its
`job` when the outcome makes a claim about it) so that what callers are told can be checked.

**Actions.** One per stretch of code between two port calls' effects, named after what the code
does there: `Deliver`, `ReplayPrior`, `ScreenPass`/`ScreenFail`/`ScreenError`, `TakeSnapshot`,
`CheckReserve`/`HoldDeposit`, `SaveAttested`, `IssueConfirmed`/`Refused`/`Submitted`/`Failed`,
`SaveIssued`, `ListHeld`, `RetryHeld`, `AttestRead`, `AttestPublish`/`Lost`; for the off-ramp
`ReadSeq`, `InsertRow`/`InsertConflict`, `Escrow..`, `SaveEscrow`, `StartPayout`, `SavePayout`,
`Enqueue`/`EnqueueRefused`, `StartConfirm`, `Burn..`, `SaveConfirm`, `StartReclaim`,
`Reclaim..`, `SaveReclaim`; for a reconciliation `ReadIssued`, `ReadRedeemed`, `ReadSnapshot`,
`Reconcile`/`ReconcileUnderflow`, `RecordReport`, `AbandonRun`; for the adapter one per wait of
`request` (subscribe, publish, acknowledgement, reply, time-out) and one per thing the bridge may do
with a message; for a quote `Ask`, the queries and `Answered`, with the ledger's own moves between
them; for the process `LoadConfig`, `RunMigrations`, `BuildRepositories`, `Build`, `Bind`, `Exit`,
`Webhook` and the branches of a turn of the loop. `DropHandler`, `DropCall` and `Restart` end calls where they stand;
`Land` is a request that takes effect after its caller has gone. `PROJECT.json` maps each
definition to the lines it stands for.

A call that is refused before it changes anything (an unknown redemption, a payout of a row that
is not Escrowed) is no step: its guard is in the action that starts the call.

**`Mut*` operators** are broken versions of an action (a dropped guard, a missing save, an upsert
for an insert). No specification uses them. Each shows that a property can fail: with the mutant
in the action's place TLC refutes the property the mutant is listed with in `PROJECT.json`.

## 3. Runs

Passing runs and what each one settles. `CHECK_DEADLOCK FALSE` everywhere: clocks, crashes and
sequence numbers are bounded, and a service with nothing to do may stop.

| Run | Instance | Properties |
|---|---|---|
| `treasury` | 2 accounts, 2 references, amounts 1–2, reserves 1 and 3, time 0–2 | `TreasuryTypeOK`, `Conservation`, `BurnIsFinal`, `MintWithinCeiling`, `SupplyMovesWithRecord` |
| `issuance_race` | 2 deliveries + sweep + attestor on one reference with two possible amounts, lossy ledger, one crash | `IssuanceInv`, `RecordsMatchMints`, `HonestOutcome`, `RowsAdvance`, `KeepsMintPromise` |
| `issuance_books` | 2 references, a reserve of 1 or 2, one delivery at a time + sweep + attestor, lossy, one crash, with fairness | `SupplyIsMintedOnce`, `PublishedEncumbranceIsRecorded`, `HeldIsReleased` |
| `redemption_race` | two requests of one user, two sequence numbers, two operators, one holder, lossy, one dropped call, Δ = 2 over a ledger timelock of 1 | `RedemptionInv`, `RowsMatchEscrows`, `ReclaimHonoursDelta`, `EscrowedIsHeld`, `RequestedOnce` |
| `redemption_live` | two requests for one sequence number, two operators, one dropped call, a ledger that answers, with fairness | `ReclaimableIsRecovered`, `KeepsEscrowPromise` |
| `settlement` | 2 accounts, one reference, one task of each kind, reconciliation, one restart, a TTL of 0 | `UnderflowIsMissedMint`, `EveryAccountBalances`, `DriftIsExplained` |
| `chain_bridge` | two calls, which may be for one burn, for an attestation or user-signed, redelivery, an envelope age of 1 under a wait of 2, time 0–3, with fairness | `BridgeInv`, `OneTransaction`, `ConfirmedIsLanded`, `FailedIsSettled`, `AnsweredIsHeard`, `LateNeverStarts`, `KeepsPromise`, `CallsReturn` |
| `exchange` | a `u64` of four bits and a `u128` of eight, 5 rates, 5 fees, 7 amounts, 3 vault levels, two moves of the ledger during a call, all three snapshots | `ExchangeInv`, `QuoteIsExact`, `PlatformNeverLoses`, `RoundTripNeverGains`, `AnswerWasTrue` |
| `service` | 2 700 environments (2 databases, URLs with and without a query, with a "/" in it), 8 spellings, 2 heard, any restarts, with fairness | `MigratesItsOwn`, `OneRowPerTransfer`, `NothingPretended`, `SweepsGoOn` |

What each shows. `treasury`: tokens are conserved under arbitrary callers, and supply moves only
within F1, F3 and F5. `issuance_race`: no overlap of deliveries and sweep, however replies are lost,
makes the records or the answers claim a mint that is not there, and from outside a transfer does what `MintPromise` says. `issuance_books`: over several
references the supply is what the records say, and a held deposit is taken up. `redemption_race`:
rows, escrows and wires stay consistent and Δ is honoured, with two requests racing for one
sequence number. `redemption_live`: F7, once the row knows of the escrow, and what a redemption looks like from outside
(`EscrowPromise`; with lost replies, and for any instance, it is proved). `settlement`: both legs
at once move only each account's own tokens, and what a reconciliation reports or fails on is
exactly what moved between its reads. `chain_bridge`: the adapter is the ledger the services take
it for, and returns. `exchange`: prices to the minor unit at every limit of the width. `service`:
what a deployment may be, whatever is started, stopped, heard and swept.

**Why the bounds are enough.** The races are between two writers of one row (two deliveries, a
delivery and the sweep, an operator and the holder), so two of a kind plus the other kind reach
them all; a second reference (`issuance_books`) is needed only where sums and a shared ceiling
matter, and two sequence numbers because the second request takes the second. Two amounts let a duplicate delivery disagree with the first. Time 0–1 with a TTL of 0
makes an attestation fresh and stale within a run; Δ = 2 over a ledger timelock of 1 makes the
service's Δ the binding one. One crash or dropped call reaches every single-fault state; the
proofs hold for any number. In `settlement` one mint, redeemed, is enough for each of the sums to
be ahead of or behind the others; two accounts show whose tokens moved. Its ledger always answers
(`Lossy` is FALSE: lost replies are the business of the legs' own runs). In `chain_bridge` two calls
are a call and its repetition; the proofs hold for any number. In `exchange` the width is what makes
every product, sum and quotient reach its limit; the proofs hold for every width. In `service` one
URL of each shape and two spellings of a transfer, or of two that differ by a blank or a letter,
decide every comparison. Symmetry is used only over interchangeable callers, accounts or references and never in
a run with a liveness property. The bounds are `MaxTime`, `MaxCrashes`, `MaxDrops`,
`MaxSubmits` (transactions per delivered message), `MaxMoves` (of the ledger during a quote),
`MaxHeard` (spellings between two losses of the rows) and the finite `Seq`; nothing else is capped.

**Fairness.** Weak fairness of each suspended task's next step (tokio polls a task whose port
call has completed), of the sweep's listing and retrying (the reconciler loops for ever), of the
resolution of a submitted mint and of an attest in progress; and, on the off-ramp, of an honest
holder asking for a reclaim that is open and an operator asking for a payout that is open. No
fairness for the bank's redeliveries, new requests, attestations, `confirm` (F7 is about the
issuer who does not) or, there, the clock, and a dropped call stays dropped. `FairBridgeSpec`: each
wait of a call ends when what it waits for is there or its time has passed (tokio wakes the task),
and time passes; the bridge owes nothing. `FairServiceSpec`: the loop turns (the interval ticks and
each of its calls returns: Postgres errs or answers, and the ledger's calls end by `CallsReturn`);
nobody has to start the process or keep it up.

Statements of the repository's own text that TLC refutes. The three with a run are in
`PROJECT.json`; `tlc -config <cfg> MCIssuance` (or the module the file is named after) reproduces the
others.

| Property | Run or configuration | The text | What the code does |
|---|---|---|---|
| `IssuedIsTerminal` | run `issuance_terminal` | Issued is "Terminal, and irreversible" (`deposit.rs:36`) | sweep and delivery overlap; the row goes back to Attested after the mint |
| `AttestedIsResolved` | `MCIssuanceResolve.cfg` | after Submitted "the reconciler resolves it" (`issuance.rs:180`) | nothing reads Attested rows |
| `WireHasTokens` | run `redemption_tokens` | no wire "against an unconfirmed burn however it is called" (`logic/redemption.rs:118`) | a reclaim completes inside `process_payout` |
| `HolderRecovers` | `MCRedemptionRecovers.cfg` | F7 "obtains fiat or recovers THBC" (`invariant.rs:213`) | escrowed, row still Requested, reclaim refused |
| `ObservedIsScreened` | `MCIssuanceObserved.cfg` | a held deposit "will be retried" (`partner.rs:146`) | an Observed row is never listed |
| `RefreshIsFresh` | `MCIssuanceRefresh.cfg` | "in simulated mode everything works" (`main.rs:11`) | the simulator's clock never moves: an attestation is stale once the process is older than the TTL |
| `EncumbranceIsKept` | `MCIssuanceEncumbrance.cfg` | "as fresh as the last attestation" (`logic/reserve.rs:54`) | overlapping attests publish in the wrong order |
| `TerminalIsFinal` | `MCRedemptionTerminal.cfg` | Confirmed and Reclaimed are "Terminal" (`core/redemption.rs:52`) | a stale `process_payout` overwrites them |
| `BurnBeforeWire` | `MCRedemptionBurn.cfg` | F4 "burn confirmed strictly before payout is enqueued" (`invariant.rs:142`) | the wire is queued from Escrowed; the burn comes later |
| `QueuedIsWired` | run `redemption_wired` | "the caller may retry after a crash" (`ports.rs:218`) | the retry is refused from PayoutQueued |
| `InterruptedIsRecoverable` | `MCRedemptionInterrupted.cfg` | interrupted redemptions are "recoverable" (`main.rs:222`) | burned, row still Escrowed, reclaim refused |
| `ReclaimableIsRecovered` | `MCRedemptionFrozen.cfg` | "in simulated mode everything works" (`main.rs:11`) | the simulator's timelock never expires |
| `UnderflowIsCorruption` | `MCSettlementCorrupt.cfg` | more redeemed than issued is "a corrupt ledger" (`reconcile.rs:34`) | a mint recorded after the first sum and redeemed before the second ends the run in Underflow, unreported |
| `ReplayOnlyRestamps` | `MCChainBridgeReplay.cfg` | "a replay only re-stamps `attestation_ts`" (`chain_bridge.rs:597`) | an older attestation delivered again overwrites the figures of a newer one |
| `SwapVaultIsUnneeded` | `MCExchangeSell.cfg` | `swap_vault` "is not needed by any consumer of this snapshot today" (`chain_bridge.rs:467`) | every sale of THBC over the bridge is refused for lack of GRX |
| `TablesAreItsOwn` | `MCServiceUrl.cfg` | a URL of `gridtokenx` "is rejected at startup" (`README.md:138`) | with `?sslrootcert=/etc/ca.pem` the name read is `ca.pem`, and the migrations run in `gridtokenx` |
| `TallyOutlivesRestart` | `MCServiceTally.cfg` | it is in-memory repositories that lose "the whole F2 tally" (`.env.example:37`) | a simulation with a database restarts with issued rows and a ledger that minted nothing |

## 4. What is proved

Assumptions: the named `ASSUME`s of the modules (sets of naturals, disjoint caller sets, `Nobody` no
reference and no account; an envelope age below the confirm timeout; a product of two `u64` fits in
`u128`). No bound on callers, crashes or dropped calls, no relation between the two deltas or
between the two clocks. `FiniteAssumption` (accounts, references and sequence numbers are finite
sets, of any size) is there because a sum over an infinite set is not defined: it serves
the theorems that rest on a sum (the encumbrance a ceiling subtracts is one too), and stands for
tables and maps that hold finitely many rows. Callers,
handlers and amounts need not be finite.

**Sums.** Balances, escrows, encumbered deposits and both sides of a reconciliation are
`SumFunctionOnSet`s, a recursion over subsets. `Sums` derives what the proofs need of it: that the
recursion has exactly one solution (`SumExists`, `SumIsValue`), hence its defining equation
(`SumUnfold`), and how a sum moves when one value changes or one index comes or goes (`SumUpdate`,
`SumInsert`, `SumDelete`, `SumGrows`). The induction is over subsets of a finite set and is stated
for a set of subsets rather than a predicate (`SubsetInduction`): if the set of those for which the
claim fails were not empty it would have a minimal member (`MinimalSubset`, from the library's
well-foundedness of the strict subset order).

* `TreasuryProofs`: `TreasuryTypeOK` is inductive (no balance, supply or escrow underflows);
  `MintWithinCeiling`, `BurnIsFinal` and `SupplyMovesWithRecord` hold of every step; `Conservation`
  holds always, each call moving at most one balance, one escrow, the inventory or the supply
  (`StepConserves`). They are proved of `LedgerSpec`, the ledger under any port call by anyone, from
  which both `TreasurySpec` and the composed service take them.
* `IssuanceProofs`: `IssuanceTypeOK`, then the inductive invariant `IssuanceInv`, then
  `RecordsMatchMints`, `HonestOutcome`, `RowsAdvance`, `MintFollowsRecord`; `BooksInv`, then
  `SupplyIsMintedOnce` and `PublishedEncumbranceIsRecorded`; the refinement `KeepsMintPromise`.

**Why `RecordsMatchMints` is not inductive alone.** A process can overwrite a row, so one has to
know, for each place it can be suspended at, what the row has already reached. `HoldsRow(p)` says
it: while screening, the row is Observed and nobody else screens it (`OneScreener`); between the
snapshot and the save, it is Screened or later; when the mint is asked for, Attested or Issued,
as it is for every mint still in flight (`InflightIsAttested`); when Issued is about to be saved,
the nullifier is consumed. `StepInvariant` proves, action by action, that a step preserves this
and only advances rows (`RowStep`); `BystanderHolds` carries every process that does not move
across any such step, so each action's case is about the one process that does.

**The books.** `PublishedEncumbranceIsRecorded` is about a figure that was read two awaits before it
was published, so `BooksInv` also bounds every figure an attestor carries or has left in flight
(`ReadIsRecorded`); it survives because an Encumbered row is final and no row's amount changes
(`RowStep`), which makes the recorded sum grow only. `SupplyIsMintedOnce` needs that a mint pays the
*recorded* amount, which is `HoldsRow` again, and that recorded amounts stay (`AmountsStay`).

**`KeepsMintPromise`.** A step changes at most one row or mints, never both (`OneRowMoves`). By
`RowStep` a changed row is one of `MintPromise`'s moves or no change of the book at all (the step
back from Issued to Attested, with the nullifier consumed, is still `"minted"`: the findings of
section 3 corrupt the row and not the promise); by `HoldsRow` and `InflightIsAttested` a mint finds its transfer cleared.

* `RedemptionProofs`: `RedemptionTypeOK`, then the inductive invariant `RedemptionInv`, then
  `RowsMatchEscrows`, `WireFollowsEscrow`, `EscrowedIsHeld`, `RequestedOnce`,
  `ReclaimHonoursDelta`; the refinement `KeepsEscrowPromise`.

**The off-ramp's argument** has two kinds of record to relate. `RedemptionInv` says, for each
place a call can be suspended at, what the escrow record has already reached (a call about to save
Confirmed stands over a burned record), and for each late call what it may still find. A step is
about one redemption at most: every other key is left alone (`Quiet`). For its own key it keeps
what the row and the record say of each other (`KeyInv`) and what the processes suspended with a
copy of that row rely on (`KeyStep`; `Calm` for a request whose escrow is being asked for).
`BystanderHolds` then carries every process that does not move, so each action's lemma
(`EscrowStep`, `SavePayoutStep`, `LandStep`, ...) is about the one that does. The action properties
follow from the invariant and from which steps write a row (`RowStep`) or clear a record
(`StepEscrow`).

**`KeepsEscrowPromise`.** A returned escrow and one never made are the same to the ledger, a record
that is not there; it is the row that tells them apart, so the mapping needs `RedemptionInv`. What
a step does outside the service's own books is one of six effects (`Effect`): nothing, a credit, an
escrow, a burn, a reclaim or a wire, and only a step of the first kind writes rows. Such a step does
not show (`RowsDoNotShow`): no write of a row, however stale, changes what is seen of its redemption.

* `SettlementProofs`: `SettlementInv`, then `EveryAccountBalances`, `UnderflowIsMissedMint` and
  `DriftIsExplained`; that the composed service implements `LedgerSpec`, and what the ledger and both
  legs promise, read of the whole (`LedgerPromisesInSettlement`, `LegPromisesInSettlement`,
  `OnRampStepsInSettlement`, `OffRampStepsInSettlement`, `SettlementKeepsEscrowPromise`).

**The composition.** `OnP` is `IssuanceProofs` under `Settlement`'s substitution, so the on-ramp's
lemmas are cited and not repeated. Neither leg's invariant is proved anew: a step of the other leg is
shown to leave alone what the invariant speaks of (`RedemptionInvKept`, `IssuanceInvKept`; to the
off-ramp the on-ramp only credits balances, to the on-ramp the off-ramp only burns and moves
balances). With both standing, a step is one of five effects on the ledger, and the sums
follow from the five: supply is what was minted less what was burned, and an account's balance and
escrows are what its deposits minted less what it burned. For a reconciliation `RunIsBehind` says
that a sum already taken counts only what has really happened, so the difference of supply and books is
exactly what each sum missed; that is `DriftIsExplained`, and an Underflow is a mint the first sum
missed.

* `ChainBridgeProofs`: `BridgeTypeOK`, the inductive invariant `BridgeInv`, then `OneTransaction`,
  `ConfirmedIsLanded`, `FailedIsSettled`, `AnsweredIsHeard`, `LateNeverStarts`, and the refinement
  `BridgeKeepsPromise`: the adapter implements `LedgerPromise`.

**The adapter's argument.** `BridgeInv` ties a call to its message (`CallAgrees`), its transaction
(`TxAgrees`) and its reply (`ReplyAgrees`). `FailedIsSettled` is about the future, so it needs
`Dead(c)`: the call's transaction has failed, or it has none and can get none, because its message
is gone or another call's transaction stands recorded for its key. `LateNeverStarts` needs the
deadline to be no earlier than the envelope's age limit, which is the one assumption on the two
settings. For the refinement every action maps to `Ask`, `Happen`, `Tell` or a stutter.

* `ExchangeProofs`: `ExchangeTypeOK` and `ExchangeInv`, then `QuoteIsExact`, `PlatformNeverLoses`,
  `RoundTripNeverGains` and `AnswerWasTrue`, for every width, rate, fee and number of moves. The
  arithmetic is in lemmas about truncated quotients; `AnswerWasTrue` follows from `HeldBrackets`,
  which says that what has been read lies between the extremes the vault has had since the call began.
* `ServiceProofs`: `ServiceInv` (nothing runs under a configuration `validate` refuses; behind the
  bridge no row is past Observed), then `MigratesItsOwn` and `NothingPretended`; `RowsInv`, then
  `OneRowPerTransfer`.

**`OneRowPerTransfer`** compares what `BankRef::new` makes of two references. `trim` cuts at the
first and last character that is not blank, which exist because an inhabited set of positions has a
least and a greatest element (`Extremes`); two references have the same form exactly when one is the
other's inner part slid to another place, letter by letter (`SameFormSlides`, `SlidesSameForm`). So
equality of stored forms is spelling of one transfer, and `RowsInv` (what was heard has the row of
its form; a row is of something heard) is inductive, for references of any length.

## 5. What only TLC checks

Liveness: `HeldIsReleased`, `ReclaimableIsRecovered`, `CallsReturn` and `SweepsGoOn`. It rests on
fairness, hence on `ENABLED`, which the prover does not handle. Every safety property of a passing
run is a theorem. The refuted statements of section 3 are TLC's counterexamples.

## 6. Abstractions, and what is not modelled

* Amounts are naturals. The code's `u64` sums are checked and an overflowing sum exceeds every
  reserve, so it is refused as an over-ceiling one is. The BIGINT range checks are left out.
* The row's text columns, timestamps other than `escrowed_at`, logs and HTTP bodies are left out;
  `disputed` deposits too, since nothing outside `deposit.rs` creates one.
* `Lossy` ledgers are what the port contract and the bridge's reply mapping allow: Submitted,
  Failed, a transport error, a late landing. `Issuance` and `Redemption` run over the simulated
  ledger with such replies; that the bridge gives no others is `ChainBridge`'s subject. Escrow and
  reclaim over it are refused as `Unsupported`.
* `ChainBridge` leaves out what a message says beyond its intent and its time: subjects, encoding,
  the signature's bytes (a message is signed or is not).
* `Exchange`: an account too short for its fields is not told from one that is absent, except for
  the vault, where the code reads zero for both; the display and parsing of amounts
  (`Thb::from_baht`, `Display`) are left out.
* `Service`: a URL is the database it names and the pieces of its query; credentials, percent
  encoding and what a pooler alias stands for are left out. A character's upper case is a constant;
  the digest of a reference is taken as injective. The environment of a deployment does not change:
  a database that one deployment filled and another opens is not modelled.
* A `Restart` of `Issuance` and `Settlement` keeps ledger and rows: with Postgres and the chain they
  are durable. What a restart loses otherwise is `Service`'s `Exit`.
* The reports' history is append-only and no service reads it back, so `RecordReport` ends the run
  and keeps nothing.
* Not modelled: the invariant registry (static data), the mapping of errors to status codes and the
  role header (no state), key separation (one comparison of configured names), `set_encumbered` and
  `set_now` (called by tests only), `Deposit::dispute` and `resolve_dispute` (called by nothing).

## 7. Plan

What is left, in this order.

1. **`MintPromise` of the composition.** `Settlement` is shown to implement `EscrowPromise`, whose
   `Credit` is the on-ramp; `MintPromise` has no counterpart of the off-ramp's burns and escrows yet,
   so `KeepsMintPromise` is a theorem of `Issuance` alone. The steps are in `OnRampStepsInSettlement`.
2. **From the adapter to the legs.** `ChainBridge` implements `LedgerPromise`; that the ledger steps
   of a lossy `Issuance` are those of `LedgerPromise` is argued in section 2 and not yet a theorem.
3. **Attestations over a stream that redelivers** (`chain_bridge.rs:599`), the one hazard without a
   property that holds: an ordering the chain could enforce, and the invariant it would give.
4. **Disputes**: `Deposit::dispute`/`resolve_dispute` and `set_encumbered` as extra actions, to see
   which of the invariants survive their being wired up.
