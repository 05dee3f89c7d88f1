# TLA+ model of clif

clif is a keyless operator tool for Flare and Songbird data providers. It holds no
private key: it reads the chain, asks the `fwd` signer for signatures and signed
transactions, broadcasts them, and watches what becomes of them. Several long-running
daemons do this unattended. This directory models the parts of those daemons where
order, failure and restart matter, checks them with TLC, and proves the central facts
with TLAPS.

## 1. Inventory

| Part | Source | State it keeps | Interacts with | Modelled in |
|---|---|---|---|---|
| Epoch daemon (`clif epoch run`) | `epoch_auto.py`, `cli.py` | watermark `last_done`, retry counts, `AutoState`; `epoch-status.json` | chain reads, fsp, claimer, discovery | `EpochDaemon` |
| Daemon memory | `autostate.py` | `first_seen`, `cooldown_until` per stream | all auto daemons, `clif status` | `AutoState` |
| Uptime and reward signing | `fsp.py` | none (fwd's key cache, the chain) | fwd legs 1 and 2, broadcast, receipt | `EpochDaemon`, `FspAuto` |
| Claim submission, discovery | `claimer.py`, `discovery.py` | none | fwd, RewardManager | `EpochDaemon` (one epoch), `ClaimAuto` (a batch) |
| fwd client, keys | `fwd_client.py` | none; fwd caches one transaction per key and allocates nonces | fwd | `EpochDaemon`, `RewardChain`, `Funding` |
| Signer lock | `cli.py:1609-1667` | a lock file in `/tmp` | every signing daemon | `SignerLock` |
| Alert daemon (`clif alert run`) | `alert.py`, `cli.py` | debounce state, in memory and in `alert-status.json` | registration and funding reads, webhook | `AlertDaemon` |
| Legacy `fsp auto` | `cli.py`, `fsp_autostate.py` | one watermark, `AutoState` per message type | fsp | `FspAuto` |
| Legacy `clif auto` | `cli.py` | `AutoState` per claim stream | discovery, claimer | `ClaimAuto` |
| Funding (`clif fund run`, `fund apply`) | `funding.py`, `cli.py` | none between passes; a submitted plan | balances, fwd, the funder's nonces | `Funding`, `BandKeeper` |
| Protocol observer (`clif observe run`) | `observe/engine.py`, `state.py`, `mincond.py`, `gaps.py`, `health.py`, `budget.py` | cursor, rounds in flight, window, overlays; status, round ledger and outage ledger on disk | node RPC | `Observer`, `ObserverHealth` |
| Registration watch (`clif registration run`) | `registration.py`, `cli.py` | next wake-up; status file | chain reads | `Registration` |
| Signing progress | `signing_progress.py` | votes and scanned block range per epoch | logs RPC | `SigningProgress`; its answer is `SignedReading` in `EpochDaemon` |
| Reward data and Merkle proofs | `merkle.py`, `reward_data.py`, `models.py` | files an operator keeps | signing, discovery | `RewardTree` |
| Credential import | `credentials.py`, `cli.py` | `.env.<network>`, the bundle | fwd's tokens | `Credentials` |
| IQR, delegation, uptime overlays, reward rule | `observe/iqr*.py`, `deleg*.py`, `reward_rule.py`, `verify.py` | history rings | node RPC | not modelled, see section 6 |
| Calldata, keccak | `calldata.py`, `fsp_calldata.py`, `_keccak.py` | none | - | not modelled: byte-level encoding |
| RPC client, config, CLI surface | `rpc.py`, `config.py`, `cli.py` | none | everything | not modelled: transport and parsing; enters as reads and failures |
| Deployment | `install/`, compose | - | - | not modelled; the restart policy and missing volume enter as `Start` and `Recreate` |

What is hard in this system:

* **Crashes and restarts.** All memory is lost. The watermark survives in a status file,
  the file itself survives a process but not a re-created container, and fwd's idempotency
  cache and the mempool survive both.
* **Steps that fail half way.** A claim is a chain of reading, signing, broadcasting and
  confirming, with a failure possible in each and a different verdict for each.
* **Other actors.** The network finalizes an epoch while we sign it; transactions mine
  after we stopped waiting; a newer claim moves the pointer an older one is judged by.
* **Ordering.** Newer epochs are processed while older ones are stuck, yet the watermark
  must advance contiguously.
* **Limits.** Bounded sign retries, a catch-up window, cooldowns, debouncing, request caps.
* **Replays.** The observer and the signing narration read the same blocks more than once,
  after crashes, outages and failed passes, and must neither lose nor double-count.
* **Data that is not what it seems.** A reward file may be a draft, damaged or misfiled; a
  failed read may look like an empty answer; silence may look like health.

`PROJECT.json` lists each such hazard at its line, with the property that covers it or the
reason none does.

## 2. Modules

### `AutoState`: the daemons' memory (`autostate.py`)

Operators on one stream's record. Wall-clock times become what `evaluate()` can tell apart:
an epoch is unseen, fresh or stale, and cooling or not. `Observe` is `observe()` with its
forgetting of epochs that left the active set together with their cooldown, `Degraded` is
`evaluate()`: only epochs in `first_seen` count, so a cooldown of an untracked epoch is
silent.

### `EpochDaemon`: `clif epoch run`

One action per step between two points at which the world can move:

| pc | Action | Code |
|---|---|---|
| `down` | `Start` | watermark from `--from-epoch`, else the status file, else `None` |
| `sleep` | `BeginCycle`, `BeginFails` | window of a cycle: `max(last_done+1, current-8, 0)` up to `current` |
| `scan` | `SkipCooling`, `ReadRewards`, `PublicationUnread`, `ReadFails`, `EndCycle` | one epoch's turn in `run_cycle`/`drive_epoch`; end of the loop |
| `sign` | `SignLegs` | `run_sign_rewards` up to fwd's leg-2 answer |
| `signBroadcast`, `signConfirm` | `SignBroadcast`, `SignConfirm(Fails)` | `_broadcast_and_confirm` |
| `claim` | `ClaimLegs(s)` | `run_claim` for one stream up to fwd's answer |
| `claimBroadcast`, `claimConfirm` | `ClaimBroadcast`, `ClaimConfirm(Fails)` | the rest of `submit_claims` |
| `report` | `Report` | `build_epoch_report`, `write_status_atomic` |
| any | `Crash`, `Recreate` | process death; container re-created (no volume) |

`SettleEpoch(done, terminal)` is the end of an epoch's turn in `run_cycle`: the watermark
moves only when the epoch is done and every older one in the window was. The cycle's locals
(`epoch`, `new_last_done`, `advancing`, `active`, `all_done`, ...) are the record `cyc`.

The environment is external and modelled from how clif uses it: `tx[key]` is what became
of the one transaction fwd caches under an idempotency key; `MineSign` has the two guards
of `signRewards` whose revert texts `fsp.py` tells apart; `MineClaim` moves the
beneficiary's pointer, and with it "handles" older epochs, as the code takes them: an epoch
whose reward a newer claim skipped counts as claimed. fwd answers a repeated key either with the cached blob or, when the
suggested fees drifted, with 409 `idempotency_conflict`; both are always possible. fwd's nonces
are in `RewardChain` and `Funding`, not here.

`Faults` names what may go wrong and `MaxFaults` bounds how often: `crash`, `recreate`,
`rpc` (an `RpcError` unwinds the cycle), `denied` and `transient` (fwd's two error
classes, and RPC errors the callers map to them), `data` (a reward file cannot be read),
`logs` (the event log scan fails), `node`, `nonce`, `lost` (the broadcast is rejected, hits
a used nonce, or its answer is lost), `slow` (a receipt poll times out), `reason` (a revert
reason is unreadable), `revert` (a claim reverts), `stale` (an epoch stays outstanding
beyond `stale_after`; a delay, outside the budget).

`floor` is a history variable: the highest epoch the daemon skipped by choice (a fresh
start at `current-2`, `--from-epoch`, the catch-up cap). The properties about the watermark
are about the epochs above it.

Abstracted: the uptime leg (off by default), the narration of signing progress, addresses,
amounts, proofs, fees, and clocks. The initial delay after an epoch's end is folded into
`Publish`: an epoch is published once its data is out *and* the delay has passed; both make
the daemon wait in the same way.

### `SignerLock`: the singleton lock

The `flock` on a file whose path can name different inodes over time. `Release` and
`Unlink` are two steps because the code closes the descriptor first and unlinks the path
after. `CleanExit` says whether a signer may run that release code at all, or only be
killed.

### `AlertDaemon`: `clif alert run`

Read, decide, write, post. `Decide` is `decide()` with `pending_n` capped at `Confirm`
(larger counts act alike) and `now - last_sent >= repeat_sec` as the flag `due`. The state
is written before the page is posted, and a crash can fall between any two steps. A failed
post changes nothing but the page's delivery.

### `RewardChain`, `FspAuto`, `ClaimAuto`, `LegacyDaemons`: the two daemons `epoch run` replaces

`RewardChain` is the chain both read: epochs open, are published and pass the signing
threshold, in order; claims are mined in nonce order; rewards expire. It also holds fwd's
nonce counter: `GiveBack` is what fwd does on a `rejected_releaseable` report (the last nonce
it handed out is handed out again), `Correct` what it does on `rejected_nonce_too_low`. A claim
the node holds after fwd took its nonce back is `loose`; it and the next one with that nonce
are `Rivals`, of which one is mined. `FspAuto` is
`clif fsp auto` with its single watermark: `FspStart` begins at `--from-epoch` where it is
given, otherwise at the chain's current epoch; `FspCycle` fixes the closed epochs once,
`NextType` goes from uptime votes to rewards, `VoteLegs`/`SendVote`/`VoteReceipt` are one vote,
and `FinishVote` is the code after it (`Advanced` for the watermark, `Recorded` for the
cooldown). `ClaimAuto` is `clif auto`: `Discover` per stream, one batch under a key that
names its newest epoch (`MyKey`), then `SignBatch`, `BroadcastBatch` or `BroadcastFails` (one
`except RpcError` for a refusal, "already known", and a lost answer), and `ConfirmBatch`.
`Discover` also logs what left the claimable set as "confirmed claimed". A receipt poll that raises ends
the process, as nothing in `auto` catches it. `LegacyDaemons` composes them over one chain.

### `Funding` and `BandKeeper`: gas funding

`Funding` has two processes over one wallet: the daemon (`BeginPass`, or `HealthyPass` when
there is nothing to do) and an operator's `fund apply` (`BeginApply` with `ValidatePlan`).
`ReadBalance` reads a balance and decides the value by it (`Value`, with the re-check of the
band in `fund apply`); `Sign` asks fwd for the transfer in a later step, between which and the
reading the other process may sign, send and have mined a whole transfer; `Send` broadcasts, `Follow` polls the receipt. `tx` holds the transfers fwd signed with their
nonces, counted from the wallet's nonce on chain; two transfers with the same nonce exclude
each other. `SendUnanswered` is a broadcast whose answer is lost: the code reports it to fwd
as releaseable (`Release`), whether the node took it or not.

`BandKeeper` is the abstract specification: value leaves the funder only towards a registered
account, in a transfer that fits its band by the balance as it is decided, and each transfer
lands at most once. It does not promise that nothing else lands in between. `Funding!KeepsBand`
is the refinement: a transfer is in flight from the reading it is decided on until it is mined
or can no longer be; the signature moves it from the process to fwd (`TakeOn`).

### `Observer` and `ObserverHealth`: the streaming observer

One block per time unit; `plan` fixes what we do in every round, and the engine learns it only
by reading the blocks. The actions follow `run_engine`: `Start` (`Anchored` is the resume
point), `PollHead`, then per block `ScanBlock`, `FinalizeRound` for each round due, `NextBlock`,
at the head `EndPass` (flush of the partial event chunk), `Overlays`, `Report`. Events are
fetched in chunks behind the block cursor, so a round's transactions and its events are read
at different times. `file` is what is on disk: the status, the round ledger, the outage ledger.
A block more than `Bodies` behind the tip is served without its transaction bodies (`Served`),
so a round read late is recorded without our submissions, or with a part of them; `withheld`
remembers which. After a report `prune_history` rewrites the ledger: `PruneFile` when it
succeeds, `CutFile` when the process dies or the disk fails between the truncation and the end
of the write, or the read before it fails; some or all records are then gone (`lost`), and a
line cut short swallows the next one appended (`torn`).
`ObserverHealth` is the arithmetic of `aggregates()`, `epoch_tally`, `stream_state` and
`severity`, with percentages compared as integers.

### `Registration`, `SigningProgress`, `RewardTree`, `Credentials`, composed in `Readers`

They share no state: a behaviour of `Readers` follows one of them, which keeps the sum of
their state spaces instead of the product.

* `Registration`: a clock, the registration window before each epoch boundary, and a daemon
  that sleeps long or short depending on its last reading. A reading takes two steps, between
  which the chain can move, and may fail in either. `CycleRaises` is the `except Exception` of
  the loop: no status, no line, and the long sleep whatever the boundary.
* `SigningProgress`: one epoch's signing events over blocks; a base scan backwards from the
  head, forward scans afterwards, a request cap per refresh, failures in mid-scan.
* `RewardTree`: leaves and nodes as constructors (hashing is injective; a node sorts its two
  children, hence an unordered pair), the leaves in the order of their hashes (`Before`, which
  is any order of the voters; `SortedUnique`), the flat array of `build_reward_merkle_root`
  (`Tree`), the hashes `verify_proof` goes through (`Folded`), and the guards before signing and
  claiming. The calculator publishes two editions of a file; one fault may damage one part of a
  served copy or file it under the wrong epoch. The tree of the published root and its proofs is
  the calculator's own (`HashAt`, `Siblings`, `ProofOf`), as the contract expects it, and uses
  none of clif's operators. The number of weight-based claims (`count`) is a field of the file
  that is signed with the root and compared with nothing.
* `Credentials`: minting revokes the token before it; the import validates (`ReadBundle`),
  makes one assignment after the other in the text it read (`Assign`), empties and writes the
  env file (`Truncate`, `WriteText`) and deletes the bundle, and may stop between any two steps.
  An env file maps line numbers to assignments, of which the last one of a name counts; a
  duplicate that `upsert_env_var` drops leaves a gap. The names of a bundle differ, so the
  order of its assignments is one fixed order. All bundles arrive at one path, the default one;
  an older bundle kept elsewhere and imported after a newer one is not modelled.

## 3. Runs

| Run | Result | Question |
|---|---|---|
| `EpochSafety` | pass | Three epochs; crashes, denials, transient failures, slow receipts; two failures per behaviour. `WatermarkSettled`: the persisted watermark covers only epochs finalized and claimed. `WatermarkNeverRewinds`: no restart moves it back. `TerminalIsLoud`: a terminal failure in cooldown shows as degraded. |
| `EpochFaults` | pass | Two failures of any of the fourteen kinds, two streams, a catch-up window of one epoch so that the cap bites. `WatermarkFinalized`: the watermark never passes an epoch that is not finalized, those the cap dropped apart. |
| `EpochLiveness` | pass | `WatermarkCatchesUp`: after one failure of any kind, a crash included, every closed epoch ends up behind the watermark, or a spent claim key holds it up for good. `StuckIsLoud`: an epoch that never gets there is reported degraded again and again, or stays in the daemon's memory, so that `stale_after` makes it degraded. |
| `EpochDataLoss` | violated | `WatermarkPaid`: a reward file that cannot be read makes the stream count as done; the reward is skipped for good. |
| `AlertPages` | pass | `LevelsAreConfirmed`: a level changes only after `Confirm` recorded readings in a row, whatever crashes; `BadStatePaged`: a bad state that stays is what the operator was last told, although pages get lost. |
| `SignerLockRace` | violated | `OneSigner`: a clean exit unlinks a file another process has locked. |
| `LegacyDaemons` | pass | Either daemon, one failure of any kind; `fsp auto` starts without `--from-epoch`, from an old epoch or from one that is still to open. `UptimeTried`: the watermark passes no epoch whose uptime vote was not attempted. `TerminalReported`: a cycle with a terminal failure reports degraded. `GoneIsClaimed`: "confirmed claimed" means paid. `RewardsClaimed`: again and again nothing is left to claim, unless the newest key is spent or the wallet held up. |
| `FundingBands` | pass | Daemon and operator together, one failure. `KeepsBand`: refinement of `BandKeeper`. `NeverOverfunded`: an account is above its band only if its balance was read for a top-up while another was decided or could land. `BreachToppedUp`: a breach is topped up unless the funder runs out or fwd's nonce drifted. |
| `FundingWedged` | violated | `KeptFunded`: one lost answer to a broadcast and the account is never topped up again. |
| `ObserverLedger` | pass | Two failures out of crash, outage, failed block, event or overlay reads, a late epoch flip, an hour passing, or a failing disk; the node withholds the bodies of blocks more than three behind. `LedgerExact`, `NoHole`, `RecordsAreFinal`: the ledger on disk says what the chain says, lacks no round that was passed, and is never rewritten by a replay, rounds a node withheld or the disk lost apart. `RegistrationNotStale`, `HeaderKeepsUp`: the overlays belong to the epoch on show. `EventuallyReplayed`: after the last failure the ledger is complete, with the same exceptions, and the stream live. |
| `ObserverSilence` | violated | `SilenceIsReported`: a provider that submits nothing is reported OK, because a round nobody names does not exist. |
| `ReadersReport` | pass | Registration: `WindowWatched` (no epoch is entered unregistered without a warning while it could be helped), `ExclusionOnFile`. Signing progress: `CompleteIsExact`, `FloorIsSound`, `ProgressGrows`. Reward data: `SignedWasPublished`, `ClaimIsPayable`, `IntactFileAccepted`. Credentials: `NoRevokedToken`, `SettingsKept`. |

The violated runs are the disagreements between code and its own words listed under
"findings" in `PROJECT.json`.

### What the passing properties exclude

Some properties hold only outside a case in which the code really does something else; the
case is named in the property, and is a known limitation:

* `TerminalIsLoud` is checked without `rpc` faults. With one it fails: an `RpcError` after
  `record_terminal` unwinds `run_cycle` before `observe()`, the epoch is in cooldown but not in
  `first_seen`, and the status file says healthy until the next complete cycle.
  `WatermarkSettled` is checked without `data` faults, for the reason `EpochDataLoss` shows.
* `WatermarkCatchesUp` leaves out a spent claim key (`ClaimSpent`): a claim signed and never
  broadcast (a crash, a rejected broadcast, a lost answer of fwd) or one that reverted. fwd
  answers the key 409 once the fees drift, and `submit_claims` treats that as terminal each time
  (`claimer.py:246`, while `fsp.py:570` retries). The epoch then never completes; `StuckIsLoud`
  says that this does not stay hidden. The delay `stale` is not among the failures of that run:
  the property counts an epoch that is outstanding without a break as loud.
* `WatermarkSettled` and `WatermarkFinalized` are about the epochs above `floor`, and the first
  counts an epoch as claimed once the beneficiary's pointer is past it.
* `TerminalIsLoud` and `TerminalReported`: a cooldown ends only between two cycles in the model.
  The code counts it from the start of the cycle, so that a cycle longer than the whole cooldown
  could end with the epoch already out of it.
* A re-created container has no status file and re-anchors at `current-2`
  (`epoch_auto.py:297`), past an epoch it may have signed: `floor` records it.
* `BadStatePaged` leaves out an account below its band: `alert_level` reads `a.lower`
  (`alert.py:39`), which `AccountStatus` does not have, and the daemon dies on every reading.
* `fsp auto` moves its watermark past a reward epoch that failed terminally and does not come
  back to it, although the comment at `cli.py:1797` expects it to re-appear. `UptimeTried` is
  therefore about attempts, and a vote that failed retryably before a later epoch succeeded is
  not caught by it.
* `GoneIsClaimed` leaves out rewards that expired or whose file was unreadable once
  (`lapsed`): both are logged as confirmed claims.
* `RewardsClaimed` leaves out a spent key until a fresher epoch changes it, and a nonce
  (`Stranded`) that fwd handed out and no transaction in the pool uses: a crash between signature
  and broadcast leaves one.
* `NeverOverfunded` leaves out accounts whose balance was read for a top-up while another was
  under way (`overlapped`): the daemon gave up on a slow transfer and signed another, or daemon
  and operator met. The latter needs no failure: `fund apply` re-reads the balance to
  "never overfund" (`funding.py:454`), the daemon's transfer lands before the signature, and the
  second one takes the account above its band.
* `LedgerExact` leaves out rounds with a failed event read (`tainted`): the range is not read
  again. Of a round whose bodies a node withheld (`withheld`) it says only that nothing is made
  up: when an engine falls behind, it can read a round's commit while the node serves it and the
  reveal when the node no longer does, and the record then counts as a missing reveal, which
  `mincond.py:122` takes for impossible.
* `NoHole`, `RecordsAreFinal` and `EventuallyReplayed` leave out such rounds and those whose
  record the disk lost (`lost`). `prune_history` truncates the ledger and writes it again
  (`mincond.py:105`) while the status already claims its rounds: a process that dies in between
  leaves rounds of the current epoch missing for good, except those one lookback behind the last
  block. A failed read or append loses records likewise.
* `HeaderKeepsUp` leaves out, until the next hourly probe, a start whose first probe
  failed, and a chain that enters the epoch late, so that the probe right after the rollover
  takes the header back to the old epoch (`blind`).
* `WindowWatched` leaves out an epoch in which a reading failed before the boundary was known or
  a cycle raised: the daemon then takes its long sleep. After a cycle that raised the status
  file also keeps its last severity, so `ExclusionOnFile` counts the long sleep from there.
* `CompleteIsExact` leaves out a forward scan that hit its request cap (`overrun`): the head
  is recorded as scanned all the same, and later narrations are called complete without
  the votes in between. `FloorIsSound` still holds of them.
* `SignedWasPublished` is about one fault; a file that lost its claims *and* has a wrong root
  is signed unverified (`fsp.py:423`). It says nothing of `noOfWeightBasedClaims`, which is signed
  as the file has it, and takes a draft on the site for published.
* `NoRevokedToken` leaves out a network whose file a failed write cut (`torn`), as long as the
  capability is missing there, and a bundle re-issued during an import, which is deleted unread
  (`overtaken`). `SettingsKept` leaves out a file a write cut: the retry reads what
  was left of it, and the operator's other settings are gone.

### Bounds

* Epochs 0..2: three epochs let one be stuck, one be done above it and one be open. The
  catch-up cap is 8 in the code; the model takes 8 (never reached) or 1 (always biting).
* One or two streams: two are needed for "one claim done, the other not".
* `MaxToken`: retry tokens of a sign key. The code has no bound; a sign attempt beyond the
  bound is disabled. With at most two failures per behaviour and one conflict each, 3 keys
  are enough for a retry to reach the third attempt, where the retry limit turns terminal.
* `MaxFaults` 1 or 2: two failures are enough to put one in the recovery from the other. `EpochLiveness`
  and the funding and legacy runs take one, as every later cycle is itself a retry, and their
  state spaces with two are beyond a routine run.
* `Confirm` 2 and three failures in the alert daemon: a crash or lost page in each of the
  readings that confirm a level.
* Legacy daemons: `Deployments` runs them one at a time. They share no variable but the
  finalizations, which are nondeterministic, so each sees with the other nothing it does not
  see alone.
* Observer: 10 blocks, rounds of 2, epochs of 2 rounds: two rounds can close within the
  bound, in different epochs, and a third epoch opens, so that the ledger prunes; a lookback
  of 5 blocks spans a round and its reveal round, as the 900 blocks of the code do; a cap of
  8 that can bite; event chunks of 3, so that chunk and round boundaries differ; bodies served 3
  blocks back, so that a backfill loses some and the live stream none. `ObserverSilence`
  takes 15 blocks, to fill a window.
* Funding: two accounts and two transfers at a time (fwd's policy limit, `Slots`), bands of 1
  or 2 units, plans that name one account twice and one that is not in the registry.
* Readers: three epochs of 12 ticks with a window of 3 and a long sleep of 5; 7 blocks with
  chunks of 2 and two requests per refresh; trees of one to four leaves with ours at every
  place; two networks, two capabilities, three bundles. Behaviours end at the bounds, so this
  run does not check deadlock.

### Fairness

`EpochDaemon!Fairness`: the daemon's own steps (the loop never stops, compose restarts the
container), the chain's own moves together (`ChainMoves`: opening, publication and
finalization of epochs, mining; each happens once, so all of them do) are weakly fair. The end
of a cooldown and the passing of `stale_after` (`Outlives`) are strongly fair, as they are
enabled only between two cycles. No failure is fair. `AlertDaemon!Fairness`: the daemon's
loop, and `repeat_sec` passing while it waits. `LegacyDaemons!Fairness`: each daemon with its
restart (`restart: unless-stopped`), mining, and strongly the end of cooldowns; nothing of
other voters or of publication. `Funding!Fairness`: mining, a running process, the daemon's
wake-up; not the operator. `Observer!FairSpec`: the engine with its restart, and strongly the
growth of the chain, which the model allows only at the points where the engine looks at it.

## 4. Proofs

The theorems hold for every value of the constants that satisfies the named assumptions of
the modules; TLC evaluates these on every run, and checked each inductive invariant on the
run of its component before it was proved.

| Module | Theorem | Extra assumption | Establishes |
|---|---|---|---|
| `EpochDaemonProofs` | `TypeCorrect` | none | `TypeOK` |
| | `WatermarkIsFinalized` | none: any set of faults, any number | `WatermarkFinalized` |
| | `WatermarkIsSettled` | no unreadable reward data (`"data" \notin Faults`) | `WatermarkSettled` |
| | `WatermarkAdvances` | no `--from-epoch` (`FromEpoch = None`) | `WatermarkNeverRewinds` |
| | `TerminalStaysLoud` | no `RpcError` out of a cycle (`"rpc" \notin Faults`) | `TerminalIsLoud` |
| `AlertDaemonProofs` | `TypeCorrect`, `DebounceSound` | none | `TypeOK`; `LevelsAreConfirmed`, for every `Confirm` |
| `SignerLockProofs` | `TypeCorrect` | `MaxInode \in Nat` | `TypeOK` |
| | `KillsKeepOneSigner` | `MaxInode \in Nat`, `CleanExit = FALSE` | `OneSigner` when processes only die by being killed |
| `FundingProofs` | `TypeCorrect` | none | `TypeOK` |
| | `NeverOverfundedHolds` | none | `NeverOverfunded`, for every registry, band and plan: overlapping readings are the only way above a band |
| | `KeepsBandHolds` | none | `KeepsBand`: `Funding` implements `BandKeeper` |
| `LegacyDaemonsProofs` | `TypeCorrect`, `GoneIsClaimedHolds`, `TerminalReportedHolds`, `UptimeTriedHolds` | none | the four invariants of the run, for any `--from-epoch` |
| `ObserverProofs` | `TypeCorrect`, `LedgerExactHolds`, `NoHoleHolds`, `RegistrationNotStaleHolds`, `HeaderKeepsUpHolds`, `RecordsAreFinalHolds` | none: any round, epoch and chunk length, any faults | the five invariants of the run and the action property |
| `ReadersProofs` | `FloorIsSoundHolds`, `CompleteIsExactHolds`, `ProgressGrowsHolds` | none: any weights, threshold and range | the narration's two invariants and its action property |
| | `WindowWatchedHolds`, `ExclusionOnFileHolds` | none: any intervals within `RegistrationAssumption` | the registration daemon's two invariants |
| | `NoRevokedTokenHolds`, `SettingsKeptHolds` | none: any env files, any number of bundles and stopped imports | the import's two invariants |
| | `ClaimIsPayableHolds`, `IntactFileAcceptedHolds` | none: any claims, any order of hashes, any number of damaged files | the two invariants about claims and intact files |
| | `SignedWasPublishedHolds` | at most one thing wrong in the files (`MaxFileFaults <= 1`) | `SignedWasPublished` |
| | `OnlyClaimsVerify`, `RootBinds` | none | what `verify_proof` accepts is a claim under the root; one root, one set of claims |
| | `TypeCorrect` | none | `TypeOK` of the four parts |

`OrderLemmas` holds the least-number principle for sets (`LeastOf`, `GreatestOf`) and what
`LegacyDaemonsProofs`, `ObserverProofs` and `ReadersProofs` take from it: a set that contains 0
and with each number the next one contains all up to a bound (`StepByStep`), and a finite set
with a strict order can be listed in that order (`Listed`, `ListsAll`).

The extra assumptions are those the code needs: without each of the last three of the epoch
daemon, or with two faults in the reward files, the property is false, and section 3 says what
happens then.
`KillsKeepOneSigner` is the counterpart of the violated run `SignerLockRace`: the unlink on a
clean exit is the only cause of two signers.

### The epoch daemon, the alert daemon

**Types.** `TypeInv` is `TypeOK` with two facts about where the cycle stands: an epoch
whose turn it is lies below the epoch the cycle read as current, and the stream being
broadcast is one still queued. Without them `SettleEpoch` could leave the range of epochs.

**The watermark.** `WatermarkFinalized` and `WatermarkSettled` are not inductive: the status
file is written from `last_done`, that from the cycle's `new_last_done`, and that because of
what a receipt or a view said several steps earlier. `MarkInv` follows this chain backwards:

* `DiskMarks`: the file's and the memory's watermark both cover settled epochs only.
* `CycleMarks`: so does the mark being built, and `advancing` means that everything below
  the epoch under consideration is settled. This is why a done epoch above a stuck one does
  not move it, and what carries the argument from one turn to the next.
* `ClaimMarks`: the claim phase runs only for a finalized epoch, and `all_done` speaks for
  every stream already dealt with.
* `TxMarks`: a receipt read as "already finalized" or "mined" is true of the chain, whenever
  it is read, and stays true.
* `TokenMarks`: the key a sign transaction is read back under is the one it was sent under.

`Settled(e)` asks for the claims only when `data` faults are excluded, so that one invariant
yields both theorems. The chain only moves one way (`Grows`), which is why steps of the
world cannot spoil a mark (`SettledUpToStays`). The end of a turn is handled once
(`SettleMarks`) and each handler is shown to end in it or to keep the cycle's place.

**The order of the watermarks.** `OrderInv`: outside a stop, memory is at or above the file,
the mark being built is at or above memory and below the current turn. `Report` is the only
writer of the file apart from its loss.

**Loud failures.** `LoudInv`: every cooling epoch is in `first_seen` or will be put there by
the `observe()` that ends this cycle (`Seen`), a turn that recorded a terminal failure does
not also count as done, and a stopped daemon has no cooldowns.

**Debounce.** `CounterInv` ties `pending_n` in memory and on disk to the run of equal
recorded readings, which is a history variable.

### Funding

`TypeInv == Shape /\ LiveOK /\ HeldOK`. `LiveOK`: a transfer the node may still include goes to
a registered account with a value within the per-transaction cap. `HeldOK`: a process refers
to a transfer exactly while it sends or follows one, so that a slot is not reused under it.
`RoomOK` carries `NeverOverfunded`: while no two top-ups of an account overlapped, at most one
is decided or can land, and its value fits between the balance and the upper bound. The room is
that of the reading; as nothing else can land, the balance can only have fallen since. For the
refinement, `Kept` says that a step never alters a transfer that can land, only gives it up;
every step is then a `Decide`, a `TakeOn`, a `Land`, a `Drop` or a stutter of `BandKeeper`.

### The legacy daemons

`LegacyInv == ChainType /\ PointerOK /\ ClaimType /\ ClaimOK /\ FspOK`. `ClaimOK` says of every
epoch the claim daemon believes claimable that it is still claimable, or paid, expired or
unread, and that a batch ends at its newest epoch, which is the key it is sent under; the
step that matters is a discovery that no longer lists an epoch. `TriedOK` and `TrippedOK` (in
`FspOK`) are about the middle of a cycle: which epochs below the one being handled have had
their uptime vote attempted, and which terminal outcomes still wait for the report.

### The observer

`ObserverInv == ScanOK /\ FileOK /\ EpochsOK /\ LedgerOK /\ CoverOK`.

* `ScanOK`: blocks from the start on are read in order, and events trail transactions by less
  than a chunk, so that no round is closed before its events were fetched.
* `LedgerOK`: memory and disk agree on every record that pruning may not touch and the disk did
  not lose, and a round not in the ledger yet is in flight with exactly what was read of it
  (`AsRead`), bodies a node withheld apart.
* `EpochsOK`: no epoch the engine knows is ahead of the chain's rounds, and only a blind start
  leaves the ledger's epoch unknown.
* `CoverOK`: what the last status covers is in the ledger unless the next start gives it up
  (`StatusCovered`); so is what earlier runs left (`InheritedCovered`), and what this run has
  passed (`PassedCovered`). `NoHole` follows from the last two.

The attempt changed a property. `RecordsAreFinal` and `NoHole` first spoke of the records of
the chain's reward epoch and the one before it. With rounds and epochs longer than those of the
run that is false: the epoch by which the ledger is pruned comes from the round id, which is
ahead while the chain flips late (`engine.py`, `expire_epoch_overlays`: "the round id is the
authoritative, immediate boundary signal"), and a record goes one epoch earlier.
`Retainable` is now stated by the round id.

### The readers

`ProgressInv == ScanType /\ VotesOK /\ CacheOK /\ ReportOK /\ FloorIsSound /\ CompleteIsExact`:
the cache holds votes that are on chain, all those of the range it claims when the base scan
was completed and no forward scan overran, and the report is the aggregate of a cache no newer
than the present one. `TotalOf` counts units of weight, so that a sum over signers is the
cardinality of a set and its monotony a fact about sets.

`RegInv == WorldOK /\ ReadingOK /\ WatchOK /\ AlarmOK /\ WindowWatched`. A reading lasts less
than two ticks, so at most one flip falls into it. `WatchOK`: as long as no line about the next
epoch was logged, the daemon never sleeps past the first tight interval of the window.
`AlarmOK`: as long as an exclusion is not on file, the next look is at most one long sleep
after the flip or after the last cycle that raised. The proof made `RegistrationAssumption` explicit, and TLC refutes the
properties without each part: `Tight + 1 < WindowTicks` (a reading begun one tick before the
boundary can be overtaken by the flip), `Tight < Far`, and
`MaxLate + Far + WindowTicks < EpochTicks` (a flip so late that the window is gone before the
daemon wakes). The defaults of `config.py` are far inside: 2 and 10 minutes, 2 hours, epochs
of 3.5 days.

`ImportInv == FilesOK /\ BundleOK /\ TokensOK /\ OwnOK`. `BundleOK`: what a bundle carries is in
force, since fwd issues the next one for no fewer capabilities, and an import works on the
bundle that lies there. `TokensOK` follows a token through a rotation: the file assigns the one
in force (`InForce`), or a bundle still carries its successor (`Carried`), or the file is being
written; in the text, a token that is not in force yet is one of the assignments in `todo`. The
bundle is deleted only after the write, so the middle case never ends without the first.
`OwnOK` (`Keeps`) says the same of the operator's settings. Both rest on one lemma about
`upsert_env_var`, `UpsertFacts`: the name is assigned once, with the new value, and what any
other name is read as does not change, wherever the line goes and whatever duplicates went.
With folds over a sequence this would have been an induction; the model therefore keeps line
numbers and makes the assignments in steps.

The reward tree is proved for every number of leaves. The recursive functions of the model
(`Tree`, `Folded`, `HashAt`, `Siblings`) are `CHOOSE` expressions until they are shown to exist:
`FoldedIs`, `HashAtIs` and `SiblingsIs` build the first (or last) *k* values for every *k*, with
`StepByStep` on the set of those *k*. After that they are used by their equations.

* Completeness. `PlacesVerify`: from every place of the tree the siblings lead to the root. It
  goes up by the place: a proof with one more sibling in front is folded like the shorter one
  from the parent on (`FoldedFirst`). `ClaimsVerify` takes it to the leaves, `IntactFile` to the
  published file, whose root is the one clif computes (`TreeIs`).
* Soundness. `OnlyLeavesVerify`: let *any* list of hashes lead from a leaf to the root. Going
  back from the root, each hash on the way is that of a place, since a node has just two
  children and no leaf is a node; so the leaf one started from is one of the tree's. With
  `SortedLeaves`, that is a claim (`OnlyClaimsVerify`), and two sets of claims with one root are
  equal (`RootBinds`).

`TreeInv == World /\ TreeTypeOK /\ FilesHeld /\ HashesHeld /\ PairsHeld /\ ClaimIsPayable` says
that the editions are what `FileOf` made of the claims, that whatever is wrong with a file it is
one that can be parsed, and that a finalized hash is the root of the second edition. It needs no
bound on the faults, so `ClaimIsPayable` does not either: the proof is checked against the
chain. What is signed has no such check; there the argument is where the file came from.
`Traced`: every file clif can read is an edition published for its epoch (`Genuine`), or the one
fault there may be is in it (`Faulty`). Of a damaged file, only the root matters: if it is the
root that is damaged, the recomputed one differs, as it is a leaf or a node (`RootOf`).

`TypeCorrect` combines the types in these invariants: among them, a file is on the site exactly
from the first publication on, whatever damage it takes.

### Assumptions on the constants

Besides types and the finiteness of streams and signers: bands are not empty and at most the
per-transaction cap (`BandAssumption`); a plan is a list of amounts of any sign
(`PlansAssumption`); a run of the observer reaches its first round boundary
(`RoundLen <= MaxBlock`); the lookback spans a round and its reveal round and a chunk is
flushed before the rounds it belongs to are closed (`WindowsAssumption`, the shape of the
constants in `engine.py`); the scan starts no later than one block after the last
(`ScanAssumption`); the sentinels `None`, `NoReport`, `Unknown`, `NoBundle` are none of the
values they stand in for; an env file is a list of assignments, and the capabilities' names
differ from those of the other settings (`CredentialsAssumption`); an epoch with reward data
rewards a finite number of voters, at least one, and no two leaf hashes are equal
(`TreeAssumption`).

### Only model-checked

* Everything under fairness: `WatermarkCatchesUp`, `StuckIsLoud`, `BadStatePaged`, `RewardsClaimed`,
  `BreachToppedUp`, `EventuallyReplayed`. Liveness and `ENABLED` are outside the prover's reach.

Every invariant and action property of the passing runs is stated by a theorem.

## 5. Plan

The models and the proofs are complete along the plan. What a continuation would add: the
reward rule and the history rings of the observer (section 6), as operators with theorems of
their own in the way of the reward tree.

## 6. Not modelled

* IQR scoring, delegation, uptime and their history rings (`observe/iqr.py`,
  `iqr_history.py`, `deleg_history.py`, `delegation.py`), and the reward rule: they enter the
  report as information, on data that is arithmetic over one snapshot; `verify.py` compares a
  finalization with an external source and is one flag of the severity.
* Rendering: about half of `cli.py`, `health.py` and `registration.py` formats reports.
* `calldata.py`, `fsp_calldata.py`, `_keccak.py`: byte-level encodings with reference vectors
  in the unit tests.
* `rpc.py` and `fwd_client.py` as transports: their answers and failures are the modelled
  nondeterminism. `config.py`: settings are the CONSTANTS.
* The dead-daemon check (`autostate.py:196`), which compares file age and poll interval:
  the models have no clock that both sides read.
* The uptime leg of `epoch run` (off by default); the same function is modelled in `FspAuto`.
