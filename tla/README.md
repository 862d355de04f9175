# A verification project for eoswatcher

TLA+ models of the program in `src/`, the TLC runs that check them on small
instances, and TLAPS proofs of the results that matter most for every value of
the constants. `PROJECT.json` lists the runs, the source lines each definition
stands for, the hazards and the theorems.

## The system

eoswatcher is the EOS side of a cross-chain gateway, grown out of the `eosc`
command line tool. A gateway process embeds a *watcher*: it scans the blocks of
an EOS chain and sends the gateway one event per transaction that destroys
wrapped tokens ("solvent") or pays the gateway. The gateway answers by building,
signing (through a key service) and pushing transactions of its own.

| Component | State it keeps | Operations | What makes it correct |
|---|---|---|---|
| **Block scan** `eoswatcher/*.go`: `StartWatch`, `UpdateInfo`, `UpdateBlock`, `UpdateEOSPushEvent` | persisted height (leveldb), scan height, last irreversible block, slot channel, worker goroutines, event channel | ask the node, wait for a slot, persist, start a worker, advance; worker: take a slot, fetch, send events, give the slot back | each event of an irreversible block is sent, in block order, once per run; nothing below the persisted height is forgotten; slots are not leaked |
| **Event parsing and look-up** `eoswatchermain.go`: `ActionDataParse`, `GetEventByTxid` | the process-wide action-type registry | parse typed data (scan), parse JSON (look-up) | scan and look-up agree on a transaction |
| **Watcher configuration** `eoswatchercontract.go`, `eoswatcher.go` setters | watched account, action names, gateway | `Update*` | an event is judged by one configuration, not by a mixture |
| **Transaction building** (all watchers) and **multisig** `tools/multisig`, `tools/utils/signer.go` | the transaction and its signatures | build, sign by the key service, merge, push | the pushed transaction has each signature once and is the one that was signed |
| **EosManager watcher** `tools/eosmanager` | irreversible and reversible heights, redis height, two block channels | `WatchAllBlock`, redis save and load | every irreversible block reaches the channel, in order |
| **EosStore** `tools/eosstore` | gateway channel, ElasticSearch indices, a bulk request | process confirmed and unconfirmed blocks, clean up | a confirmed transfer is pushed and stored; confirmed ones leave the unconfirmed index |
| **Token contracts** `tools/contracts/eosio.token*` | supply per symbol, balance per account | create, issue, transfer, solvent | supply is the sum of the balances and at most the maximum |
| **xinplayer contract** | balances, videos, purchases | issue, createtoken, destroytoken, buyvideo, ... | balances are conserved and do not wrap |
| **Vault** `vault/`, vault commands of `eosc` | key bag, wallet file, a data key per call of a boxer | add, seal, write, open, serve | a wallet that was readable stays readable |
| **eosc commands** `eosc/cmd`, `cli`, `analysis` | none of their own, but the wallet and transaction pipeline of `common.go` | one request or action each | sign and push what was asked |

How they interact. The watcher calls nodeos over HTTP and shares its fields
between the scanner goroutine, the workers and the setters without locks. Its
only output is the channel the gateway passed to `StartWatch`. EosStore starts
an EosManager watcher and reads its two channels; it writes to ElasticSearch and
to a channel of the gateway. The contracts run on the chain: their `solvent`
action is what the watcher looks for. The vault commands share the wallet file.

What is hard. In the watcher: the persisted height is written before the block
is even requested; workers of many blocks run at once and read variables that
the scanner changes; the slot channel is replaced while workers still use the
old one; eventChan may be full while the workers hold all slots; a crash may
fall between any two steps; leveldb errors are only logged; the node may answer
with a stale last irreversible block. In the other parts: blocks that are skipped
after a failed request, a redis height saved every thousandth block, pushes that
precede a store that fails, tables updated in separate rows, signatures appended
in place, transactions that expire while they are being signed, delayed ones whose
receipts look like executed ones, a wallet file truncated before it is rewritten. The "hazards" of
`PROJECT.json` name each at its line.

## What is modelled

Which module stands for what, from the block scan outwards:

| Part | Modules | Runs |
|---|---|---|
| Block scan | `BlockScan`, `EOSWatcherMain`, `EOSWatcher`, `EventFeed` | `main_*`, `first_stamp`, `watchers` |
| Setters and look-ups of the one-contract watchers | `ActionScan`, `EOSWatcherContract`, `FirstWatcherActions` | `watchers` |
| Parsing and look-up of the main watcher | `PushEvents`, `EventLookup` | `chain` |
| EosManager and EosStore | `EosManager`, `EosStore`, `ConfirmedFeed` | `store_*` |
| Token contracts, built actions, the peg | `Token`, `Token2`, `ActionBuilding`, `Bridge` | `chain` |
| xinplayer | `XinPlayer` | `chain` |
| Signing | `Signing`, `WatcherSigning`, `MultiSign` | `signing` |
| Wallet file, envelope encryption | `Vault`, `Kms` | `eosc` |
| eosc commands with state | `Forum`, `EoscTx`, `SellAccount` | `eosc` |

Programs that share no state are checked in one run: `MCWatchers`, `MCChain`,
`MCSigning` and `MCEosc` choose a program in the initial state (`watcher` or
`program`) and only that one takes steps, while the variables of the others stand
still in an initial state. The reachable states are the sum of the programs'
state spaces and not their product, and nothing is lost: programs without a
common variable cannot disturb each other, and a property of one is unaffected by
how the other's steps are interleaved. A property over one program is stated in
that program's module; the MC module instantiates it.

### The block scan

The three watchers contain three copies of one `StartWatch`; they differ in the
event a worker sends. So the scan is one module whose actions the watchers'
modules combine:

* `BlockScan` — state, actions and properties of the scan;
* `EOSWatcherMain` — `eoswatchermain.go`: next-state relation, fairness;
* `EOSWatcher` — `eoswatcher.go`, whose events carry `ew.ScanBlockHeight`;
* `EventFeed` — the abstract specification, what a watcher promises a gateway:
  in one run, only irreversible blocks, each event at most once, each block's
  events in order with none left out, blocks interleaved in any way;
* `MCEOSWatcherMain`, `MCEOSWatcher`, `MCWatchers` — the chains the runs use.

State and code. `pc` is where the scanner goroutine stands in `StartWatch`;
`db` is leveldb's `ScanBlockHeight`; `ScanBlockHeight`, `HeadBlockNum` and
`LastIrreversibleBlockNum` are the fields of those names; `scanBlockIndex` is the
parameter of `StartWatch`, captured by the workers' closure. `workers` holds the
goroutines in the order they were started, each with the height it was given by
value, the slot channel it captured, where it stands, and the first receipt it
has not dealt with. `slots` is `len` of each slot channel; a channel is named by
the number of workers started when it was made. `sent` is everything sent on
eventChan in this run and `taken` how much of it the gateway has received, so the
buffer is what lies between. `first`, `before`, `delivered`, `lost` and `crashes`
are history: where the run began, what the gateway had received before it, what
it ever received, what a crash caught in the buffer or with a live worker.

| Action | Code (`eoswatchermain.go`) |
|---|---|
| `StartWatch` | constructor's read of leveldb (103-110) and 140-149: the larger of the stored height and the argument |
| `UpdateInfo(n)` | 151-158 and 200-212: the node's answer `n`, a new slot channel |
| `CaughtUp` | 192-194: nothing to scan, ask again |
| `SlotFree` | 159-168: wait for `len(tmpChannel) < channelCount` |
| `PutHeight` | 170-178: persist the height; an error changes nothing |
| `SpawnWorker` | 179-187: the go statement |
| `AdvanceScan` | 189-190: `ScanBlockHeight++`, `scanBlockIndex = 0` |
| `AcquireSlot(w)` | 180: the send on the captured channel blocks while it is full |
| `FetchBlock(w)` | 182-184, 215-229: the block has arrived, the index argument is read now |
| `UpdateEOSPushEvent(w)` | 232-288: the next matching receipt goes to eventChan, which blocks while full |
| `ReleaseSlot(w)` | 186 |
| `AdvanceChain`, `Receive`, `Crash` | the environment: the chain, the gateway, the process being killed |

The block a worker asks for is immutable, because it is irreversible, so its
content is the constant `PushIndexes`: per height the receipts that carry an
event. `MCEOSWatcherMain` derives them from blocks of receipts with the parser of
`PushEvents` (`IndexesAreParsed`). A request that fails is retried by the code
and changes nothing, so it is a stutter. A worker's receipts that carry no event
are passed over in the step that sends the next event or finishes the block.

`EOSWatcher` models the unsynchronised read of `ew.ScanBlockHeight` as any value
the field has had since the worker was started.

### Setters and look-ups

`EOSWatcherContract` and `EOSWatcher` have setters that a gateway may call while
workers run. Nothing is locked, so what matters is the order of single reads and
writes. `ActionScan` extends `BlockScan` with it:

* `watched` is the three fields `ActionAccount`, `ActionNameDestroy`,
  `ActionNameCreate`; `registered` the process-wide registry of action types,
  which eos-go consults when packed data is decoded.
* A setter is the list of its assignments (`Assign` to a field, `Register` in the
  registry); `Call` starts one and `SetterStep` makes the next assignment. A
  registration uses the fields as they are when it is made, as the code does.
* A worker judges one receipt in up to four steps, `look` says at which: `Unpack`
  fixes the type of the data by the registry as it is now, `CompareAccount` and
  `CompareName` each read one field, and the cast either passes the receipt over
  (`CastFails`) or sends the event (`Report`).
* `GetEventByTxid` (`AskEvent`, `AskAccount`, `AskDestroy`, `AskCreate`) reads the
  same fields one by one but decodes JSON, which needs no registered type.
* `configured` is every pair of account and destroy name that was in force;
  `merged` that the two names were equal at some time, when the create action's
  registration replaces the destroy action's; `calm` marks a decision during which
  no setter ran.

`EOSWatcherContract` has the setters that register, `FirstWatcherActions` those
that only assign. `EOSWatcher` is the first watcher's scan with more slots and no
setters, for the refinement of `EventFeed`.

### Parsing and look-up of the main watcher

`PushEvents` holds the pure part of `eoswatchermain.go`: the registry of action
types that the constructor fills, the typed and the JSON parsers with the
dispatch of `ActionDataParse`, the two loops over the token contracts.
`EventLookup` chooses one transaction and one contract list and runs both in steps:
the scan a turn of its loop at a time (`ScanContract`), the look-up from
`GetTransaction`'s answer or error (`Ask`, `AskFails`) over the turns of its loop, in
which the gateway's account is read twice (`ReadGateway`, `LookupContract`), to its
end (`LookupEnds`), as often as it is called. That account is a field, which
`UpdateGateway` (`eoswatchermain.go:136`) sets between any two of these steps. Memo, amount and transaction id are copied through by
the code and left out, and so are the event's block number and index: the look-up
always answers index 0.

### EosManager and EosStore

`EosManager` is `WatchAllBlock` (`tools/eosmanager/eos_watcher.go:83-180`) with the
requests of `eos_client.go`. `pc` is where the goroutine stands; `scanHeight`,
`scanIrHeight` are the fields, `lastIr` the inner
`lastIrreversibleBlockHeight`; `redis` is the saved height.

| Action | Code (`eos_watcher.go`) |
|---|---|
| `BeginScan` | 90-97, 201-213: the argument, or redis when it is 0; any error of redis reads as 0 |
| `GetIrreversibleBlockHeight`, `Sleep` | 99-107: the outer loop's test, a second's sleep |
| `GetInfo(n)`, `GetInfoFails` | 109-141: the inner answer chooses irreversible, reversible or the outer loop |
| `GetBlock`, `GetBlockFails` | 117-129: a failed request moves on to the next height |
| `SendIrreversible`, `SaveHeight` | 130-135, 182-199: send, then save at every thousandth height |
| `GetReversibleBlock`, `GetReversibleBlockFails`, `SendReversible` | 142-150 |
| `AdvanceChain`, `ManagerCrash` | the environment |

A block carries the watched transfers of its transactions, in order. The receipt of a
transaction holds it (`"packed"`) or its id (`"id"`); the latter are looked up and
left out when that fails. What `BlockRespDecodeTrx` never keeps is `"lost"`: all but
the first trace of a transaction that was looked up, and one whose JSON does not
parse. An answer without traces makes it panic, which is one of the crashes. `ok` is
false for a transfer whose data cannot be decoded. A reversible height may hold a block that is undone later (`Orphans`). With
`StaleNodes` each request may be answered by a node that is behind.

`EosStore` runs that watcher: `Start` (52-73) calls `WatchAllBlock` and
`ScanIrreversibleOfUnconfirmTx`, each of which starts a goroutine and waits on a
wait group that the goroutine itself increments. `Start`,
`WatchAllBlockReturns`, `ScanUnconfirmReturns` are the calls; they can go on only
while the goroutine has not run yet. `TakeConfirmed` and `TakeUnconfirmed` are the
two cases of the consumer's select, `PushTransfer`, `SaveConfirmed`,
`EndConfirmed` the loop of `processConfirmBlock` (77-183), `SaveUnconfirmed`,
`EndUnconfirmed` that of `processUnconfirmBlock` (185-246), `CleanUp` the clean-up
goroutine (257-296). `UpdateTxInfo` (`es_client.go:43-113`) keeps the shared bulk
request: one that failed stays in it (`leftover`), every later call then fails its
count check, and the server may have carried the failed request out. The response of
a bulk request that succeeds is not looked at (line 104), so ElasticSearch may have
refused the document and the caller is told that it is written (`"refused"`);
`dropped` is which of the pushed transfers met that. `index` is
the documents of each ElasticSearch index, `gate` what was pushed to the gateway,
`cut` the heights whose processing ended early. ElasticSearch, redis and what the
gateway took survive `Crash`. The monthly indices are one, and creating an index
is part of the first failing outcome.

`ConfirmedFeed` is what the gateway is promised: transfers of irreversible blocks
in chain order, each at most once per run, nothing left out within a block before
a transfer that is sent, except what its receipt does not hold in a readable form.

### Token contracts, built actions and the peg

`Token` (`eosio.token`) and `Token2` (`eosio.token2`, with `solvent`) model an
action as the set of tables it may leave, empty when an `eosio_assert` fails: a
failed assertion undoes the transaction, the inline transfer of an issue included.
`AddBalance`, `SubBalance`, `Create`, `Issue`, `Transfer`, `Solvent` follow the
methods of those names. Memos, notifications and who pays for RAM are left out.

`ActionBuilding` has one operator per `Create*Action` of the three watchers.
`Bridge` composes them with the two contracts and the scan of `PushEvents`: what a
watcher builds, or a user sends, alone, in pairs, deferred or with a delay, is executed
by the contracts and listed by the blocks, whose receipts are scanned in order.

| Variable, action | Code |
|---|---|
| `transactions`, `executed` | what nodes accepted, by id, and what the contracts have executed of it |
| `receipts` | what the blocks list: an id, with the transaction (`packed`) or without |
| `SubmitBuilt`, `SubmitTwo` | executed at once and listed in full |
| `SubmitDeferred` | sent by a contract: executed at once and listed by id |
| `SubmitDelayed`, `ExecuteDelayed` | with a delay: listed in full before it is executed, and by id if it ever is |
| `Scan` | `UpdateEOSPushEvent` on the next receipt, whose status it does not read (234-262) |
| `Restart` | the constructor's read of a height that was scanned before (103-110) |

The scan tells of a delayed transaction before it is executed, or though it never is,
and again after a restart what it told of before. An event carries the id of its
transaction, so `PegSound` is what a gateway may rely on that pays once for an id and
not before it has seen the transaction executed; `OnlyDelayedAreEarly`, a part of it,
says for which transactions that wait is needed.

### xinplayer

`XinPlayer` has one action per action of `xinplayer.hpp` that changes a table:
`issue`, `createtoken`, `destroytoken`, `newaccount`, `publishvideo`, `buyvideo`.
Balances wrap at `Wide`, profits, expenses and counters at `Narrow`. Names and
hashes are sequences, because an order's id hashes their concatenation; the hash
itself is taken to be injective.

### Signing

`Signing` holds the functions of `tools/multisig/sign.go`, repeated in the
watchers, as sets of outcomes: a result, `Nil` for a returned error, `Panic` for a
nil pointer dereferenced. `MultiSign` is the program `tools/multisig/cmd`, call by
call. `WatcherSigning` is the interface the watchers offer a gateway: one creates a
transaction (`CreateTx`), each signs (`AskChainId`, then `AskKeyService` with the
`PubKeyHash` the field has by then, which `UpdatePubKeyHash` may have changed),
one merges (`Merge`) and sends (`Send`). The gateway is external: it merges only
signatures whose keys it recovered, and after a failed push either sends again or,
when `remerge` was chosen, merges again first. A push may be lost on the way, and
so may its answer. `CreateTx` sets an expiration (`eoswatchermain.go:757`); at some
time it passes (`Expire`), and from then on the node refuses the transaction, however
often it is sent. What a gateway does then is create another: one transaction is
modelled.

### Wallet file and envelope encryption

`Vault` has shells that run `vault create` and `vault add` on one file, in the
steps between which others may come: look at the file (`Create`, `Load`), type
keys (`Enter`), open with O_TRUNC (`Truncate`), write (`Write`, `WriteFails`),
report the keys (`vaultWrittenReport`). A command may end at every step (`Exit`).
Cryptography is a tag: a sealed content opens with the boxer it was sealed with.

`Kms` is `KMSGCPBoxer` with the `KMSGCPManager` of `vault/kmsgcp.go`. Both `Seal` and
`Open` make a manager of their own (`NewKMSGCPManager`), so a manager's cache and its
lock never meet a second call; only `secretboxer.go:22` and `vaultCreate.go:88` make
boxers, and nothing else makes a manager. `Seal`, `Draw`, `Wrap`, `Encrypt` are a
sealing with its set-up, field by field, `Open`, `Decrypt` an opening with
`fetchPlainDEK`; `Fail` is an error of the key service or the random source at any of
them. Several processes have a boxer each, for the same or another key of Google's KMS.
The cache and the lock are kept in the model as far as one call uses them, so that a
boxer that kept its manager would be caught.

### eosc commands with state

* `Forum`: `forum vote` (`Vote`), the contract's rows, and `forum tally-votes`
  (`Begin`, `GetPage`, `GetPageFails`), which asks for the first page until there
  are no more rows; `counted` is capped at `Cap`.
* `EoscTx`: the pipeline of `common.go` (`pushEOSCActions`,
  `optionallySignTransaction`, `optionallyPushTransaction`, `pushTransaction`) and
  `tx sign`, `tx push` on transaction files. A transaction is a number; a signature
  is key, transaction and chain id.
* `SellAccount`: `tools sell-account` in its requests (`GetSoldAccount`,
  `GetBuyerAccount`, `Propose`) and `multisig approve, unapprove, cancel, exec`, while
  both accounts may change their authorities.

## The runs

| Run | Shows | Bounds |
|---|---|---|
| `main_safety` | `TypeOK`, `ScanIsContiguous`, `OnlyIrreversible`, `SlotsAccounted`, `CoveredBelowCursor`, `EventsPlaced`, and that the watcher implements `EventFeed` | 4 blocks (3 can be scanned), 2 slots, 1 place in eventChan, 1 crash, leveldb unreliable |
| `main_replay` | `ReplayOneBlock`, `SkipsOnlyInFirstBlock` | 3 blocks, 2 slots, start index 1, 2 crashes, leveldb reliable |
| `main_liveness` | `EveryEventArrives` | 3 blocks, 1 slot, 1 place, 1 crash, leveldb unreliable |
| `main_pool` | `PoolBound` fails: two rounds of the outer loop have a pool each | 1 slot |
| `first_stamp` | `EventsPlaced` fails for the first watcher | 3 blocks, 2 slots, 1 crash |
| `watchers` | `ReportedWasWatched`, `ContractSettled`, `CalmDecision`, `LookupConfirms`, `FirstImplementsFeed` | 2 blocks (1 scanned, 2 receipts), 1 slot, 2 setter calls, or 1 with a look-up, 1 crash; the first watcher's scan: 3 blocks, 2 slots, 1 crash |
| `store_safety` | `TypeOK`, `WholeUnlessCut`, `StoredUnlessCut`, and that the store implements `ConfirmedFeed` | 3 blocks, one reversible, channels of 1, failing writes, refused documents, nodes that are behind, undone blocks |
| `store_restarts` | `ScanInOrder`, `LostBelowRedis`, `EveryBlockIsTried`, `FirstTransfersArrive` | 3 blocks, channels of 2, every 2nd height saved, failing requests and writes, 1 crash |
| `store_bulk` | `EveryTransferPushed` fails: a failed write drops the rest of its block and of later ones | 3 blocks |
| `chain` | token: `SupplyIsSum`, `SupplyWithinMaximum`, `OnlyOwnerPays`; peg: `PegSound`, `BuiltIsReported`; xinplayer: `TablesAgree`; parsers: `LookupConfirmsScan`, `ScanMissesOnly` | 3 accounts and a missing one, 2 symbols of 2 precisions, amounts -1 to 2; 3 transactions of one or two actions, any number of restarts; 2 users, 2 hashes, 2^w of 5 and 4, 6 tokens issued; transactions over 2 accounts, 3 actions, 3 tokens, with at most one oddity, 5 contract lists, 2 gateway accounts |
| `signing` | `PushedWhole`, `SignedByConfigured`, `ExecutedUnlessRemerged`, `CreatedIsExecuted` | 3 watchers of which 2 must sign, 4 keys, 3 merges; the program's four keys |
| `eosc` | `WalletSafe`, `EnvelopeSound`, `TallyIsAnswered`, `TransactionsSound`, `SaleSound` | 2 shells, 2 boxers, 3 keys; 3 boxers of 2 KMS keys, 3 data keys; 2 voters, 3 rows, pages of 2; 2 chains, 2 wallets, 2 files, 2 transactions; 2 prices, 1 change of each authority |

### Why these bounds are enough

*Block scan.* The blocks differ: one with two events and a receipt without one
between them, one whose only event follows an unreadable receipt, one empty. Three
scanned blocks and two slots let three workers of two slot channels be alive at
once, one of them waiting; a buffer of one place fills; a crash can fall at every
step, and a second one in the run that repeats the first; a height that failed to
be written or read sends a run back to an earlier one. `CoveredBelowCursor` is
checked with `StartIndex` 0, where its last disjunct is empty; with a start index,
`SkipsOnlyInFirstBlock` says whose receipts may be skipped. `CoveredBelowCursor`
and `EveryEventArrives` accept the events a crash caught in the buffer or with a
live worker: the code persists a height before its block is handed over, so these
are lost, up to `channelCount` blocks and a full buffer per round. The properties
say that nothing else is.

*Setters.* Two calls are needed for a worker to see an account of one and a name of
another configuration; three names let the destroy name take the create name's
value. One scanned block with two receipts suffices because a decision concerns
one receipt.

*Store.* A height may be saved (every 2nd) and a channel hold more than one block,
so a crash can lose a block below the saved height; block 1 and 2 differ in what
can be decoded and looked up, and two transfers share a transaction, once in a packed
one and once in one that is looked up, of which the second is lost.

*Contracts.* Maxima of at most 2 are exceeded by one issue or by two; the issuer,
the contract itself, an ordinary owner and a name without an account all occur as
every party. Three transactions let an issue, a destruction and a delayed one come in
every order with the scan of each and with restarts. xinplayer's balances wrap within
the 6 tokens issued (`Wide` 5), its totals after two purchases at 3 (`Narrow` 4), and
the buyer may be the publisher. The users are `<<"a">>` and `<<"a","b">>`, the hashes
`<<"b","c">>` and `<<"c">>`, so that two of the four orders have one id. Two gateway
accounts are enough for the parsers: a comparison with the field comes out one way or
the other, and both orders of the two values occur.

*Signing.* Four keys for three watchers let a changed key be a new one or another
watcher's.

*eosc.* Two shells overlap in every pair of steps; three rows are more than a page;
three boxers of which two share a KMS key let blobs be opened by who sealed them, by
who may and by who may not; two chains, two files and wallets that hold all and some of the keys allow each
mixture of body, signature and chain.

### Deadlock

The watchers' own runs check for deadlock. The others do not, because they may
stop: a program of a composite run ends (`MultiSign`, `EventLookup`), uses up a
bound (transactions, keys, setter calls), and `EosStore`'s `Start` may wait for ever
(see below).

### Fairness

*Block scan.* Goroutines that can run do run (weak fairness of the scanner and of
each worker), a dead process is started again, the gateway keeps reading its
channel. The node answers, and among its answers the current last irreversible
block recurs (strong fairness of `UpdateInfo(lib)`: each single request may be
answered by a node that is behind). Blocks need not become irreversible and
crashes need not happen. `UpdateBlock` retries for ever, so a worker's fairness
says that the node eventually serves an irreversible block.

*Store.* Weak fairness of each goroutine and of `Start`; strong fairness of
`GetInfo(lib)`, for the reason above, and of `TakeConfirmed`: Go's select chooses
at random among the ready cases, so a channel that is ready again and again is
chosen in the end. Neither a crash nor a successful write or request is assumed.
The liveness properties except the runs in which the program stops or `Start`
never returns: nothing makes the wait group's race come out well.

*Signing.* Weak fairness of creating, merging and asking; strong fairness of a key
service that signs (`Signs`) and of a push that reaches the node (`Reaches`):
asked again and again they at times work, until the transaction expires. Nothing is
assumed of when it does, and `CreatedIsExecuted` ends with it. A gateway that merges again is excepted
by the property, because the code makes its pushes fail.

## The proofs

Every safety and action property of a passing run is a theorem, for every value of
the constants that the assumptions of the modules allow, and so is the refinement of
`EventFeed` by `EOSWatcherMain` and that of `ConfirmedFeed` by `EosStore`; only
`FirstImplementsFeed` is left to TLC. The assumptions are what the code takes for
granted of its parameters:

* `ConstantsAssumption`: heights and indexes are naturals, there is a slot and a
  place in eventChan. `ActionsAssumption`: each event has an action, and there is a
  setter call or more.
* `ManagerAssumption`, `StoreAssumption`: capacities and the saving interval are not
  zero; the transfers of one block have different ids.
* `TokenAssumption`, `BridgeAssumption`: finitely many accounts; the pegged token is
  `eosio.token2` on the gateway's account. `XinAssumption`: finitely many accounts,
  prices fit in the narrow integers, which are not wider than the wide ones.
* `SigningAssumption`, `SignersAssumption`: finitely many keys and watchers, and a
  threshold between one and the number of keys.
* `LookupAssumption`: a list of contracts is a list, and no account is the mark of a
  field that was not read.
* `VaultAssumption`, `EoscAssumption` (`KmsAssumption`, `ForumAssumption`,
  `EoscTxAssumption`, `SellAccountAssumption`): there is a boxer, a wallet, a page
  that is not empty, prices above zero; finitely many voters.

One theorem has a condition of its own: `ExecutedCorrect` assumes `Overlapping`, that
two quorums have a watcher in common (`2 * Threshold > Cardinality(Signers)`). It is a
choice of whoever sets the gateway up; the code does not enforce it.

An inductive invariant is a conjunction of named parts, the proof that it is kept has
a lemma per action or per group of actions, and the theorem combines them. TLC checks
each property on the small instance, and the strengthenings were tried on it before
they were proved, except those of the peg, the forum and the video contract, which
quantify over sums that TLC cannot enumerate.

### The block scan

`EOSWatcherMainProofs`
* `ScanCorrect` (`ScanIsContiguous`) and `IrreversibleCorrect` (`OnlyIrreversible`).
  The invariant `ScanInv` adds what the scanner knows of the chain (`ScannerBounds`:
  its copy of the irreversible block number is not ahead of the chain, and past the
  loop's test the scan height is below it) and that a worker's slot channel is older
  than the worker (`ChannelsPrecede`), which makes channel names unambiguous.
* `SlotsCorrect`, `TypeCorrect`: the slot count of each channel is the cardinality
  of its holders. Types come last: that a count stays within `0..ChannelCount`
  rests on the accounting, because giving a slot back needs a holder.

`EOSWatcherFeedProofs`
* `SkipsAreFirst`: `SkipsOnlyInFirstBlock`. `IndexInv` says that while the captured
  index is not zero the scanner stands at the first block of the run, so at most
  one worker exists.
* `WatcherImplementsFeed`: `ImplementsFeed`. `FeedInv` relates each worker's
  position to what is in the channel: everything sent was passed by the worker of
  its block, and everything a worker has passed was sent or skipped. With
  `ScanIsContiguous` (one worker per block) each send is an `Emit` of the feed and
  every other step is a step of the feed's environment or a stutter.
* `PlacedCorrect`: `EventsPlaced`, from `FeedInv`.
* `CoveredCorrect`: `CoveredBelowCursor`, whatever crashes and failed writes
  happen. `CrashInv` says that what was received is delivered
  (`ReceivedDelivered`), that a worker that is done has nothing left to send
  (`DoneAreFinished`), and that every receipt of a height behind the run's first
  block or the persisted height is safe, that is delivered, queued, still owed by
  a worker, lost to a crash or skipped (`BehindIsSafe`). No step makes a safe receipt
  unsafe, and a height is persisted only when every block below it has a worker.
* `ReplayCorrect`: `ReplayOneBlock`. `ReplayInv` says that, while leveldb does not
  fail, everything delivered and every worker is at most at the persisted height,
  which is at most the scan height: a run begins where the last one stood.

### Setters and look-ups

`WatchersProofs` extends `ScanInv` and `SlotInv` by `WatchInv`: a setter under way has
assignments left of one call (`SetterInv`), which is why the registry may lack the
watched pair only while it runs; a worker that compares knows which type its receipt
was unpacked with and, in a calm decision, what the fields it has read are
(`LookInv`); everything sent was configured (`SentInv`); a calm look-up likewise
(`AskInv`). From it follow `ReportedCorrect` (`ReportedWasWatched`), `SettledCorrect`
(`ContractSettled`), `LookupCorrect` (`LookupConfirms`) and, as an action property,
`CalmCorrect` (`CalmDecision`), for any number of setter calls.

### EosManager and EosStore

`EosStoreProofs`
* `ScanInOrderCorrect`: `ScanInOrder`. `ManagerInv` has the types, what the scan
  knows of the chain (`ScanBounds`), that the blocks sent are in order (`OutInOrder`),
  that every height it has passed was sent or failed (`ScanCovered`), and that the
  channel is the tail of what was sent (`ChanIsTail`).
* `LossCorrect`: `LostBelowRedis`. `LossBounded`: each crash adds to the heights lost
  below the saved one at most what was waiting in the channel, which the send before
  the save keeps below its capacity.
* `StoreTypeCorrect`, `WholeCorrect` (`WholeUnlessCut`), `StoredCorrect`
  (`StoredUnlessCut`). `StoreInv` adds `HandInv`, what of the block in hand the
  gateway's channel has, and `GateInv`, that the channel's entries are of blocks
  received. What was pushed is in the index (`Stored`) or is one of three: the transfer
  being saved, the last one of a block that was cut (`LastOfCut`), or one whose document
  was refused unnoticed (`dropped`).
* `StoreImplementsFeed`: `ImplementsConfirmedFeed`. What `BlockRespDecodeTrx` returns
  is an increasing selection of the block's transfers (`TempTransactionsSelects`), so
  each push is an `Emit` of the feed.

### The programs of the chain

`ChainProofs`
* Token: `TokenTypeCorrect`, `SupplyCorrect` (`SupplyIsSum`), `MaximumCorrect`
  (`SupplyWithinMaximum`), `OwnerPaysCorrect` (`OnlyOwnerPays`), for any accounts,
  names and amounts. They are about `Token2`'s `Spec`, whose actions include
  `Token`'s. `Credited` says what `add_balance` and `sub_balance` do to the tables and
  to the sum of the balances, `Sound` what an action does.
* Peg: `PegCorrect` (`PegSound`), `BuiltCorrect` (`BuiltIsReported`). `PegInv` has two
  parts. `AmountsInv` says that supply and destroyed tokens together are at most what was
  issued, that the gateway's EOS is at most what was deposited, and that what the
  executed transactions would tell the gateway to pay, each once, is at most what was
  destroyed or deposited (`Backed`). `ListsInv` says that a receipt is of an executed or
  a delayed transaction and holds it when a watcher built it (`ListedRight`), that an
  event is for such a transaction and for its amount (`ReportedRight`), and that nothing
  was missed. `ToldIsBacked` combines them: a set of ids that were reported and executed
  tells no more than all that were executed, however often the scan came to each.
* xinplayer: `VideoCorrect` (`TablesAgree`), for any widths. `Ledger` says that the
  balances sum to what was issued less a multiple of `Wide`, and that profits and
  expenses differ by a multiple of `Narrow`. A sum of balances is not negative, so
  before `Wide` is issued that multiple is zero. Each write of a field moves its total
  (`Shifts`); a payer who has the amount wraps nothing (`PaysExactly`), and when the
  gateway destroys its own tokens what wraps in `Gain` wraps back in `Pay`.
* Parsers: `LookupConfirmsCorrect` (`LookupConfirmsScan`), `MissesCorrect`
  (`ScanMissesOnly`), for any transaction, list of contracts and accounts of the gateway.
  `ScanInv` and `AskInv` say what the turns so far have seen: a turn that passed a
  contract over did so for some value of the field that it read, and an event came of
  values that were read. The exceptions of the properties are what remains when the
  values differ.

### Signing

`SigningProofs`: `SignedCorrect` (`SignedByConfigured`), `PushedCorrect`
(`PushedWhole`), for any number of watchers and keys. `SigningInv` has the types and
what holds before a watcher has signed (`Asked`): without a transaction nobody was
asked, and one that is asked has its present hash among those it was asked with and no
usable signature yet; `MultiInv` is where `tools/multisig/cmd` stands and what it has.
`ExecutedCorrect` (`ExecutedUnlessRemerged`) rests on `Merged`: a first merge takes the signatures of a
quorum, and a second one meets it in a watcher, so that a signature occurs twice and
the push is refused. That is where `Overlapping` is needed.

### eosc

`EoscProofs`
* `WalletCorrect` (`WalletSafe`): `VaultInv` says that one boxer is used
  (`OneBoxer`), that a command's new keys are among those it will write
  (`NewIsKept`), and that without an overlap or a cut every key shown is in the file
  (`Kept`).
* `EnvelopeCorrect` (`EnvelopeSound`), for any boxers, keys and number of calls:
  `EnvelopeInv` says that what a call has in hand is its own and new (`InHand`), that
  a key is wrapped once and seals once (`UsedOnce`), and that every blob lies beside its
  key, wrapped under the boxer's (`BlobsFit`).
* `TallyCorrect` (`TallyIsAnswered`): `ForumInv` says that no two rows have the same
  voter and proposal and that after one answer the counts are those of its rows.
* `TransactionsCorrect` (`TransactionsSound`): a file holds a body with signatures
  made for it, for one chain and by one wallet (`Proper`), and what was executed was
  made for that chain (`Fitting`).
* `SaleCorrect` (`SaleSound`): `SaleInv` says that the sold account has the authority
  of a proposal exactly when it has been paid for.

### Sums and other data

The models write sums with `MapThenSumSet`, a fold that takes elements in the order of
a `CHOOSE`. `FiniteSums` proves that the order does not matter (`SumRemove`) and what
follows: how a sum moves with one value (`SumChange`), that zeros can be left out
(`SumSupport`), that a sum of ones counts (`SumOnes`). The provers have no induction
over data; those lemmas, the one on the recursive function of `EosManager` and the one
on the least index of a sequence are stated as "there is no smallest counterexample",
from the well-foundedness of the naturals.

### Only model-checked

* Liveness: `EveryEventArrives`, `EveryBlockIsTried`, `FirstTransfersArrive`,
  `CreatedIsExecuted`. The prover has no support for fairness.
* `FirstImplementsFeed`: `MCWatchers` fixes the first watcher's chain, so a theorem
  would say no more than the run.
* That the three properties of the runs that expect a violation fail is for TLC to
  show.

## What the code does differently from its texts

Three differences are shown by a run:

* `PoolBound` (`eoswatchermain.go:157`): the comments describe one pool of
  `channelCount` goroutines; each round of the outer loop has a pool of its own,
  while workers of the last round may still be running.
* `EventsPlaced` for the first watcher (`eoswatcher.go:267`): an event is stamped
  with the scanner's height, not with the height of the block it was found in. The
  later copies of the code use the block's number; the proofs show that this
  suffices.
* `EveryTransferPushed` (`es_client.go:104`): a failed bulk request stays in the
  shared bulk, so every later `UpdateTxInfo` fails its count check, and
  `processConfirmBlock` drops the rest of its block on each failure; the comment at
  `eosstore.go:170` says that irreversible transactions are sent to the gateway.

The models show others too. No run is spent on them; each is visible in the
action named, and the properties are stated so as to except exactly it.

EosManager and EosStore:

* `eos_watcher.go:127` (`GetBlockFails`): a failed request for an irreversible
  block advances the height and the block is never requested again; the comment at
  line 82 says the chain's data is written to the channels.
* `eos_watcher.go:137` (`GetInfo`): the branch for reversible blocks needs the scan
  to stand exactly at the inner answer, but the inner loop is entered only when an
  answer was larger and left when the scan reaches it. Unless a node answers with
  less than before, no reversible block is ever sent.
* `eosstore.go:53`, `eos_watcher.go:86`, `eosstore.go:253` (`WatchAllBlockReturns`,
  `ScanUnconfirmReturns`): `wg.Add(1)` runs in the goroutine that `wg.Wait` waits
  for. If the goroutine runs first, `Start` waits for ever and nobody receives.
* `eosstore.go:262` (`CleanUp`): the clean-up scrolls `eos-tranx-unconfirm` while
  unconfirmed transactions are written to `eos-tranx-gate-unconfirm`
  (`es_client.go:51`), so they are never found.
* `es_client.go:97` (`Upsert`): a document's id is the transaction's, so of two
  transfers in one transaction the last remains.
* `es_client.go:104` (`UpdateTxInfo`): the response of a bulk request is discarded, so
  a document that ElasticSearch refuses counts as written and processing goes on;
  `StoredUnlessCut` excepts exactly those (`dropped`).
* `eos_client.go:206` (`BlockRespDecodeTrx`): of a transaction looked up by id only the
  first trace is kept, an answer without traces makes the program panic, and does so again
  when the restarted program comes to that block; a packed transaction whose
  JSON does not parse is left out (217-228). `ConfirmedFeed` promises none of these.

Watchers and signing:

* `eoswatchermain.go:238` (`Scan`): the status of a receipt is not read, so a delayed
  transaction is reported when it is listed, before it is executed or without it ever
  being (`OnlyDelayedAreEarly`); its execution, listed by id, is not reported.
* `eoswatchermain.go:104` (`Restart`): a restarted watcher repeats the events of the
  block it wrote down, with the same transaction ids; who counts events instead of ids
  counts them twice.
* `eoswatchermain.go:136` (`UpdateGateway`): scan and look-up read the field when they
  come to it, so after a change a look-up may refuse what the scan reported, or report
  what it passed over; both properties of the parsers name these cases.
* `eoswatchermain.go:520` (`AskFails`): an error of `GetTransaction` is handed to the
  caller without an event, for a transaction that the node does not have as for a request
  that failed; `LookupConfirmsScan` is about look-ups that got the transaction.
* `eoswatchermain.go:757` (`Expire`): the expiration runs while signatures are collected,
  and nodes cap it; after it every further `SendTx` of the transaction is refused.
* `eoswatchercontract.go:260` (`CompareAccount`, `CompareName`): account and name
  are read one after the other, so a worker that straddles two setters may report a
  pair that was in force before it unpacked the receipt and is not any more; the
  comment at line 259 speaks of the watched pair.
* `eoswatcher.go:115` (`FirstWatcherActions`): the setters register no action type,
  so a newly watched action is never decoded and never reported
  (`OnlyFirstReported`); the comment at line 36 says the fields select what is
  extracted.
* `tools/multisig/sign.go:128` (`MergeSignedTx`): it appends to the caller's
  transaction, so a second merge carries the signatures of the first and is
  refused; `cmd/main.go:163` announces the same body with other signatures.

xinplayer:

* `xinplayer.hpp:141` (`OrderId`): the order id hashes buyer and video put together
  without a separator, so orders of different pairs share an id, and the second is
  refused with "video already ordered" (line 150), which its buyer has not done. The
  users and hashes of the `chain` run include such pairs.

Vault and eosc:

* `vault/vault.go:129` (`Truncate`): the only copy of the wallet is truncated before
  the new content is written.
* `vaultAdd.go:46` (`Load`): of two overlapping `vault add` the later write drops the
  earlier one's keys after they were reported as added (line 108).
* `vaultCreate.go:39` (`Create`): the existence check is long before the write, which
  has no O_EXCL; line 40 promises that an existing file is left alone.
* `forumTallyVotes.go:84` (`GetPage`): every request asks for the first page, so with
  more rows than a page holds the loop does not end.
* `forumVote.go:40` (`Vote`): only values above 255 are refused, so -1 becomes 255.
* `txSign.go:26` (`TxSign`): the file is decoded as a transaction without signatures,
  so wallets cannot sign one after another; line 18 speaks of signing a written
  transaction and writing it again.
* `common.go:63` (`optionallySignTransaction`): more than one wallet URL is refused,
  although `root.go:44` says that each will be used.
* `toolsSellAccount.go:68` (`GetBuyerAccount`): the authorities handed over are those
  of the time of the proposal, not of its execution; line 21 says a clone of the
  buyer's.
* `msigApprove.go:29` (`Approve`): a proposal is approved by proposer and name, so one
  that was cancelled and made again is approved by who inspected the former
  (`toolsSellAccount.go:23`).

## Not modelled

* Accessors, record types, printing and prompts: `EOSPushEvent`'s getters, the data
  transfer structures, the transaction analysis, the console input. They keep no
  state and nothing else depends on what they do.
* One-request commands of `eosc` and the wrappers of one request in `EosManager`:
  argument parsing around a library call.
* The redis pool: a constructor of a library's pool.
* `vault serve`, `list`, `export`: they read the wallet once and answer from that copy.
* `tools chain-freeze`: its handler keeps no state; the proxy is eos-go's.
* eosio.sudo wrapping, delays and expirations of `eosc`'s own transactions: they change
  a transaction's body, which is a number in `EoscTx`. Those of the watchers' and users'
  transactions are in `WatcherSigning` (`Expire`) and `Bridge` (`SubmitDelayed`).
* A KMS manager shared by several callers: nothing in `src/` shares one. `forum post` and `propose` build one action each.
* xinplayer's `setnodeid`: it writes a string that no action reads.
* Code that nothing calls: `publishTxMessage`, `LocalSign` and `singleSignTx`,
  `NewVaultFromKeysFile` and `NewVaultFromSingleKey`.
* eos-go, leveldb, redis, ElasticSearch, Google's KMS and the key service are external
  and modelled by how the code uses them: answers, errors, and answers that are lost.

## Further proofs

1. `FirstImplementsFeed`: give `MCWatchers` the first watcher's chain as a constant;
   the proof is that of `WatcherImplementsFeed` without setters.
2. The safety part of `EveryEventArrives`: what can still arrive is never dropped by a
   step of the scanner, which `CoveredCorrect` has for heights below the cursor.
3. `PoolBound` fails, but a weaker bound holds: the live workers are at most one pool
   for each round of the outer loop that still has some.
4. Lower bounds to match `LossCorrect`: what a crash loses of a channel is exactly
   what waited in it.
