# A TLA+ verification of ghoStellar's cheque platform

ghoStellar lets two phones pay each other with *cheques*: the sender's money goes
into a Soroban escrow contract, the receiver claims it before a deadline, and the
scheduler sends it back afterwards. A phone that is offline can hand over a signed
payment that either phone submits later. Around this stand a pool that cheques can be
collected from, a login with tokens, and a bank bridge (the *anchor*). This project models
the parts that hold or move money, the tables that record it and the sessions that guard
them, checks them with TLC on small instances, and proves with TLAPS, for every size, all safety properties
that the passing runs check. Line numbers in
`PROJECT.json` refer to the repository at the commit in `src/`. Identifiers such as D1,
B2 or E1 are the invariants and scenarios of
`docs/reference/platform/p2p-cek-ve-havuz-mimarisi.md`.

## 1. The system

| Part | State it keeps | Operations | Talks to |
|---|---|---|---|
| **pay-escrow** contract (`contracts/soroban/pay-escrow/src/lib.rs`) | one record per cheque id, one pool per owner, its own token balance | `lock`, `claim`, `refund`, `force_collect`, `deposit`, `withdraw` | the token contracts, ledger time |
| **pay-cheque-service** (`backend/services/cheque`) | `cheques`, `reservations`, `cheque_transitions`, `pool_deposits` | create, preauth, confirm lock / claim / collect, claim and collect transactions, ack, mark refunded, pool, sync | chain gateway (reads and simulation); never signs, never submits |
| **pay-tx-service** (`backend/services/tx`) | `idempotency_keys`, `submissions`, audit | submit under an idempotency key, look up, reap | chain gateway |
| **pay-scheduler-service** (`backend/services/scheduler`) | the keeper's key, failures per cheque in memory | sweep of expired funded cheques, bump of the contract's lifetime | cheque-service, chain gateway |
| **pay-chain-gateway** (`backend/services/chain`) | none | Horizon and Soroban RPC calls | the network |
| **pay-auth-service** (`backend/services/auth`, `pkg/authx`, `pkg/dbx`) | `users`; tokens are not stored | SEP-10 challenge and login with starter funds, refresh, profile, faucet | chain gateway |
| **pay-anchor-service** (`backend/services/anchor`, `pkg/nethost`, `pkg/money`) | the anchor's directory in memory, the allow-list of hosts, `anchor_transactions`, `trustlines` | proxy for SEP-6/12/24/38, SEP-10 with the anchor, record and report transfers, withdrawal payment, trustline | the anchor's HTTP interface, chain gateway |
| **device** (`frontend/lib`) | keys, tokens, account snapshot, offline queue, handoff inbox | send, claim, tap, offline payment and its retries, pool page, bank page | all services over HTTP, the other phone over NFC or QR |

The money path of a cheque: the device asks cheque-service for a transaction
(`CreateCheque`), signs it, submits it through tx-service, and reports back
(`ConfirmLock`). Claim, collect and refund have the same three legs. Nothing joins them:
each leg can be lost, late or repeated, and cheque-service learns what happened on the
chain only from the confirms and from the few reads it makes itself.

**What is hard here.** (1) The contract is called by anybody in any order, so its few
checks must hold money together under every sequence, with the deadline as the boundary.
(2) A row is moved by confirms, by a repair that read the chain a moment ago, and by the
sweep, all at once. (3) A submit has three outcomes, one of which, PENDING, is
taken differently by different callers. (4) tx-service writes two tables around a
network call without a transaction. (5) An offline payment is submitted by two
devices that do not know of each other. (6) Device queues are read, the network is
awaited, and the queue is written back. (7) The cached pool is changed by reports that add
and subtract and by a Sync that overwrites. (8) Concurrent calls of one app refresh and
clear one pair of tokens, key by key. (9) Every request to the anchor goes through one
directory that is resolved once, under a mutex, from a file that may change; rows about
transfers follow reports that come late or twice. Each is listed at its line under
`hazards`.

**What makes each part correct.** Contract: solvent, each cheque pays once, claim and
refund windows disjoint, terms fixed, money never stuck. cheque-service: reservations
follow the state, at most one open cheque per sender, a payment request is paid once, a
settled row is true on the chain, rows only follow documented edges, funded cheques come
back unattended. tx-service: one call per key, repeats get the same answer, both tables
agree, what is replayed is true, no key is stuck, an early envelope is not lost. Pool
cache: an undisturbed Sync is exact, drift heals, an owner gets the pool out. Sessions: only
accounts that logged in are ever admitted, the device is not locked out, a failed funding
heals. Anchor: the guard never blocks the anchor's own hosts, an optional server's failure
blocks nobody, the trustline row follows the chain, a transfer's row is about the anchor's
transfer of those who took part and ends with its verdict, what is paid is what was typed.
Offline queue: a request is paid once.

## 2. Modules

| Module | Models | Extends / uses |
|---|---|---|
| `ChequePromise` | abstract: where the money of each cheque is, and the only moves it makes | – |
| `PayEscrow` | the contract, the token contract behind it and the ledger clock | instantiates `ChequePromise` (refinement) |
| `PayEscrowProofs` | theorems about `PayEscrow` | `PayEscrow`, TLAPS |
| `ChequeLifecycle` | abstract: states of a row and the edges handlers may take, each once | – |
| `ChequeSystem` | cheque-service, both devices' online flow and the sweep, over the contract | extends `PayEscrow`, instantiates `ChequeLifecycle` (refinement) |
| `ChequeSystemProofs` | theorems about `ChequeSystem` | `ChequeSystem`, `PayEscrowProofs`, TLAPS |
| `TxSubmission` | tx-service statement by statement, over gateway and network | – |
| `TxSubmissionProofs` | theorems about `TxSubmission` | `TxSubmission`, TLAPS |
| `PoolCache` | pool page, reports, cached row and Sync, over the contract | extends `PayEscrow` |
| `PoolCacheProofs` | theorems about `PoolCache` | `PoolCache`, `PayEscrowProofs` |
| `AnchorGateway` | directory, allow-list, anchor token, requests, trustline row | – |
| `AnchorGatewayProofs` | theorems about `AnchorGateway` | `AnchorGateway`, TLAPS |
| `Money` | `pkg/money`: amounts as text and as integers | – |
| `MoneyProofs` | both round trips of an amount, with the induction they need | `Money`, TLAPS |
| `AnchorLedger` | transfer rows beside the anchor's book, withdrawal payments, reports | extends `Money` |
| `AnchorLedgerProofs` | theorems about `AnchorLedger` | `AnchorLedger`, `MoneyProofs` |
| `Sessions` | auth-service and the app's token store | – |
| `SessionsProofs` | theorems about `Sessions` | `Sessions`, TLAPS |
| `OfflineQueue` | snapshot, the payer's queue, re-signing, the send page's fall back | – |
| `MC...` | constant values and symmetry for TLC | the module named |

Definitions whose name ends in `_Something` and whose comment begins "Seeded fault" are
broken variants of the definition below them. `Next` never uses them; replacing the real
definition by one must make TLC refute the property it names.

### PayEscrow
A contract call is one ledger transaction: all of it or nothing. So each call is one
action, and its checks are an operator of their own (`CanLock`, `CanClaim`, ...), which
is also what a simulation of the call tells cheque-service. `require_auth` becomes "the
caller is that account". `record` and `pool` are the persistent storage; `moved` is a
history variable that counts what a cheque's calls moved, independently of the record's
state, so that `PaidOnce` and `WindowsDisjoint` judge the money and not the bookkeeping.
Amounts are unbounded naturals: i128 is wide enough for every asset supply, and the
token contract refuses what is not there. The token contract is external: a transfer
traps when the payer is short or either side has no trustline; `force_collect` reads
the balance first and records a bounce when it is short. Left out: events,
`last_deposit_at` (nothing reads it), extension of storage lifetimes.

### ChequeSystem
`row` is `cheques` joined with `reservations`, `log` the set of edges in
`cheque_transitions`. A *job* (`lock`, `claim`, `collect`, `refund`) is one round trip of
a cheque; `phase` is how far its caller has come, and `flying` holds signed envelopes
that may still be applied. What the code does in one database transaction is one step,
what it does in two is two (`AcknowledgeReceipt`, `MarkRefunded`, and `ForceCollectXDR`
with its marker); `ClaimXDR` on an unfunded row reads the chain in one step and writes
what it read in a later one. `Transition` has its compare-and-set and the UNIQUE edge,
and, as in the code, an update that does not apply is a success. `Land` applies an
envelope or lets it trap; `Drop` loses it; `PollTimesOut` is PENDING: the sender's device
carries on and confirms, claim and refund give up. `Abandon` stops any caller anywhere.
Around it run the ledger clock, trustlines, payments outside and the account's own pool
calls. A refused call changes nothing and is no action.

The app's API client has the two force-collect calls, but no screen uses them yet; the
model's receiver signs and submits what `ForceCollectXDR` answers and reports the outcome
that the transaction returned.

Left out: authorization by JWT (the caller is the right party; see `Sessions`), amounts
other than one `Amount`, audit rows, the pool cache and `/sync` (see `PoolCache`).

### TxSubmission
`Submit` is cut at every database statement and at the network call, because the client
may hang up or the process may die between any two: `GetIdempotentResponse`,
`BeginSubmission` (one transaction), `HandOver`, `Poll` / `Unreachable`,
`RecordSubmission` (first statement of Complete / Release), then `CompleteSubmission` or
`ReleaseSubmission`. `Die` ends a call anywhere. The response classes are those the code
tells apart: `ok`, `tx_failed` (the envelope failed in a ledger), `refused` (any other code,
from before a ledger: for every envelope, in turn or not, queued by somebody else or not),
`no_code` (Horizon's own failure, which `SubmitClassic` returns as a rejection with an empty
code), `PENDING`, `tx_bad_seq`, `error`. `fate` and `seq` are the network: an envelope is queued, applied, failed or
expired, and takes the account's next sequence number. Keys expire after 24 hours and a
call lasts minutes, so the reaper only meets keys that no live call holds; the model has
this as a guard. Left out: audit rows, `GetSubmission` (reads only), envelope encoding.

### PoolCache
`row` is `pool_deposits`, `trip` the pool page of a device (waiting for its transaction,
then reporting it), `flying` the signed transactions, `sync` a Sync call inside the service
and `view` what the page shows. The contract calls are those of `PayEscrow`. A transaction
holds the account's sequence number, so the first one that lands outdates the account's
others. Sync is cut where it waits: `GetPool`, then one read of the chain
(`reconcilePoolWithChain`, or `CannotCheck` when no answer can be decoded), then the write
(`SetPoolAmount`, which may fail). Reports may be lost (`EndTrip`) or delivered again.
`calm` is a history variable: nobody else touched the pool or its row since the call began.
`Devices` outside `Pages` only Sync.

### AnchorGateway
One request of a client goes through `Info` (the mutex, the cached directory or two fetches
of the toml, the allow-list), then leaves through `RoundTrip` or fails. `withToken` logs in
at the anchor first, or again when a token was rejected, once; a SEP-24 start, whose errors
`postJSON` does not tell apart, keeps its rejected token. `startInteractive` is the SEP-24
check of `trustlines` before that. Neither fetch has a deadline: `Stall` is a fetch that is
never answered. It keeps the mutex, nothing obliges it to end, and only `Restart` does. The
app stops waiting for such an answer after its own timeout; the handler does not, and a
client of the model that starts again meets the same mutex. A confirm of the trustline reads the chain and
writes the row in two steps; `seen` is a history variable with what the chain said
meanwhile. Endpoints are their hosts: paths, queries and bodies are data that no step reads.

### AnchorLedger and Money
`book` is the anchor's own record (external), `row` is `anchor_transactions`. A device has two
identities: `wallet`, whose bearer token decides whose row is written, and `token`, the
anchor's JWT, which decides whose transfer is booked. `logout` (with the onboarding that
follows) replaces the first and leaves the second. A start is asked (`sepProxy` decides which
account is named: the caller for a deposit, possibly nobody for a withdrawal), accepted by
the anchor for the named account or else its own user, recorded, and for a withdrawal paid. SEP-6 records best effort with `CreateTransaction`, which keeps an existing row; SEP-24
records with `UpsertTransaction`, which sets it back to `incomplete`. A client follows its
SEP-6 transfer by `pollOnce`, and by `ListTransactions` when it visits the page, which skips
the one that is polled (`SkipActive`). Only `sep6Transaction` is ever asked: `Look` is the
anchor's answer about a SEP-6 transfer of its user, `Unknown` the one about any other and
about those the anchor forgot (`Forget`), which leaves the row as it is;
`ReportTransaction` is the later write. The statuses are the classes the code
tells apart: the first one of each protocol, one for "moving", two final ones. In `Money` a
text is sign, whole part and fraction with its number of digits, so that leading and
trailing zeros matter as they do in the code; `SameValue` is the reference
definition. `Pow10` is what appending zeros multiplies by.

### Sessions
A token is its claims. A call is sent with the token in the store, is refused, reads the
refresh token, refreshes, saves (two writes), and repeats once; any failure of the refresh
clears (two writes). A login is challenge, signed token, `UpsertUser`, funding and mint,
then the same two writes. Everything interleaves with a second call, expiry, lost answers,
a restart that leaves the database not ready (`RequireReady` answers 503), a reset of the
wallet and a relaunch of the app. Left out: the internal key between services, audiences,
signatures.

### OfflineQueue
One paying account. `sendCheque` is the online attempt: its lock is applied or not, and the
answer comes back or does not. `buildOfflinePayment` signs against `snapshot` and advances
it. `retryAll` copies the queue, submits item by item, and `writeQueue` replaces the queue
with what remains. `recoverFromBadSeq` compares with the snapshot, whose refresh may have
failed silently, so `refresh` is an action of its own. `held` are the payee's copies.

## 3. Runs

Deadlock is checked where the system cannot stop. It is not in the runs of `ChequeSystem`,
`PoolCache`, `AnchorLedger`, `Sessions` and `OfflineQueue`, where everything may be done and
the explored time, faults or numbers used up. State counts are distinct states.

| Run | Bounds | What it shows |
|---|---|---|
| `contract` | 2 accounts, 2 tokens, 1 cheque id, amounts 0 and 1, times 0..2, one account that opens and closes its trustlines; 294k states | `TypeOK`, `Solvent`, `PaidOnce`, `TermsFixed`, `WindowsDisjoint`, refinement `KeepsPromise`, liveness `NeverStuck` |
| `cheque_safety` | 2 cheques of one sender, balance for both, times 0..2; 577k states | `SystemTypeOK`, `ReservationDiscipline`, `SettledRowsAreTrue`, `OneFundedPerSender`, refinement `FollowsLifecycle` |
| `cheque_requests` | 2 cheques for one request, balance for one, sender also spends and uses the pool, receiver closes the trustline; only scheduler and network fair | `RequestPaidOnce`, `SettledRowsAreTrue` with bounces, liveness `ConfirmedFundsComeBack` |
| `submit` | a Soroban key and a classic key with the next sequence number, 3 callers, two of them on the classic key | `TypeOK`, `SingleFlight`, `AnswersAgree`, `HistoryAgrees`, `VerdictsAreTrue`, liveness `PendingEnds`, `LandsInTurn` |
| `pool_cache` | 1 owner, 2 phones, balance 2 with a headroom of 1, a report delivered up to twice | `PoolTypeOK`, `QuietSyncIsExact`, liveness `SelfHeals`, `WithdrawGetsThrough` |
| `anchor_gateway` | 2 activities of one account (SEP-6; SEP-24 and quotes), 2 tomls, 3 hosts, 2 faults, either fetch may stall; 164k states | `GatewayTypeOK`, `HostsAdmitted`, `WrittenWasSeen`, liveness `ServedInTheEnd`, `LineHeals` |
| `anchor_ledger` | 2 phones, one with SEP-6, the other with SEP-24, the first of which may get another wallet, 1 transfer, 3 faults or resets, one amount that fits the decimals and one that does not; 116k states | `LedgerTypeOK`, `OwnRows`, `PaysWhatWasAsked`, liveness `RowsCatchUp` |
| `sessions` | 2 calls, 1 wallet, times 0..2 with access 1 and refresh 2, 1 fault; 132k states | `SessionTypeOK`, `BearersAreKnown`, liveness `SessionComesBack`, `LoginFunds` |
| `cheque_escrow`, `submit_outage`, `offline_twice`, `anchor_stall` | 1 cheque, 1 key, 2 requests, 1 client | expected violations, section 5 |

**Why these bounds.** Every interaction in the contract is between two calls on one
cheque id or on one balance: an id that is used again, and two accounts, each of which may be
sender, receiver and owner of a pool in either token, give every pair. That no call touches a
second cheque is proved for any number of them, and the runs of `ChequeSystem` have two.
Three instants give before, at and after a deadline, and
deadlines may also lie beyond the horizon. A collect window of 1 makes both sides of
`expires_at - now <= window` happen. With two cheques of one sender, a released
reservation can be followed by a second cheque while envelopes of the first still fly:
an envelope lives one unit of time, a cheque at least one. Three callers over two keys
give two devices racing on a key while a third moves the account's sequence on. A pool page
and a second phone that only Syncs are the two writers of a row; a balance that is exactly
amount plus headroom makes both sides of the fee check happen. Two activities are enough
for one to hold `infoMu`, or to have read, while the other acts; two faults let an expired
token meet a failed look-up, and a stalled fetch the restart that ends it. Rows
of the anchor's transfers meet only in the batch of a visit, so `anchor_ledger` has one
transfer: two phones start it, record it, follow it and report on it, and three faults let a
reset meet two losses. With one transfer nothing is crowded out of a batch, so `InReach` is a
condition that the run does not put to the test. Two calls are two refreshes, or a refresh and a login; the
access token expires within the explored time and the refresh token at its end. Each bound
is a constant named in its module.

**Fairness.** `PayEscrow!FairSpec`: time passes, and `refund` (permissionless, repeated
by the sweep) is sent again and again; strong, because a closed trustline disables it now
and then. `NeverStuck` is conditional on the sender's trustline being open infinitely
often: the contract cannot pay an account that refuses. `UnattendedSpec`: the ticker runs
the sweep, a poll ends, `MarkRefunded` follows a successful submit, and not every refund
is lost. Nothing is assumed of devices. `TxSubmission!FairSpec`: the reaper's ticker, a
handler that goes on unless it dies, devices of which some one repeats a submission every 15
seconds, and a network that does not refuse or lose the same envelope for ever.
`FairPoolSpec`: the app Syncs at start, on resume and after every confirm, and now and then
the chain answers and the database writes (strong); `WithdrawGetsThrough` is about an owner
who keeps tapping withdraw. `AnchorGateway!FairSpec`: a request goes on, and the mutex is
handed over in turn (Go's mutex does not starve a waiter); nothing is assumed of a stalled
fetch, so `ServedInTheEnd` is conditional on none hanging for ever, and `anchor_stall` shows
the condition to be needed. `AnchorLedger!FairSpec`: requests end, the anchor ends what it
opened, owners leave the page and come back to it. `RowsCatchUp` is conditional on what the
code needs: the transfer is SEP-6 and still known to the anchor, some device has the owner's
wallet and not another account's anchor token, and fewer than a batch of newer rows are beyond
asking (section 5 says why each is needed). `Sessions!FairSpec`: a
call goes on, the pool connects, the app's timers keep calling and its queue comes to
`ensureSession` again and again. No fairness is assumed for `Abandon`, `Die`, `Drop`,
`Evict`, faults, or anything a person decides beyond what is named here.

## 4. Proofs

Constants are arbitrary within the assumptions named in the modules
(`EscrowAssumption`: the contract is not an account, amounts and times are naturals;
`SystemAssumption`: sender and receiver of a cheque differ, its amount is positive;
`SubmissionAssumption` and `SessionAssumption`: types only, and that "nobody" is no wallet;
`PoolCacheAssumption` and `GatewayAssumption`: types only; `LedgerAssumption`: types, and
that a typed amount has the shape `decimalStringRe` admits, digits with an optional
fraction). Transfer ids are finitely many; no set of accounts,
cheques, clients or phones is assumed to be finite.

**PayEscrow.** `TypeCorrect` is inductive by itself: `TransferType` shows that an accepted
transfer keeps balances natural, and one lemma per call builds on it. `NextRecord`
condenses a step to "at most one record changes, by one of three kinds of change", from
which `RecordsAreFinal` (`TermsFixed`) and `ContractKeepsPromise` (the refinement) follow.
`PaidAtMostOnce` needs `TypeOK` beside `PaidOnce`, and three lemmas on what the books of
an empty, a funded and an untouched cheque look like. `ClaimAndRefundNeverRace` is an
action property: only three calls raise `moved`, and each checks the time.
`EscrowCovers` is `Solvent`. What the contract owes is counted unit by unit (the k-th unit
of a cheque or of a pool), so that the sum of all amounts is the cardinality of a set and a
call adds or removes the units of one key. The invariant `Books` adds that these sets are
finite, which they are because they start empty, however many accounts there are.
`depositCovers` is where the check of the pool's asset is needed: without it a deposit
would turn the units of one token into another's. The other calls rest on exact payouts
(`PayoutCovers`) and on nobody but the contract spending what its address holds
(`WorldCovers`).

**ChequeSystem.** The proof has four layers. `ChainStep`: every step of the system is, for
the chain, a step of `PayEscrow` or a stutter, so `SystemRunsContract` carries every
theorem above over to the composed system. `StepTable`: for the table, a step opens a row,
moves it along an edge, marks a pre-authorization or leaves it alone; from this
`ReservationsFollowState` is inductive with the types, and `RowsFollowLifecycle` (the
refinement) needs only `Fresh`, that a cheque without a row has no log. `KnowledgeIsTrue`:
what a caller knows when it reports back is still true on the chain, because all it may
know is that a record is resolved, and resolved records do not change; hence
`SettledRowsHold`. A lock is confirmed without such knowledge, which is why `HAVUZDA`
claims nothing about the chain. `Rowed`: no job, envelope or record exists without a row,
and no handler writes `HUKUMSUZ`; so a funded cheque is reserved, which gives
`OneFundedEach`, and with the unique index on requests, `RequestsPaidOnce`. The proof shows
that the first of these rests on expired reservations *not* being released: a handler that
wrote `HUKUMSUZ` from the row alone would break `FundedIsReserved`.

**TxSubmission.** No safety property is inductive alone. `IInv` adds `Ownership` (a call
past `BeginSubmission` finds its key pending and is alone on it), `Recorded` (between the
two statements of Complete, the history row still has what this call wrote), `Answered`
(a call that records has something to record) and `Truthful` (what a ledger said is
still so when it is cached, because an applied or failed envelope stays that way; nothing
is said of a refusal from before a ledger).
`Ownership` carries the rest: without it another call could overwrite the history row
between the two statements. `OneCallPerKey`, `RepeatsAgree`, `TablesAgree`,
`ReplayedVerdictsHold` and `TypeCorrect` are consequences.

**Sessions.** `BearersAreKnown` speaks of tokens that have not expired; the invariant `IInv`
needs it of every token in the store or in a call (`Proved`), and of a login between
writing its row and minting its tokens. `Right` says which kind of token a call holds at
each point, so that what is saved as an access token is one and only a refresh token
begets a new pair. `SessionTypeCorrect` and `OnlyKnownBearers` follow.

**PoolCache.** `PoolChainStep` maps every step to a step of the contract or a stutter, so
`PoolsRunContract` makes the contract's theorems theorems about the pools, `Solvent` among
them (`PoolsAreCovered`). `PoolTypeCorrect` is inductive by itself; `Clamped` is the
`GREATEST(..., 0)` that keeps a row from going negative under repeated reports.
`QuietSyncExact` needs `Remembers`: while nobody else touches the pool, the row a call read
is still the row, and the amount it is about to write is still the chain's. Both halves are
needed, because the answer "equal" rests on the first read and the write on the second.

**AnchorGateway.** `HostsAdmitted` speaks of the moment a request is sent. It follows from
`DirectoryOK` (every host of a cached directory is on the allow-list for as long as it is
cached: the two are written together and forgotten together) and from `Fits` (no request is
about to be sent without a directory, because a restart ends them all). `HolderOK` says that
`infoMu` is held by exactly the call that fetches, answered or not, so a second call never stores a directory
over the first one's; `GatewayTypeOK` states it of every early return. `RowsWereSeen`
needs `SeenOK`: what a confirm is about to write is among what it has read since it began.

**AnchorLedger.** A row is written a step after the anchor booked the transfer, from what
the call remembers, so `RowsAreOwn` needs what each call of a wallet knows at each point
(`Fits`), that only an entry's state ever changes (`Kept`) and that a wallet is replaced
between calls. It does not say that a row's owner is the entry's account: for a withdrawal
under a token that outlived a reset that is false (section 5), and `Agrees` says what
remains. `PaymentsAreExact` carries
`TypedAmountSurvives` to the payments that were made.

**Money.** `TypedAmountSurvives` and `StoredAmountSurvives` hold for all amounts and all
numbers of decimals; the run checks a few. Powers of ten are a recursive function, so the
proofs need induction. The library's induction theorems take an operator, which the
installed provers cannot instantiate; `InductiveSet` states the same of a set of naturals
and comes from the least element of its complement. `PowUnfolds` shows with it that the
recursion defines a function.

**Only model-checked.** The liveness properties: `NeverStuck`, `ConfirmedFundsComeBack`,
`PendingEnds`, `LandsInTurn`, `SelfHeals`, `WithdrawGetsThrough`, `ServedInTheEnd`,
`LineHeals`, `RowsCatchUp`, `SessionComesBack` and `LoginFunds`. Fairness and ENABLED are out
of this prover's reach. Every invariant, action property and refinement that a passing run
checks is also a theorem.

## 5. Where the code and its documentation disagree

Checked as expected violations:

- `cheque_escrow`: when a lock applies and its confirm is lost, the row stays
  `IMZALI_REZERVE`, the sweep does not list it, and the money returns only if the receiver
  comes back; E1 says no scenario locks money because a party is offline.
- `submit_outage`: a Horizon failure without result codes is cached as a failed
  submission, although `Submit`'s comments say only a genuine verdict is; the envelope may
  still be applied.
- `offline_twice`: `_sendCheque` falls back to an offline payment on every call that got no
  answer. When the unanswered call is the submit of a lock that was applied, the request is
  paid by the cheque and by the payment; the comment there speaks of failures that "never
  reached the network", and a test of the flow says the request can't be paid twice.
- `anchor_stall`: a fetch of the optional quote server that is never answered holds `infoMu`
  for the life of the process, and with it SEP-10 and SEP-6, which the comment there says a
  failure must never block. The client has no timeout and the fetch no context.

Seen in the same models, without a run of their own:

- *Cheques.* A cheque that was never funded keeps its sender's reservation after it expired:
  nothing writes `HUKUMSUZ`, although B1 and E1 say the reservation is released. The proof of
  `OneFundedEach` rests on this, so a repair has to look at the chain first.
- A claim that applied without its `ConfirmClaim` leaves a `HAVUZDA` row, which `ClaimXDR`
  does not compare with the chain, although its comment (`service.go:280`) names this case.
- A row marked `ZORLA_TAHSIL_DENENDI` whose collect never applies, or loses against the
  lock, has no way out (`service.go:462` marks before the receiver signs).
- A refund answered PENDING that applies later is never recorded: the next simulation
  fails (`scheduler/service.go:185`), and the reservation stays. A stop between the two
  transitions of `MarkRefunded` leaves `IADE_EDILEBILIR`, which no sweep lists.
- A lost `ack` is not repeated (`claim_core.dart:108`), so the sender stays reserved.
- The sender's device confirms a lock that was only answered PENDING
  (`send_page.dart:183`), so `HAVUZDA` can stand for a lock that never applies.
- The sender's pool deposit may spend an amount that a cheque reserves
  (`PoolDepositXDR` checks no reservation).
- *Submission.* Only `cmd/txsvc` starts the reaper; the monolith, which is deployed, does
  not (`cmd/monolith/main.go:112`), so a key whose call died answers "in flight" for ever:
  with `ReaperRuns = FALSE` TLC refutes `PendingEnds`.
- tx-service stores PENDING as the key's final response; nothing queries it again.
- Every coded refusal but `tx_bad_seq` is stored as the key's final response, also one from
  before a ledger (`tx_insufficient_fee`, `tx_insufficient_balance`, `tx_too_early`). It used
  up no sequence number: another copy of the envelope may still be applied, and a repeat
  under the same key is never sent. So `VerdictsAreTrue` speaks of `ok` and `tx_failed`, and
  `LandsInTurn` exempts keys that were refused this way.
- A Soroban envelope that was applied while its answer was lost is cached as rejected when
  it is sent again: the RPC's result XDR is not recognised as `tx_bad_seq`.
- *Offline queue.* `_recoverFromBadSeq` re-signs an envelope that is ahead of the chain when
  its refresh failed silently, because the cached snapshot was advanced by `reserve`
  (`offline_providers.dart:405` and `:424`): the second way to `NeverPaidTwice`'s violation.
- A payment that is added while `retryAll` waits for the network is overwritten by
  `writeQueue` (`offline_providers.dart:342`); only the payee's copy remains. The handoff
  inbox has the same pattern (`inbox_providers.dart:85`).
- *Anchor.* A failed look-up of `ANCHOR_QUOTE_SERVER` is cached for the life of the process;
  the two fetches may see two versions of the file; both run under `infoMu`.
- A SEP-6 row that could not be written is never repaired, although the comment at
  `handler.go:106` says a report can: `UpdateTransaction` only changes existing rows. So
  `RowsCatchUp` speaks of rows that exist.
- No client follows a SEP-24 row: `ReportTransaction`'s comment (`service.go:252`) calls the
  report of a device the way its status is learnt, and no page asks about it or reports it.
- A visit asks about the newest five rows in flight (`anchor_deposit_withdraw_page.dart:166`).
  Rows that the anchor does not answer for (forgotten, or SEP-24) stay in front, and the older
  ones wait for ever, which the comment at `:154` says the visit is there to prevent. With two
  ids and a batch of 1, TLC refutes `RowsCatchUp` without `InReach`.
- The anchor's token survives a reset of the wallet (`auth_providers.dart:56-61`), and a
  withdrawal names no account, although `anchor_api.dart:41` says that the backend injects it
  (`handler.go:65` does so for a deposit). The row is then the new account's, the transfer the
  old one's: TLC refutes `row[i].owner = book[i].account` in the instance of `anchor_ledger`.
- A rejected anchor token is not renewed by a SEP-24 start: `postJSON` does not return the
  error by which the app would notice (`client.go:232-257`).
- *Sessions.* A refresh or login that is under way while the wallet is reset stores the old
  wallet's tokens afterwards; with two wallets the device then acts for the old account until
  it logs in again. A 503 of a service that is still connecting to its database makes a
  refresh fail, and the app clears its tokens.

## 6. Plan

Done: contract → cheque-service over the contract → tx-service, the first two with an
abstract specification; then the pool cache, the offline queue with the send page's fall
back, sessions, and the anchor with `pkg/money`; proofs of the safety properties of all but
the queue.
Next, in this order:

1. `NeverPaidTwice` restated for the queue alone, as the invariant a repaired
   `_recoverFromBadSeq` would have to keep, with its proof.
2. Abstract specifications for tx-service (a key has one final answer) and for Sync, and the
   refinements, from the invariants that are already proved.
3. The handoff inbox, the verifier's checks, scheduler backoff.

## 7. Not modelled

Screens, navigation and settings (no state that money depends on); NFC framing (a lost tap
is a handoff that is not delivered); the handoff inbox and the verification of a received
offline payment; the starter-funds flow, which strings together calls that are modelled;
the doubling of the scheduler's backoff and the bump of the contract's lifetime;
cryptography of keys, tokens and signatures (a signature is what lets an action happen);
HTTP plumbing, logging, audit rows and encoding; contract events and storage lifetimes.
Database transactions are taken to be atomic and serializable, which the single-statement
guards and unique indices of the code rely on.
