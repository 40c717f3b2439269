# ChainPay: a TLA+ verification project

ChainPay pays payrolls, invoices and one-off transfers from crypto treasuries
and books every payment in an ERP. A payment is prepared in the desktop app,
signed by M of N co-signers (over a message channel on the chain, or by
pasting), broadcast through an embedded light client, confirmed, and posted to
a Frappe/ERPNext backend. This directory models the parts of that pipeline in
which order, loss, repetition and concurrency decide whether money and books
agree, checks them with TLC and proves their safety properties with TLAPS.

Paths below are relative to `src/apps/desktop/src/` unless they start with
`src/`, with `electron/` (`src/apps/desktop/electron/`) or name the backend or
the phone.

Contents: 1 the system, 2 the modules, 3 what TLC checks, 4 what is proved,
5 not modelled, 6 plan.

## 1. The system

| Component | State it keeps | Operations | Talks to |
|---|---|---|---|
| Payroll batch store (`stores/payroll-batches.ts`, table in `lib/payroll/state-machine.ts`) | persisted list of batches: state, frozen transaction and digest, collected signatures, automatic-broadcast flags, transaction hash, accounting fields, comm status per slot | create, update, transition, drain signatures, claim/fail/retry the automatic broadcast, mark posting/posted/failed, recover after restart | everything below |
| Payment panel (`features/payments/PayPanel.tsx`, `hooks/`) | mounted React state: phase, signature rows, active batch, busy flag | build, edit rows, broadcast, count down, resume | light client, batch store |
| Batch list (`features/payroll/PayrollBatches.tsx`) | none | drafts, transition buttons, remove, resume, retry the post | batch store, accounting |
| Incoming signatures (`stores/incoming-sigs.ts`, boot in `App.tsx`) | persisted buffer per digest | enqueue, drain | comm transport, batch store |
| Accounting reactors (`lib/accounting/`) | one asynchronous call per batch | build the record, post, settle the reply | accounting host |
| Accounting host (`electron/main/accounting-host.ts`) | none | HTTP call with a 20 s timeout | backend |
| Accounting API (`src/apps/backend/.../api/__init__.py`) | Crypto Payment Batch rows, Journal Entries | persist the record, derive the journal, both idempotent | MariaDB through Frappe |
| Compliance export (backend `compliance.py`) | none | rebuild the digest of each record, refuse what does not match, report | the same rows |
| Sends (`stores/sends.ts`, `lib/send`) | persisted single-signature sends | build, sign, broadcast, track, post | light client, accounting |
| Transaction builders (`lib/chains/ckb`) | none | select cells, change, fee | light client |
| Bitcoin and Solana payments (`stores/bitcoin-*.ts`, `stores/solana-*.ts`, providers in `electron/main`) | one payment per treasury: review, receipt, status, accounting state | review, sign, broadcast, poll finality, collect evidence, post, hold | providers, accounting |
| Bitcoin and Solana watch | per treasury: discovery, snapshot, regressions | sync, check one transaction, remove | providers |
| EVM Safe payments (`stores/pending-transactions.ts`, `lib/chains/evm`) | Safe transactions with owner signatures | propose, sign, import, execute, confirm, post | RPC, wallets, accounting |
| Comm transport and retry (`lib/comm`, `electron/main/comm-transport-service.ts`, `features/payments/useCommSend*.ts`) | watcher cursor, processed set, per-slot send status, timers | send, watch, decrypt, dispatch, acknowledge, retry | chain, batch store |
| Comm identity (`comm-identity-store.ts`, settings section) | encrypted key file, address on display, profile cell | generate, delete, publish | main process, chain |
| Sign desk (`SignPanel.tsx`, `incoming-packets.ts`) | packets per digest, the text on display | claim, paste, sign | comm transport, keys |
| Invoices (`stores/invoices.ts`, `lib/invoices`) | invoices, extraction queue, page selection | upload, extract, review, approve, bundle, mark signed | batch store |
| Light client (`lib/light-client`) | cursor per watched script, filtered blocks | watch, rescan, list cells | the CKB network |
| Network choice (`stores/network-config.ts`, `electron/main/network-state-store.ts`) | selection in window and main process, wipe flag | change and quit, boot | light client, comm transport |
| Keyvault (`electron/main/keyvault-*.ts`, `features/keyvault`) | encrypted vault, limiter, known address, source wallets | create, import, export, sign, change password, delete | sends |
| Phone (`src/apps/mobile`) and pairing server (`electron/main/pair-server.ts`) | upload queue, images, pairing; tokens, dedup set | capture, upload, purge, pair, revoke | invoice window |

`PROJECT.json` lists every component, also those that are left out, with the
reason, and the code lines each definition models.

What is hard in this code:

* **Awaits.** Renderer handlers are atomic only between awaits. What was read
  before an `await` (the batch, the panel's rows, the treasury, the packet on
  display) may have changed when the continuation writes.
* **Two writers.** Panel and comm channel both write the stored signatures;
  manual and automatic broadcast send the same transaction; two rescans rebuild
  one database; two of the page's executions run at once after it was left
  and opened again.
* **Restarts.** Stores are persisted, promises and timers are not; two stores
  are written by two writes.
* **At-least-once calls.** Accounting times out and asks again; packets are sent
  until acknowledged; the phone repeats an upload whose answer was lost.
* **A chain that moves.** Status goes back in a reorganisation, nonces are
  consumed by somebody else, owners of a Safe change, the list of cells lags.
* **Records that outlive code.** A digest written by an earlier version must
  still be accepted, and only when nothing was edited.

What makes each component correct, in one line each: the batch store obeys its
state table and terminal states stay terminal; the panel records only hashes of
the transaction its batch froze; signatures that were collected can be merged;
a post is made only for an accepted payment and is always resolved; the
accounting API books each payment exactly once under one identity, and a retry
succeeds; a send keeps one record for all its posts; builders conserve
capacity; a Bitcoin or Solana payment is accounted only on final evidence of the
same review, and one that goes back is held; a Safe approval counts only for
what it signed and only what was executed is booked; a watch covers all used
addresses and shows every regression; an acknowledgement proves delivery and an
unacknowledged packet is sent again; the address on display has keys; a signer
signs what was shown; an invoice is paid once; the database misses no block and
belongs to the selected network; an address shown is backed up; an upload is
neither forgotten nor handed over twice; the export is the books, in every column
that a digest covers.

## 2. Modules

| Module | Models | Role |
|---|---|---|
| `PayrollStates` | `lib/payroll/state-machine.ts` | the 13 batch states, the edges, the terminal states |
| `PayrollBatches` | `stores/payroll-batches.ts`, `merge-signatures.ts` | every store action as a function from a batch record to the record written back |
| `PayrollPayments` | `PayPanel.tsx`, `useAutoBroadcast.ts`, `PayrollBatches.tsx`, `App.tsx`, `post-batch-journal.ts` | panel, list, comm deliveries, broadcasts and posts in flight, restarts |
| `AccountingLedger` | | abstract specification: what accounting promises |
| `AccountingBackend` | `api/__init__.py` | concurrent calls of the API over database transactions; implements `AccountingLedger` |
| `SendPayments` | `stores/sends.ts`, `lib/send`, `SendPanel.tsx`, `SendHistory.tsx` | sends and their retries as clients of `AccountingBackend`, which it extends |
| `BitcoinPayments` | `stores/bitcoin-broadcast.ts`, `BitcoinWatchDetail.tsx`, `lib/accounting/*bitcoin*`, `electron/main/bitcoin-*.ts` | the payment of one watch-only treasury |
| `SolanaPayments` | `stores/solana-payments.ts`, `lib/accounting/*solana*`, the payment page, `electron/main/solana-*.ts` | the same life cycle under a durable nonce and several signers |
| `SafePayments` | `stores/pending-transactions.ts`, `features/evm/SafeApprovalDetail.tsx`, `lib/chains/evm` | proposals, approvals, executions, receipts |
| `BitcoinWatch`, `SolanaWatch` | the two watch stores and their sync | discovery; regressions on display |
| `CommDelivery` | `useCommSendDispatch.ts`, `useCommSendRetry.ts`, `lib/comm/cemp-pq/*`, `App.tsx` | one packet on its way to its signers and the acknowledgement back |
| `SignDesk` | `SignPanel.tsx`, `incoming-packets.ts` | a signer's inbox and panel |
| `CommSetup` | `comm-transport-service.ts`, `comm-identity-store.ts`, the settings section | life of the comm identity |
| `Invoices` | `stores/invoices.ts`, `lib/invoices`, `features/invoices` | upload to payment; extends `PayrollStates` for the batches |
| `LightClient` | `lib/light-client`, `RescanControl.tsx` | watches, rescans, listings over one database |
| `NetworkSwitch` | `NetworkSection.tsx`, `App.tsx`, `electron/main/index.ts` | changing the network over restarts |
| `Keyvault` | `electron/main/keyvault-*.ts`, `features/keyvault`, `stores/sources.ts` | the local vault and the sources that name it |
| `CkbBuild` | `tx-builder.ts`, `single-sig-tx-builder.ts`, `affordability.ts` | payments built from a list of cells that lags |
| `MobileCapture` | phone `stores`, `lib`, `app`; `electron/main/pair-*.ts`, `invoice-receiver.ts` | the upload queue against the pairing server |
| `ComplianceExport` | backend `compliance.py`, digests in `api/__init__.py` | records of several code versions and the export |
| `PayrollPaymentsProofs`, `AccountingBackendProofs`, `SendPaymentsProofs`, `BitcoinPaymentsProofs`, `CommDeliveryProofs`, `MobileCaptureProofs` | | theorems about the module of that name and their proofs |
| `ChainsProofs`, `DesktopProofs` | | theorems about the components that `MCChains` and `MCDesktop` compose |
| `MCPayrollPayments`, `MCAccountingBackend`, `MCSendPayments`, `MCBitcoinPayments` | | inputs and symmetry for TLC |
| `MCChains`, `MCDesktop` | | several components that share no state, checked in one run each: the variable `part` says which of them moves |

Composition follows the code: where components share state or answer each
other, one module extends the other or contains both sides (`PayrollPayments`
over `PayrollBatches` over `PayrollStates`; `SendPayments` over
`AccountingBackend`, which implements `AccountingLedger`; `Invoices` over
`PayrollStates`; operator and signers in `CommDelivery`; phone and desktop in
`MobileCapture`). Where a component sees another only through a promise, the
promise is an action: the backend of Bitcoin, Solana and Safe payments is "one
record per payment", which `AccountingLedger` states and `AccountingBackend` is
proved to keep.

### PayrollStates, PayrollBatches, PayrollPayments

A JavaScript handler is one action up to its first `await` and another action
from there on. What is awaited is explicit state: `building` (the live cells of
`handleBuild`), `sends` (broadcasts), `posts` (accounting calls).

| Variable | In the code |
|---|---|
| `batch` | the persisted list; ids are numbered in creation order because `find()` returns the first match |
| `incoming` | the persisted `incoming-sigs` buffer |
| `panel` | the state of a mounted `PayPanel` (`usePaymentLifecycle`) |
| `sends` | promises of `broadcastTransaction`, with the network's verdict (`pending`, `accepted`, `error`) and whether the panel that started them is still mounted |
| `built` | the transactions ever built here: co-signers sign nothing else |
| `chain` | the transactions the network accepted |
| `posts` | unanswered `postBatchJournal` calls |

Abstractions:

* A transaction is its signing digest. A signature is the slot of the co-signer
  its public key recovers to, `Junk` for none, so an entry is valid exactly when
  `sig = slot`. `partialSigs` is a set of entries that carry their row number
  (0 for the comm channel); its cardinality is the list's length, which is what
  the code compares with M.
* The accounting reactor runs synchronously in the store's subscription, so
  `confirmed` and `posting` (or `post_failed`, when the record cannot be built)
  are one step.
* A broadcast that the caller sees fail may have been accepted: `error` stands
  for a refusal, an unreachable client and a lost reply. The light client accepts
  the same transaction again.
* Signatures may be delivered at any time for any digest built here, repeatedly
  and with a wrong signer. As shipped the handlers are registered before the
  transport's `start` has created the watcher (`App.tsx:93`,
  `lib/comm/cemp-pq/transport.ts:145`), so fewer deliveries happen than the model
  allows; safety properties hold with fewer, too.
* `Restart` is a crash or a quit at any point between two actions.
* The transition buttons the operator presses are the constant `ManualMoves`.
  The UI offers every edge of the table; `Edges` models that, the smaller sets of
  `MCPayrollPayments` keep other runs small.

Not in the model: vendor batches, the panel's entry from a queued invoice batch,
a treasury that is edited, deleted or switched while a batch exists, a crash
between two `localStorage` writes of one handler, two transactions that spend
the same cells, more than one build awaiting at a time.

### AccountingLedger, AccountingBackend

`AccountingLedger` says what a caller may rely on: at most one entry per payment
id and per transaction, amounts never change, who is told "booked" finds the
entry. `AccountingBackend` is the API. Every call runs through the stages
`persist, insert, reread, post, bind, book, recheck` to `ok` or `rejected`; a read
is one action (a consistent read sees one state), an insert with its unique
indices and its commit is another, so that any two calls interleave between
their reads and their writes. `ensure_custom_fields` commits at the start of
`post_journal`, which is why its reads see a state of their own.

| Variable | In the code |
|---|---|
| `rows` | submitted Crypto Payment Batch documents; unique `external_id`, `tx_hash`, `safe_tx_hash` |
| `journals` | Journal Entries with `crypto_batch_id`, `crypto_tx_hash`, `crypto_safe_tx_hash`, each unique |
| `at`, `rec` | where each running call is and its record |
| `told` | history: which bookings were answered with success |

A record is its three identities, its total and a `detail` that stands for all
else the digest covers; two records are the same exactly when their digests are.
`review_digest` (Bitcoin, Solana) plays the same part as `safe_tx_hash` in the
lookup of records and has no counterpart in journals; it has no identity of its
own here. Journals from before the records existed carry no hash; they exist in
the initial states (`OldJournals`) and are adopted by `Bind` when the total
matches. `Fail` is any exception of database or server, with the rollback of
what is not committed. An accountant may cancel documents in the ERP at any time
(`CancelRow`, `CancelJournal`; external code). Deleting a cancelled document is not
modelled.

### SendPayments

A send pays from a wallet of one key. `SendPayments` extends `AccountingBackend`:
a post of a send is a `Submit` of the backend, its answer an `Answer`, and the
calls run on when nobody waits for them any more.

| Variable | In the code |
|---|---|
| `sends` | the persisted store |
| `work` | where `buildAndSend` of each send is, and the transaction it built |
| `chain` | the transactions the network accepted |
| `waits` | `postingBySend` and the awaits of `runPostSendJournal`: which send waits for which call |

"Mark confirmed" and the post it triggers are one step, because the reactor runs
inside the store's subscription. `RunPostSendJournal` takes the send as it was read
before `markPosting`, as the code does. `updatedAt` is kept only while a record
could still be stamped with it (`Touched`); a timestamp is a value of `Detail`,
so two posts whose stamps differ are different records to the backend. The
payees' fiat values are one value, or none. `Old` are sends that an earlier
version left unposted, perhaps without a value, perhaps already booked without a
hash. `work` is lost in a restart and the send stays in signing, as in the code.

Not in this model: source wallets (`Keyvault`), coin selection (`CkbBuild`), the rescan
(`LightClient`), and, nowhere modelled, sends of an earlier
version in other states.

### BitcoinPayments

The transaction is signed elsewhere and pasted. The app inspects it, reviews it
with an accounting mapping, broadcasts it once the review is approved, polls its
status, collects evidence when it is six blocks deep and posts it.

| Variable | In the code |
|---|---|
| `record` | the persisted record of the treasury in `bitcoin-broadcast.ts` |
| `panel` | the text, the inspection, the tick and the busy flag of a mounted `BitcoinWatchDetail` |
| `calls` | its requests to the main process that are awaited |
| `check` | `checkingByTreasury` and how far `runCheck` has come |
| `post` | `postingByTreasury`: the review whose post is awaited |
| `sent`, `final` | what the network has accepted, what has once had six confirmations |
| `asked`, `booked` | what left for accounting, what the backend has booked |

Abstractions:

* A raw transaction stands for its txid, a review for its digest: it commits to
  the transaction, the mapping and the context (tip, watched addresses, fee
  advice) and two reviews are the same exactly when these are.
* A reorganisation needs no action. `Answers` admits every status that was
  true at some time, so the provider may say "unknown" or another block of a
  confirmed transaction at any moment. Evidence is given only for what has been
  final, as the provider checks it.
* The policy checks on a raw transaction, the provider's refusals, its outages
  and lost answers are one failure (`InspectFails`, `CallFails`, `CheckFails`).
* The ui states from which nothing more is submitted are one, `settled`; error
  texts and the `reorged` flag are left out.
* The backend is the promise of `AccountingLedger`, one entry per transaction.
* `OldRecords` are what the store's `merge` admits from earlier versions: a
  broadcast reviewed without a mapping, and a payment held before any evidence.

`Eligible` requires the evidence to be of the present review. With one check per
treasury and a record that changes its review only by a new `beginReview` (which
removes the receipt) this comparison never decides anything: the model without
it has the same invariants. It is kept because the code has it.

Not in the model: several treasuries, which share no state but the store, and
the fields of the evidence beyond the review and the block.

### SolanaPayments

| Variable | In the code |
|---|---|
| `record`, `reviews` | the record of the treasury in `solana-payments.ts`; a review is its number, which is its digest |
| `refused`, `solcalls` | the page: `proposalValidationFailed`, its awaited calls |
| `check`, `solpost` | `checkingByTreasury`, `postingByTreasury`: how far the check and the post are, and for which review |
| `solbooks` | what the backend has booked (one entry per transaction and per digest) |
| `wire`, `status`, `durable` | transactions sent, what became of them, the nonce of the account |

An answer to a call made for one review may find another in its place; which
store operations compare the digest and which do not is translated one by one
(`acceptReceipt` and `acceptFinalizedEvidence` compare, `submissionFailed` and
`fail` look at whatever record there is). Checks on the bytes of a transaction
are one refusal. A node's answer (`Answers`) may lag behind.

### SafePayments

| Variable | In the code |
|---|---|
| `pending`, `signatures` | `pending-transactions.ts` |
| `safecalls` | awaits of the form and the page: `build`, `sign`, `record` (an approval being verified), `execute`, `checked`, `sent` |
| `posts`, `safebooks` | the accounting call of a payment and the backend's records |
| `changed`, `nonce`, `outers` | the Safe on the chain: owners differ from those imported, its nonce, the outer transactions with their receipts |

The page forgets that it is busy when it is left, so any calls overlap. An
approval names its claimed owner, its signer and the SafeTx; an imported file may
hold any. An outer transaction succeeds when its nonce and owners still hold.
Not in the model: wallet sessions, encodings, gas.

### BitcoinWatch, SolanaWatch

`BitcoinWatch` has the addresses with activity (`used`), the record (`btcwatch`)
and the scan in flight (`upper`); a scan starts, returns, fails, is interrupted
by a restart or by the removal of the treasury while addresses change.
`SolanaWatch` has the chain's state of each signature, the display
(`solwatch`), answers of a scan and of status checks on their way, and the history
`lost` of what went back on display. Descriptor parsing and derivation are left
out.

### CommDelivery, SignDesk, CommSetup

`CommDelivery` has the operator's side (`slots`, `open`, `peers`, `timers`,
`strays`, `loop`, `retries`, `stale`), the chain (`packets`, `acks`) and the signers
(`ears`, `acking`, `got`). `timersRef` is the set `timers`; a timer whose handle
the code has lost is in `strays`. A poll marks a cell processed and then
decrypts; anything that fails drops it (`DecryptFails`). Either side restarts at any
time. Copies of a packet are merged into "some on the chain, some fresh, some
being decrypted", one retry per slot and one loop run at a time.

A packet has two deadlines, and its copies are kept apart by their `Origin`. What
the panel dispatches expires a day after the panel was drawn
(`features/payments/PayPanel.tsx:642`); what a retry sends is built anew with
`createdAt` of the batch plus a day (`App.tsx:219`), which comes first. `Expire` is the
day of the retries: from then on each of them leaves expired (`RetryAccepted` puts
nothing readable on the chain) and one that is being decrypted is dropped by
`dispatch` (`lib/comm/cemp-pq/watcher.ts:102`). `Lapse` is the day of the panel's
copies, some or all of them, and comes later. The cryptography is external.

`SignDesk`: `bySighash` and `stale` are the persisted inbox, `packetJson` the text
of the panel, `signing` what `handleSign` captured, `result` the signature shown.
A packet names a transaction and a digest, and they need not agree: the operator
may be sent or paste anything.

`CommSetup`: the key file, its temporary file, the renderer's store and the
profile cell. A generate call is look, access, write, rename, reply; a publish
build, read, write, rename, broadcast, record (`updateCommIdentity` writes back the
copy it read, in place of whatever the file is by then). Any two calls overlap between
any two of these steps, with deletions, the settings page left and opened, and
restarts. The history `crossed` keeps whose write met another one: the identities of
two generate calls, or of a generate call and a publish, that were both past their
look at the file.

### Invoices

`invoices`, `batches` (those made of invoices), `jobs` (the extraction queue, not
persisted), `page`, `reviewed`, `selectedIds`, `ticked`. A batch is stored first,
its invoices are queued afterwards, one at a time, and the first refusal ends the
loop. Batches move by the edges of `PayrollStates`. File storage is atomic;
forms, drafts, vendors and the extraction itself are left out.

### LightClient, NetworkSwitch

`LightClient`: the worker (`client`, `booted`), the database (`cursor`,
`indexed`, `wanted`), each rescan with the list of watches it will restore
(`scan`), one listing at a time (`listing`). Rescans run list, stop, delete, start,
restore; each step may fail (after a failed deletion the client is started again at
once), any two overlap, and a reload of the window kills the
worker between any two. The history `kept` has the watches that rescans listed or
restored and that must therefore be there again.

A listing reads the cells, then the transactions page by page (`ReadCells`, `ReadPage`,
`LastPage`), while blocks are filtered and rescans begin. A transaction's `Place` is
its block and whether it spends; a page ends at any place, because the script has
transactions beside the two of the cell, and of that end `Beyond` keeps which of the
two lie before it. The history `known` is whether the database
had the spend when the reading of the transactions began.

`NetworkSwitch`: `network` and `wipeFlag` in the window, `file` and `current` in
the main process, `db` the network of the database, `boot` and `leaving` the two
handlers that await, `handlers` whether the main process has registered its own.

### Keyvault

`disk` is the vault file, `setup` and `exporting` the channels that wait for a
native dialog, `limiter` the counter of wrong passwords, `lockArgs`, `promoting`
and `sources` the renderer. A vault is its seed; the cryptography of the WASM
package is a comparison of passwords. Exports run one at a time.

### CkbBuild

`lock` (the multisig or the single-key builder), `capacity` and `live` (the
chain), `listed` (the light client's list, which lags), `built`, `ledger`
(history). Selection, size, fee, change and the checks that refuse are translated
for both builders; bytes are small numbers. Cells with a type script or data are
not in the model.

### MobileCapture

The phone: `items`, `images`, `taken`, `screen`, `stored`, `pairing`, `loading`,
`ticks`, `upload`. The desktop: `cert`, `codes`, `refused`, `up`, `seen`, `handed`,
with `wire` between them. A tick of the drain loop carries the pairing of the
render that scheduled it. A request may arrive, its answer get lost; the
certificate may change; both sides restart. One home screen is mounted, store
operations are atomic, the review form is left out.

### ComplianceExport

`version` is the code that runs, `rows`, `cols`, `digest`, `posted`, `journal` its
records, `calls` what has persisted and not posted. A digest stands for the object
it is taken of; past versions are known by the shapes `compliance.py` still
accepts. `Covered` are the columns the digest of a chain covers; `Columns` adds what
every document has and the export reads without covering it: the FX snapshot and the
evidence columns of the other chains. Any column may be edited, `journal_posted`
cleared, journals cancelled or bound to another payment in the ERP. `Row` is what the
report shows, with the block height as the first of three columns that is set.
Parsing of evidence and rendering of CSV and PDF are left out.

## 3. What TLC checks

Every run is `tlc -config <name>.cfg <module>` and explores its instance
completely.

| Run | Instance | Checks |
|---|---|---|
| `payroll_two_batches` | N=M=1, two batches, two digests, one broadcast in flight | `OneTransactionThroughout`, the inductive invariant |
| `payroll_collection` | N=M=2, one batch, valid and forged comm signatures, typed ones | `CommCollectionMerges` |
| `payroll_moves` | N=M=1, one batch, two broadcasts in flight, nearly every button, junk typed, fair replies | `RecordedTxIsAccepted`, `PostsAreForAcceptedPayments`, `OnlyAutoBroadcastLeavesTable`, `PostingAlwaysResolves` |
| `accounting_calls` | two calls, records equal, changed, conflicting, with and without SafeTx, old journals | `BooksConsistent`, `LedgerSpec` (refinement), `RetryIsSafe` |
| `sends_books` | two sends (one old), two calls, two hashes, values and times | `SendsMatchBooks`: a record that left the app is the record of every later retry; a posted send is booked with its value and hash |
| `bitcoin_finality` | two raw transactions, one mapping, one context, two blocks, two requests at a time, any status answer, restarts, old records | `PaymentsAreFinal`, `HoldIsKept` |
| `comm_delivery` | one slot, packets of the panel and of retries, lost, repeated, expired on two deadlines, restarts of both sides | `AckedWasDelivered`, `SentIsScheduled`, `SentGetsThrough` (liveness), types |
| `chain_payments` | seven components, one at a time | see below |
| `desktop_services` | six components, one at a time | see below |

| `chain_payments`, by component | Instance | Property |
|---|---|---|
| SafePayments | two payments, two owners of two, two nonces, two outer transactions, two calls | `ApprovalsAreGenuine`: each owner counts once and for what was signed; `BookedWasExecuted`: one payment per nonce, executed by the transaction on record |
| SolanaPayments | two payments, one signer, two reviews, two nonces, two calls | `ReceiptWasSent`, `FinalizedBeforeBooked`, `RegressionHolds` |
| BitcoinWatch | gap limit 2, five addresses | `DiscoveryCovers`: ready means scanned to the end of the gap after the last used address |
| SolanaWatch | two signatures, one check beside a scan | `RegressionsAreShown` |
| Invoices | two invoices, two batches, six moves of a batch | `PaidOnce`, `InvoicesFollowBatches` |
| Keyvault | two seeds, two passwords, two attempts | `VaultIsBackedUp`: words were displayed before an address is, and a vault signs for its own sources only |
| CkbBuild | deposits 6, 13 and 15, three orders, four cells, two transactions at once, both locks | `PaymentsBalance`: each balances with a fee that fits its size and change that can live; nothing is lost between competing ones |

| `desktop_services`, by component | Instance | Property |
|---|---|---|
| SignDesk | two transactions, one signer, every packet over them | `SignsWhatWasShown` |
| CommSetup | two identities, two generate calls and a publish that overlap, deletions | `AddressHasKeys`: the address on display has its keys on disk, or the operator had them deleted |
| LightClient | two scripts, two rescans, two blocks, listings of several pages | `NoGaps`, `KnownSpendsAreDropped`: no listing shows a cell whose spend was known when it began to read; `WatchesSurvive` |
| NetworkSwitch | two networks, three starts | `ForeignDbIsFlagged` |
| MobileCapture | two captures, two pairings, one change of the certificate or refusal of a token | `PendingIsDriven`, `QueueKeepsImages`, `HandedOverOnce` |
| ComplianceExport | a CKB and an EVM payment, four versions, two edited values | `DigestsVouch`: a record is accepted exactly while no column its digest covers was edited; `ReportIsTheBooks`: a report has the right payments, each with its entry, each as it was written but for the columns the property names |

In these two runs every component starts in its initial states and only the
one named by `part` moves: TLC explores the union of their state spaces, not the
product. `TypeOK` is the conjunction of their type invariants.

Deadlock is checked in all runs but `chain_payments`, `desktop_services` and
`rejected_unpaid`, whose components may stop: a bounded number of reviews,
captures or deposits is used up and nothing is left to do.

Bounds and why they suffice:

* One batch and one digest show everything that happens within a payment; two of
  each are needed for replies that find another batch active, and for two
  batches with one digest (the same draft built twice).
* M=N=2 is the smallest treasury in which a collection is incomplete for a while
  and a slot can be taken by two sources; M=1, N=2 (the violations
  `terminal_final` and `comm_signature_kept`) the smallest in which a signature
  comes after M are there and a row can be overwritten.
* `payroll_moves` leaves out the two buttons that enter posting without a post:
  after them a batch is in posting until the next restart. The proofs cover every set of buttons.
* `MaxSends = 2` lets a manual and an automatic broadcast, or two automatic ones,
  overlap; `MaxPosts = 1` admits one unanswered post of a batch (a second one
  starts only after a reply or restart, or the store would be in another state).
* Two calls are what a duplicate needs: the client that timed out and its retry.
  The proofs remove this bound.
* Two sends and two calls show a retry that overtakes the call it repeats, and
  two sends with one transaction hash (built from the same cells after a lost
  reply).
* Two raw transactions, or two reviews, and two requests show an answer that comes
  back for what the operator no longer looks at; two blocks show a transaction
  that moves between blocks. For Bitcoin one context suffices because a submit
  also meets `review_changed` when a late answer has put the review of another
  transaction into the record; the proof has no bound.
* Two Safe payments over two nonces show payments that compete for one nonce and
  payments in sequence; two owners of two show an approval counted twice; two
  outer transactions show a payment executed twice.
* Slots of a packet do not meet (each has its timers, copies and
  acknowledgement; only the dispatch loop visits them in turn): one slot shows
  every interleaving of one packet with its retries.
* Five addresses hold two gaps of the limit 2 and the bound on derivation.
* Two rescans are what an overlap needs; two blocks distinguish created, spent,
  not yet filtered.
* Two generate calls, one publish and two identities show every overlap of two writers
  of the key file; the theorem has any number of each. `AddressHasKeys` leaves out
  the identities whose own write overlapped another one, for which it does not hold
  (see the observations), and nothing else: other calls may run before, after and
  beside it.
* Two edits show an edit of a document together with one of its entry, which is the
  least that makes a wrong record look right. The CKB and the EVM payment have the least
  and the most shapes and columns; the clauses about Bitcoin's height and Solana's
  columns are covered by the theorem alone.
* Three starts: before a change, after it, and after a start that failed.
* The deposits and orders of `CkbBuild` contain orders that are met exactly, with
  change that lives, with change too small to live, and with too little for the
  fee.
* `SYMMETRY` is used where values are only compared: digests, hashes, values,
  timestamps, transactions, blocks, request numbers, Safe payments and owners. Those runs check invariants and properties of single steps.

Fairness is assumed in two runs. `PostFairness` (`payroll_moves`): weak fairness of
each reply, justified by the 20 s timeout of the accounting host, after which the
promise rejects, which the model counts as a reply. `CommFairness`
(`comm_delivery`): timers fire and a broadcast settles (weak, for the
runtime); a signer's app is started again and polls (the code
polls by interval); a retry that is broadcast again and again is accepted some
time and a packet does not fail to decrypt for ever (strong, because each attempt may
fail). Nothing is assumed of what the panel dispatches. `SentGetsThrough` then says
that the retries suffice although the watcher drops what it could not decrypt, handles
of timers get lost and both sides restart, and no longer than they can: until a day has
passed since the batch was created. Nothing is assumed about operators or the
accounting backend.

Every property of a passing run has a mutant in `PROJECT.json`: a definition of the
model replaced by a plausible bug (the reply applied to whatever batch is active,
an approval recorded without a second look at the transaction, a receipt taken
without comparing the review, a vault stored before its words are shown, a
rescan that restores the target only), under which the same run finds the
property violated.

### Where the code does not do what it says

Three runs end in a violation; each checks one sentence of the repository
against what the code does, and `PROJECT.json` quotes it.

| Run | Sentence | What happens |
|---|---|---|
| `terminal_final` | "posted/cancelled/failed are terminal" | a late signature of a batch with automatic broadcast revives it |
| `comm_signature_kept` | closing the window "doesn't lose work" | a comm signature merged behind the open panel is overwritten by the next edit |
| `rejected_unpaid` | "Reject ... No batch created." | the review page still offers Approve for a rejected invoice, and the batch is stored before the refusal |

### Observations without a run

Met while translating; each is in the model as the code has it unless it says
otherwise.

* Payroll: signatures that step over M leave a batch in calculated, because the
  drain tests for equality (`stores/payroll-batches.ts:184`, the comment at :50
  says "reaches"); the model has this step, no property is about it. The claim of an automatic broadcast is released by a failure of another
  attempt (:306). A reply of accounting for a batch that moved on throws outside
  any handler (`lib/accounting/post-batch-journal.ts:30`). The buttons "failed → posting"
  and "approved → broadcasted" start nothing and leave no hash
  (`features/payroll/PayrollBatches.tsx:191`, :234).
* Sends: a lost reply puts a send back to built, although "broadcast in flight is
  irreversible" (`stores/sends.ts:77`, `lib/send/state-machine.ts:5`); a
  send interrupted in signing stays there (`stores/sends.ts:121`).
* Bitcoin: a failed inspection replaces the record of a payment on hold
  (`features/treasury/BitcoinWatchDetail.tsx:89`); two reviews prepared at once
  replace the one that was ticked (:116).
* Solana: a payment is held also when a status that never was final went back
  (`stores/solana-payments.ts:158`), which the Bitcoin store no longer does; a status
  check clears the warning about the context of a scan.
* Comm identity: the button stays enabled while a call runs
  (`features/settings/steps/NotConfiguredStep.tsx`), and two generate calls that are past their look
  at the file together both write: the address of one is shown, the keys of
  the other are kept, although `generateIdentity` "throws if an identity already exists"
  (`electron/main/comm-transport-service.ts:156` looks before the awaits).
  `updateCommIdentity` renames a copy read earlier over the file: an identity deleted
  meanwhile is there again, one generated meanwhile is overwritten
  (`electron/main/comm-identity-store.ts:147`). A crash between the file
  and the store leaves a file no address is shown for. `publishedOn` is stored before
  the broadcast.
* Comm transport: handlers are registered right after a `start` that is not
  awaited (`App.tsx:93`), and those that come before the watcher exists are not
  attached (`lib/comm/cemp-pq/transport.ts:145`). Models allow both outcomes.
* Comm retries: nothing sets `batch.expiresAt`, so the schedule goes on as long as
  the batch is open, but a day after `createdAt` every retry leaves
  expired (`App.tsx:219`) and the signer's watcher drops it without an answer
  (`lib/comm/cemp-pq/watcher.ts:102`), while a packet that the panel dispatched later is still good
  (`features/payments/PayPanel.tsx:642`). A batch sent a day after it was created
  has one attempt. An acknowledgement that is heard before `sendPacket` returns
  is overwritten by "sent" (`features/payments/useCommSendDispatch.ts:70`) until the next one.
* Light client: `rescanFrom` "restores all script watches" (`lib/light-client/host.ts:210`), but
  not in three cases, which `WatchesSurvive` leaves out: a reload or a failed
  start between the deletion of the database and the restore loses all; a rescan
  that lists in that gap restores its target only (`lib/light-client/rescan-lock.ts:63`); a
  watch added after the listing is forgotten by `setScripts`. A block given for a rescan applies to
  every script. A listing may show a cell whose spend is filtered only while its
  pages are read, when a rescan has set the filter back behind the page cursor
  (`lib/light-client/host.ts:267`); the next listing drops it.
* Network: a failed `network.set` at the confirmation leaves window and file
  apart; the client is started on a foreign database after a failed clear.
* Phone: a tick of an earlier render still uploads after a mismatch cleared the
  pairing, and can clear a new one (`lib/useDrainQueue.ts:102`, :122); captures in
  "syncing" stay there over a restart; a capture is recorded as seen before it is handed to
  the window, so one whose window was gone is synced and never handed over;
  a restart of the desktop forgets what it has seen; nothing subscribes to
  `mobile-invoice:received`; concurrent issue and revoke can lose a revocation.
* Invoices: only the first invoice of a bundle is ever marked signed
  (`lib/invoices/use-batch-confirmation-to-invoice.ts:17`); the invoice of a
  cancelled batch stays queued; an extraction that runs while the app restarts has
  no retry; an edited form is paid while the stored invoice keeps its old body.
* Keyvault: after a restart the address is unknown until a vault is made again
  (`features/keyvault/keyvault-store.ts:65` does not ask for it); sources outlive a deleted vault.
* Builders: selection stops before the fee, so a payment the affordability check
  admits may be refused as "insufficient capacity" (`lib/chains/ckb/tx-builder.ts:203`);
  the last check on dropped change can never fail (:149).
* Compliance: the report shows the FX snapshot (`compliance.py:130`) and takes the block
  height from the first of three chains' columns that is set (:156), but a digest covers
  neither the snapshot nor the columns of other chains (:213): an edit of these is
  exported (`tests/test_api.py:511` expects it of the snapshot), and `safe_tx_hash` of a
  record that is no Safe payment when its entry was edited alike. `ReportIsTheBooks` names
  them as `Unvouched`. A record whose day or chain was edited so that the filter does not
  select it, or whose `journal_posted` was cleared, is missing from the report
  without a refusal, because only what is selected is verified (:98, :129). A repeated post of a record written
  before an upgrade is refused (`api/__init__.py:219`); one cancelled journal refuses
  the whole export.

## 4. What is proved

Every safety invariant and every action property that a run checks is a theorem,
proved by TLAPS for every value of the constants that meets the assumptions named in the
modules. The assumptions say no more than what the code fixes: bounds are
natural numbers; 1 <= M <= N, and a Safe threshold is at most the number of its owners
(`MultisigAssumption`, `ThresholdAssumption`); inputs have their shape
(`InputsAssumption`, `RequestsAssumption`, `PacketTextsAssumption`,
`CkbBuildAssumption`); a value that stands for "absent" is nothing else
(`NoneAssumption`, `NoneIsNothing`, `NoVault`, `NoPayment` and the like). One theorem,
`HandedOnceWithinCapacity`, has a hypothesis of its own, named with it below.

Each proof has an inductive invariant, a lemma that the initial states meet it, one
lemma per action (or group of actions that disturb the same part), and a last
step that puts them together.

**PayrollPayments** (`PayrollPaymentsProofs`). `OneTransactionThroughout` is
inductive. `RecordedTxIsAccepted` alone is not: a reply writes a hash, so the
broadcast in flight must already carry the digest of the batch it was started for
(`SendsMatchBatches`), which holds because the panel's digest is that of its active
batch (`PanelMatchesBatch`), which in turn needs that ids not yet handed out name
nothing (`UnusedIdsAreFresh`). `CommCollectionMerges` speaks of a complete
collection; inductive is what holds of each entry, that one from the channel is valid
and alone in its slot (`ChannelEntriesMerge`), because a step only removes entries,
rewrites them from the rows, or drains the buffer (`SigsStep`).

| Theorem | States |
|---|---|
| `PaymentInvariant` | `Spec => []OneTransactionThroughout` |
| `TypeCorrect` | `Spec => []TypeOK` |
| `RecordedIsAccepted` | `Spec => []RecordedTxIsAccepted` |
| `PostedIsAccepted` | `Spec => []PostsAreForAcceptedPayments` |
| `ChannelCollectionMerges` | `Spec => []CommCollectionMerges` |
| `TableObeyed` | `Spec => OnlyAutoBroadcastLeavesTable` |

**AccountingBackend** (`AccountingBackendProofs`). `BooksConsistent` is inductive.
The unique indices give `IdentitiesUnique`; that the flag `journal_posted` of a row
and the journals agree (`FlagMatchesEntry`) needs `EntriesMatchRecords`, and that an
outcome of a call is still true when it acts on it needs `CallsAreCurrent`: rows and
journals are never removed, and a journal never loses a transaction. From the
invariant follow, step by step:

| Theorem | States |
|---|---|
| `BackendInvariant` | `Spec => []BooksConsistent` |
| `BackendImplementsLedger` | `Spec => LedgerSpec`: `Book` is `Enter`, `Bind` is `Identify` or a stutter, `Answer` is `Tell` or a stutter, the rest stutters |
| `RetrySafe` | `Spec => RetryIsSafe` |

The number of concurrent calls and the set of records are arbitrary in all
three.

**SendPayments** (`SendPaymentsProofs`). The invariant is `SendsMatchBooks` with
`BooksConsistent`, because a send learns of its booking from a call of the backend,
and with `StampIsKnown`: every send has a time to stamp its record with, which is
what makes the record of a later retry computable. A step of the sends is a step
of the backend or leaves the backend alone, so the composition inherits the backend's
theorems instead of proving them again.

| Theorem | States |
|---|---|
| `SendsAgreeWithBooks` | `SendSpec => []SendsMatchBooks` |
| `SendsUseTheBackend` | `SendSpec => Spec`: the app calls the API only as the API is specified for |
| `SendsKeepTheLedger` | `SendSpec => LedgerSpec` |

**BitcoinPayments** (`BitcoinPaymentsProofs`). `PaymentsAreFinal` is inductive. That
what leaves for accounting has been final (`AskedWhenFinal`) rests on the evidence of
the record, so the record's evidence must match its review and its review its receipt
(`EvidenceMatchesReview`, `ReceiptMatchesReview`); that a late answer to a post
names the right payment rests on `AccountedOnEvidence`, and that a receipt is of an
accepted transaction rests on what the running submits carry (`CallsAreSound`). The
proof first shows that each operation of the store keeps one record sound
(`SoundRecord`) whatever the rest of the state, then goes through the actions.

| Theorem | States |
|---|---|
| `BitcoinInvariant` | `BitcoinSpec => []PaymentsAreFinal` |
| `HoldStays` | `BitcoinSpec => HoldIsKept` |

**CommDelivery** (`CommDeliveryProofs`). A slot becomes acknowledged when an
acknowledgement is decrypted, so the invariant adds that what is read or decrypted
is on the chain (`AcksAreOnChain`); that a signer has answered only what had not
expired is then a matter of `DispatchPacket`. `SentIsScheduled` is kept by a retry that fires,
although it deletes the handle of the timer the schedule has just set: the timer
itself stays, as a stray one.

| Theorem | States |
|---|---|
| `CommTypeCorrect` | `CommSpec => []CommTypeOK` |
| `AcknowledgedWasDelivered` | `CommSpec => []AckedWasDelivered` |
| `SentStaysScheduled` | `CommSpec => []SentIsScheduled` |

**The components of `chain_payments`** (`ChainsProofs`).

* `SafePayments`: `SafeInvariant`. "Executed by the transaction on record" needs that an
  outer transaction belongs to one payment or one call (`OwnerPart`) and carries the
  SafeTx of that payment (`OuterPart`); "one payment per nonce" that one outer
  transaction succeeds for a nonce and the nonce has moved past it (`NoncePart`); and
  that a call in flight still speaks of the SafeTx on record (`CallOK`), for the
  continuation of an await writes what it read before.
* `SolanaPayments`: `SolInvariant`. A review becomes the record once (`SolFreshPart`), so
  a call made for the review on record was made for this record; the evidence is that of
  its review (`SolEvidencePart`); the chain uses a durable nonce once
  (`SolChainPart`), from which two booked payments differ in theirs.
* `BitcoinWatch`: `DiscoveryCovers` with `ScanIsSyncing`: while a pass is in flight its
  record is not ready. `SolanaWatch`: `RegressionsAreShown` is inductive with the types.
* `Invoices`: an invoice names a batch exactly while it is queued or signed
  (`NamingPart`); page and selection hold only what is not paid yet (`PagePart`), without
  which the selection could queue an invoice twice; a paid batch has signed an
  invoice of its own (`PaidPart`).
* `Keyvault`: what `VaultIsBackedUp` says is inductive with the types.
* `CkbBuild`: `PaymentsBalance` with the fact that what is listed or spent are existing cells, so
  that a new cell changes no sum. The sums are folds of the community modules; the
  lemmas `SumSteps`, `SumWithout`, `SumOfUnion` show that the fold exists, does not
  depend on the order in which it takes the elements, and adds up over disjoint
  sets. They are proved by `SubsetInduction`, an induction stated with a set of
  good subsets in place of a predicate.

| Theorem | States |
|---|---|
| `ApprovalsGenuine`, `AccountedWasExecuted` | `SafeSpec => []ApprovalsAreGenuine`, `SafeSpec => []BookedWasExecuted` |
| `ReceiptsWereSent`, `BookedIsFinalized` | `SolSpec => []ReceiptWasSent`, `SolSpec => []FinalizedBeforeBooked` |
| `ReconciliationHolds` | `SolSpec => RegressionHolds` |
| `DiscoveryReachesTheGap` | `BtcWatchSpec => []DiscoveryCovers` |
| `NoRegressionIsSilent` | `SolWatchSpec => []RegressionsAreShown` |
| `InvoicePaidOnce`, `InvoicesAgreeWithBatches` | `InvoicesSpec => []PaidOnce`, `InvoicesSpec => []InvoicesFollowBatches` |
| `VaultBackedUp` | `KeyvaultSpec => []VaultIsBackedUp` |
| `PaymentsAlwaysBalance` | `CkbSpec => []PaymentsBalance` |
| `ChainTypesCorrect` | `Spec => []TypeOK` of `MCChains`: the composition follows the specification of each component |

**The components of `desktop_services`** (`DesktopProofs`, `MobileCaptureProofs`).

* `NetworkSwitch`: the start handler works with the selection it read; if another
  was chosen meanwhile the flag is up (`StartsOnSelection`).
* `SignDesk`: `SignsWhatWasShown` is inductive with the types.
* `LightClient`: `NoGaps` holds together with the types (`FilterPart`). `WatchesSurvive`
  needs that what is to be kept is in the list of every open rescan (`ScanPart`), so that
  whichever of the overlapping ones restores last gives it back. `KnownSpendsAreDropped` speaks
  of a listing that has ended; inductive is that a spend which was known and has not been
  met lies ahead of the pages read so far (`SpendIsAhead`), which begins with no page
  read (`CellsAtStart`), and which a rescan keeps because it ends the listing when it stops the client.
* `ComplianceExport`: a digest is the one that some version which knew the chain took of what was
  sent (`OfItsDay`). `DigestVouches` shows that no two versions take one digest of
  different columns. `ReportsAreTheBooks` follows row by row: what is selected is
  verified, what is verified is as it was sent, and what is as it was sent is selected
  where it belongs.
* `CommSetup`: an address loses its keys when another write meets its own, so the
  invariant `KeysOnDisk` describes who may write while keys that are not lost are in the file
  (`FilePart`: only a publish, with a copy of them), which copies the publishes hold (`CopyPart`),
  what the temporary file can be (`TmpPart`), and that a generate call whose keys are not
  lost writes alone (`SavePart`); what it answers (`ReplyPart`) and what is shown
  (`ShownPart`) is then on disk. The number of calls is arbitrary.
* `MobileCapture`: the capture in flight is in the queue as "syncing" (`UploadPart`), so
  no clearing takes it away; a tick or an upload exists whenever one waits
  (`DrainPart`). `HandedOnceWithinCapacity` assumes `MaxCaptures <= Capacity`: what
  the desktop handed over is still remembered (`RememberedPart`); with more captures in
  one run of the desktop than it remembers, an evicted id is accepted again.

| Theorem | States |
|---|---|
| `ForeignDatabaseFlagged` | `NetSpec => []ForeignDbIsFlagged` |
| `SignedWasShown` | `DeskSpec => []SignsWhatWasShown` |
| `NoBlockSkipped`, `ListingsDropKnownSpends` | `LcSpec => []NoGaps`, `LcSpec => []KnownSpendsAreDropped` |
| `RescanKeepsWatches` | `LcSpec => []WatchesSurvive` |
| `DigestsVouchForRecords`, `ReportsAreTheBooks` | `BooksSpec => []DigestsVouch`, `BooksSpec => []ReportIsTheBooks` |
| `ShownAddressHasKeys` | `SetupSpec => []AddressHasKeys` |
| `DrainNeverStalls`, `ImagesOutliveQueue` | `MobileSpec => []PendingIsDriven`, `MobileSpec => []QueueKeepsImages` |
| `HandedOnceWithinCapacity` | `MaxCaptures <= Capacity` implies `MobileSpec => []HandedOverOnce` |
| `ServiceTypesCorrect` | `Spec => []TypeOK` of `MCDesktop` |

Only model-checked: the liveness properties `PostingAlwaysResolves` and
`SentGetsThrough`, because the prover has no rules for fairness and ENABLED. The
violations are TLC's alone.

## 5. Not modelled

| Part | Why |
|---|---|
| Backend setup | one-time seeding of accounts and fields; only the unique indices matter and `AccountingBackend` has them |
| Signers, wallet sessions, hardware | protocols of other programs behind one awaited call; a signature is a value |
| Cryptography (envelopes, vault encryption, TLS, derivation), address encoding, hashing | external or pure over bytes; modelled by what callers see |
| FX, formatting, dashboard, reports, clipboard, layout | presentation |
| Payees, vendors, settings and treasury forms, autosaved drafts | sequential forms over one list each |
| The OCR pipeline and the parsers of evidence, raw transactions and amounts | pure functions over text or bytes; a refusal is one outcome |
| Headers, peers, the broadcast protocol of the light client | the embedded library; its promise is in `LightClient` and `PayrollPayments` |
| Smoke scripts, build files | tooling |

Left out of modelled parts: the panel's entry from a queued invoice batch, the
age pruning of the signature buffer, several treasuries (they share no state but
the store), several packets of one batch, overlapping exports of the vault.

## 6. Plan

The modules are complete as far as TLC's reach and the list above go, and every
safety property of the runs is proved. What proof can still add:

1. Abstract specifications for the payments of Bitcoin, Solana and Safe: the promise
   "one record per payment, after final evidence" as a module that each of the
   three is shown to implement, as the backend does `AccountingLedger`.
2. What `MobileCapture` promises beyond the capacity of the desktop's memory.
3. The safety part of the liveness arguments: that an unanswered post keeps its
   batch in posting and nothing else does, after which only the fairness is left
   to TLC.
