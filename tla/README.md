# A formal model of nestjs-inopack-graphql

This directory holds TLA+ modules that model the back office of a packaging company (NestJS,
GraphQL, Prisma, MySQL), the TLC configurations that check them on small instances, and proofs
checked by the TLA+ proof system, TLAPS. Paths below are relative to the repository's `src/src/`
unless they say otherwise; `refresh-token.service.ts:289` means line 289.

The program is one Node process. Its requests interleave at every `await`, it keeps nearly
all of its state in MySQL under REPEATABLE READ, and any request may stop between two statements
because a query fails, a deadlock or a lock wait is broken, or the process dies. What is hard in it
is therefore not in one function: it is what two requests do to the same rows, and what half a
request leaves. The models are about that.

- [Inventory](#inventory)
- [Plan](#plan)
- [How the models read the code](#how-the-models-read-the-code)
- [The modules](#the-modules)
- [The runs](#the-runs)
- [What is proved](#what-is-proved)
- [Where code and claims part](#where-code-and-claims-part)
- [What is not modelled](#what-is-not-modelled)

## Inventory

| Part | State it keeps | Operations | What makes it correct |
|---|---|---|---|
| Refresh-token sessions (`modules/auth/refresh-token.service.ts`, its REST controller) | `refresh_tokens`: user, family, hash, `revoked_at`, `expires_at` | createSession (with a sweep of old rows), rotateRefreshToken, logout, revokeAllForUser | a token is spent once; an ended family never revives; a stale reuse ends the family; two tabs of one browser never sign each other out |
| Sign-in gates (`login.service.ts`, `mfa.service.ts`, `password.service.ts`, the interstitial tokens) | `users.failed_login_count`, `lockout_until`, `mfa_enabled`, `must_change_password`; `email_mfa_codes` | login, verify, resend, forced reset, password change | no session before every gate has been passed; a code is worth one session; guesses and passwords are capped |
| User administration and roles (`auth/users`, `auth/roles`, `auth.resolver.ts`) | `users`, `user_roles` | create, update (disable, MFA flag), role sets, reset | disabling an account ends its sessions; an address is one user's; a save leaves the roles it asked for |
| Guards and access tokens (`auth/guards`, `strategies/jwt.strategy.ts`) | none | check one request | pure checks |
| Transfers and receipts (`modules/management/transfers`) | `transfers`, `transfer_receipts`, totals stored on `order_sales` and `expenses` | save, delete, validate | the stored totals are the sums of the active receipts |
| Order sales (`modules/sales/order-sale`) | `order_sales`, their products, stored totals | save, delete, status, validate against the order request and the returns | no more is sold than was ordered, nor returned than sold; totals match lines |
| Expenses (`modules/management/expenses`) | `expenses`, `expense_resources` | save, delete, generate recurring ones | totals match lines; one generated copy a month |
| Order quotations (`modules/sales/order-quotations`) | quotation, lines, two acceptance stamps, status | save, status, link product, delete, accept | an acceptance is done once, in order, and can be resumed |
| Order requests, "pedidos" (`modules/sales/order-requests`) | request, lines, status | save, delete, complete, validate against the catalog | lines priced as in the catalog; one per quotation |
| Accounts (`modules/management/accounts`) | account, contacts, product and resource catalogs | save, delete, edit catalog | one row per product; no deletion under a document |
| Resources, receipt types, products and their categories | reference rows | save, delete; a product if unused, a resource always | no product in use is deleted |
| Production orders and adjustments (`modules/production`) | orders with lines, consumed products and roster; adjustments and theirs | save, delete | what is on an order is of its type; a save leaves what it asked for |
| Production plans | plans, rows, and the employees and products of a row | save, delete, statement by statement | one plan a shift; nothing in force on a row that is gone |
| Employees and payroll | employees; payroll periods and entries | save, delete | an employee's type never changes; none on a production is deleted |
| Machines and spares (`modules/maintenance`) | machines, parts, `spare_transactions` | save, adjust, withdraw, delete | the spares are those of the form, with a row for each time the save that created them named one; no reference to what is gone |
| Audit activities and publication (`modules/activities`, `common/modules/pub-sub`) | `activities` | capture, publish a change with its before and after | an activity tells of its own write; auditing never fails the caller |
| Array comparison and net totals (`common/helpers`) | none | vennDiagram, computeOrderSaleNetTotals | partition by key; rounding |
| GraphQL batch loading (`common/helpers/graphql/batch-loader.ts`) | cache, queue and scheduled batch of a request | load | each key queried once; all who want it get the same answer |
| Logging and trace buffer | an array of entries for one rotation | add, flush | - |
| Memory tokens and files | a signed token in the cache, used again until it expires | get | - |
| User configuration | `user_config` | read or create, set | one row per user |
| Summaries (`modules/summaries`, and the statement of an account) | none; each sums the tables above in SQL of its own | the ledger of a product, the statements of an account, summaries of sales, requests, expenses and transfers, of production and material | reports of the same rows tell the same, at any moment |
| Lists (`paginated...` of every service) | none | count, then read a page | who turns all the pages misses no row that stood still |
| Mail, Prisma, wiring; seeder, migrations, scripts | none | I/O | - |

How the parts interact:

- **Sign-in mints, sessions keep.** Every path of the sign-in gates that succeeds calls
  `createSession`; a reset, a password change and a disabled account call `revokeAllForUser`.
- **Acceptance crosses three parts.** Accepting a quotation rewrites the catalog of its account
  (through `upsertAccount`), creates an order request (through `upsertOrderRequest`), then sets the
  quotation's status. Each of the first two commits with its stamp; the third stands alone.
- **Transfers write into sales and expenses.** The totals stored there are derived state, owned by
  `transfers.service.ts` and read by editability checks and reports.
- **Sales draw on order requests**, and their validation reads what earlier sales have left.
- **Every upsert publishes** a before/after activity when it has committed.
- Nothing is shared in memory between requests but the loaders of one request, the memory tokens and
  the trace buffer.

What is hard: overlapping requests that read before a transaction and write inside it; reads inside a
transaction that come from its snapshot; locks that serialise some of the paths and not others;
operations of several commits that fail between two of them; retries of half-done work; timestamps
rounded by the database; counters written from a value read earlier. `PROJECT.json` lists each as a
hazard at its line, with the properties that watch it, or why none does.

## Plan

Order of work, the most important behaviour first; all of it exists.

1. `Sessions` (abstract) and `RefreshTokens`, which implements it; `RefreshTokensProofs`, the race window and the
   refinement included.
2. `SignIn`, whose sessions are the ones RefreshTokens keeps; `SignInProofs`, which ends with what holds of requests that
   do not overlap.
3. `TransferTotals`; `TransferTotalsProofs`, over the lemmas of `Sums`.
4. `QuotationAcceptance` with the account catalog and `PagedLists`, checked by `MCBooks`;
   `QuotationAcceptanceProofs` is about both.
5. `RequestSlots` and `RowDiff`, which the following modules share: the requests in flight, and
   the comparison of a form with stored rows.
6. Documents: `OrderSales`, `Expenses`, `DocumentReports` over both (`DocumentReportsProofs` is about the three), `Records`,
   `AuditedMutations` and `ActivityAudit`, and `AccountStatements`; checked by `MCDocuments`. `DocumentsProofs` is about
   Expenses, Records, ActivityAudit and AccountStatements.
7. Workshop and users: `SpareStock`, `Productions`, `Plans`, `UserRoles`, `BatchLoader`, side by side in `Workshop`
   (`WorkshopProofs`, which is also about `InventoryLedger`), and `ProductionReports`;
   all checked by `MCWorkshop`.

Left to do, in this order. *Theorems*: `ProductionReportsReconcile`, over `Sums`. *Models*: payroll periods and entries; SignIn composed with RefreshTokens, by
refinement (the sessions SignIn mints and revokes are those of Sessions).

## How the models read the code

**Steps.** A step is what no other request can come between. Outside a transaction that is one database
statement together with the computation after it. A transaction that reads and writes rows others
write is two steps where its snapshot matters (the first statement fixes the snapshot, the commit
publishes the writes) and has its locking steps apart where it locks. Where it touches rows nobody
else decides by, it is one step.

**Why snapshot and commit are enough.** Between the two, the transaction's reads depend only on
the snapshot and its own writes, and its writes stay hidden and locked until the commit, so their
exact moments cannot be told apart by others. An UPDATE acts on the row as it is, not as the snapshot
had it, and the models do the same. Two transactions that wait for each other are a deadlock, which
InnoDB breaks by failing one: that is `Abort`.

**Failures.** `Abort` may happen to any request between any two of its steps, so it stands for
refusals that change nothing, errors, deadlock victims, lock wait timeouts, lost connections and a crash
of the process. What is committed stays; an open transaction leaves nothing and frees its locks.

**Concurrency.** `Procs` are request slots. Two slots are enough to put any single step of one
request between any two of another; a finished slot starts again, so the number of requests is
bounded by their count, not by the slots.

**History variables** (`origin`, `contended`, `overlapped`, `disturbed`, `interrupted`, `revived`,
`moved`, `readded`, `placed`, `planned`, `asked`, `granted`, `written`, `past`, `touched`, `upset`, `misses`, `mfa_was_off`, `gate`,
`started`, and `tried` of a code and `late` of a quotation's request) are never read by a guard or an assignment of the
program's own state, except that a bound may count them and a new row may be named by `started`. They let a property say "unless two requests have
overlapped".

**Rivals.** In the modules on RequestSlots each request names, when it starts, the requests in flight that
validate or sum what it writes, or the reverse: its rivals (`SaleSaves`, `DeletesOf`, ...). `contended` is set
when two rivals have overlapped and never unset. The program does nothing to keep rivals apart, so most properties
say `~contended =>`: they hold of every behaviour in which *rivals* did not overlap, and there everything else
overlaps freely, forms may be old ones, and any request may fail anywhere. `interrupted` is
set when a request that has written some and not all of its statements fails.

**Mutants.** Next to a definition there may be a second one marked "Mutant": the same definition
with a plausible bug in it. It is used by no action. It records that the properties do see the bug: with
the mutant in the place of the original, TLC finds the property violated under the run's own configuration.

## The modules

### Sessions, RefreshTokens

`Sessions` is the promise: a session opens once, is renewed while it is open and before its deadline, ends
alone or with all of its user's, and stays ended. It knows of no rows, locks or requests.

`RefreshTokens` is the table and its requests.

| Model | Code |
|---|---|
| `refresh_tokens`, `next_id` | `prisma/schema.prisma`, `refresh_tokens`; DATETIME(0), hence `StoredTime` |
| `lock`, `LockFree` | the rows a `FOR UPDATE` (lockFamily) holds |
| `RotateLookup` | findUnique by hash and readActiveUser, before the transaction |
| `LockFamily` | `BEGIN` and the locking read, whose rows `seen` keeps |
| `RotateTheft`, `RotateExpired`, `RotateInactive`, `RotateRenew`, `RotateRowMissing` | the exits of rotateRefreshToken, in the order of its tests; `RotateCommit` is their union, and releases the locks |
| `Logout`, `RevokeAllForUser` | one UPDATE each, which waits for row locks |
| `DisableUser`, `DisableUserRevoke`, `EnableUser` | updateUser and the revocation after it, two commits |
| `LoginRead`, `LoginCommit`, `LoginFailsAfterSweep` | createSession: the sweep commits on its own, so it may survive a failed insert |

Time is counted in half seconds, the coarsest unit in which rounding to whole seconds is visible: the age of
a stamp may be negative, and the window's edge moves by one half second. Assumed of the settings:
a token outlives the race window (`TtlOutlivesGrace`; 14 days against 30 seconds by default).
A family's uuid is named by the row that opens it. Two merges: the lookup by hash and the read
of the user are one step (nothing is decided between them, and both are stale by the time they are
used), and a login's sweep and insert are one step or, when the insert fails, the sweep alone.

### SignIn

One account, since the services never touch two. Every statement is a step and a request keeps the row
it read (`job`), because that is what the code does: the failed-login count, the attempts of a code and
the flags of the fork are all used from the value read first.

| Model | Code |
|---|---|
| `LoginRead`, `RegisterFailedLogin`, `ClearFailures` | validateUser, registerFailedLogin, clearing the counters (`login.service.ts`) |
| `DecideChange`, `DecideCodeOrSession` | decideAfterPassword: forced change first, then MFA, then a session |
| `ConsumePriorCodes`, `CreateCode` | sendMfaChallenge: older codes consumed, a row inserted, then the mail, which may fail |
| `VerifyRead`, `CountWrongGuess`, `BurnCode`, `ConsumeCode`, `MintSession` | verifyMfaCode |
| `ResendRead` | resendMfaCode |
| `RequireChange`, `RevokeAll` | requirePasswordChange |
| `ChangeRead`, `ChangeWrite`, `RevokeAll`, `ChangeReread` | changePassword, which re-enters the fork |

Digits and hashes are abstracted to which code was typed; the interstitial tokens to the time the last one
handed out expires (any earlier one expires earlier). Requests that are refused and change nothing
(a locked account, no redeemable code, an expired token) are not steps. A session is only how it was
opened, by which code, and whether it has been revoked since.

### TransferTotals

The sales and expenses of one account are `Docs`; each stores two sums of its receipts. A save is
`BeginSave` (validation and snapshot) and `CommitSave` (vennDiagram over the snapshot's receipts, the
header, the rows, the recomputed totals). A delete is not a transaction: header, receipts, then for each
document a read of the sums and a write. `View` is what the aggregate inside the transaction sees:
the snapshot and the transaction's own rows.

Abstracted: the two aggregates of a document and their write are one read and one write; the two types
with receipts that pay (2 and 3) are "payment", type 4 is "adjustment"; the transfer between own accounts
has no receipts and is left out; a form names receipts by their ids, and one that is no longer active is
named `NoRow`, since the code creates that line again; rows are named by the serial number of the
request that inserts them.

### QuotationAcceptance

One quotation, its lines, the order request its acceptance creates (`pedido`, empty while there is none)
and the catalog of its account.

| Model | Code |
|---|---|
| `BeginAccept`, `CheckAcceptance` | acceptOrderQuotation: the row as read at the start, the blocking reasons |
| `MergeCatalog`, `SnapshotCatalog`, `CommitCatalog` | buildMergedAccountInput; upsertAccount and the first stamp in one transaction; syncAccountProducts |
| `ReadPedido`, `CommitPedido` | the form of the order request and its validation; upsertOrderRequest and the second stamp in one transaction |
| `MarkAccepted` | the status, alone |
| `BeginStatus`/`WriteStatus`, `BeginEdit`/`CommitEdit`, `BeginLink`/`WriteLink`, `BeginDelete`/`DeleteLines`/`DeleteHeader` | the ordinary writes: each checks first and writes in a later statement |
| `BeginSave`, `SnapshotCatalog`, `CommitSave` | upsertAccount called for itself |

Abstracted: price units, group weights, kilos, codes, dates and expiry, products that are themselves
retired; refusals that depend on these are `Abort`. An edit changes one line at a time. A catalog form
adds, removes or reprices one row and does not give a row another product. The unique key on
`order_quotation_id` is the guard of `CommitPedido`.

### RequestSlots, RowDiff

`RequestSlots` holds the requests in flight: a phase and what the handler holds, for each slot; `Start`, `Goto`,
`Finish` and `Fail` are used by every action of the modules that extend it. `RowDiff` is
vennDiagram by id, with the deletes, creates and updates that follow it (`Saved` in one
transaction, `NextWrites` one statement at a time), and `Forms`, the forms a client may send: any subset of
items, each line new or naming a row there has been, in force or not, since a form may be an old one.

### OrderSales

| Model | Code |
|---|---|
| `request`, `ordered`; `sales`, `sold`; `returns`, `returned` | an order request, the sales drawn from it, the adjustments of type 6 on them, and their lines |
| `BeginSale`, `SnapshotSale`, `CommitSale` | validateOrderSale, then the transaction of upsertOrderSale with the net totals computed inside it |
| `UpdateOrderSaleStatus`, `UpdateOrderRequestStatus` | one write each; a status other than 1 locks the document |
| `BeginDeleteSale`, `DeleteSaleLine`, `DeleteSaleHeader` | deleteOrderSale, line by line, header last |
| `BeginRequestSave`, `SnapshotRequest`, `CommitRequest`; `BeginDeleteRequest`, `DeleteRequestLines`, `DeleteRequestHeader` | the same of the order request |
| `BeginReturn`, `ReturnHeader`, `ReturnLine`, `ReadNet`, `WriteNet`; `DeleteReturn`, `DeleteReturnLines` | upsertOrderAdjustment and deleteOrderAdjustment, no transactions, with updateOrderSaleNetTotals at the end |

Kilos at a price of one stand for amounts; kilo groups are checked as kilos are. The totals of a sale are computed from its lines
or, without `automatic_tax_calculation`, those the client sent (`SaleTotals`), which the code stores without comparing them with the
lines. So a subtotal is that of the lines only where it was computed, and the summary of sales differs from the net total of a sale with
totals that were sent by just what they differ from the lines: that is what `NetTotalsExact` and `SummariesAddUp` state. Two sums
that look alike are not: `ReturnsOn` asks whether the adjustment is active, `ReturnLinesOn` does not, and each is used
where the code uses it.

### Expenses

| Model | Code |
|---|---|
| `BeginExpense`, `ExpenseHeader`, `ExpenseLine`, `ExpenseSaved` | upsertExpense: header, then each row, a statement each |
| `BeginDeleteExpense`, `DeleteExpenseHeader`, `DeleteExpenseLines` | deleteExpense |
| `BeginGeneration`, `GenerationSnapshot`, `HasCopy`, `Copied`, `GenerationCommit` | generateRecurringExpenses: in one transaction, for each item its source, the copy already there, the copy |

An update of a line does not write `active` (`LineUpdated`), as an update of a sale's line does: a form that names a line an
earlier save removed leaves the line out and counts it in the subtotal. `revived` excepts that.

### Records

Accounts, products, machines, employees and resources are records; documents refer to them. `Counted` is what each
getDependenciesCount counts, which is not everything that refers (`Referring`): of an account's documents,
quotations are not; of a product's, plans and quotations; a resource is deleted without a count. Some documents refuse inactive
records when saved and most do not. `CountDependents`, `DeleteContacts` and `MarkDeleted` are the statements of a deletion;
`SaveAccount` saves contacts along with the account.

### SpareStock

Spare operations (adjustments and withdrawals) and machine parts have one shape, a header and rows named by a spare, and
one set of actions, `BeginStock` to `StockSaved`. Rows and headers are removed for good, and the foreign keys of the
schema are guards. Rows and lines are compared by spare (`StockOld`), and a form of an operation may name a spare twice (`nth` tells
which naming a line is): a spare that has no row yet gets one for each naming, and a later save writes and deletes all the rows of a
spare together, with the quantity of the first line that names it (`First`). upsertMachinePart refuses a spare named twice. A spare is found free (`BeginDeleteSpare`) in one statement and removed in another, which the database refuses if
something refers to it by then.

### Productions

`BeginStaff`/`SaveStaff` and `BeginDeleteStaff`/`DeleteStaff` are the saves and deletions of machines and employees,
`BeginProduction`, `ProductionSnapshot`, `CommitProduction` upsertOrderProduction, and `DeleteProduction`,
`DeleteProductionRows`, `DeleteProductionRoster` its deletion. The roster is compared by employee with rows in force
or not, and an update does not write `active`, so one who was taken off and is named again stays off (`readded`).

### Plans

Every statement group of upsertProductionPlan and deleteProductionPlan is a step: header, row by row, and the employees and
products of a row before the row. Employees of a row are compared with the rows in force (`CrewSynced`), products by the id of their
line (`GoodsSynced`): of the four ways the program saves lines this one has no exception. The code checks that a product is named once on a row; a
machine named twice in a form, or an employee twice on a row, would be rows of their own. The model's forms name each once, and what is claimed
compares sets, in which a repeated row is no further member.

### UserRoles, BatchLoader, Workshop

`UserRoles` is UserService.create and update: the user, then each role deleted, then each created, once for each time the form names it
(`RoleForms`). `BatchLoader` is createBatchLoader
under toOne and toMany; its actions are the turns of the event loop (`Microtask`, `Tick`) and the answers of the database. `Workshop` puts
spares, staff, plans, users and loads side by side, one of them in a behaviour, and states of all of them that what was saved is what was
asked (`SavedAsAsked`) and what was validated stays valid (`ValidatedStaysValid`).

### AuditedMutations, ActivityAudit

`AuditedMutations` is data: which mutations each entity has, which tables each writes and in how many statements (`Save`, `Change`,
`Delete`), which are left out of the trail (`Untold`), and which child tables each get...Snapshot selects. It is read from the
resolvers, the services and the wrappers of `pub-sub.service.ts`, entity by entity, since a table that is saved and not shown is the
kind of slip no test of one entity would notice. `ActivityAudit` is a mutation of one of them: `CaptureOld`, `WriteRecord` for each
statement, `CaptureNew`, `PublishEntity`, `InsertActivity`, `PublishActivity`, each of which may fail as the code lets it (`captureSnapshotSafely`,
the try blocks of publishActivity). `Seen` is what a snapshot shows: lines in force, of the tables it selects. Production plans
take no snapshots and have no topic.

### DocumentReports, AccountStatements, InventoryLedger, ProductionReports

The reports change nothing. What can be wrong in them is how they join: a row counted twice or lost, a period cut at another
instant than the next report cuts it, a deleted header whose lines still count. Each is an operator over the tables,
and what is claimed is that those that sum the same rows come to the same, at every state the writes can reach, a delete that failed
halfway included.

| Model | Code |
|---|---|
| `DocumentReports`: `SalesSummary`, `FulfilledBy`, `ExpensesSummary` | the summaries of sales, order requests and expenses, read from lines, against the totals the documents store; over the actions of OrderSales and Expenses |
| `AccountStatements`: `History`, `OpeningBalance`, `AccountTransfers`, `WithDisparities`, `SupplierTotals`, `OwnBalance`, `TransfersSummary` | the statement of an account (`accounts.service.ts`), the lists of disparities of sales and expenses, the summaries of transfers; over saves and deletes of documents and transfers, one at a time |
| `InventoryLedger`: `ReadTable`, `Ledger`, `Unwound` | getProductInventoryMovements: the present level and the rows of four tables, read in eight statements, unwound newest edit first; over the writes that stamp `updated_at` |
| `ProductionReports`: `Rate`, `HourlyRuns`, `MachineSummary`, `WeeklyAudit`, `Balances`, `MachineBalance`, ... | production-performance, material-balance, production and employee summaries; over saves and deletes of runs, one at a time |

Instants and days are kept apart in AccountStatements: a business day begins six hours into the calendar day (`BusinessDayStart`), a
document has a day and a transfer an instant. In ProductionReports the days of the instance fall in two ISO years with one week number.
Abstracted: prices, tax and rounding (amounts are small integers), the splitting of one sum by labels, and text. Which documents are
canceled is any set where only reports read it.

### PagedLists

Each paginated... function is a `CountRows` and a `FetchPage`, two statements, while rows come, go and change. A list is what it may be
sorted by and what days it takes (`OrderQuotationsList`, `ExpensesList`, ...); from there on only the kind of the sort matters: by
stamp, by number, by a field with ties, by a field and then the stamp. A row's value is both its day and its sort field. The text filters are left
out: they take a row in or out as a day does.

## The runs

All instances are small because what goes wrong here needs few actors: two requests, and sometimes a
third that finds what they have left. Bounds that are counters (`MaxTokens`, `MaxLogins`, `MaxRequests`,
`MaxCodes`, `MaxSessions`, `MaxClock`) appear only in guards that stop new work from starting, never in one
that would stop a request half way; the exceptions are `MaxCodes` and `MaxSessions` of SignIn, at which a
request can still only abort. Runs of models with a request bound set `CHECK_DEADLOCK FALSE`,
because the system stops when the requests are used up.

| Run | Instance | Shows |
|---|---|---|
| `sessions_safety` | 2 users, 2 requests, 3 rows, 2 logins, 6 instants, no window and a window of one second | `SingleUse`, `DeadFamilyStaysDead`, `StaleReuseEndsFamily`, `TabsNeverSignOut`, `SessionEndsForCause` |
| `sessions_refined` | 1 user, 2 requests, 4 rows (three renewals or races), with fairness | `ImplementsSessions`, `RaceHasWinner`, `EveryRequestAnswered` |
| `signin` | sign-in: 2 requests at a time, 5 in all, thresholds of 2, 2 codes, 3 sessions, 3 instants | the gates compose (`CodeBeforeSession`, `PasswordAloneIsGated`), the caps hold (`FreezesAtThreshold`, `LockoutHolds`, `GuessesCapped`), codes are redeemed once alone and boundedly when raced |
| `signin_code_finding`, `signin_gate_finding` | as `signin`, with 4 requests | `CodeRedeemedOnce`, `ForcedChangeHolds` fail |
| `transfers` | 2 requests at a time, 3 in all, 2 documents, amounts 1 and 2 | `TotalsSettled`, `ReportsAgree` of requests that do not overlap; `SaveSettlesTotals`, `SaveBalances` of a save after anything at all |
| `transfers_overlap_finding` | as `transfers` | `TotalsMatchReceipts` fails |
| `books` | a quotation: 2 requests at a time, 3 in all, 2 products, 2 prices. Lists: pages of one row of up to three, one of them written | `StepsInOrder`, `OnlyAcceptanceFinishes` in every interleaving; `RepeatsNeedOverlap`, `UndisturbedAcceptance`, `MergeKeepsCatalog` under the conditions they state; `PagesTell` |
| `quotations_resume_finding` | 1 request at a time, 4 in all | `StartedAcceptanceCanFinish` fails |
| `documents` | 2 requests at a time, 3 in all; 2 products, one of 1 or 2 kilos, an order request that begins with both; totals of a sale computed, or sent as 4; 1 resource with 2 amounts, 2 months; 2 records of one kind, each kind in turn; each entity in turn, 2 mutations of one record; statements of 2 days, 2 amounts | `QuantitiesNested`, `SummariesAddUp`, `OneCopyPerMonth`, `DeletionClean` of requests that are not rivals; `HistoryTruthful` in every interleaving, its snapshots of mutations that do not overlap; `StatementsReconcile` |
| `statement_finding` | 1 request at a time, 3 in all, 2 days, 2 amounts | `StatementCarriesForward` fails |
| `workshop` | 2 requests at a time, 3 in all (2 of the reports); 2 spares in 2 quantities, forms of 2 lines or roles, a machine and an employee, 2 types, 2 shifts, 2 roles, 2 addresses; 3 loads of 2 keys; 7 forms of runs on 3 machines, 3 products, 2 hands; a ledger of 5 instants, two of the four tables | `ValidatedStaysValid` (types in every interleaving, plans under its condition), `BatchesSettle` in every interleaving; `SavedAsAsked`, `LedgerTellsHistory` under the conditions they state; `ProductionReportsReconcile` |

`documents`, `workshop` and `books` check several components each. The components of a run share no variable but the request
slots, so an action of one commutes with any of another, and a product of their states would show nothing that the states of
each do not. `part`, chosen at the start, says which component a behaviour is of; the others then have one initial state.

What is left out of a run on purpose:

- `Calm` of `documents` does not continue a state in which rivals have overlapped, of which nothing but types is claimed there, except of
  the activity trail.
- `Calm` of `workshop` does the same for two writes of the ledger's documents; it takes one order of the eight statements of a reading that saw one
  state, since any order reads the same, and one such reading, as the last request: it changes nothing that another would see.
- `Sent` of `documents` has totals of a sale sent only where its form is two kilos of one product, at its creation or at any edit.
- `Repeats` of `workshop` has a request whose form of an operation names a spare twice run alone, not as the last of the three, and in two
  amounts; and after an overlap no further request of spares or users begins (`Overlapped`), as only what refers to what is claimed then. The theorems
  have none of these limits.
- `Calm` of `books` leaves two kinds of states of the lists that no list can tell from others: rows of a day that
  counts as another does, where the day is not sorted by, and the passing of a second, where stamps are not sorted by.
- `AtOnce` of `documents` lets two mutations overlap only on one record and only of quotations and expenses, which between them write in all
  the ways there are, and lets a capture fail only in a mutation that is alone; mutations one after the other are of every entity. The
  theorem `ActivitiesTellTheTruth` has no such limit.
- The writes under the reports (the parts `statements` of `documents` and `reports` of `workshop`) come one request at a time (what overlapping ones do to the tables is what
  TransferTotals, OrderSales and Productions are about), and the reports are read between any two of their statements.

Why these bounds are enough for the cases of interest: three token rows hold a login and two answers to
its first token (a renewal and its race, or two rivals), or two devices and a renewal; four rows hold a
race of a race. Six instants of half a second
cover spending, the edge of a one-second window from either side, and expiry. Five sign-in requests reach
the threshold twice, or a login, a wrong guess, a right one, a reset and a change. Three transfer requests
are a save, and two that race over what it left. Three quotation requests are an acceptance
that fails, one that resumes it, and one that interferes; that instance has also been checked
once with four requests, at one price or one product, with the same result. Five instants are two stored seconds and the halves
that round to them.

In `documents`, three requests are a sale,
its return and an edit of either, or two sales of one order request and its edit; an expense, its copy and a second
generation; a record's deletion between two saves; two mutations of
one record are all that its history can mix up. Of the statements, they are a sale, its payment and the delete of it. In `books`, three rows in pages of one are a page read,
a row in the hand and one to come. In `workshop` they are a save that fails, the same save again, and a third that
interferes; and three loads of two keys are two that share a batch or a key and one that comes after it has closed.

Symmetry of request slots (and of users, records, spares and shifts where they are interchangeable) is used only in runs without liveness.

**Fairness.** Only `EveryRequestAnswered` needs it. `FairSpec` assumes strong fairness of `Progress(p)`, the steps
of a request that has begun: the event loop runs every continuation whose query has
returned, and InnoDB grants a row lock to the transactions that queue for it in turn, so a request that could
continue again and again does continue. Nothing is assumed of new requests, logouts, aborts or the clock, so
the property does not rest on `Abort` breaking a wait: it holds because no cycle of lock waits exists, and
no exit keeps a lock.

## What is proved

TLAPS checks, for every number of users, requests, rows and instants and every value of the settings the assumptions
allow:

| Theorem | Statement | Inductive invariant |
|---|---|---|
| `RefreshTokensProofs!TypeCorrect` | `Spec => []TypeOK` | `TypeOK`, with `RequestsOK` (what each phase holds) and `RoomKept` (ids left for every request that may insert) |
| `RefreshTokensProofs!LockedReadsAreCurrent` | `Spec => []LockedReadIsCurrent` | adds that whoever is in the locked phase owns the family's lock, which is what makes each write of another request wait |
| `RefreshTokensProofs!EndedSessionsStayEnded` | `Spec => DeadFamilyStaysDead` | adds `IdsFresh`: no row, no origin at or beyond `next_id`, so an insert overwrites nothing; then every action that adds an unrevoked row is a login, which opens a new family, or a renewal, whose locked read is current and shows an unrevoked row |
| `RefreshTokensProofs!TokensAreSingleUse` | `Spec => []SingleUse` | the same, strengthened by: a token some renewal has spent has a stamp, or is gone |
| `RefreshTokensProofs!RacesHaveWinners` | `Spec => []RaceHasWinner` | adds `History`, below |
| `RefreshTokensProofs!StaleTokensEndFamilies` | `Spec => StaleReuseEndsFamily` | the same, with `RowsOK`: a row is of an opened family and its owner, and expires a lifetime after its issue |
| `RefreshTokensProofs!TabsStaySignedIn` | `Spec => TabsNeverSignOut` | the same |
| `RefreshTokensProofs!SessionsEndForCause` | `Spec => SessionEndsForCause` | the same; `UsableFate` says what each step may do to a usable family |
| `RefreshTokensProofs!TableImplementsSessions` | `Spec => ImplementsSessions` | adds `Latest`: of the rows of a usable family one expires last, the one the deadline of the session is read from |
| `SignInProofs!TypeCorrect` | `Spec => []TypeOK` | `TypeOK` with `RequestsOK`: a request that has read a code still finds its row, one that counts a wrong guess read a count below the cap, one that mints for a code mints for a consumed one |
| `SignInProofs!GatesCompose` | `Spec => []CodeBeforeSession` | adds `Gated`: while MFA has never been off, every user row a request holds at the fork has it on, so whoever mints has redeemed a code |
| `SignInProofs!RacesAreBounded` | `Spec => []RedemptionsBounded` | adds `ClaimsBounded`: the sessions a code has opened and the requests that hold its right answer are together no more than the request slots, and a code that has opened a session is consumed, so no request claims it any more |
| `SignInProofs!LockComesAtThreshold`, `LockStands` | `Spec => []FreezesAtThreshold`, `Spec => LockoutHolds` | adds `Alone` (while no two requests have overlapped, one at most is in flight) and `Counted`: the wrong passwords answered are those counted, below the threshold, and a login in flight holds the counters there are, of an account that is not locked |
| `SignInProofs!CodeBurnsAtItsThreshold` | `Spec => []GuessesCapped` | `Alone` and `GuessesCounted`: the guesses answered are those counted, and a guess under way holds the count |
| `SignInProofs!CodeOpensOneSession` | `Spec => []CodeRedeemedOnceAlone` | `Alone` and `OneRedemption`: a code not consumed has opened no session; one found right is still unconsumed, and has opened none when its session is due |
| `SignInProofs!ResetShutsThePasswordOut` | `Spec => []PasswordAloneIsGated` | `Alone` and `Held`: between a reset and the change it forces, the flag is set, no session of the password alone is alive, and the request in flight has read the flag or mints for a code |
| `QuotationAcceptanceProofs!StampsTellTheTruth` | `Spec => []StepsInOrder` | `StepsInOrder` with `RequestOK` |
| `QuotationAcceptanceProofs!AcceptanceIsLocked` | `Spec => OnlyAcceptanceFinishes` | the same |
| `QuotationAcceptanceProofs!AcceptanceTypes` | `Spec => []TypeOK` | `TInv`: `DataTypes`, and `JobFits`, what each phase of a request carries |
| `QuotationAcceptanceProofs!OnlyOverlapsRepeat` | `Spec => []RepeatsNeedOverlap` | `FormsInv`: the property itself, and every form about to be saved names each product once |
| `QuotationAcceptanceProofs!UndisturbedAcceptanceHolds` | `Spec => []UndisturbedAcceptance` | `QuietInv`: while no ordinary write has slipped in, what an acceptance has read is still so at each of its steps |
| `QuotationAcceptanceProofs!MergesKeepCatalog` | `Spec => MergeKeepsCatalog` | all of the above |
| `QuotationAcceptanceProofs!ListsTell` | `ListsSpec => [](ListsTypeOK /\ PagesTell)` | `PagesInv`, below |
| `TransferTotalsProofs!TypeCorrect` | `Spec => []TypeOK` | `TInv`: a save in flight inserts under ids that are still free, what it has seen is still stored, and its lines name each receipt of its snapshot at most once |
| `TransferTotalsProofs!TotalsSettle` | `Spec => []TotalsSettled` | `Alone` and `Settled`: while requests have not overlapped and no delete has failed, what the request in flight has read is still so, and a document whose totals are not exact is one it is still to recompute |
| `TransferTotalsProofs!ReportsSeeTheTotals` | `Spec => []ReportsAgree` | adds `InForce`: an active receipt has an active transfer, unless a delete is between the two or a deleted transfer was saved |
| `TransferTotalsProofs!SavesSettleTotals`, `SavesBalance` | `Spec => SaveSettlesTotals`, `Spec => SaveBalances` | `TInv` and two facts about one save: what its aggregate sees is what it leaves (`ViewIsWritten`), and the lines of its form match the active receipts one to one (`OneReceiptPerLine`) |
| `DocumentReportsProofs!SalesTypes` | `SalesSpec => []SalesTypeOK` | `TInv`: no id is given twice, by one request or by two in flight, and what a request holds are rows and documents there are |
| `DocumentReportsProofs!QuantitiesNest` | `SalesSpec => []QuantitiesNested` | `TInv` and, while no rivals have overlapped, `Orderly`: those in flight are kept `Apart`, the quantities are `Nested`, and what each request in flight validated is still true of it (`StillFits`) |
| `DocumentReportsProofs!ExpensesTyped` | `ExpensesSpec => []ExpensesTypeOK` | `EInv`: a line is of an expense there is, no id is given twice, and what a save, a delete or a generation holds is of such expenses |
| `DocumentReportsProofs!SummariesTell` | `ReportsSpec => []SummariesAddUp` | `SalesInv` and `ExpensesInv`: the above and, while no rivals have overlapped and none has failed halfway, `Exact` and `ExpensesExact`, below |
| `DocumentsProofs!OneCopyAMonth` | `ExpensesSpec => []OneCopyPerMonth` | `OneGeneration` and `SnapshotCurrent`: every copy in force now is in the snapshot a generation in flight decides by, as only another generation, or a save that moves an expense, could put one there |
| `DocumentsProofs!DeletionsStayClean` | `RecordsSpec => []DeletionClean` | `RecordsInv`: while no rivals have overlapped, every document of a record under deletion was saved before the deletion began, and those that protect the record are of kinds not yet counted (`DeletionKnows`); a save in flight began after the last deletion of its record, and what it would refuse it would refuse still (`SaveKnows`) |
| `DocumentsProofs!ActivitiesTellTheTruth` | `AuditSpec => [](AuditTypeOK /\ HistoryTruthful)` | `AuditInv`, below |
| `DocumentsProofs!StatementsTell` | `StatementsSpec => [](StatementsTypeOK /\ StatementsReconcile)` | `StatementsInv`: every receipt in force is of a document and a transfer there are, of one kind, and one at most of the two (`ReceiptsTold`); a live transfer's amount is that of its receipts in force, and only an old sale's has no date (`TransfersTold`); a transfer whose delete is between its statements, or failed there, stays dropped (`DeletesKnow`) |
| `WorkshopProofs!TypesStayAgreed` | `ProductionsSpec => []TypesAgree` | `TypesInv`: what a request has validated against the type of an active machine, employee or product is still true of it, in every interleaving |
| `WorkshopProofs!PlansStayPerShift` | `PlansSpec => []PlanPerShift` | `PlansInv`: rows written are of plans there are (`PlanTables`, `PlanJobs`); while no rivals have overlapped, whoever has found a shift free still finds it so, and a deletion has cleared what hangs on the rows behind it (`PlansQuiet`) |
| `WorkshopProofs!StockStaysAsAsked` | `StockSpec => []StockAsAsked` | `StockInv`: saves are apart, the rows of a spare in a document are of one request and of different lines of it, and the rows of a save under way and the lines it has left come to what was asked |
| `WorkshopProofs!SavesAreAsAsked` | `WorkshopSpec => []SavedAsAsked` | `WorkshopInv`, below |
| `WorkshopProofs!ValidationHolds` | `WorkshopSpec => []ValidatedStaysValid` | the same |
| `WorkshopProofs!LedgerTellsTheStock` | `LedgerSpec => [](LedgerTypeOK /\ LedgerTellsHistory)` | `LedgerInv`, below |
| `WorkshopProofs!LoaderTypes` | `LoaderSpec => []LoaderTypeOK` | `LoaderInv`, below |
| `WorkshopProofs!EveryKeySettlesOnce` | `LoaderSpec => []BatchesSettle` | `LoaderInv`: the open batch is the scheduled one (`OneOpen`); the cache says where each key is, in the queue or among the keys of one batch that has closed (`Routed`); a batch that has begun was begun for a key (`Begun`); an answer is what the batch in the cache says (`Told`) |

`RequestOK` of the quotation says what the phases of a request know: an acceptance has read no stamp that is not
there and stands past a step only if that step is done; an ordinary write that came after acceptance had
started cannot have passed its lock, and none carries the status Aceptada. Without the first half
`MarkAccepted` could set Aceptada with no order request behind it; without the second a late ordinary write
could be past its check. Both halves are needed because the checks are made in one step and acted upon in
another.

`SavedAsAsked` is four claims, one a component, about statements that are not one transaction: between two of them the tables are
what nobody asked for, and what holds instead is that the statements still to come would bring them there. So each component's invariant says, of
each save in flight, what it has still to do: `StockQuiet` of the lines not yet written, `AskedInv` of a production's rows and
roster, `PlansQuiet` of the rows and of the crew and goods of the row at hand, `UsersQuiet` of the roles not yet deleted and created. The four ways the
code compares a form with its rows (by id, by spare, by employee, by role) each have their own lemma of what a save leaves.
`WorkshopInv` puts them side by side: the component that runs keeps its own invariant, the others are as they began, since
`WorkshopNext` moves one component of a behaviour and the others share nothing with it but the request slots.

`AuditInv` follows a mutation through its awaits. Before it has written all, nobody has heard of it (`Unheard`); from then on
its write is on record as whole (`TrailJob`). While no other mutation of the record has overlapped, the snapshot it holds from before shows
what its first write found, and the record still is what its last write left when the second is taken (`Tells`). What remains is a
fact about data, that no mutation of an entity with snapshots writes a table they leave out (`EntitiesPlain`): one
lemma an entity, over the tables of AuditedMutations.

`DeletionClean` is not inductive because a deletion counts one kind of document a statement: a document saved or repointed after its kind was
counted would be missed. That such a save is a rival is what the model has to get right; that nothing else can come between, a deletion of a document, a save of
another record's, a failure, is what the proof shows.

`StatementsReconcile` needs to know why two queries that join differently see the same rows: the summaries of own accounts add up transfers, the
statements add up receipts, the history starts from documents. `StatementsInv` is what makes these agree, and `RowsOfForm` where it could fail: a save of a transfer
keeps the rows its form names, drops the others and adds what is new, and what is then in force matches the form one to one (`FormIsSummed`).
From there it is arithmetic (`SumByParts`: what each document was paid adds up to what was paid). The run saves one request at a time; the proof does
not ask for that, so the statements of a delete may have any others between them.

`BatchesSettle` alone is not inductive: a key in the queue must be known to be in no batch that has closed, or closing would query it
again. `FreshIsNew` is where the model's numbering of batches is justified: batches begun map onto cached keys, so a key that is in no
batch leaves a number free.

`LedgerTellsHistory` compares a level computed now, by unwinding, with one noted at an earlier write. `LedgerInv` carries what joins them,
for each document d while writes have not overlapped (`Remembered`): if nothing that moved the stock when d was last written has been written since, it
still comes, with d, to the level noted; all of that was last edited no later than d, and all else that moves the stock now no
earlier. So what the reading lists above d is what d's level does not count, if no edits share a second. That rests in turn on stamps that never run back:
none is later than now (`Stamped`), nor than that of a save about to commit, which is stamped before it commits (`OneWriter`).

The proofs rest on the ASSUMEs of the modules (bounds and thresholds are natural numbers, request slots are finite in
number, the keys of a loader, the documents, the products and the resources too, `NULL`, `NoProc`, `NoId`, `NoRow` and the like are not ordinary values
(`ExpenseNames` among these assumptions), and the
names of the workshop's records are apart: `ProductionNames`, `PlanNames`; totals that are sent are integers: `SalesBounds`), which TLC evaluates in the runs, and on nothing else.
Three theorems have theirs as a hypothesis: `StatementsTell`, that amounts are positive, and no row and no date are not ordinary values (`StatementNames`);
`LedgerTellsTheStock`, the like of weights and documents (`LedgerNames`); `ListsTell`, that a page takes a row at least (`ListBounds`). `MCDocuments`, `MCWorkshop` and
`MCBooks` assume them of their instances, and TLC evaluates them there.

`PagesTell` speaks of a reader who is done; `PagesInv` of one who is half way. The obstacle is that a page is cut from one sorted list and the next
from another, and rows that tie come in any order. So the invariant does not mention a list: the `Place` of a row is how many rows may come before it, and
a row nobody has written and the reader has not seen has at least as many as the reader has read (`RowsAwaited`). A row that is written goes
to the front, or stays where it is, so no place shrinks (`WrittenKeepsOrder`); a page that is read shows all whose place it covers. In
the end no row has a place beyond the count, and the count is of the rows there are unless some came between the two statements of the last page. A reader whom
nobody disturbed has seen just the rows whose place it has passed, once each (`RowsSeen`).

`History` of the sessions is four facts about the table and its past. `OneFamily`: all that a renewal touches is of one family and one
user. `Stamped`: what has a successor has a stamp at most half a second from the instant it was spent. `RevokedForCause`: a revoked row
was spent by the renewal its stamp names, unless it has expired or its family has ended. `Succeeded`: a family that has not ended keeps
an unrevoked row no older than any row of it that has not expired. None of them is inductive alone: that a presented token is no thief's
follows from what its stamp says, which rests on who could have revoked it, which rests on the successor that
the spending left behind. `TableStep` is what makes the proofs short: of all the actions, seven things can happen to the table.

`QuantitiesNested` is not inductive: it says nothing of the saves that have validated and not yet written. `StillFits` says, of each, what it
needs when it writes. Of a sale: what the others have sold and its own form are no more than was ordered, and what came back of it no more than
its form. Of an order request: its form covers what is sold, and every row there is is one it has seen. Of a return it has to be said line by
line, since it writes them in any order, one statement each, and may fail after any: each line still to be written fits under the sale
beside the other returns, and the active row of its item is one the save will replace. A step of another request leaves all that true
(`SparedStillFit`) because whoever could disturb it would be a rival; the one pair of requests that write the same sale and are not rivals, a
sale's deletion and the deletion of a return on it, is spelled out in `Apart`. That an id is given once (`TInv`) is needed throughout: a
row that two saves could write would be counted under both.

`SummariesAddUp` speaks of states in which nobody writes; in between it is false, since a document's total and its lines are written by
different statements. `Exact` says of sales where it is: the net total of a live sale is its subtotal less what came back unless a return on it is
writing, the subtotal is that of its lines if it was computed and unless the sale is being deleted, and what a request has read in order to store a total is still what there
is. `ExpensesExact` has the opposite order to follow, as an expense's header is stored first, with the subtotal of lines that are not there yet: it is that of
the lines the save is done with (`Settled`) and of those still in its form (`Foresees`). This holds only if every line of the form that names
a row still has it, which is what `revived` excepts: a form that names a removed line updates it without bringing it back. A generation stores each
copy with its lines in one transaction, so a copy adds up from the start. The summaries
of order requests leave canceled sales out, and then count a part of what `QuantitiesNested` bounds. `ReportsSpec` is, like the run's
specification, of one component at a time: the two share no table.

`Sums` is what the proofs about stored totals and quantities needed. The library sums by a recursion over the subsets of a finite domain, and its
induction theorems take an operator as a parameter. So the induction is done by hand: if some subset were a counterexample there
would be a smallest (`SmallestSubset`), and one element less of it is not one. First that the recursion has a solution at all
(`SumsExist`), then that a sum is an integer, that any element can be taken out of it first (`SumTakesOut`), that it may be renamed
(`SumRenamed`), that zeros may be left out (`SumWithoutZeros`), that the sum over a set is that over a part of it and that over the rest (`SumOfParts`),
and that it may be taken by groups (`SumByParts`).

The totals are proved of overlapping requests wherever that is true: `SavesSettleTotals` and `SavesBalance` ask
only that the one save's snapshot is current, whoever else is in flight. `TotalsSettle` asks more, and the run `transfers_overlap_finding` shows that
it must.

Only model-checked, and why:

- `EveryRequestAnswered`, liveness under fairness, and anything that needs ENABLED: out of the prover's reach.
- `ProductionReportsReconcile`: sums again, within reach of `Sums`, but of rates, which divide; the next in the plan.
- The type invariants of `books`, `documents` and `workshop`, which are properties of components put side by side by one run: those of
  ActivityAudit, AccountStatements, InventoryLedger, PagedLists, OrderSales, Expenses, QuotationAcceptance and BatchLoader are proved of the component; of the others the proofs carry as much as they need.

## Where code and claims part

Five runs end in a counterexample that the code takes. Each checks one sentence of the repository.

1. **A code can be redeemed twice** (`mfa.service.ts:115`). The update that consumes it does not ask whether it is still unconsumed, so
   two verifications that overlap both open a session. The comment above it and a test say once.
2. **A challenge begun before a reset passes the forced change** (`mfa.service.ts:124`). verifyMfaCode calls createSession
   without the fork that `login.service.ts:198` says it funnels through.
3. **Overlapping saves leave a stale total** (`transfers.service.ts:741`). The aggregate inside the transaction does not see the
   receipts another save commits meanwhile. `SaveSettlesTotals` shows the remedy: saving again repairs it.
4. **An acceptance can become impossible to finish** (`order-quotations.service.ts:886`). A free line may be linked to a product another
   line already has; the acceptance writes the catalog, then the order request is refused for ever, and the started
   acceptance has locked the quotation.
5. **The opening balance of a statement is gross** (`accounts.service.ts:1266`). The history of the statement counts a sale net of its
   returns; the balance carried forward sums what was invoiced, so moving the first day of the period moves the final balance.

Met while modelling and not made findings.

*Sessions and sign-in.* The expired branch stamps a token that was already spent again (`refresh-token.service.ts:289`), so a spent
token that expires within its window can be presented after it and is answered "expired" where it would have been theft; no
pair is issued. resetUserPassword publishes no activity.

*Sales and quotations.* The comment at `order-quotations.service.ts:1832` still calls acceptance
non-transactional by design, while lines 1875-1905 commit each step with its stamp; an ordinary write that
passed its check before an acceptance began lands during it (`UndisturbedAcceptance` says what holds
otherwise); two overlapping saves of one account can repeat a product in its catalog (`RepeatsNeedOverlap` says
that nothing else can); the weight of a group is not compared by acceptance (`order-quotations.service.ts:904`).

*Documents and the workshop.* Where no sentence of the repository claims otherwise: rival sales
exceed their order request; two generations at once copy a month twice; nothing checks that a form of a spare operation names a spare once, and the table
has no unique key, so one save that repeats a spare stores it twice, as two overlapping saves do, and no later save that keeps the spare
repairs it: each row gets the full quantity; `user_roles` has no unique key either, and one save that repeats a role, or two that overlap, leave it
twice, until one without it removes both; the totals of a sale that a client sends are stored as they are, whatever its
lines come to; a form that names a removed line or employee does not bring it back in an expense and on a roster, and does in a
sale and in a plan; an account with quotations can be deleted; the rows a production run consumed stay active
after the run is deleted; a save without a transaction answers an error after writing part.

*Reports and lists.* `updated_at` keeps whole seconds and rounds them half up, so a movement may fall on either side of an instant given
in milliseconds (`product-inventory-movements.service.ts:45`); the summary of transfers counts dropped receipts and canceled
expenses (`transfers-summary.service.ts:73`); the material balance by week takes the number of a week without its ISO year; the
expenses' list leaves out the last day of its period, as no other does; the transfers' filter by folio matches receipts that were
dropped; the employees' filters, put in one OR, widen one another.

## What is not modelled

- **Left out of modelled parts**: the scalar edits of an order request (updateOrderRequestDetails), which write columns no guard reads; codes, dates, priorities, receipt-type rules, which only refuse; rounding of money and tax; the rule about root
  accounts; the resource catalog of an account, saved as its product catalog is; transfers between own accounts; machine sections and
  categories; titles and the wording of snapshots.
- **Payroll periods and entries**: four short operations; the calculated fields are floating-point formulas over one row.
- **User configuration**: one row per user with a unique key, which a race of two first reads makes one of them fail.
- **Memory tokens and the trace buffer**: a token is signed and valid whoever stores it last; the buffer belongs to one rotation.
- **Guards and access tokens**: stateless checks of one request.
- **Reads of every service**: of the reports the sums are modelled, and of the lists the pages; their grouping and labels, the text
  filters and the other reads are not.
- **Mail, Prisma and wiring**: I/O; a mail or a query that fails is an outcome of the models.
- **Seeder, migrations and scripts**: run by hand.

About half of the lines under `src/` are entity and input classes, field resolvers and reads, paging and sorting, snapshots, tests, migrations and the
seeder, which have no behaviour to model; the map covers the operations that change state, at the lines that decide and write.
`PROJECT.json` lists each part with its files and its status.
