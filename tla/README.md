# gomer in TLA+

A model of the parts of gomer.ai where order, concurrency and failure decide
whether money, permissions and other people's work come out right. gomer.ai
("Gaspo" in Slack) is a NestJS backend for a multi-tenant AI coworker: members
of a Slack team talk to it, it runs tools against Meta Ads, Google Sheets and
other apps, builds small web apps (Spaces) for them, works by schedule, and is
paid in the workspace's credits. Paths below are relative to `src/src/` of the
repository.

Everything here was written from the code. Where the code's own comments, or
its documentation, promise something else, a run shows the difference
([Findings](#4-findings)).

## 1. Inventory

Every component keeps its state in PostgreSQL (TypeORM repositories) unless
said otherwise. Handlers are `async` functions: each `await` of a repository,
Redis or an HTTP service is a point where other requests of the same process,
and of other instances of it, run. Only `applyRenewal`, the creation of a space
with its records and (TypeORM's default) the migrations run in a transaction; no code takes a lock;
`save` writes a row that was read earlier, so two overlapping requests may undo
each other.

| Component | State | Operations that change it | What makes it hard | What makes it correct | Module |
|---|---|---|---|---|---|
| Credit ledger, `usage/` | grants, events, allocations (append-only) | `grantCredits`, `recordEvent` -> `allocate`, `grantOnboardingCredits` | read, plan and save are separate calls; expiry by clock; crash between event and allocations | allocations never exceed a grant; the books add up; expired credits are gone; drain order | `Credits`, `SpendPlan`, `CreditLedger` |
| Its reports | - | - | parallel queries over moving tables; windows cut to days | the parts of a report are of one whole | `Reports` |
| Its migration | old and new tables | `up`, `down` | a backfill over windows of rows, ties, debts | no balance moves | `Redenomination` |
| Billing webhook, `billing/billing.service.ts` | none of its own | checkout completed, invoice paid, subscription updated / deleted | Stripe delivers at least once, unordered, concurrently; 5xx means retry | a payment is credited exactly once; what is acknowledged has had its effect | `Billing` |
| Subscriptions, `billing/subscriptions.service.ts` | one row per workspace | `syncFromStripe`, `applyRenewal`, `markStatus` | events in any order; rollover at the period's boundary; a transaction that loses a race | a renewal is all or nothing; unspent credits roll over; the mirror converges | `Billing` |
| A run, `ai/ai.service.ts` | none; a key in Redis that throttles the nudge | gate, provider loop, tools, metering, low-balance nudge | errors, truncation and retries in the loop; the gate's balance is stale when the run is metered | metered for every answer; nothing changed without consent; one nudge per window | `Assistant` |
| Attached apps, tool router | a record per thread in Redis | `merge`, branch seeding, eviction | reads and writes of overlapping turns; Redis or the router away | what was attached stays | `Attached` |
| MCP bridge | a cache of tool lists | listing, dealing, naming, narrowing | names cut to a limit; a capped pool shared by apps | a name goes back to its own tool; no app starves another | `Toolset` |
| Slack approvals | a record in Redis per token, with a TTL | `storePending`, `attachMessageTs`, Approve, Cancel | two clicks, expiry, a timestamp patched in after the post, lost answers | one decision per card, only the requester spends money, the card shows what happened | `Approvals` |
| Slack events | the last event ids, in memory; turns | a message, a mention, a join | redelivery after a restart or to another instance; overlapping messages of a thread | a message is one turn and is answered once | `Conversation` |
| Workspace memory | facts by key | `remember`, `forget` | runs that write one key; a bounded prompt | the table says what the tools answered; the newest fact is told | `Memory` |
| Scheduled tasks | rows with a due time | ticks; create, edit, pause, delete, run now, check-in | overlapping ticks of two instances; a stale row saved after a long run | runs when wanted, keeps edits, runs at all | `Tasks` |
| Ad rules | rules, the history of their actions | ticks; create, pause, delete | a cap counted before and recorded during the loop; a crash between a change and its record | the daily cap holds; the audit tells the truth; no change without the owner's leave | `Rules` |
| Scheduled exports | rows with a watermark; spreadsheets | ticks; create, pause, delete, run now | a row cap, a watermark, a write that half lands | every row once | `Exports` |
| Monitoring | one row per anomaly and day | the sweep | the row is the lock between instances; a crash before the post | each anomaly is told once | `Monitoring` |
| Integrations: Meta | a row with tokens | connect, refresh, edit, disconnect | two refreshes of one token, rotation, saves of stale rows | a usable connection stays usable | `Connections` |
| Integrations: Pipedream apps | a row here, an account there | connect, confirm, edit, disconnect | two stores and no transaction; who shares a bucket | private stays private; disconnected is gone | `AppAccounts` |
| Auth, users, workspaces, invites | users, roles, refresh tokens, workspaces | sign in, refresh, role change, deactivate, upsert, invite | read-check-write on the last administrator; roles that travel in tokens; two installs at once | always an administrator; decisions stand; authority ends; one trial | `Accounts` |
| Spaces and their sign-in | specs, pages, page state, records, links, members | edit, save state, record operations, request and verify a link | lost updates; a link used twice | work is kept; a link signs in once | `Spaces` |
| Seeding of Spaces | records that point at records | create, add records, replace a spec | references by name, resolved against a stale read | rows point where the assistant meant | `Seeding` |
| Rate limiting | a counter in Redis | `INCR`, then `EXPIRE` | a failure between the two | the limit holds, every window ends | `RateLimit` |
| Super-admin panel, bug reports | bug reports | filing, triage | pages sorted by aggregates with NULLs, several queries per view; two triages | the panel shows the platform; closed means stamped | `Panel`, `BugReports` |
| Skills, plans, third-party clients, administration, wiring | snippets, constants | install, uninstall | - | - | - |

How they interact: Slack events and the schedulers call `AiService.run`, which
asks the ledger for a balance (the gate), attaches apps through the
integrations, executes tools and meters the run through
`UsageService.recordEvent`. The Stripe webhook reaches the ledger through
`grantCredits` (top-ups) and through the transaction of `applyRenewal`; an
install through `grantOnboardingCredits`. A gated Meta write goes from
`AiService.run` to a Slack card, and back through the interaction handler to
`AiService.executeMetaAdsAction`. Rules write the history that exports read.

The hazards, each at its line, are in `PROJECT.json` under `hazards`.

## 2. Modules

```
Credits            vocabulary, drain order, planAllocations (what it returns)
  SpendPlan        planAllocations as the loop it is            AgentProofs
  CreditLedger     grants, runs, metering, balance, expiry      CreditLedgerProofs
    Billing        Stripe and the webhook, on the same ledger   BillingProofs
PaymentCredits     abstract: money becomes credits exactly once   ^ refined by Billing
Redenomination  Reports                                         AgentProofs
Approvals          Slack cards, tokens, clicks                  ApprovalsProofs
Scheduling         servers that tick, a clock, requests
  Rules                                                         ApprovalsProofs
  Tasks  Exports  Monitoring                                    SchedulersProofs
Assistant  Memory  RateLimit                                    AgentProofs
Selection          Array.filter, by position
  Attached  Toolset                                             AgentProofs
Accounts           people, roles, tokens, the trial             AccountsProofs
Spaces  Seeding  Connections  AppAccounts  Conversation         PlatformProofs
BugReports  Panel                                               PlatformProofs
Sums               what holds of every finite sum, proved
```

`MCCreditLedger`, `MCBilling` and `MCApprovals` give the constants of one
component their values. `MCAgent`, `MCAutomation`, `MCPlatform` and
`MCLiveness` put several components on one instance; each `.cfg` is one run.

**Sums.** Components that share nothing a property reads are composed as a sum
and not as a product: a variable `focus`, chosen in `Init`, says which of them
a behaviour follows, and what is not followed stays as it started. The
components that do interact are composed for real: `Billing` runs on the ledger
of `CreditLedger`, and the four schedulers on the servers and clock of
`Scheduling`, of which each server ticks for each of them independently, as
each scheduler class guards its own tick.
Type invariants and the properties named after a sum (`LedgerAddsUp`,
`CapsHold`, `FactsStand`, `SpacesKeepWork`, `ConnectionsHold`,
`SuperAdminTellsTheTruth`) speak of the component that is followed; each is the
conjunction, by component, of properties stated in that component's module.

**Races.** Much of this code is safe only while two requests do not overlap on
one row. A property of such a component says exactly when: a history variable
(`overtaken`, `contested`, `disputed`, `troubled`, `raced`, `miscounted`,
`outdated`, `upset`, `slipped`, `loose`, `torn`, `crossed`, `forgotten`) becomes
true on the step that is out of date, never earlier, and the property holds for
everything it does not mark. So the model has the race, the property says what
survives it, and where the repository promises that the race cannot happen a
violation run shows it: `NoOverdraw` beside `OverdrawNeedsOvertaking`,
`ExecutesAtMostOnce` beside `UncontestedDecidedOnce`, `NeverLockedOut` beside
`LockOutNeedsOverlap`, `LinkRedeemedOnce` beside `LinkUsedUp`. Where no such
promise is made (events remembered by one process, saves that fail), the
exemption is the property's limit and its comment says so.

**Faults.** Several operators have a neighbour whose comment begins with
*Fault*: the same step with a plausible bug in it (a filter forgotten, an index
missing). The specifications never use them. `PROJECT.json` pairs each checked
property with such a fault that breaks it under the same configuration.

### Credits and SpendPlan

`planAllocations` splits a charge over grants in the order rollover, plan,
top-up, reward, oldest first. `SpendPlan` has its local variables and one
action per way through an iteration (`Draw`, `Skip`); `break` and the end of
the loop disable both. `Credits!planAllocations` is the same rule as a
definition: the sequence of values of `outstanding` is pinned down by its
equations instead of a recursive operator, so that the modules above can be
proved about. The invariant `LedgerPlanIsLoop` says the two agree.

### CreditLedger

One workspace (every query filters on `workspaceId`). `grants` is the table in
`createdAt` order; `allocated[r]` are the allocation rows of run `r`'s event,
`charge[r]` the event's `creditsUsed`, and `spent[g]` the aggregate the queries
compute. A run is a process with a program counter, one step per call it
awaits:

| Action | Code |
|---|---|
| `Admit`, `Refuse` | the gate of `AiService.run` reads the balance |
| `EndUnmetered` | no tokens, an escaping provider error, or the event's save failed |
| `RecordEvent` | `recordEvent` saves the event |
| `ReadLiveGrants` | `allocate` -> `liveGrantsForSpending`; the run keeps a snapshot |
| `SaveAllocations` | the plan is made from the snapshot and its rows are saved |
| `LoseRun` | crash, or `allocate` throws and `recordUsage` swallows it |
| `GrantCredits`, `Tick` | `grantCredits`; the database clock |

`overtaken`: some run saved a plan made from a snapshot that another run's save
had outdated. The super-admin panel's row of the workspace is computed from the
same tables and compared in `Reconciles`.

### Redenomination

`up` and `down` of the migration that made the ledger what it is. The backfill
is the SQL's window function as a sum over the older grants of the same
workspace. It is reverted before anything is metered in the new unit: `down`
divides integers and drops what the new buckets know.

### PaymentCredits and Billing

`PaymentCredits` is the promise: a payment is made, then credited, once.
`Billing` extends the ledger with three parts: Stripe (external: its
subscription objects and the events it has emitted), the webhook's handlers
(one program counter per request in flight; `Deliver` may pick any emitted
event at any time, again too, so loss, duplication and reordering need no
actions of their own), and the local `subscription` row. `FailHandler` kills a
request anywhere. A transaction is one step; the unique indexes are
`InsertUnique`. The refinement maps `paid` to the references of events that
represent money and `credited` to the number of grants naming each reference.

### Assistant, Attached, Toolset

`Assistant` is the loop of `AiService.run`: `Respond` is one answer of the
provider (an end, tool calls, a pause, a truncation), `DropConnectors` the
retry without MCP servers, `RunTool` one tool call under the confirmation the
surface offers, `Throw` an error out of the loop, `RecordUsage` the metering,
`Nudge` the low-balance hint behind a `SET NX`. `Attached` has the turns of a
thread and of the thread it branches off to, over one record each in Redis.
`Toolset` is the bridge: list (cached or live), deal round robin under a cap,
name under a length limit, narrow by the router. The k-th name `exposedName`
tries is a function of the first one and k (`Tried`), and one of the first
`Cardinality(taken) + 2` is free, which `ExposedIsFree` proves.

### Approvals

A card is one gated write. Its poster (`storePending`, `chat.postMessage`, then
`attachMessageTs` as a GET and a SET), the TTL, and each click are processes;
a click is a GET (`Lookup`), the requester check (`Reject`), a DEL (`Cancel`,
`Approve`), the `chat.update` (`ShowCancelled`, `ShowApproved`) and, for an
approval, the write (`Execute`). Posts may be shown although their answer is
lost; `chat.update` is best effort; anything may die between two calls.
`contested`: a DEL found the record already gone, or the SET brought a deleted
one back.

### Scheduling, Tasks, Rules, Exports, Monitoring

Two servers tick. A tick reads the due rows and keeps the copies it read; each
copy is then run and saved whole, so an edit made meanwhile is undone. `Tasks`
has `Execute`, `Finish` and `SaveFails` per copy; `Rules` measures breaches,
counts what was used in the last day, and then applies and records one change
after the other; Meta may apply one and its answer be lost (`ApplyUnheard`),
which is recorded as a failure, and a rule that is deleted takes its history
with it, by the foreign key's cascade; `Exports` builds a window, writes it and saves the watermark,
with time in halves of a millisecond (`Resolution = 2`) because the database
keeps microseconds and the process does not; `Monitoring` inserts a row per
anomaly and posts what it inserted, and takes any error of the insert for a
row that is there (`RecordFails`). A crash drops a server's copies.

### Accounts, Spaces, Seeding

`Accounts`: people, calls in flight (find, decide, save), the tokens handed
out. `intended` is what administrators decided about a person: by a role
change, an activation, a deactivation, an invitation, and by the first
appearance of a person; signing in or writing again decides nothing. `raced`:
a row was saved over another save of the same row; `miscounted`: of two
requests that each took an administrator away, both had counted the other.
`Spaces`: a document or spec is the set of changes in it, page state
the set of keys saved (`savePageState` is one JSONB statement in SQL, the other
writes are read and save). `Seeding`: specs are validated, seeded rows are
checked against the spec a call read first, names resolved to ids against the
rows it read next (`AddRecords`, `ReadTargets`), and inserted, while users add,
edit and delete rows and the spec is replaced. A row keeps what it was called
at any time (`had`), and a deleted one stays in the sequence with `there` false,
so that ids are positions.

### Connections, AppAccounts

`Connections`: tokens are numbered as Meta issues them; `accepted` is what Meta
still takes. A connect may bring a refresh token or none, and overwrites the
row's either way (`bare` are the accounts whose last connect brought none). A
run that needs an expired token refreshes it and saves the row it read; a
refresh that fails, and a save that fails after one that did not (`SaveFails`),
save it deactivated. `AppAccounts`: an account is in
the bucket of the workspace or of a member at Pipedream, and a row here; a run
gets the buckets its visible rows name.

### Conversation, Memory, RateLimit

`Conversation`: deliveries to instances that remember the ids they saw,
history, run, storage of both turns in the threads a message belongs to, then
the pending write and its card or the plain answer, the card's stamp, and the
reaction. What throws on the way goes to the apology (`Throws`, `SaySorry`), also after a card
that was posted and could not be stamped (`unstamped`). `Memory`: `remember` as its find and its save (which reads the row
again by its id, then inserts it or updates the columns that differ),
`forget`, and the prompt under its budget. `RateLimit`: the two Redis commands,
an `INCR` that was carried out and not answered (`AnswerLost`), and a guard that
lets requests through when Redis fails.

### Reports, Panel, BugReports

A view is a set of queries; each sees the tables when it is run and events
happen between them. `Reports` is the usage report; `Panel` the super-admin's
list (sorted by a column or an aggregate, NULLs and ties included, paged),
overview and growth; `BugReports` filing and triage (`save` reloads the row
and writes the columns that differ).

## 3. Runs

| Run | Instance | Asks |
|---|---|---|
| `agent` | **ledger**: 2 runs, costs 1 and 3, 3 grants (one expiring), clock 1..3. **plan**: every list of up to 3 grants with 0..2 credits in any bucket, charges -1..5. **migration**: every 3 grants of 1 or 2 credits, 2 workspaces, ties, 0..4 used. **approvals**: 1 card, requester and another member, 3 clicks. **assistant**: 2 runs, one with buttons, 2 turns, 1 truncated retry. **attached**: 3 turns of 2 threads, one branching, an app of 3 actions. **toolset**: 2 apps whose names collide. **report**: 2 events, 1 task, days of 2 instants. **rules**: 1 rule, 2 servers, cap 2 per run and 3 per day. **memory**: 2 runs, 2 keys, 3 writes. **limit**: 5 requests against a limit of 2 | do the credits add up, are the changes agreed to, capped and recorded, and do tools, memory and report say what is there |
| `automation` | **exports**: 1 export, 2 servers, a request, rows at half milliseconds, a limit of 2 rows per run. **monitoring**: 2 accounts, 2 servers, days with and without sales. **billing**: 1 top-up session, 1 subscription, 2 periods, 2 versions, 2 handlers, 1 failure | is a row exported once, an anomaly told once, a renewal credited once, whole, and before it is acknowledged |
| `platform` | 2 people, calls, callers, handlers each; **accounts**: 2 decisions, 2 tokens, a failure; **spaces**: 1 space, 1 record, 1 link, 2 changes, 2 e-mail addresses; **connections**: 1 connection, 3 tokens; **conversation**: 2 messages, 2 deliveries, a memory of 1 id; **apps**: 2 accounts; **seeding**: 3 specs, 6 batches, 3 rows; **panel**: 2 workspaces, pages of 1; **bugs**: 1 report, 2 triages | do decisions, work, connections and conversations survive one another, and does the panel show them |
| `liveness` | **tasks**: 1 task, 2 servers, 1 request, periods 1 and 2, clock 1..3, a crash, an edit. **webhooks**: a top-up and a subscription of 1 period and 2 versions, 1 handler, 1 failure | does a task run only when wanted, keep its owner's wishes, and run; is each payment credited exactly once in the end |
| `ledger_overdraw`, `rollover_lost`, `mirror_reordered`, `second_subscription`, `approvals_twice`, `export_history`, `lock_out`, `link_twice` | one component each | one violated promise each, see [Findings](#4-findings) |

Why the bounds suffice to meet the hazards: two processes are what a race
needs, and one failure puts a crash at any step with a retry after it.

- *Ledger, billing.* A cost of 3 against grants of 2 and 1 makes a run drain
  one grant and cross into the next; three clock values let a grant expire
  before, between and after a read and its save. Two periods give one boundary,
  the only place where a rollover happens; two versions are the least with an
  old and a new event. Five seats against four free ones give each renewal all
  three grants.
- *Approvals.* Three clicks allow two approvals against one cancel. Cards do
  not interact (each has a token of its own); the theorems cover any number.
- *Rules.* A cap of 3 with 2 a run makes the second run of a day stop half way
  and a third one find nothing left; `Day = 3` of 4 instants lets the window
  roll.
- *Exports.* A limit of 2 rows with up to 3 rows waiting cuts a backlog; half
  milliseconds give a row whose time a date holds and one whose time it does
  not.
- *Assistant.* A turn that calls tools and one that ends are what the loop
  distinguishes; a truncated answer and its retry are two turns as well.
- *Toolset, Attached.* Names of two characters, two of which become equal when
  cut; three candidates for a pool of four and a cap of three; two actions per
  app and three in use, so that the ceiling is met.
  `SERVER_ROUTE_THRESHOLD = 0` sends the one app of the instance through the
  router, as the program does from the second app on.
- *Panel.* Pages of one row, two workspaces one of which may never have run
  anything, team sizes bucketed at 0, 1 and 2, `TOP = 2` in the report: the
  program's bounds scaled to tables of this size.
- *Seeding.* A batch that names its own rows, one that names a stored row, one
  with no such row, a spec replaced under them, and a row that a user renames
  before, between or after the steps of the call that points at it.

Each bound on a counter is a named constant (`MaxGrants`, `MaxTime`,
`MaxPeriod`, `MaxVersion`, `MaxFailures`, `MaxClock`, `MaxCrashes`, `MaxEdits`,
`MaxTokens`, `MaxDecisions`, `MaxIssued`, `MaxDeliveries`, `MaxFaults`,
`MaxStored`, `MaxWrites`, `MaxUsed`, `MaxTurns`, `MaxWindows`, `MaxLosses`,
`MaxStamps`, `MaxMoment`, `MaxInstant`, `MaxCopies`, ...). State constraints cut three runs; a
state they cut off is still checked, and only not continued. In `platform`:

- `MCUnraced`, `MCUndisturbed` and `MCCurrent` do not follow `Accounts` beyond an
  overlap of two saves or counts, `Connections` beyond the first thing that
  upsets the account, `Spaces` beyond the second thing saved out of date: the
  properties say nothing of what comes after (of what was touched).
- `MCSettled` does not follow `AppAccounts` beyond a disputed save or a second
  moved account.
- `MCFewTroubles` takes two decisions of administrators only where no request
  died.
- `MCRemembered` stops once every message was forgotten, and has a run that
  proposes a write only while the other handler is idle.
- `MCOneTouched` lets users type, edit or delete one row of a Space, and edit
  it once.
- `MCModest` bounds the sum of the panel's two teams by 3.

In `automation`, `MCFewPayments` follows the top-up, or a charge that starts no
period, only beside the first version of the subscription. In `agent`,
`MCNoneSlipped` does not follow `Memory` beyond an update over a row that
another write changed after the save had read it. The theorems of section 5
have none of these cuts.

Deadlock checking is off throughout: the systems modelled may come to rest
(all runs over, all events delivered, all clicks handled). Symmetry is used in
safety runs only, over runs (the ledger's in `agent`), servers, handlers,
people and calls; components of one sum share the elements of these sets so
that one symmetry serves all. With one handler `liveness` asks about
loss, order and retry; two handlers racing are the business of `automation` and
of the theorems.

### Fairness

Two specifications assume any. `FairBillingSpec`: a request that was started
makes progress (weak fairness of `HandlerStep`: Node runs its continuations),
and Stripe retries an event that was not acknowledged with 2xx (strong fairness
of `Retry`, per event; strong because the cap on handlers belongs to the model:
other deliveries may occupy them again and again, and Stripe's schedule does
not wait for a particular moment). `MCLiveness` assumes less, `WebhookFairness`: as
long as there are invoices to retry one of them is, and so for the other
events, which follows from the fairness of each and gives TLC four cases to
look at instead of one for every subset of events. Nothing forces Stripe to create events,
customers to pay, or the clock to advance, and `MaxFailures` bounds crashes, as
a retry against a server that dies every time proves nothing. `TasksSpec`: weak
fairness of `TaskServerStep` for each server, that is of starting a tick when
something is due (`@Cron` fires every minute and `finally` clears the guard
against overlap), of running the next copy and of finishing it (a run of the
assistant is at most six calls of the provider, assumed to answer or to fail).
A failing save and a crash are not part of it: they may happen and need not.

## 4. Findings

Each is a run that must violate its property; the quoted lines are in
`PROJECT.json`.

1. **`ledger_overdraw`**: two runs read the live grants before either saves;
   both spend the same credits and the grant goes below zero, which
   `getBalance` then hides by clamping. (`usage.service.ts:414`)
2. **`rollover_lost`**: unspent plan credits are those not yet expired, but the
   plan grant expires when its period ends, and the next invoice is paid at
   that moment or later: nothing rolls over. (`subscriptions.service.ts:258`)
3. **`mirror_reordered`**: events are applied as they arrive; a late update
   revives a cancelled subscription, or brings an old period end back.
   (`subscriptions.service.ts:128`)
4. **`second_subscription`**: a workspace that subscribes a second time (also
   after a cancellation) never gets a row for it, and its paid invoices are
   answered 503 until Stripe gives up. (`billing.service.ts:136`)
5. **`approvals_twice`**: GET and DEL of the approval token are two calls, and
   the count DEL returns is not looked at, so a double click can execute twice.
   (`slack-interactions.service.ts:146`)
6. **`export_history`**: the watermark of an export is cut to milliseconds and
   the rows it is compared with are not, so each run appends the newest row of
   the run before again. (`exports.service.ts:247`)
7. **`lock_out`**: `setActive` and `updateRole` count the other administrators
   and save afterwards; two administrators who demote or deactivate each other
   both count one, and the workspace has none left. The documentation says it
   can never lock itself out. (`users.service.ts:197`)
8. **`link_twice`**: a sign-in link is read, compared and then marked used; two
   requests that read it before either marks it are both given a session,
   although it is called single-use. (`spaces-auth.service.ts:141`)

These differences from a comment or a document have no run of their own; the
properties leave room for them and say so:

- `recordEvent` says its event and allocations are written together, and a
  failure between them leaves the event alone: `LoseRun` has it, and
  `PaysWhatItCan` says what holds for all other runs.
- The migration says no workspace loses or gains value: one that had overdrawn
  has its debt forgiven, which `BalancesSurvive` states.
- The user guide says that deactivating someone removes their access and that
  they cannot renew (`docs/user-guide.md:291`, `297`), but `upsertFromSlack`
  switches on whoever signs in through Slack (`users/users.service.ts:243`): a
  deactivated member who signs in again is a member again. `Provisioned` has
  it, and `DecisionsStand` therefore promises a person's activity only to those
  the administrators left on.
- `topTasks` says the per-task figures add up to the total
  (`usage/usage.service.ts:712`), but its `where()` (line 720) replaces the
  window's conditions, so the table covers all time, and a deleted task's spend
  leaves it. `TopTasks` of `Reports` has it, and `ReportAddsUp` leaves that table
  out.
- A refresh of a Meta token that succeeds and cannot be saved switches the
  account off, although only a connection that "can no longer be refreshed"
  should drop out (`integrations/integrations.service.ts:643`), and a reconnect
  answered without a refresh token erases the stored one (line 466):
  `ConnectionSurvives` exempts the first as `upset` and says of the second
  (`bare`) that there is none.

## 5. Proofs

TLAPS checks the following for every value of the constants: any number of
runs, grants, people, servers, rows and messages, and all their interleavings.
Every invariant and action property that a passing run checks is a theorem;
what runs alone show is liveness, and that promises are broken.

### The ledger and what feeds it

| Theorem | Says | Inductive invariant, and why it is needed |
|---|---|---|
| `SpendPlanTypeOK`, `SpendPlanWithinRemaining`, `SpendPlanOrder`, `SpendPlanShortfall`, `SpendPlanPromises` | the planner's types (a negative charge never makes `outstanding` negative), no grant overpays, drain order, shortfall only when drained | `LoopInv`: positions not reached have paid nothing and, while something is outstanding, positions passed are empty. Without the second, "empty when skipped" cannot be carried past an iteration. |
| `SpendPlanAccounts` | the loop computes `planAllocations`, and what it takes and what stays outstanding are the charge | what the promises say fixes the plan: equations over positions with one solution (`PromisesFixThePlan`); the sum grows by what an iteration takes |
| `LedgerTypes`, `LedgerOverdraw`, `LedgerExpiry` | types (a snapshot never holds a negative remainder), no overdraw without an overtaken save, expired credits are not drawn | `LedgerInv`: snapshots name granted rows, planned snapshots were live when read, ids not granted yet have nothing spent |
| `LedgerReconciles`, `LedgerBalanceClimbs` | a run whose plan was saved paid its cost or all there was; granted = left + paid, in the balance and in the panel's row; the balance rises by grants only | `LedgerSums`: what each run has paid, by its program counter, and that allocation rows summed by run are the same rows summed by grant (`DrawnIsSpent`). A plan pays the charge or everything (`PlanPays`, from `TakenInOrder`) |
| `MigrationKeepsBalances` | `up` and `down` keep each balance, a debt aside | `MigrationInv`: once up, every figure is a multiple of `FACTOR` and the balances are those of before times it (`Redenominates`), so that `down` divides without loss; that the backfill spends of a workspace's grants what it had used is `TakenInOrder` again |
| `BillingAcked` | an acknowledged payment has its grant | `DeliveryInv`: a handler about to answer 2xx leaves the grant behind, and a handler past its dispatch is on the path of its event's type; the table only grows |
| `BillingKeepsPromise` | the webhook implements `PaymentCredits`: a payment is credited at most once and only if it was made | `PromiseInv`: a handler on its way to an insert holds an event Stripe emitted for money, and such an event names a payment. Each step then maps to `Pay`, to `Credit` or to a stutter: an insert under the unique index adds exactly one row with that reference to a table that had none |
| `RenewalsAreWhole`, `NoSecondBonus` | where every team is above the free seats there is one bonus for each plan allowance and at most one rollover; for any team, never more of either than allowances | `WholeInv`: the counts of the three buckets move together, since one insert brings one plan grant and at most one of the others, by the seats the handler still holds |
| `BillingTypes` | every row that is inserted is a proper grant | `BillingTyped`: a handler holds an event of its kind with its fields; the size of a rollover is a sum of remainders, which lies between 0 and what was granted |
| `ReportsAddUp`, `ReportsTypes` | a bar for each day; bars, kinds and spenders add up to the total unless the table changed between the queries | `ReportsInv`: every answer had so far is of the table as it is, unless it is torn (`AnswersAreCurrent`); a sum over events is the sum over the classes any column divides them into |

### The assistant

| Theorem | Says | Inductive invariant, and why it is needed |
|---|---|---|
| `AssistantTypes`, `ConsentComesFirst`, `MeteredForAll`, `OneNudgeAWindow` | types; consent; a run is metered for every answer; one nudge per window | `AssistantInv`: until the record is made the accumulator holds what was paid and nothing is recorded (`Metering`); while the key is free it counts as a nudge not shown yet (`NudgeBudget`) |
| `AttachedTypes`, `AttachedStays` | a record has each action of an app once and no more than the ceiling; nothing in it goes but by the ceiling, unless a turn was overtaken or Redis lost it | `AttachedInv`: a record, also one in a turn's hands, lists without repetition, so the union with another list has all of the first and its tail is as long as the ceiling or is the union (`MergedKeeps`) |
| `ToolsetTypes`, `ToolsetIsRouted` | names and tools go together one to one, no name is too long; until the router narrows no app is behind another by two | `ToolsetInv`: what was dealt of an app is the front of its list (`FromTheFront`), so the next tool is new; each app has had the number of tools of its round or all it has (`RoundsOK`), so every prefix of the list is even (`EvenOK`), whatever a cap leaves; the numbered names differ, so among more names than tools one is free |
| `ApprovalsTypes`, `ApprovalsSingleUse`, `ApprovalsByRequester`, `ApprovalsShown` | types, one decision per uncontested card, only the requester's approval runs, the card is honest | `ApprovalsInv`: on an uncontested card a record that is there has not been consumed, nobody clicked before the record was stored, and a click's program counter says what it has done |
| `FactsStay` | the table of facts says what the tools last answered, unless a save met another row than the one it had read | `MemoryInv`: a save holds a key, a value and, once it has read again, the row it found under the same id (`RememberingInv`), so an insert or an update leaves the value it was given |
| `NewestPrompted` | the prompt keeps its budget and has the latest statement if it fits at all | `TimesAreOwned`: rows of two keys, also those in a save's hands, are never of one time, so there is one latest and the order of the query puts it first |
| `LimitTypes`, `WindowsEnd` | a window admits the first `LIMIT` requests it counts and ends | `LimitInv`: those admitted and the one about to set the expiry are together what the counter says, up to the limit; two disjoint sets of requests, so that one more of either counts once (`WindowAddsUp`) |

### What runs by schedule

| Theorem | Says | Inductive invariant, and why it is needed |
|---|---|---|
| `TasksTypes`, `OnlyWantedRuns`, `WishesStand` | types; a run under way is of an active, due row and the only one for its time; a row says what its owner asked | `TasksInv`: an uncontested row has one copy at most and the copy equals it (`CopiesAreRows`), a tick's copies are due and stay due (`HandsAreSound`), the count of runs says whether one is under way (`FiredWhileRunning`) |
| `AlertsHaveOneTeller` | an alert is posted, or about to be, by exactly one sweep | `MonitoringInv`: the row, the sweep that inserted it and the post account for one another (`OneTeller`), which a cardinality over servers alone does not carry through an insert |
| `NothingIsSkipped` | a stream's sheet has every row up to the watermark, and those a date can hold once | `ExportsInv`: the sheet is complete up to the watermark (`Sound`) and the rows a run has read are the next ones after it, without a gap, although rows are written meanwhile (`IsNext`) |
| `OnlyAuthorisedChanges` | a change without a human is of a rule that is there, active, autonomous and wanted so | `RulesInv`: a change is made on a copy; an undisputed rule has one copy at most, equal to the row (`CopiesAreRules`), and the row is as its owner left it (`RuleWishesStand`) |
| `AuditIsTrue`, `DailyCapKept`, `RulesTypes` | the history tells of no change that was not made, and that of an undisputed rule, as long as there is one, of every one but that about to be recorded; a rule keeps its cap in every window of a day | `RulesCounted`: at most one tick is between a change and its record (`ToldWasMade`, `MadeIsTold`), and nothing is told of a rule that is gone (`NothingToldOfNone`); what a tick may still do and what the window has seen are together within the cap, although the window slides under it (`RoomLeft`) |

### Members, Spaces, connections, owners

| Theorem | Says | Inductive invariant, and why it is needed |
|---|---|---|
| `AccountsTypes`, `NoLockOut`, `DecisionsAreKept`, `AuthorityFollowsRow`, `TrialIsOnce` | types; from its first administrator on a workspace has one unless two requests counted each other or saved over each other; a decided role stands, and so does the activity of those left on; a young token says what the table says; one trial | `AccountsInv`. A request acts on a row it read two awaits ago, so the invariant says what it knows: about to save a row nobody touched since, it changes role or activity, not both, and if it takes an administrator away there is another, or it has been marked since its count (`SaverKnows`); about to issue tokens, its row is the table's (`IssuerKnows`); exactly one request is granting a trial that is due (`OneGrantsTrial`) |
| `WorkStays`, `LinksAreSingleUse` | ticks, pages, specs and records stay unless a save was out of date; a link issues one session unless two requests had read it unused, and is spent once it has | `SpacesInv`: an up-to-date request finds the thing as it read it (`UpToDate`), pages and apps do not become each other under it (`KindsStay`), and for a link that means no session was issued and nobody else is about to issue one, while a link with a session, issued or under way, is spent (`LinksAreSound`) |
| `LinksFollowNames` | a seeded record nobody edited points at one of the entity it meant which bore the name, of its own call if that wrote one | `SeedingInv`: a row's name is never a reference, so linking does not change it, and what a call or an edit read of the rows is what they once were (`CallInv`), although rows are renamed and deleted and the spec replaced between its steps |
| `ConnectionsSurvive` | a connection left active keeps a refresh token Meta accepts, or none if its last connect brought none, or somebody is about to save one | `ConnectionsInv`: the row is as it was left (`AsLeft`), or a request has a replacement in hand, and what an up-to-date request is about to save makes it so (`AccountSound`, `Brings`); a rotation alone breaks the plain statement |
| `PrivateAccounts`, `DisconnectionsEnd` | private stays private; disconnected is gone | `AppsInv`: a row, also one that a request is about to save, names the bucket the account is in, or the account is revoked (`RowsFit`); an account revoked is about to lose its row, or has lost it and every request that read it is out of date (`GoneForGood`) |
| `MessagesAreOneTurn` | a message is answered once or given one apology, both only about a card that could not be stamped; recorded once a side, and not in its own history | `ConversationInv`: what is already posted and in the threads and what its one handler has yet to do add up to one (`OneTurn`, `Answered`, `StillToDo`) |
| `PanelIsTrue` | no workspace is twice on a page; unless the tables moved the page is sorted and the first one leaves out nothing larger; the headlines fit each other; the chart shows all that was spent | `PanelInv`: the rows the page's query chose are the front of an order of the workspaces by the figures of that moment, which are still those of now unless something was written (`PageInv`); figures answered earlier were true then and tables only grow (`OverviewInv`, `GrowthInv`) |
| `ClosedMeansStamped` | a report is stamped exactly while closed | `BugsInv`: the copies triages hold agree with themselves, and a save of a copy over the row it was read from writes the copy (`CopiesAgree`) |

### The sums

`CreditsAddUp`, `CapsAreKept`, `FactsStandFor` (of `MCAgent`),
`SpacesHoldWork`, `ConnectionsStand`, `OwnersReadTheTruth` (of `MCPlatform`)
and the types `AgentTypes`, `AutomationTypes`, `PlatformTypes` state what the
runs of the sums check, about the specifications the runs check. A step of a
sum is a step of one component and leaves the others alone, so a behaviour of
the sum is one of each component and its theorems apply (`PartsOfTheAgent`);
where a component has no initial state of its own while it is not followed, as
the planner and the migration, its invariant is kept under that condition
(`FollowedParts`).

### Induction without induction rules

The rules of the library take a predicate as a parameter, which no backend here
can instantiate. `Sums` does without: the naturals and the finite subsets of a
set are well founded, so a set of counterexamples has a least member (`WFMin`),
and "least" is a first-order fact. From that come, for the `SumFunctionOnSet`
of the community modules: a sum without one summand, of disjoint parts, by
classes, of functions that differ in one place, below another sum; that a strict
order on a finite set has a last member; and what is taken from an ordered
collection until a charge is met (`TakenInOrder`). The lists of `Selection` are
got the same way (`AscendingIs`).

### Assumptions

Charges are integers and inputs are lists of grants (`SpendPlan`), costs are
positive (`creditsFor` rounds up to at least 1), grants have at least one
credit, references are sessions and invoices and differ from NULL, plan and
pack sizes are positive, a card's requester is a member, the values for "no
row", "nobody" and "no call" are none of the rows, ids and calls they stand
beside (`NoRowAssumption`, `TasksAssumption`, `RuleRowAssumption`,
`ExportRowAssumption`, `NoSpaceRowAssumption`, `NoConnectionAssumption`,
`BucketsAssumption`, `NoBugAssumption`, `NoFactAssumption`,
`ConversationAssumption`, `CallsAssumption`).

Whatever is counted or summed over is finite: runs (`RunsAssumption`), rate
limited requests, keys, servers, callers, workspaces, actions. An MCP
server is listed once in a run and names each of its tools differently, and the
name made of app and tool is cut to the limit before anything is added to it
(`SurfacesAssumption`, and `NamesAssumption` for the slice at the head of
`exposedName`). Periods, caps, limits and the bounds of the
model are numbers, positive where the program's constant is
(`CountsAssumption`, `RedenominationAssumption`, `TableAssumption`,
`PanelAssumption`, `SeedingAssumption`, `SpacesAssumption`, `CapsAssumption`,
`ActionsAssumption`). All are `ASSUME`d by name in the module that declares the
constants and evaluated by TLC.

`RenewalsAreWhole` has a hypothesis of its own, `SeatBonusIsEarned` (every
possible team earns a bonus), as `RenewalIsAtomic` compares bonuses with
allowances one to one; `NoSecondBonus` is the part that needs no hypothesis.

A property was model-checked before it was proved, and where TLC can evaluate
it so was the invariant that carries it. One proof found an error in the model
that the run could not: `Exposed` looked for a free name among one too few, and
an instance with more collisions would have had none.

### Only model-checked

- Liveness: `PaymentsAreCredited` and `DueTasksRun`. TLAPS has no rule for
  fairness; what is proved of `TasksSpec` and `BillingSpec` uses their safety
  part only.
- That the promises of the findings are broken: a counterexample is TLC's to
  find.

## 6. Not modelled

In the modelled parts: signature verification; the creation of checkout and
portal sessions (they keep no state); `cancelAtPeriodEnd`; more than one plan,
and a plan removed from the list, whose renewal `applyRenewal` acknowledges
without a credit (`subscriptions.service.ts:160-166`), as the webhook does with
sessions and subscriptions whose metadata is missing and invoices that name no
subscription (`billing.service.ts:314-319`, `363-369`, `399-402`): the code
writes plan and metadata into the objects it creates, so the Stripe of the
model never lacks them; payment methods that confirm later than the
checkout (the webhook ignores `checkout.session.async_payment_succeeded`, so
such a payment is never credited: the model has the unpaid completion and not
the later event); how a metric or an anomaly is measured; `updateSettings`,
`updateLastActive`, `exportNow`, `workspaceDetail`; the wording and layout of
messages; what a Meta write does, beyond whether it happened. Stripe, Slack,
Meta, Pipedream, Redis and the database are modelled from how the code uses
them: a Redis command, an SQL statement or a transaction is atomic.

The components with status `not_modelled` in `PROJECT.json` have nothing to
check: price lists, HTTP clients and translation, a catalogue of snippets,
a workspace's administration page, which repeats the queries of `Reports`,
and wiring.

## 7. What could follow

1. An abstract "used at most once", refined by sign-in links and by approval
   tokens, where the code keeps it.
2. The dashboard's cache of app tools and `workspaceDetail`.
3. `rollover_lost` and `ledger_overdraw` fixed in the code: a renewal that
   expires what it replaces, an allocation under a row lock. The corresponding
   guards (`overtaken`, the clock) could then be dropped from the properties.
