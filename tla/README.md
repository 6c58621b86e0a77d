# WealthHabit: specifications

WealthHabit is a personal-finance application: a React client, an Express server
and a PostgreSQL database reached through Prisma. The server keeps no state of
its own between requests (with one exception, the table of bank syncs in
flight), so its correctness is a matter of what concurrent HTTP requests do to
shared rows. These specifications model that. Each request is split at its
database statements, and PostgreSQL is modelled as the server uses it. The
client keeps copies of what the server has: a session in each tab, and the rows a
page shows. These are modelled at its requests, whose answers come in any order or
not at all.

Contents: [Inventory](#inventory) · [How requests are modelled](#how-requests-are-modelled) ·
[How pages are modelled](#how-pages-are-modelled) · [Modules](#modules) · [Runs](#runs) · [Disagreements found](#disagreements-found) ·
[Proofs](#proofs) · [Abstractions](#abstractions) · [Not modelled](#not-modelled) ·
[Plan](#plan) · [Running the checks](#running-the-checks)

## Inventory

Paths are relative to `src/server/src` unless they start with another directory.

| Component | State | Operations | What makes it correct |
|---|---|---|---|
| Sessions (`services/prismaAuthService.ts`, `controllers/authController.ts`) | `sessions` rows: owner, token hash, parent, family, `revokedAt`, `expiresAt` | login, refresh (find, detect reuse, rotate), logout, logout everywhere | a token is spent once; a family never forks; a revocation is complete |
| Auth tokens (`services/authTokenService.ts`) | `auth_tokens` rows of three types | create, supersede, consume | a link or challenge works once, and only the newest |
| Password reset (`services/passwordResetService.ts`) | reset tokens, `users.passwordHash`, sessions | request, use | cooldown; only an active account; old sessions end |
| Email verification (`services/emailVerificationService.ts`) | verification tokens, `users.emailVerifiedAt` | first link at registration, resend, verify | "consumed" and "verified" agree |
| Two-factor authentication (`services/mfaService.ts`, `services/totp.ts`) | `user_mfa`, recovery codes, challenge tokens, sessions | setup, enable, disable, regenerate codes, login by TOTP or recovery code | codes and challenges are spent once; a change ends what came before it |
| Administration (`services/adminUserService.ts`, `services/auditLogService.ts`) | `users.role`, `users.status`, `audit_logs` | change status, change role | an active administrator remains; the audit log is true |
| Bank connections and syncs (`services/prismaFinancialConnectionService.ts`, `services/prismaFinancialSyncService.ts`, `controllers/financialConnectionController.ts`, `providers/financialData`) | connections, accounts, imported transactions, a Map of syncs in flight | connect, reconnect, disconnect, sync | a provider row is imported once; a dismissed row stays away |
| Transactions, categories and rules (`services/prismaTransactionService.ts`, `services/prismaCategoryService.ts`, `services/prismaTransactionCategoryRuleService.ts`, `controllers/importedTransactionController.ts`, `controllers/transactionCategorizationController.ts`, `services/categorization`) | transactions, categories, merchant rules | create, edit, delete, recategorise one or many, remember a rule | the type of a transaction is that of its category |
| Recurring transactions (`services/prismaRecurringTransactionService.ts`, `utils/recurrence.ts`) | rules with a cursor, generated rows | create, edit, delete, generate | every due date gets one row |
| Bills and subscriptions (`services/prismaBillService.ts`, `services/prismaSubscriptionService.ts`) | next due or renewal date | create, edit, pay, renew, delete | each payment advances one period |
| Savings goals (`services/prismaGoalService.ts`) | goals, contributions, derived status | create, edit, delete, contribute | the status follows the amounts |
| Budgets (`services/prismaBudgetService.ts`) | budgets, one allocation each | create, edit, delete | the allocation follows the amount, also when edits overlap |
| Habits (`services/prismaHabitService.ts`, `utils/habitPeriod.ts`, `utils/habitStreak.ts`) | habits, completions | create, edit, delete, complete, uncomplete | one completion per period; derived numbers agree |
| Challenges (`services/prismaChallengeService.ts`, `utils/challengeProgress.ts`) | challenges, requirements, participants, mappings | create, edit, delete, join, leave, map, progress | progress is what the completions say |
| Notifications (`services/prismaNotificationService.ts`) | notifications with a deduplication key | generate, read, delete | one reminder for each event |
| Wealth (`services/prismaAssetLiabilityService.ts`, `services/prismaWealthSnapshotService.ts`, `services/prismaWealthAnalyticsService.ts`) | assets, liabilities, one snapshot a day | edit, capture | a snapshot is one state of the rows |
| Dashboard, reports, admin queries | none | read | – |
| Middleware, rate limits | counters in memory | per request | – |
| Process lifecycle (`lifecycle.ts`) | shutdown flag, exit code, timers | start, signal, drain, force | exits once, always |
| Client session (`src/client/src/services/api.ts`, `context/AuthProvider.tsx`) | access token, user, cookie, refresh in flight | request, retry, refresh, renewal, login, logout | token and user name one account; a cookie is spent once |
| Client pages (`src/client/src/pages`, `components/financial`) | rows, filters, flags, errors, open dialogs | load, filter, open, save, delete, act on a row | what is shown is what the server has; a dialog gets its own answers |

How they interact. Every component hangs on `users` and the cascades of
`src/server/prisma/schema.prisma`. Sessions are ended by administration, by
password reset and by two-factor authentication, each inside its own
transaction. The three flows with links or challenges share the rows and
statements of `auth_tokens`. Imports, generation and manual entry all insert
transactions. Challenges read the completions of habits, reminders the dates of
bills, subscriptions and rules. The client drives the session routes, and reloads a
page after each change it makes. Nothing runs in the background: generation and
reminders are requests too.

What is hard. There is no serializability: at READ COMMITTED every statement
sees another state, and an UPDATE that waited for a lock sees rows changed but
not rows inserted meanwhile. Some handlers read a row, decide, and write later.
Lock orders differ between handlers, so PostgreSQL may abort one. A process can
stop between any two statements. Derived numbers are computed from rows that
were stored under other settings. In the client nothing runs in parallel, but
every `await` lets other handlers run, most loads take whatever answer comes last,
and a handler goes on with the state it was started with. `PROJECT.json` lists each of these places with
its line.

## How requests are modelled

`Requests` is a set of requests that may be in flight at once; `pc[r]` is the
next statement of request `r`, `"idle"` when none is in flight. An action is one
statement with the code that runs before the next one. A request that was
answered is idle again, so the same identity serves any number of requests.

* **Reads outside a transaction** are actions, and what the handler keeps of
  them is a local variable of the request.
* **Writes in a transaction** take row locks (`rowLock`, `userLock`, `tokLock`,
  ...) when the statement runs and take effect in the committing action. Until
  then nobody sees them; a request that needs the row waits.
* **UPDATE ... WHERE over several rows** is two actions: a snapshot collects the
  rows that match, and the update applies once none of them is locked, to those
  that still match. A row inserted in between is missed, as in PostgreSQL.
* **Conditional updates** (`updateMany ... count`) check the predicate when the
  lock is granted.
* **Foreign keys** take the parent row `FOR KEY SHARE` (`keyShare`), which
  conflicts with `FOR UPDATE`.
* **Failures.** `Abort(r)` (or `Abandon`, `Rollback`) may happen at any
  statement: a crash, a timeout, a lost connection and an abort by the database
  look alike to the rows. Locks and uncommitted writes go. Where an action needs
  it, `DeadlockVictim` aborts a request in a cycle of waits.
* **Time** is an action of its own: a link or session expires, a cooldown
  passes, a day goes by, at any moment.

## How pages are modelled

Thirty-nine pages, tabs of pages and sections of dashboards share a small number of
ways to load, to disable controls and to close dialogs. `PageDesign` is the
vocabulary of these ways, `Screen` says how a page behaves that is described in it,
and `MoneyPages`, `PlanPages`, `AdminPages`, `BankPages` and `OverviewPages` describe
each page, handler by handler: which flag a load raises and lowers and whether it is
numbered; what a failure does to the rows and whether it is told; for every control
the flags that disable it; for every handler what it closes and whether it awaits a
reload, starts one, steps back a page or fetches a detail; for every dialog what the
Escape key and its buttons require.

* **The server** is the set of changes it has made. A load takes the ones made when
  it is served, and may be answered later, in any order, or fail. A change may be
  refused, or made and its answer lost.
* **`amiss`** records why rows may differ from the server's (an answer out of order,
  a load with an old query, a failure nobody is told, a failure of an older load, a
  lost answer), and **`astray`** what an answer did to a dialog it was not for. The
  properties in `ClientPages` say that nothing is wrong without such a cause, and
  name the pages where each can happen: on all others it cannot.
* Left out: the user leaving the page (React drops what comes then), changes by
  others, supporting loads (currency, categories, sync summaries), messages, the
  selection of imported rows and the export of reports. While a dialog is open the
  page behind it takes no clicks, except that a search typed before may be sent.
  Double effects of StrictMode are left out. The refresh of the budgets on the
  dashboard counts as always offered.

`ClientSession` is one tab with the sessions its cookie can name. An access token is
the account it was issued for and may expire at any time. Signing in and its answer
are one step. When token and user may disagree, for a cause recorded in `crossed`,
nothing new begins before the page is reloaded.

## Modules

| Module | Models | State | Actions |
|---|---|---|---|
| `RefreshSessions` | sessions | `rowState`, `parent`, `family`, `expired`, `status`, locks | one per statement of login, refresh, logout, logout everywhere, status change, password reset |
| `AuthTokens` | the statements on `auth_tokens` that the flows share | `tstate`, `recent`, `expired`, `superseded`, locks | `LockForIssue`, `CheckCooldown`, `SupersedeApply`, `IssueCommit`, `Present`, `Consume`, ... |
| `SingleUseLink` | abstract: what emailed links promise | `link` | `Issue`, `Apply`, `Refuse` |
| `PasswordReset` | `passwordResetService.ts` over `AuthTokens` | and `status`, `applied` | request, owner lock, refusal, commit, status change |
| `EmailVerification` | `emailVerificationService.ts` over `AuthTokens` | and `registered`, `verified`, `stamps` | register, first link, resend, verify |
| `MfaLogin` | `mfaService.ts`, `mfaController.ts` over `AuthTokens` | `mfa`, `secret`, recovery codes, sessions | setup, enable, disable, regenerate, both logins, rotation |
| `AdminGuard` | `adminUserService.ts` | `role`, `status`, `audit`, the advisory lock | submit, lock, read, check, count, refuse, write |
| `BankSync` | connections and syncs | `connection`, `account`, `linked`, `unlinked`, `syncLocks`, locks | one per await of sync, connect, reconnect, disconnect |
| `Calendar`, `RecurringRules` | dates and their recurrences; rules and their generation | the rule, `rows`, locals | read, insert, move cursor, edits, delete, next day |
| `Obligations` | `prismaBillService.ts`, `prismaSubscriptionService.ts` | the row, what requests read, `reach` | read, edit, pay or renew, delete |
| `Categorization` | pure: `services/categorization` | – | – |
| `Categories` | categories, learned rules, categorised transactions | `category`, `tx`, `rule`, locals | start and write of each request, the upsert of a rule, deletions |
| `WealthSnapshot` | `prismaWealthSnapshotService.ts` | totals, snapshots, locals | sum, sum, insert or find, commit, change, midnight |
| `Budgets` | `prismaBudgetService.ts` | budget, allocations, `lock`, what requests have looked for and written, `raced` | create, one per statement of an update, delete |
| `Reminders` | `prismaNotificationService.ts` | the row reminded of, `notices`, locals | collect, insert, read, delete, change, midnight |
| `SavingsGoals` | goals | goal, `amount`, `lock` | submit, lock, sum, commit, delete |
| `HabitPeriods` | pure: anchors, eligible periods, runs | – | – |
| `Challenges` | habits and challenges | `habit`, `done`, `challenge`, `joined`, `mapped` | complete, uncomplete, edits, deletions, join, leave, map, next day |
| `Lifecycle` | `lifecycle.ts` | `startup`, `server`, `busy`, `exitCode`, `forceTimer`, `disconnect`, `exited` | events, start-up check, drain, force, finish |
| `ClientSession` | `services/api.ts`, `context/AuthProvider.tsx` | cookie, token, user, refresh, tasks | 401, refresh and its answers, renewal, login, logout, reload, other tabs |
| `PageDesign`, `Screen` | the ways of pages; a page that has them | `ui`, `loads`, `calls`, `fetches`, the server's changes | load, answer, filter, open, close, start, commit, refuse, continue |
| `MoneyPages`, `PlanPages`, `AdminPages`, `BankPages`, `OverviewPages` | the pages under `src/client/src/pages` and panels of `components/financial` | – | – |
| `ClientDesign`, `ClientPages` | the table of all pages; what holds of them | – | – |
| `Concurrency` | `Requests` and `None`, shared by the smaller modules | – | – |
| `BankData` | constants: what a provider reports and the ids of its rows | – | – |
| `SessionsProofs`, `LiveProofs`, `RecordsProofs` | theorems about the parts of the `MC` module of that name | – | – |
| `EmailVerificationProofs`, `MfaLoginProofs`, `BankSyncProofs`, `SavingsGoalsProofs`, `CalendarProofs` | theorems about the module of that name | – | – |
| `MC*` | instances for TLC | | |

Composition: `PasswordReset`, `EmailVerification` and `MfaLogin` extend
`AuthTokens`, `Categories` extends `Categorization`; `RecurringRules` and
`Obligations` extend `Calendar`; `PasswordReset` instantiates `SingleUseLink` with a
mapping of its state. Three MC modules put components side by side, because they
share no state: `MCSessions` (the rows of sessions, a tab), `MCLive` (both types of
link, the process, the pages) and `MCRecords` (administration, rules, goals, habits,
bank connections, bills and subscriptions, categories, wealth, budgets, reminders).
A behaviour of these exercises one part, chosen in the initial state. They extend
one component and instantiate the others, those with a proof module by that module, so
that its theorems hold of the instance; `SessionsProofs`, `LiveProofs` and
`RecordsProofs` extend them, so that run and theorem speak of the same formula. `ClientDesign` is extended by `MCLive` rather
than instantiated: TLC then evaluates the table once.

## Runs

| Run | Instance | What it shows |
|---|---|---|
| `refresh_sessions` | 1 account, 3 sessions, 2 requests, 1 guarded revocation; a tab with 2 accounts, 2 tasks, 3 sessions | `SingleSuccessor`, `OneLivePerFamily`, `GuardedRevocationComplete`, `RotatedWhileLive`; every request is answered (`RequestsFinish`); for the tab `TabAgrees`: token and user name one account, a request goes out again for the account it was made for, no cookie is presented twice |
| `links_and_process` | 3 links of each type, 2 requests; 2 requests in progress; 39 pages with 2 rows, 2 queries, 2 handlers, 4 requests | `OneUnusedLink`, `CooldownHolds`, `OnlyActiveIsReset`, the refinement `KeepsPromise`, `RequestsFinish`; for verification links `VerifiedOnceByItsLink`; for the process `ExitCodeIsHonest`, `ShutdownFinishes`; for the pages `RowsAreFresh`, `SpinnerIsHonest`, `DialogsAreOwn` |
| `mfa_login` | 2 challenges, requests, secrets, code pages and sessions; at most 3 secrets and sessions together | `SpentOnce`, `OnlyNewestPage`, `NothingOutlivesChange`, `SetupIsCurrent` |
| `records` | 2 accounts, 2 requests, 3 changes; rules, bills and subscriptions over 5 days in 3 months with 1 edit and 2 payments; 2 contributions; habits over 4 days with 1 edit; a bank with 1 account, 2 rows (one without an id), 3 requests, 3 ids; 1 category, 1 transaction, 2 rules, 2 requests; 2 days of snapshots and reminders; 2 amounts and categories of a budget | `AdminRemains`, `AuditExplains`; `CursorKeepsSchedule`; `StatusFollowsAmounts`, `IntentIsExplicit`; `ProgressFollowsHistory`; `AccountsMatchConnection`, `SyncsImportOnce`, `StaysDismissed`; `DueDateFollowsPayments`; `TypesAgreeUnlessRaced`, `RulesAreLearned`; `SnapshotsAreMoments`; `BudgetsAgree`; `RemindersAreKept` |
| `refresh_reuse_claim`, `email_links`, `mfa_cycle`, `mfa_performer`, `bank_siblings`, `habit_rate`, `challenge_progress`, `rule_edit` | small | a claim of the repository that the code does not keep, see below |

**Why the bounds are enough.** The hazards are races of two requests, and each
needs few objects. Two requests over three sessions give a login, a rotation and
a second rotation racing a revocation, and the deadlock between a rotation
(session, then account) and a guarded revocation (account, then sessions). Three
links are one used, one superseded and one new. Two requests suffice for
verification links because registration, a resend and two uses are four
different requests, of which no more than two need to overlap for a violation.
`mfa_login` allows either two set-ups and one session or one set-up and two
sessions in a behaviour: the properties about secrets need no second session,
those about sessions no second secret. For banks the third request is a
disconnect or reconnect between two syncs. A rule, or a bill, needs a month, a
shorter one after it and the next, and an edit; a habit two periods of length 2
inside four days. Remembering a choice twice at once needs two requests, one
merchant and two ids of rules; a snapshot two totals that change between two sums.
A page needs a first load, an operation, and two loads that overtake each other, for
two rows and two queries; a tab a refresh that is answered after a logout and the
login of somebody else, that is two tasks, two accounts and the sessions of each.
What matters most is proved for every size.

**Bounds in the model.** `MaxCuts`, `MaxChanges`, `MaxEdits`, `MaxDay`,
`MaxRuleDay`, `MaxPayments`, `MaxAsked`, `MaxBusy`, `MaxRows`, `MaxSessions`,
`MaxRequests`, `Slots` and the finite sets of ids. A request that needs a
new id starts only while one is left for it (`IdsLeft`, `TokensLeft`,
`SessionsLeft`), so no bound blocks a request half-way where liveness is checked; `MaxRows`,
`MaxSessions` and `MaxRequests` stop behaviours anywhere and bound parts without.

**Deadlock checking** is on for `refresh_sessions`, `links_and_process` and
`email_links`; the rest of a server without ids, of a process that has exited and of a
page without loads are steps of their own (`AtRest`), so that every other standstill
is reported. It is off elsewhere because a bounded instance comes to rest when its
ids, changes or days are used up, or everything is deleted; that no request waits for
ever is `RequestsFinish` where it is checked.

**Fairness.** `SF(Continue(r))` for each request: Node keeps running a request
whose next statement can run, and PostgreSQL grants a lock to its waiters in the
order they came, so others may overtake but not for ever. `WF(DeadlockVictim)`:
the deadlock detector runs after `deadlock_timeout`. `WF(forceShutdown)` and
`WF(finish)`: a timer that is set fires, and the disconnect is bounded by one.
Nothing is assumed of clients, of crashes or of the clock; the properties of pages and
tabs are invariants of every behaviour, whether requests are answered or not.

**Symmetry** is used only without liveness, over sets no action compares or
orders; in `records` over requests. There the ids of a bank's account rows are
numbers, and the least unused ones are taken (`LeastFirst`): which of several fresh
ids a row gets makes no difference.

Every property has a mutant in `PROJECT.json`: a definition of the model changed
as a plausible bug would change the code, under which TLC finds the property
violated. The mutated operators stand before the definition, marked `Faulty` or `Mutant`.

## Disagreements found

1. **A reported reuse can leave a live token** (`refresh_reuse_claim`).
   `revokeTokenFamily` is one UPDATE; a successor inserted by a rotation that has
   not committed is invisible to it.
2. **Two live verification links** (`email_links`). The first link supersedes
   nothing, so a resend before it leaves two.
3. **A lock cycle** (`mfa_cycle`). `lockUserRow`'s comment says the lock adds no
   ordering cycle. A login locks a challenge and then, for the foreign key of its
   session, the account; a change locks them the other way round.
4. **The performer may lose its session** (`mfa_performer`). The session to keep
   is looked up before the transaction; a refresh in between replaces it.
5. **A row imported twice** (`bank_siblings`). The single-flight guard is per
   account, the import is per connection; a row committed by a sibling and
   unlinked in between is seen by neither the read nor the unique constraint.
6. **Rows rated instead of periods** (`habit_rate`). After a habit changes from
   daily to weekly, the rows of one week count once each.
7. **A completion inside the window that does not count** (`challenge_progress`).
   A weekly completion carries the Monday of its week; if the challenge starts on
   Wednesday, that day is outside the window, while the week is eligible. The
   challenge cannot be completed.
8. **An occurrence skipped after an edit** (`rule_edit`). The compare-and-swap of a
   generation compares the cursor only. A monthly rule of the 31st has its cursor
   on the 28th of February; a generation reads it, the user makes that day the
   start date, and the generation moves the cursor to the 31st of March: the 28th
   is skipped. An edit of the frequency is missed in the same way.

The following have no run of their own. Those of the client are the exceptions that
`ClientPages` and `ClientSession` name: take a page out of a set there, and `MCLive`
shows the behaviour.

*Server.*

* A requirement with a target above one can never be met, since a habit stores one
  row per period (`utils/challengeProgress.ts:122`).
* The audit row of a challenge tells an activity that was read before its
  transaction (`services/prismaChallengeService.ts:188`).
* A signal during the start-up check does not keep the process from listening when
  the check passes (`lifecycle.ts:304`): the shutdown under way does not drain that
  server, and may exit with 0 while it answers requests (`CleanMeansDrained` excepts
  it).
* A comment of `categorizationEngine.ts:59` says that a default always exists. A
  category of the user's own with the name of a default and the other type shadows
  it, and then none does.
* `updateBill` sets the next due date whenever a due date is sent
  (`prismaBillService.ts:107`), also an unchanged one, where the comment at line 76
  says "dueDate changed"; the form of `Bills.tsx` always sends it. Editing the name
  of a bill that was paid ahead makes it due again.
* A row that a provider sends without an id is imported again after its bank was
  disconnected and connected anew: the hash it is told by contains the id of the
  account row (`prismaFinancialSyncService.ts:68`), which is another one then.
  `ImportedOnce` therefore counts such a row under each account row.
* A renewal that read a subscription before it was cancelled still moves the date of
  the cancelled one.
* A PATCH of a budget that gives a category alone has no column to write, so Prisma
  sends no UPDATE and the row is not locked (`prismaBudgetService.ts:126`). Beside an
  edit of the amount it may allocate the old one, or be missed by the edit; two of
  them may leave two allocations. `raced` in `Budgets` says exactly when: an update
  commits that has read or looked before another one committed. The next update that
  gives the category and meets no other repairs it. The form always sends the amount,
  so only other clients of the API meet this.
* An update that fails because another has just allocated the same category is
  answered with "A budget with this name already exists for this month"
  (`budgetController.ts:179`, read, not modelled): every P2002 is taken for the name.
* `normalizeMerchant` is not idempotent, and the rule page sends back what it
  returned: saving a rule without changing its merchant can change its key.

*Session of a tab* (`crossed`).

* A refresh for a 401 that is answered after the user logged out puts the token of
  the account that left back, also under the user who signed in meanwhile; one that
  fails logs that user out. A request of the first, answered 401 only then, is sent
  again as the second.
* A refresh takes the account of whatever cookie another tab has set. Two tabs that
  refresh at once present one cookie twice, and the server revokes the family.
* A logout whose request fails leaves the cookie, and a reload signs in again; one
  that races a refresh leaves the successor live and its cookie in the jar.
* `/auth/logout-all` is never retried after a refresh, since its URL contains
  `/auth/logout` (`services/api.ts`): with an expired token it fails.

*Pages* (`Excused`, `Stuck`, `Strays`).

* Only some pages number their loads. On the others an older answer may replace a
  newer one, and the failure of a load that was overtaken may hide an answer.
* Handlers reload with the filter they were started with, also on the numbered
  Habits page: when it changes meanwhile, the rows do not match it.
* Where a first load failed and a dialog creates the first row, the failure of the
  quiet reload after it is not told, and the page stays blank.
* The loading sign of Habits and of the dashboard's summary and budgets can stay for
  ever: a first load and a refresh raise different flags, and the one that is
  overtaken leaves its own.
* Most forms can be left with Escape or Cancel while they are saved. The late answer
  closes whatever form is open by then, and a form that is opened anew can be sent a
  second time; the one of Habits is never disabled.
* A panel of Goals or Habits may show the details of one row under the name of
  another; the panel of AdminUsers opens again when the answer comes after it was
  closed.

*Read, not modelled.* Deleting the last budget of the second page shows "No budgets
yet" (`Budgets.tsx`; `Transactions.tsx` steps back a page). `VerifyEmail.tsx` calls a
link dead when the network failed. The selection of imported rows survives a change
of page, but a bulk change takes those of the current page.

## Proofs

TLAPS checks the theorems for every value of the constants: any number of
requests, accounts, sessions, links, ids, rows, contributions, days and amounts. A
theorem about one component is about its `Spec`; where a run checks a property of a
composed specification (`BothSpec`, `LiveSpec`, `AnySpec`), the theorem is about that
one: a step of the composition is a step of one component or leaves it as it is. Each
proof finds an inductive invariant, shows that the initial states satisfy it and that
each action preserves it, one step for each action, and reads the property off it.

*Assumptions.* `None` is no element of the other sets (`NoneAssumption`,
`TokenAssumption`, `SessionAssumption`, `MfaAssumption`, `RequestsAssumption`,
`AccountsAssumption`), bounds and windows are natural numbers. `ChallengeAssumption`:
challenges of a login have no cooldown, since `mfaService.ts` passes none.
`SomethingAssumption`: the records that stand for something begun differ from `None`. `OneAccountAssumption`: the bank
of the run has one account. Only `OneAccountImportsOnce` rests on it, and it has to: with
two accounts a row can be imported twice (`bank_siblings`). `CategoryAssumption`: an id
names one category, and the keys are closed under normalisation, since the rule page
sends back the key it was shown. `CategoryRowAssumption`: no row is `None` or `Deleted`.
`SizeAssumption`, `RuleIdsAssumption`: words have lengths, and there are finitely many rules.
`ContributionAssumption`: finitely many contributions, of positive amounts.
`AskedAssumption`: what a request about categories keeps is not `None`.
`BodyAssumption`: a body about a rule has some of three fields, of their types.
`ScheduleAssumption`: the months given go on for two years after the last day, so that
no date that is computed is beyond them. `ChangeAssumption`: a body about a bill or a
subscription has some of four fields, of their types. The
proofs about pages rest
on the table only through `PageAssumption`, `TableAssumption`, `DialogAssumption` and
`FormAssumption` in `MCLive`: which pages number their requests, offer nothing while they
load, never load with an earlier query, tell every failure, or only show; and for the
forms, which controls wait for the flag that a submission raises, and which dialogs that
submission closes. No row is `None`. The table merges functions with
operators tlapm has no definition of, so these are facts about a constant that TLC
evaluates for all 39 pages. A row of the table changed against one of them fails the run
before its first state. TLC evaluates all assumptions.

* **`SessionsProofs`**, *rows of the server* (`RefreshSessions`): `TypeCorrectness`,
  `TokenSpentOnce`, `FamilyNeverForks`, `RevocationIsComplete`,
  `RotationSpendsLiveToken`. The properties are not inductive: that a token is spent
  once depends on who holds its lock between the conditional update and the commit.
  `RowLockInv` says a locked row is live and its holder is rotating it; `FreshInv`
  relates a row that is inserted but not committed to the locked parent;
  `UserLockInv` says that while an account is locked for a guarded revocation no row
  of it is being inserted (the foreign key needs the account row), which is why the
  revocation misses none; `LocalsInv` carries what a request read.
* **`SessionsProofs`**, *a tab* (`ClientSession`): `TabsAgree`, `BothTypesCorrect`.
  `RowsOK` is the forest of sessions: a family has one live row, and rows die but do
  not come back (`Keeps`, proved of every step first). `CookiesOK` says which cookie a
  tab may still present: the one in the jar or one a refresh in flight was sent with,
  and none of them spent unless another tab or a late answer interfered.
  `Agreement` is the property with what it needs while something is on its way: an
  answer that is to set token or user names the account they will name
  (`Settled`, `Beginning`).
* **`LiveProofs`**, *password reset*: `TypeCorrectness`, `OnlyNewestLinkWorks`,
  `CooldownEnforced`, `IneligibleIsNeverReset`, and `ImplementsPromise`: the rows
  and requests implement `SingleUseLink` under the mapping `link`. `UserLockInv`
  and `TokLockInv` say who holds which lock at which statement; `SnapshotInv`
  that the rows a supersession collected are all the unused ones; `RecentInv` and
  `AppliedInv` close the argument. Initial states map to initial states, and each
  commit maps to `Issue`, `Apply` or `Refuse`, every other step to a stutter.
* **`EmailVerificationProofs`**: `UsedLinkVerified`, `VerifiedOnce`, and in
  `LiveProofs` `LinksVerifyOnce`. Several requests may find the address unverified and
  only one may stamp it: `StampsInv` says that a request about to commit holds the
  account's row exactly if the address is unverified, `HolderInv` that nobody is late.
* **`LiveProofs`**, *the process*: `ExitsHonestly`. `CodeKept` says that the code kept is the gravest until the
  exit, `ClosingWaits` that while the server closes only the timer can have asked
  for the disconnect; `ExitExplained` keeps both for the exit.
* **`LiveProofs`**, *pages*: `PagesAreFresh`, `SpinnersAreHonest`, and with them
  `LivePartsTyped`. A page is quiet or not, and `Fresh` has to say what leads back to
  fresh rows from every state in between: unless a change is owed for (`Owing`) or
  something is amiss, either the newest load will bring what the server has, or that is
  shown and no load in flight can make it older unnoticed. This needs that all loads but
  the newest are overtaken (`Ordered`), that a load belongs to one handler that waits for
  it (`Awaited`), that on steady pages no newest load has an old query (`Queried`), that
  pages without handlers never differ (`Uncommitted`), that a page which offers nothing
  while it loads has one load at most (`Alone`), and that what is amiss is what the page
  is known for (`Reasons`). `Spinning` says which load a raised flag stands for, and
  `Sober` that a page which numbers its loads has neither dialogs nor handlers before it
  shows something. A step does one of four things to the loads (it leaves them, begins
  one, is answered, or changes the server: `Effect`), or ends one. Each action is shown
  once to be of one of these kinds, and each part of the invariant to survive each kind.
* **`LiveProofs`**, *dialogs*: `DialogsStayApart`. An answer knows only which dialogs its
  handler closes; that the one it finds open is still the one it was sent from rests on the
  flags alone. `Owned` says that a dialog belongs to a handler only while it is open and
  was offered it there. `Tight` says that, where forms cannot be left while they are
  saved, a handler in progress has its flag up and has it to itself, so whatever waits for
  that flag does not start (nothing goes twice). `Pent` says that until it is answered the
  handler keeps its dialog and nothing else that it closes is open, so its answer closes
  no other; it needs `OneOpen`, because a submission closes some kinds of dialog and
  another might be open. `Matched` says that what a dialog shows or fetches is of the row
  it is open for. `Tight` and `Pent` are claimed only of the pages where forms wait
  (`Strict`, `Firm`): where they do not, the property is excused, and the run shows why.
* **`MfaLoginProofs`**: `FactorsAreSpentOnce`, `OldPagesAreDead`, `ChangesEndSessions`,
  `CompletesCurrent`. Three layers, each proved with the one before. *Protocol*: what a
  request is at, what it presents and which locks it holds. *Held*: a locked challenge
  or code is unused and is its holder's from the consumption to the commit
  (`ChallengeLock`, `CodeLock`), and what opened a session is spent with it
  (`FundsAreSpent`). *Current*: what was read is still in force at the commit, although a
  login reads the account without a lock (`AnswersInForce`): whoever changes the set-up
  has to take the challenge the login holds, or finds its session
  (`SnapshotsComplete`, `InsertedIsCurrent`).
* **`BankSyncProofs`**: `NothingDangles`, `SyncsAreApart`, `DismissedStaysAway`,
  `OneAccountImportsOnce`, carried over to `AnySpec` in `RecordsProofs`. What a
  request has read of the accounts is stale as soon as another one commits. `Reads` says
  what of it is still true (which ids stand for which account), `Locks` which rows a
  request holds and nobody else can delete (`AccountsHeld`, `KeyShares`,
  `ReconnectCovers`), `Syncs` what a sync that gets to its commit writes.
* **`RecordsProofs`**, *administration*: `AdminTypeCorrect`, `AdminAlwaysRemains`,
  `AuditIsTruthful`. `Exclusive` (the advisory lock), `Current` (what was read
  under it is still true) and `Covered` (the count taken still stands when the
  row is written) make `AdminRemains` inductive.
* **`SavingsGoalsProofs`** and `RecordsProofs`: `GoalStatusIsRight`,
  `PauseIsRespected`. The sum a request read stays the sum while it holds the goal
  row (`SumIsCurrent`), since every change of a contribution takes that lock. What the
  sum of a function is does not matter to the argument, so none of its algebra is
  needed.
* **`RecordsProofs`**, *budgets*: `BudgetsAlwaysAgree`. `RowLock` says that every update
  that gives more than a category holds the row. `Informed` says what is still true for
  an update that has missed no commit: the amount it read is that of the row, because
  whoever changes it either waits for the lock or makes the update stale, and all
  allocations there are are among those it has looked for, because no other can add one
  unnoticed. What it commits is therefore all there is, and in full
  (`BudgetWritesInFull`), also after a race when it gives the category.
* **`RecordsProofs`**, *snapshots*: `SnapshotsAreOfOneMoment`. `SumsHeld` says that the
  sums of a request are those of a moment since it began, `DayIsFree` that a capture
  about to commit has the day to itself.
* **`RecordsProofs`**, *reminders*: `NothingIsMissed`. What a generation must tell is
  what there was reason for all the while; `Timely` and `Covering` follow that set through
  the reads, and `KeysCoverReason` says that no window ends a day too early.
* **`RecordsProofs`**, *categories*: `TypesAlwaysAgree`, `ChoicesAreRemembered`. A
  request writes what it compared with an earlier state. `Settled` says what of the
  comparison lasts: a category never changes its type and an id is never used again, so
  what was compared is the type of the category for as long as there is one.
  `CatPending` has it for everything a request is about to write, `References` the
  foreign keys. `CategorizeIsTyped` says that whichever tier decides, the engine returns
  a category it was given, of the type of its input. `Recalls` follows a choice that is
  to be remembered: unless the request is disturbed, its category and the rule it found
  are there. Which rule then decides rests on what the engine computes (`TaughtComesFirst`):
  inserting into an ordered list orders it and keeps its rules (`InsertedIs`), so sorting
  does (`SortedIs`, by induction along the list), and the first rule that applies is one
  that no other one comes before. The rule of a text's own key is the longest that can
  match, because a phrase is no longer than what it is found in, and a different phrase
  of the same length is not found in it (`PhraseFits`). That the key has one rule is an
  invariant of the table (`OneRulePerKey`), which the unique constraint keeps.

* **`CalendarProofs`**, *dates*: `NextOccurrence` and `AdvanceReachesNext`: whatever the lengths
  of the months, both ways of going on reach the first day of the schedule after a given
  day, and the schedule clamps a day that a month does not have. The months begin where
  a recursive function says (`FirstOf`). The library's induction theorems take an operator
  and cannot be used, but the days or months a claim holds of are a set, and every
  non-empty set of numbers has a least element (`LeastNumber`, from the library's
  well-founded induction): so induction is a lemma about sets (`Induction`), and with it
  `FirstOf` is shown to be the one function that its recursion describes (`FirstOfIs`),
  from which the months, years and days of the month follow.
* **`RecordsProofs`**, *recurring rules*: `CursorNeverSkips`. `DueIs` says what a
  generation collects by recursion: exactly the occurrences from its cursor to the day it
  looks at, by induction over the days that are left. `Reading` says that a generation
  between its statements has read a date that was due. A commit moves the cursor only if
  the row still has the cursor that was read, and then either the schedule is the one
  that was read, so that the rows are those of all dates passed (`CommitKeepsSchedule`),
  or it was edited meanwhile, which the property excuses and `rule_edit` shows.
* **`RecordsProofs`**, *bills and subscriptions*: `DueDatesFollow`. A due date is a place
  in the list of dates that payments account for (`reach`). `PaymentsAdvance` says that
  each date of the list is the next one of the schedule after the one before. What a
  request read is such a place too (`ReadBefore`), and a place before the last if it read
  an unpaid bill that has been paid since (`Reached`): this is why two payments that both
  read the unpaid bill account for one date.
* **`CalendarProofs`**, *streaks*: `StreaksAreHistory`. `Ascending` lists a set in order:
  ranking its numbers is injective, so every rank is taken (`AscendingIs`). `RunsAreRows`
  says by induction along the list what each number of `Runs` is: the length of the longest
  row of completed periods that ends there. A period and the one before it in the list have
  none between them because both are multiples of the length (`NeighbourIs`). `CountIs`
  says that the number of eligible periods, which is computed, is the number of them.
* **`RecordsProofs`**, *habits and challenges*: `HistoryIsFollowed`. The streaks are those
  of the history by the above (`StreaksHold`). A period that counts for a requirement is an
  eligible one, since habit and challenge count the same days (`EligibleAre`, `EarnedAre`),
  so the cap that the service puts on the progress of a requirement changes nothing
  (`CapHolds`).
* **`RecordsProofs`**, *types*: `RecordsStayTyped`, for all parts at once. Most follow from
  the invariants above. That the sum a request about a goal has read is a number is shown
  of the library's sum: a recursion on the finite sets is one on their sizes, so there is
  a function that it describes, and its values are numbers (`SumIsNatural`). `KeysAreKeys`
  says that what a generation finds is of the keys there are, `Idle` that a request about
  categories keeps something exactly while it is under way.

*Only model-checked*, and why:

* Liveness (`RequestsFinish`, `ShutdownFinishes`): fairness is out of the prover's reach.
* The runs that contradict a claim of the repository: what they show is a behaviour.

## Abstractions

* A session is its token and a family the session of its login; a link is its
  row; passwords, hashes, secrets, addresses and names are left out. A recovery
  code stands for a page of codes: the codes of one page are used up
  independently, and are replaced together.
* One account in `AuthTokens` and its flows, and one goal, rule, habit and
  challenge: no statement of them touches the rows of two.
* `SUSPENDED` stands for both statuses that refuse a request, except in
  `AdminGuard`, where they differ.
* A rotation is one step in `MfaLogin` (it is split in `RefreshSessions`).
* `Calendar` takes the lengths of months, weeks and years as constants; the
  instances scale them down (months of two days, one short month of one day, two
  months in a year), which keeps every comparison the code makes. A month is
  looked up in the list the instance gives, which goes beyond the dates reached.
* `HabitPeriods` counts days from an origin, with periods of a fixed length; in
  its instances a period of two days takes the part of the week.
* A goal begins with any contributions and the status that follows them.
* In `Categorization` a text is a sequence of words of which only classes and lengths
  matter; names, amounts, months, confidences and messages are left out of the modules
  about money.
* In `Budgets` what was spent is no state: progress is compared for every spending. A
  name in a body stands for any column but the amount. A new name or month would also
  wait for the inserts of allocations; without that more interleavings are checked.
* `WealthSnapshot` has the totals of both tables, not their rows: a statement sees a
  set of committed totals, whatever rows make it up. `Reminders` has one row of one
  kind, because the keys of different rows never meet.
* The columns that only report a sync are left out of `BankSync`; the hash of a row
  without an id is the pair of transaction and account row it is made from.
* In `Challenges` the handlers other than completing are one step each: what a
  late write of theirs leaves is also reached when the change they missed comes
  after them. A PATCH changes one field.

## Not modelled

Reads on the server (lists, dashboard, analytics, reports, audit log, health),
formatting and export, mail delivery, rate limits (counters of a library in the
memory of one process), the seeding of categories, the profile (one update of one
row). On the client: rendering, the pages of an account (login, registration,
profile, two-factor security, links), which keep no list, the notification bell, and
the wrappers of single calls; closing the details of a user while they are loaded
again after a change, and the retry button in the details of an administrator's
challenge. More than one server process: the source names the Map of syncs as
process-local.

## Plan

The order follows what a mistake costs: access first, then money that is
imported or generated, then derived numbers. Done: `RefreshSessions`,
`AuthTokens` and the flows on it, `AdminGuard`, `BankSync`, `RecurringRules`,
`SavingsGoals`, `HabitPeriods`, `Challenges`, `Lifecycle`.

Then `Obligations` on the `Calendar`, `Categorization` and `Categories`,
`WealthSnapshot`, `Budgets`, `Reminders`; `ClientSession`; `Screen` and the pages.

Left to model:

1. `MfaLogin`: the replay of a TOTP code in its window; status changes against
   completed logins (`mfaService.ts:483`, and `authController.ts:230` for logins by
   password).
2. `BankSync`: liveness of its two lock orders.
3. The forms of an account and the notification bell, on `Screen`.
4. `ClientSession` over the rows of `RefreshSessions` instead of its own.

Every invariant and action property of a passing run is a theorem. What is left to prove is
liveness, which needs another prover.

## Running the checks

    tlc -workers 2 -config MCRecords.cfg MCRecords.tla
    tlapm SessionsProofs.tla

The module and configuration of each run are in `PROJECT.json`. The longest runs
take two to three minutes; all proofs together about fifteen.
