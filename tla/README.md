# Barbook: verification project

Barbook keeps cocktail recipes. Each account owns a *personal library*
(recipes, folders, trash) and may belong to shared *Bars* (members, a manual
stock, shared recipes, batch plans). The program is an Angular client, a NestJS
server, and a PostgreSQL database reached through Prisma with transactions READ
COMMITTED. There is no queue and no background job: what is hard comes from
requests that run at the same time, answers that are lost or late, tabs that
share a cookie, and screens that act on versions loaded earlier.

This directory holds TLA+ modules translated from that code, TLC configurations
that check small instances, and TLAPS proofs for every value of the constants.
`PROJECT.json` lists components, runs, hazards, theorems, and for every
definition the lines of source it stands for.

Usage, from this directory: `tlc -config MCInventory.cfg MCInventory` runs one
check, `tlapm InventoryProofs.tla` checks one module of proofs.

## 1. The system

Paths are relative to `src/`; `b/` stands for `backend/src/`, `f/` for
`frontend/src/app/`.

### 1.1 Server components

| component | state | operations | what makes it correct |
|---|---|---|---|
| Versions and locks: `b/common/version-preconditions.ts`, `b/database/lock-organization-workspace.ts` | none of its own | `requireVersion`, `requireVersionCapacity`, `FOR NO KEY UPDATE` of a workspace row | no command on a stale version; no overflow of a 32-bit column |
| Bars: `b/workspaces/*.service.ts` | Workspace, its `accessVersion`, WorkspaceMember | create (with receipt), list, context, members, add, revoke; the access gate of every Bar command | one owner for ever, one Bar per creation intention, every change of members dated by the access version |
| Stock: `b/inventory/inventory.service.ts` | StockProduct, StockMovement | list, detail, history, receipt, create, settings, receive, adjust | one movement per intention and per version; the ledger explains the counter |
| Personal library: `b/folders/`, `b/cocktails/cocktail-{organization,content,lifecycle}.service.ts` | Cocktail, CocktailFolder, CocktailTag, Folder | create/rename/delete a folder (with preview), add/remove recipes, organize, replace content, trash, restore | the legacy column of the expand/contract migration agrees with the links; links stay in one library; the trash is faithful; deletions are the ones previewed |
| Recipe creation: `b/cocktails/cocktail-creation.service.ts`, `b/cocktails/cocktail-creation.rules.ts` | Cocktail, CocktailIngredient, Ingredient | validate, resolve ingredients, insert, retry on a raced index | a recipe appears whole, with the degrees its author asked for; the catalogue never changes under a recipe; retries end |
| Recipes of a Bar: `b/cocktails/shared-*.controller.ts`, `cocktail-content.service.ts` | the same rows, in a Bar | create, read, replace content | the same, under the access gate of Bars |
| Batch plans: `b/batch-plans/` | BatchPlan, a snapshot of a recipe | preview, create (with receipt), revise, detail, exact quantities | quantities exact or refused; the snapshot never changes; a plan is what its author was shown |
| Sessions: `b/auth/`, `b/auth/sessions/` | User, Session | register, login, authenticate (renew), logout, logout-all, prune | what ended never opens again; a global logout misses nobody; no deadlock |

### 1.2 Browser components

| component | state | operations | what makes it correct |
|---|---|---|---|
| Sessions of the tabs: `f/core/auth/` | session, last confirmed session, pending logout and its uncertainty, generation counter; cookie and BroadcastChannel shared by the tabs | sign-in, bootstrap by the guard, document shown again, logout, global logout, 401/409 handling, notices of other tabs | late answers and late notices change nothing; an unconfirmed logout stays closed |
| Workspace context: `f/core/workspaces/workspace-context.ts` | current workspace, candidate, generation | suspend, confirmSession, select, request, verify access | no request under a workspace that was left; no silent fallback on Personal |
| Drafts: `f/core/drafts/` | owner, leases, entries in session storage | confirm identity, suspend, purge, lease, save | a draft is only written and offered under the identity and place it belongs to |
| Batch plan page: `f/features/batch-plans/` | source, form, preview with its signature, intention, uncertainty | choose, type, calculate, save, receipt, retry, inspect, resolve | nothing is saved that was not shown |
| Movement form: `f/features/inventory/inventory-command.ts` | frozen intention, uncertainty, receipt lookup, review | submit, retry same, inspect receipt, inspect state, new intention, close; destroyed with its page | what it announces is recorded; no blind replay; no double application while the members stay and the form is there |
| Recipe editors: `f/features/cocktails/cocktail-{create,edit,detail}/` | a form over a loaded version, its draft, a conflict or an uncertain answer | type, restore, send, compare, adopt, discard | content is sent on the version it was typed on |
| Bars of an account: `f/core/workspaces/bar-create.ts`, `workspace-switcher.ts` | the Bars listed, an intention, its uncertainty and result | load, create, inspect, retry, cancel | one Bar per intention closed; nothing of another account is shown |
| Members of a Bar: `f/core/workspaces/workspace-members.ts` | the pages read and their access version, uncertainty | open, more, add, revoke, refresh, acknowledge | a command acts on the members that were shown |
| Library, folder and trash pages | a preview or a version each | send a `Library` command | what `Library` checks |

### 1.3 Interactions

* A page calls the server through `WorkspaceContext.request` and
  `authInterceptor`; both compare generations before they trust an answer.
* Every Bar command goes through `WorkspaceAccessService.inTransaction`: lock
  the workspace row, read the membership, compare the access version, and only
  then run the operation, receipts included.
* Every library command but the creation of a recipe locks the personal
  workspace row first. Creations only meet on the unique indexes of recipes and
  of ingredients.
* `WorkspaceContext` drives the draft store: it confirms an identity and a place
  to it, or suspends it; forms hold leases the store checks at every call.
* A batch plan copies the content of a recipe when it is created; the page then
  compares versions, never contents.
* Sign-in and global logout lock the User row before any Session row.
* Tabs share the cookie jar, silently, and tell each other of logouts and new
  identities by a BroadcastChannel.

### 1.4 Hard behaviours

`PROJECT.json` lists them under `hazards`, each at its line, with the
properties that watch it: two movements from one version, one identifier in
two Bars, a membership lost while a lock is awaited, retries after a lost
answer, receipts looked up before the request commits, previews confirmed
late, the legacy column in the middle of a migration, sign-ins during a global
logout, renewals racing expiry, answers and notices of an earlier identity; drafts that
survive a purge, a reload or a change of identity; selections answered late;
ingredients raced by two creations; plans saved on another recipe than the one
shown; Bars whose creation timed out; members read page by page while they change.
One hazard has no property: the account shown during a sign-in (section 6).

## 2. Modules

| module | models | composes |
|---|---|---|
| `Versions` | version preconditions | |
| `Bars` | workspaces and members, one committed transaction per action | `Versions` |
| `Inventory` | the stock of the Bars, one committed transaction per action | `Bars` |
| `InventoryTx` | the same commands one SQL statement per action, with row locks and unique keys | refines `Inventory` |
| `InventoryClient` | the movement form over a lossy network | acts on `Inventory` |
| `Library` | the personal libraries | `Versions` |
| `SessionService` | what the server promises of accounts and web sessions, every request alone | |
| `Sessions` | accounts and web sessions, one SQL statement per action | implements `SessionService` |
| `Browser` | the tabs of one browser, their cookie jar and their notices | its session server implements `SessionService` |
| `DraftVault` | what the drafts promise: an entry is served to its owner, forgotten, sent at most as known | |
| `Drafts` | the draft store, its storage, and the forms that use it | implements `DraftVault` |
| `Workspace` | the context of the workspace shown, with its drafts | extends `Drafts` |
| `RecipeRules` | what a recipe command says and yields | |
| `RecipeBook` | what the recipes of a workspace promise | `RecipeRules` |
| `Recipes` | creating and replacing recipes, one SQL statement per action | implements `RecipeBook` |
| `BatchCalculation` | exact quantities | `RecipeRules` |
| `BatchPlans` | batch plans and their page | `Recipes`, `BatchCalculation` |
| `Pages` | lists read page by page | |
| `BarCreation` | the list of Bars and the page that creates one, over a lossy network | acts on `Bars` |
| `BarMembers` | the page of the members, over a lossy network | acts on `Bars` |
| `InventoryProofs` | theorems about `Bars` and `Inventory` | |
| `InventoryTxProofs` | theorems about `InventoryTx` | `InventoryProofs` |
| `BarPagesProofs` | theorems about `BarCreation`, `BarMembers` and `InventoryClient` | `InventoryProofs` |
| `LibraryProofs`, `SessionsProofs`, `BrowserProofs` | theorems about `Library`, `Sessions`, `Browser` | |
| `DraftsProofs` | theorems about `DraftVault`, `Drafts` and `Workspace` | |
| `RecipesProofs` | theorems about `Recipes` and `BatchPlans` | |
| `MC*` | instances for TLC | |

### 2.1 Versions, Bars, Inventory

These three are the abstract specification of the Bars. An action is one
committed transaction; a refusal, a replayed receipt and a command that changes
nothing all leave the tables alone and are stuttering steps. `bar[w]` keeps of a
Workspace row what decides later commands (author, intention, payload hash);
`member` is the WorkspaceMember table, a missing row being `"none"`.
`Authorized` and `OwnerAuthorized` are the gate, in the order of the code:
membership, then access version. A fingerprint, a SHA-256 in the code, is the
record of everything the hash covers, so equal fingerprints are equal
intentions. The mutations of the code kept for each property stand beside the
definition they replace and are marked as such.

### 2.2 InventoryTx

`tx[h].pc` follows the statements of `inTransaction` and of the operation:
`begun`, `locked` (workspace row), `granted` (membership read), `loaded`
(product row), `fresh` (no receipt found), `written` (counter and line written,
not committed). The workspace row is a lock; the unique index on
`(actorId, requestId)` makes an insertion wait for an open transaction with the
same key (`KeyInFlight`) and abort if that one commits. A transaction may roll
back at any statement. `intents` are what clients formed from versions they
loaded, sent any number of times at any later moment. `revocations` is a history
variable. Row locks on the product add nothing to the workspace lock already
held, so they are not a variable of their own; the raced creation of the same Bar is
serialised by the lock of the author's account and is one step.

### 2.3 InventoryClient

`form` holds the signals of `InventoryCommand`; `posts` are requests under way,
`awaited` or given up after the timeout, handled or lost at any time. `Others`
is everybody else and the other tabs of the same account. `context` is the
access version `WorkspaceContext` has confirmed: when it has moved, `request`
answers 409 by itself. The create form runs the same code; the settings form has
no receipt and is left out.

`Close` is the form's own `close()`, refused while a result is awaited or uncertain.
The page takes the form away without asking, whatever it awaits (`Destroyed`): the
shell shows no page while `current()` is null or a workspace is being chosen
(`app-shell.html:76-79`), and the route has no exit guard. `ContextLost` is every way
`current()` becomes null, a session confirmed again and the loss of the membership
found after a 404 included, as well as a reload; `PageAbandoned` is the other ways.
The requests already sent stay in `posts`, their answers are dropped, and the next form
draws a new identifier. `forgotten` is history: the intentions that went this way
before their outcome was known. Nothing deduplicates them: the form tells the user to
look at the stock and its history first (`inventory-command.html:17-20`,
`bb3-inventory-design.md:41,45`). A context is confirmed again only without a form
(`ConfirmContext`); `VerifyAccess` is the form's own check.

### 2.4 Library

Versions are per recipe (content, organization) and per folder. The digest
`membershipToken` is the set it is computed from. Identifiers are random UUIDs,
so "the first folder by identifier" is an arbitrary fixed choice. `preview` is
one preview a client holds while anything else happens; `binned` remembers a
recipe as it entered the trash, for the property about it.

### 2.5 SessionService, Sessions

`Statements` gives each transaction its list of statements, and `At(h, s)` says
which comes next. Row locks are taken as the statements take them, and an
`UPDATE` that waited reads the row again. `revokeAll` is its snapshot, then one
row after another. `Authenticate` compares deadlines at one instant and renews
from a possibly later one, as the SQL does with two readings of the clock. A
session stands for its credential.

`SessionService` is the abstract specification: each account is registered once,
each session is opened once and ends for good, a sign-in replaces at most the
session of its cookie, a global logout ends the sessions of its account and no
other. `Sessions` maps each row to what is left of it (`State`: unborn, live,
expired, revoked or deleted). A registration, a login and a global logout are one
step of the service, taken at their commit; their other statements are stutters,
as are renewals, which the service has no need of. Time and the verdict of
`Authenticate` are `Expire`, `Prune` is `Delete`.

### 2.6 Browser

A tab has the signals of `AuthService` and of `WorkspaceContext`, the drafts'
owner, and `shown`, whose data its page displays. Each call is sent with the
cookie of that moment, served later, answered later still; `issued` is a login
answer the browser has not received. Generation counters are replaced by what
they are compared for: a call or a heard notice carries `fresh` and `here`, and
raising a counter clears them. Reloading a document forgets its memory, keeps its
session storage, and leaves requests with an effect to their fate. The server of
`Browser` keeps sessions live, revoked or expired, with the context checks of
`WebSessionService`; both it and `Sessions` implement `SessionService`, so that the
tabs run before a server that does nothing the service does not allow.

### 2.7 DraftVault, Drafts

`DraftVault` is the abstract specification: for each owner and each form,
copies are offered as unsent, as uncertain, both or not at all, and `unknown` holds
the forms whose last submission has an unknown fate. An owner is served, work is
kept, a submission leaves, is resolved, or copies vanish; a form of `unknown` is
never offered as unsent. `Drafts` has the code: the store
(`owner`, `active`, entries in memory, pending mutations, the copy in session
storage with its own faults) and the forms of each place. Each action of a form is
the whole handler: a save persists, prunes and may fail to. A call carries the
lease it was made under. `srv` is the version of the recipe behind the form; other
devices may raise it. The refinement maps the entries in memory and the copies storage
still holds to the offers of their owner: what a purge could not erase still
counts. A lease, a generation number in the code, is in a form whether one has been
raised since (`leased`).

A request that a closed form leaves behind is folded into `Elsewhere`, and the
handling of a request is one step with its answer, because nothing of the store is
read in between. `MaxForms` is the number of forms open at once.

### 2.8 Workspace

`ctx` has the signals of `WorkspaceContext` and the lookups under way, each with
the epoch and the place it was asked for. `Drive` is what the context tells the
draft store, so that each action of `Drafts` happens only as the context allows.
`auth` changes account by itself, as `AuthService` would (`Browser` is its detailed
form). A command under way has the epoch it was sent in; `Carried` are the forms whose
commands `request` carries. `asked` is history: the owner of the last
workspace the user chose. A selection supersedes an earlier one, but not the
confirmation of the remembered Bar, which `OnlyTheLastChoiceOpens` therefore names
(section 6).

### 2.9 RecipeRules, RecipeBook, Recipes

A name stands for its slug, and text is left out. Amounts are in thousandths, and
degrees in hundredths would change nothing: they are only compared. `cache` is the
map of one transaction, `added` the catalogue rows it has inserted and not
committed, `written` its recipe. An insertion waits while another open transaction
has inserted the same key (`InFlight`), then finds the row or the free key. A
personal creation starts over with a fresh map after `P2002` on an ingredient, at
most `MaxCatalogRetries` times; any other command is refused. PostgreSQL ends one
transaction of a circular wait (`DeadlockVictim`), and any transaction may be
interrupted. Recipes in the trash are in `Library`.

`RecipeBook` has the same commands alone: whole, with the catalogue entries they
ask for and those that were there. `ImplementsRecipeBook` says concurrency, retries
and failures add nothing to it.

### 2.10 BatchCalculation, BatchPlans

`BatchCalculation` has the fractions of `rational.ts` and `calculateBatch` as
functions of a content and of parameters. The reference (`Exactly`) is stated by
cross-multiplication in thousandths, without fractions or rounding functions.
`IsContent` and `IsParameters` are the forms of what a recipe and a request can
hold; `Samples` are pairs of them for TLC.

`BatchPlans` has the rows, the page and one request under way. The server takes the
workspace row first for every request of the page, reads included, so a request is
served in one step; it may be answered late, lost, or served after the page gave up
(`late`). A behaviour either leaves the page closed and is one of `Recipes`, or
opens it in a Bar where recipes change by whole commands of `RecipeBook`: since
`Recipes` implements it, the page cannot tell the difference, and the two state
spaces add up instead of multiplying. `shown` and `saw` are history: what the author
of a plan was shown when it was saved. Lists and the recipe index of the page only
refresh the access version, which choosing or opening then overwrites. That the key
of a plan could race in two Bars is left out: there is one Bar.

### 2.11 Pages, BarCreation, BarMembers

`Rows` is `skip` and `take` over an order of the rows. In both pages a call is
sent, handled by the server at some later moment, answered or lost; one the page
gave up after 15 seconds may still be handled. `BarCreation` replaces generation
counters by what they are compared for: a call is `fresh` until its page, its
account or a newer list makes it void, and a receipt or a list nobody waits for is
forgotten. The intention is `[actor, requestId, fingerprint]`, as in the
tables. Every answer of a creation but a Bar makes it uncertain, refusals
included. `letGo` is history: intentions the user closed the form on, by `cancel` or
by opening the Bar. The selection itself is in `Workspace`. Signing out and in stand
for `AuthService`.

In `BarMembers`, `here` is the access version the context has confirmed (no version
while it is withdrawn), and `scoped` says that the context of a call is still the
current one: the page drops any other answer. `request` refuses a command by itself
when the list is of another access version. A refusal that carries no version (an
unknown address, a session that ended) is `CommandRejected`; the server's 409 is
`CommandSettled`. The owner also acts in other tabs; the Bar, its owner and the page
are fixed, since another place or account clears the page.

## 3. Runs

Passing runs, exhaustive for their instance:

| run | instance | question |
|---|---|---|
| `inventory` | 2 accounts, 2 Bars, 2 products, 2 intentions, versions to 2, quantities to 1, symmetric | receipts of movements, ledger, counter and access versions, at every committed state |
| `transactions` | 2 handlers, 2 accounts, 1 Bar, 1 product, 2 intentions with one identifier | statements interleaved, with revocation and readmission: atomic, and no effect across a revocation |
| `keys_across_bars` | 1 account, 2 handlers, 2 Bars, 2 products, 2 settings, 1 identifier, fair | where only the unique index serialises; every transaction ends |
| `bar_pages` | one page per behaviour, 2 accounts, 2 Bars, pages of 1 row: a form with two identifiers, destroyed at any moment; 2 creations; a list of members with 2 late commands | truthful announcements, no blind replay, no intention of unknown outcome lost but with its form, no double application while members stay; creations settled; commands on the members shown |
| `library` | 2 accounts, 1 recipe, 2 folders, 2 contents, versions to 3, time to 1, symmetric | faithful trash, legacy column, versions that date, deletions as previewed |
| `sessions` | 2 accounts, 2 sessions, 2 handlers, time to 3, fair | deadlines, requests act as if each ran alone, global logout, registration, no endless wait |
| `browser_tabs` | 1 or 2 tabs, 2 accounts with a session each, one remembering a Bar | uncertain and announced logouts, late answers, drafts |
| `drafts` | 2 owners (a notebook, a Bar), 2 forms, one open, versions to 2, a storage that may refuse | drafts stay with their owner, purges hold, saves name their base, nothing is offered twice |
| `workspace` | 2 accounts, their notebooks and 2 Bars, symmetric, one form, one entry, versions to 1 | only the last choice opens, drafts follow what is shown, verifications spare awaited answers |
| `recipes_and_batches` | 2 handlers, 2 ingredients, 2 names, 2 retries, 1 plan, 2 forms of parameters, 3,840 samples, fair | whole recipes, real conflicts, no endless wait; plans as shown, exact quantities |

Runs that find a disagreement between a document and the code (section 6):
`lost_answer_doubles`, `late_notice_closes_session`.

### 3.1 Bounds, and why they are enough

* `MaxVersion`, `MaxQuantity` stand for 2147483647. The code compares versions
  for equality and against the limit, and quantities only with the range of the
  column; bounds of 1 to 3 reach the limit and let two commands follow one
  another. The theorems hold for every bound.
* Two accounts: an owner and a member. Two Bars only matter for identifiers
  shared across Bars. Two products let a receipt be asked about another product.
* Two handlers: each conflict (a row, a key) is between two transactions; the
  effect of a third one is that of a commit before or after, which the
  sequence of commands on either handler gives. Longer cycles of waits are
  excluded by `TransactionsNeverDeadlock` and `SessionsNeverDeadlock`, for any
  number of handlers.
* `InventoryTx`: `MaxIntents` bounds the intentions formed, `Amounts` the
  quantities entered. Two intentions are a first one and its rival; the settings of a product race
  with its movements.
* `InventoryClient`: `FormIds` are two identifiers drawn: an intention and the one
  that follows it, in the same form or in the next one after it was destroyed. `FormAmounts` is 1, so `ADD` and
  `SET` can coincide or not. Other people's movements use identifier `init`.
* `bar_pages`: the three pages share nothing but the tables, so a behaviour shows
  one of them and the state spaces add up. `PageSize` of 1 (25 in the code) makes a
  list of two rows two pages, `MaxVersion` of 2 two changes of members between them,
  `Rank` (`MCRank`) the owner the second row of his list. Two `BarRequestIds` are an
  intention and the next one, `MaxLate` of 2 a command and its repetition, both given
  up. `Busy` bounds the calls of a creation awaited to one.
* `Library`: one recipe with two folders reaches every repair of the legacy
  column (the removed folder is the column's, or not, and another is left, or
  not) and every deletion of a folder with or without its recipes. Commands on
  several recipes, links across libraries and tags have no run: the theorems of
  section 4 cover them for any number. `Retention` and `MaxTime` of 1 let a
  deadline pass.
* `Sessions`: lifetimes 1 of 2 and 2 of 3 units let inactivity end before, with
  and after the fixed lifetime; `MaxTime` 3 lets each of them pass.
* `Browser`: `MaxCalls` is two calls with one open tab and one with two; a
  request given up while it may still be handled counts against it. A race is between the answer to a
  call and what the tab did after sending it; two calls of one tab give the
  races of `AuthService`, one call and one notice the races between tabs.
  `Sessions` bounds the sign-ins, `MaxNotices` the notices on their way. `open`
  is fixed from the start: opening a tab is loading a blank one.
* `Drafts`, `Workspace`: `MaxForms` is one, as one page is shown at a time; a
  form left open by a change of identity counts. `MaxEntries` of 2 never refuses
  two forms, of 1 (`workspace`) always refuses the second. `StorageFaults` lets
  each write and each erasure fail; `workspace` leaves it out because its
  questions are about memory. Versions to 2 let a recipe move twice behind a
  draft. `MaxAccess` is one change of the members of a Bar. `workspace` has two Bars,
  because what a late lookup could open is another one, and pays for them with the
  creation form alone and one version; the other forms call the same
  `trackMutation` and `request`, and the theorems cover them.
* `Recipes`: `MaxCatalogRetries` is the constant of the code, 2. `Requests` are
  the bodies of `MCBatchPlans`: creations that mention the two ingredients in
  opposite orders, so that they deadlock, with and without a degree of their own,
  with a garnish, with a main alcohol; a creation refused by `Valid`, whose main alcohol is
  not one of its lines; replacements in each mode.
  Versions to 1 let one replacement happen and the next be refused.
* `BatchPlans`: one creation key and two sets of parameters, with scaled amounts
  below and above the `Capacity` of the run (10^9 in the code, where products
  would leave TLC's integers). `Samples` are contents and
  parameters `CalculationsAreExact` is evaluated on: each kind of unit, rounding
  and loss, with amounts of thousandths; `CalculationIsExact` covers all others.
* Symmetry is declared over constants no property or definition singles out, and
  never in a run with a liveness property (`keys_across_bars`, `sessions` have
  none).

`CHECK_DEADLOCK FALSE` stands in the configurations of the bounded atomic
modules, of the form and of `Sessions`: once versions, identifiers or time are
used up, the system rests. All others are checked for deadlock.

### 3.2 Fairness

Only the statements of a transaction already begun are fair: no client must ever
send, retry or sign in, and no failure must ever happen.

* `InventoryTx`: weak fairness of the statements that wait for nobody (the
  server keeps executing), strong fairness of the ones that wait for a row or a
  key. PostgreSQL wakes the waiters of a row or of a key in the order of
  arrival, so a lock that is freed again and again reaches each of them.
* `Sessions`: strong fairness of the next statement of each handler, for the
  same reason.
* `Recipes`: weak fairness of each handler's statements, the end of a deadlock
  by PostgreSQL among them, and strong fairness of the four that may wait for the
  workspace row or for a key. `Interrupted` and `Send` are not fair.

## 4. What is proved

All theorems are for every value of the constants that satisfies the named
assumptions, which TLC evaluates on every instance. They are of two kinds. Types:
ranges of versions and quantities are finite; a null value (`NoRow`, `NoVersion`,
`Free`, `Nothing`, `None`, `Nobody`) is outside the set it completes; a lifetime of
inactivity is not longer than the fixed one; `MaxVersion` is at least 1 in `Drafts`,
where a recipe exists from version 1 on; in `BatchCalculation`, the `Capacity` is a
natural number, samples are contents and parameters, and `Nothing` is no fraction.
Facts of the code: a form is one of the
three that use `FormDraft` (`DraftsAssumption`); in `Workspace`, an account has its
own notebook, which no Bar is, and drafts of its own in each Bar
(`WorkspaceAssumption`). No theorem assumes fairness.

**Bars** (`InventoryProofs`). `BarsInv` with the types is inductive. `CreateBar` draws
a row that does not exist and an intention not yet used; `AddMember` and
`RevokeMember` never touch an owner's row because its status is neither one they
accept. `BarsSafe` gives the invariant, `BarsMembershipIsDated` the action
property.

**Inventory** (`InventoryProofs`). The inductive invariant is
`IInv == TypeOK /\ BarsInv /\ StockInv`. `LedgerExplainsCounter` is not
inductive alone: to show that a new line is the latest and follows the previous
one it needs that no line is ahead of its product, which it states, and
`OneMovementPerVersion` needs it too. The lemmas on appending a line hold for
any line above the ones of its product; each action then only shows that its
line is one. `InventoryInvariant`, `InventoryTypes`, `LedgerCorrect`,
`IntentionsApplyOnce` and `LinesHonourIntentions` follow, and
`InventoryImplementsBars` maps each step to a step of `Bars` or a stutter.

**Concurrent transactions** (`InventoryTxProofs`).
`TransactionsImplementInventory`: under READ COMMITTED, statement by statement, with
waits, rollbacks and repeated sends, the handlers implement `Inventory`. The mapping
is the identity on the committed tables, so a statement is a stutter and a commit has
to be one command of `Inventory`, whose guards were evaluated several statements
earlier. `TxInv` says why they still hold. For one handler (`TxOK`): past its first
statement it holds the workspace row, what it was granted and what it read is what
the tables say (`Granted`, `Seen`), and what it wrote may be committed (`Written`).
For two handlers (`Compatible`): the lines they wait to commit differ in author or
identifier, since the unique index made the second insertion wait, and two new
products are not the same. Other commits leave the first alone because a change of
members or of a product needs the row held, and the second because the keys differ.
The ledger properties follow for the concurrent system (`ConcurrentLedgerCorrect`).

`RevocationFencesIntentions` needs two more facts about intentions, which survive any
delay and repetition: the access version they carry is of the past, and if it is the
current one, then no revocation has happened since (`IntentsOK`). A revocation raises
the version, and versions never come back, so a second membership does not revive
what was prepared in the first.

`TransactionsNeverDeadlock` is safety, and holds for any number of handlers. A
handler waits (`WaitsFor`) for a workspace row in its first statement and for a key
in its last, and each wait goes to a transaction that has fewer waits ahead of it
(`WaitsLeft`): the holder of a row is past its first statement, the owner of a key
only has to commit. So there is no circle of any length, and `SomeoneProceeds`: while a
transaction is open, the next statement of one of them is not blocked.

**Movement form** (`BarPagesProofs`). `FormImplementsInventory`: the forms, the
network and the server together are a behaviour of `Inventory`.
`ClientInv` carries what the browser knows through late and lost answers, by one
device: *a thing known under a version is of the past, or still true*. So it is with
the membership (`AccessHolds`), the counter shown (`RowHolds`), and the change an
intention asks (`IntentionOK`). The heart is `Hopeless(i)`, what a refusal means:
while the access version an intention names is the current one, nothing of it is
recorded and nothing ever will be, because the product has moved or is at its limit,
or because no copy of the request is left. `Hopeless` is stable, a `refused` or `notFound` answer establishes
it, and the form only lets an intention go when it holds. It stops at a change of
members, which is the finding `lost_answer_doubles`. `ToldIsRecorded` and
`AbandonedStaysOut` follow. They hold with the form destroyed at any moment: what it
forgets is neither told nor counted as given up for a new intention.
`FrozenWhileUncertain` is the promise of a form that is there: what it sent stays its
intention until it is refused, or announced and recorded. The page that destroys the
form takes the intention with it; the theorem then says that it is in `forgotten` and
that it was not announced, for which `SignalsOK` keeps the current intention apart
from those told, given up or forgotten. Nothing is promised after that: a forgotten
request that arrives late is applied, once (`IntentionsApplyOnce`), and a new
intention for the same change too.

**Library** (`LibraryProofs`). `LibraryInv` is the types and three invariants.
The argument is by rows: `Good(c, row)` says what the invariant asks of one row
for the folders as they are, and an action that replaces rows by good ones
preserves it. The deletion of a folder is the one step that changes rows and
folders together. `RecipesAreDated` is the action property on versions;
`DeletionsMatchPreviews` needs a second invariant, `PreviewTells`: as long as
the version of the folder and the digest are the ones previewed, the folder and
its recipes are as they were previewed.

**Sessions** (`SessionsProofs`). The inductive invariant is `Inv == TypeOK /\
TxTypes /\ HoldsAccount /\ OwnIdentifier /\ Covered`. Past its first statement a
transaction holds the lock of its account (`HoldsAccount`), no two transactions
insert the same identifier, and a global logout past its snapshot covers all
unrevoked sessions of the account, between what it still has to visit and what it
has revoked (`Covered`). `GlobalLogoutIsComplete` follows; `TimelinesHold` adds the
order of the deadlines, of committed rows and of rows to be inserted
(`PendingInOrder`). `RegistrationsAreUnique` says that
a registration past its insertion never finds its address taken: a second one
waits there for the outcome of the first.

`SessionsImplementService` is the refinement. A commit has to be one step of the
service whose guards hold at that moment. `KnownInv` says what a request still knows
of its account and of its row, `RegistersOnce` that the address is still free, and
`Covered` that what a global logout has collected since its snapshot are all the
unrevoked sessions of the account, and only these. That every other statement is a
stutter or an `Expire` rests on `DeadRemains`, which is also the action property
`DeadSessionsStayDead`: a renewal that races the deadline revives nothing.

`SessionsNeverDeadlock` has the argument of the transactions above, with one more
difficulty: two global logouts lock several session rows each, in no fixed order.
`LocksInv` says who holds which row and that logouts under way for different accounts
claim no common row (`ClaimsApart`), while those of one account exclude each other by
its User row. The comment of `session.service.ts:148`, that the User row always
comes first, is thus enough for any number of requests.

**Tabs of one browser** (`BrowserProofs`). A session is `Spent` once the browser has
stored its cookie: no answer that would store it is under way, so once it has left
the jar it never comes back. `BrowserInv` says that every session a tab, a call or
a notice names is spent, except the one an unread sign-in brings; that a call the tab
still trusts suits the tab as it is (`Suits`), and that an answered logout tells the
truth (`LogoutTells`): the session is dead, or its cookie is gone for good.
`UncertainLogoutHolds` and `AnnouncementsHold` are parts of it. The action properties
follow from it with a case per answer: `LogoutsSpareOthers`,
`LateAnswersDoNothing`, and `DraftsOutlive`, for which `Decided` lists the events that
let a tab give up drafts. `ServerImplementsService` says that the server the tabs run
before keeps the promises `Sessions` proves of its transactions.

**Drafts** (`DraftsProofs`). `VaultSafe` is about the abstract vault alone, whatever
its variables: no step leaves a form of `unknown` offered as unsent. Only the owner
being served gains copies, and a form leaves `unknown` when it is resolved or when its
copies are given up, by an expiry, a purge or a full storage (`OnlyLess`).
`DraftsKeepTheVault` is the refinement, and `SentIsNotUnsent` the promise the drafts
inherit by it. `DraftsInv` has three parts. `StoreOK`: copies are of their owner and
on the version they would be sent with, and what a purge should have erased is left
only in storage the store knows it failed to erase (`purgePending`). `FormOK`: a
live lease is that of the owner served, and a form awaits an answer only after
it was marked uncertain. `UnknownOK`: a submission of unknown fate has a copy left,
none is offered as unsent, and a form that shows it knows it was sent. The last
needs a clause no property mentions: while its owner is served, the entry is in
memory and storage holds nobody else's work, or else a purge of the other owner could
take the only mark. `WorkStaysHome`, `PurgesAreFinal` and `SavesAreOnTheirBase`
are parts of `DraftsInv`; lemmas follow the operations of the store (write, forget,
prepare, prune, confirm, read) and each handler of a form is a composition of them.

**Workspace context** (`DraftsProofs`). `WorkInv` adds to `DraftsInv` the relation of
the context to the store it drives: what is shown is served and remembered
(`ShownOK`), an active store serves the account signed in (`ServedOK`), a lookup still
says for whom it was made (`LookupOK`: only a selection outlives a change of context,
no longer `fresh`, and then opens nothing), and no command whose answer will be
adopted is under way while another workspace is entered (`CommandsOK`).
`WorkspaceServesItsOwn`, `LateLookupsOpenNothing` and `AnswersAreAwaited` state the
properties of the run; `WorkspaceKeepsTheVault` and `WorkspaceKeepsDrafts` say that
driving the drafts by the context loses none of their theorems, although
an installation or a withdrawal is one step where `Drafts` has several.

**Recipes** (`RecipesProofs`). `RecipesImplementBook` is the refinement: the
handlers, statement by statement, implement `RecipeBook`, where commands run alone.
The mapping is the identity on the committed rows, so only `Commit` has to be a
step of the book, and everything it relies on has to be true since it was read. The
inductive invariant says what that is, for each open transaction `h`:

* `MapHolds(h)`: a default it read is committed and will not change, one it
  inserted is still its own to commit (`catalogue[s] = Nothing`), and both are the
  ones of ingredients its command mentions;
* `Progress(h)`: the ingredients before `i` are resolved, and past the lines the
  main alcohol was found alcoholic in that map;
* `RowHolds(h)`: whoever is not a personal creation holds the workspace row, so
  that the recipe it looked up, with its version, is still the one committed;
* `WrittenHolds(h)`: the row to commit is a creation, a new version or the old row.

Between transactions, `Apart(g, h)`: no two of them have inserted one entry or one
name, which is what the unique indexes are for. And `Catalogued`: the ingredients of
a stored recipe are in the catalogue, without which replacing a recipe by the same
content could still add entries to the catalogue and would be no stutter. A commit
of one handler preserves the invariant of another because of `Apart` (entries and
names), of the lock (its holder works alone, but for personal creations) and because
a personal creation only commits a name that has no recipe, which no replacement is
about. `ConflictsAreRealAlways` is a part of the same
invariant. That requests are answered stays with TLC.

**Batch plans** (`RecipesProofs`). Before the page opens a behaviour is one of
`Recipes`; from then on no handler is at work (`ClosedOrAlone`) and recipes change by
whole commands of the book, so that `PlansKeepBook`, the refinement, and the
invariant of `Recipes` hold on both sides. `BatchInv` follows quantities from the
preview to the row: `SourceOK` (a recipe and a version that has existed),
`ShownFor(seen, body, content)` (the quantities shown were derived from the parameters
the body names, and from the content it names if that version is still current),
`WriteOK` of the intention and of every write the page gave up on, `KnownPlan` of
what the page shows, `RowOK` of the rows. What makes it inductive is `Grows`: recipes
do not disappear and their content changes with their version only, so a claim about
an old version is about nothing any more. `PlansFollowPreviews`
and `UnflaggedPlansStayCurrent` follow.

**Exact quantities** (`RecipesProofs`). `CalculationIsExact` is about every content
and all parameters `calculateBatch` accepts (`Calculable`): each line is the amount of
the recipe scaled once, moved to the nearest multiple of its step, the portions
are those the rounded base serves, and the shares make a whole. What `Gcd` computes is
shown without an induction theorem: among the pairs it were wrong on there would be a
least one (`LeastNatural`, from the well-foundedness of `<`), and the equation of `Gcd`
makes that one right. So a fraction reduced to lowest terms has the value of the one it
came from, and each operation is followed by its cross products. `CalculationsStayExact` is the property of the run, `RecordedPlansAreExact`
carries it to the plans recorded.

**Creation of Bars** (`BarPagesProofs`). `CreationInv` says that an identifier
stands for one intention, in the form, in the requests under way and in the rows
(`IntentsInv`), that what an answer not yet read says is true (`CallOK`), that one
call of the form is awaited at a time, and that an intention is awaited, uncertain
or recorded (`FormInv`): the form only closes on the third. The tables are seen
through `TablesGrow` alone: rows and memberships are never erased, and a new row
is the one of the intention its identifier stands for. `CreationsSettled` follows
with `OneBarPerIntention`.

**Members** (`BarPagesProofs`). `Claim` is what a version says of a list, and it
is kept by any step because a change of members raises the access version: a claim
about an older version is about nothing any more. `PagesJoin` joins consecutive
pages, and `MembersInv` carries the claim from the answer to the list, and from the
list to the commands sent. `WholeListsShowEveryMember` needs one more fact, that the
total the page goes by is the number of members at its version (`TotalInv`): a list of
the present version that offers nothing more to read has as many rows as there are
members, all of them members, and so is the whole list.

## 5. What only TLC checks

Every safety invariant, action property and refinement a passing run checks is also a
theorem. What is left to TLC:

* Liveness (`TransactionsEnd`, `RequestsEnd`, `RequestsAreAnswered`): the prover has
  neither fairness nor `ENABLED`. Of the first two, deadlock freedom is proved; that
  locks reach their waiters is fairness. The third also rests on PostgreSQL
  ending circular waits (`DeadlockVictim`), which creations do run into.
* `Pages` has no theorem of its own; `PagesJoin` is about its `Rows`. That reading on
  reaches the end of a list that no longer changes is not stated.

Conversely the proofs cover statements no run repeats: deadlock freedom
(`TransactionsNeverDeadlock`, `SessionsNeverDeadlock`), `DeadStaysDead` of the sessions
(the run checks the service, which implies it), `ServerImplementsService`, exact
quantities beyond the samples (`CalculationIsExact`, `RecordedPlansAreExact`),
`WholeListIsWhole` of the members, `OwnerIsCreator`,
`OneBarPerIntention`, `OneMovementPerVersion`, `LinksStayAtHome`, `NeverOfferedAgain`
of the drafts (the runs check the vault, which implies it), the ledger of the
concurrent transactions (`ConcurrentLedgerCorrect`), the drafts and the vault under
the workspace, `InventoryImplementsBars`, `FormImplementsInventory`, `PlansKeepBook`,
and the types of every module with variables (`InventoryTypes`, `TransactionTypes`,
`BrowserTypes`, `DraftTypes`, `WorkspaceTypes` and their like).

## 6. Disagreements between the documents and the code

1. *A lost answer can double a change* (`lost_answer_doubles`,
   `inventory-command.ts:204`). `docs/project/beta-bar-plan.md:30` promises that a
   lost answer does not double the change. The form takes any 409 for a known
   refusal, also the one that answers the retry of an uncertain intention, and the
   server compares the access version before it looks for the receipt. A member
   added between the two sends is enough: the form reports a refusal of a change
   that is recorded, and offers to prepare it again.
2. *A late notice can close a new session* (`late_notice_closes_session`,
   `auth.service.ts:249`). A notice captures the generation, then awaits a digest.
   The generation is raised when a sign-in starts and not when it ends, so a
   notice heard in between applies to the session just opened, and may purge its
   drafts. `docs/maintenance/frontend-authentication.md:11` says it does not.

One more, which `Browser` states (`ShownBelongsToIdentity`) and no configuration here
checks: a guard that runs during a sign-in restores the account of the old cookie
(`auth.service.ts:211`); the sign-in then replaces the identity under the rendered
page when it returns to the same URL, while `docs/project/l4-design.md:55` asks for
no cache of an earlier identity. Add the invariant to `MCBrowser.cfg` to see it.

Two observations came from the proofs, and contradict no document. A selection made
while the session's confirmation of the remembered Bar is pending does not cancel
that confirmation (`workspace-context.ts:163`): the remembered Bar may open
behind the selection, the page being inert meanwhile, and stays if the selection
fails. One Bar could not show it; with two, TLC refuted the first form of
`OnlyTheLastChoiceOpens`, which now says so. And the drafts only make sense with
`MaxVersion` of at least 1, as a recipe is created with a version.

## 7. Not modelled, and why

* Reads (lists, history, search, projections) write nothing; the ones whose
  answer steers a client (receipt, product detail, `/me`, previews, the content of
  a recipe) are modelled where the client is.
* Argon2, CSRF tokens, cookies' attributes, the allow-list of registrations and
  the rate limits are external or stateless; a handler of `Sessions` starts once
  the password was accepted.
* The one-off migrations, the seed, start-up and configuration run alone.
* The text of recipes, their search keys, and the fields of the editors: what
  the properties tell apart is a content, its version and its ingredients.
* The library, folder and trash pages send the commands of `Library` with the
  versions they loaded and keep no intention across answers.
* Layout, theme, routing and wording keep no state another component reads.
* The digest of a notice is assumed to work. `Browser` assumes the storage works
  too; `Drafts` does not.

## 8. Plan

Done: Bars and their stock, with the statement level below and the form above;
the personal library; sessions on the server; identities in the tabs; drafts and the
workspace context; recipes, statement by statement; batch plans, their arithmetic
and their page; the pages that create a Bar and change its members.

Left, in order:

1. The lifecycle actions of the library pages (trash, restore, deletion of a
   folder) over lost answers, on `Library`.
2. Several personal recipes and folders in a run of `Library`, once its state space
   allows it; today only the theorems cover them.

Theorems worth proving next: that each further page read brings a row, so that lists
that no longer change are read to the end; an abstract specification of the personal library, as
`RecipeBook` is of recipes, with `Library` shown to implement it.
