# Verification of clean-nest-prisma-pg

TLA+ models of the authentication, account-administration and RBAC back end in this repository (NestJS on Fastify, Prisma on Postgres, Redis through cache-manager, BullMQ for mail), the TLC runs that check them on small instances, and TLAPS proofs of what matters most for instances of every size.

Contents: 1 inventory, 2 modules and their correspondence to the code, 3 properties and runs, 4 bounds, 5 fairness, 6 proofs, 7 disagreements between the code and its documents, 8 what is abstracted and what is left out, 9 plan, 10 how to run.

## 1. Inventory

The API runs on several workers (PM2 starts one per core), which share Postgres and Redis and no memory. Every handler is an async function: between two awaits nothing else runs *in that worker*, but a handler of another request, on the same or another worker, may run at each await. There is no lock anywhere, and a database transaction spans at most the writes of one handler, never the reads that justified them. So the state is what the rows and the Redis keys hold, and the concurrency is that of handlers between awaits.

| Component | State | Operations | Interacts with |
|---|---|---|---|
| Sessions (`auth.service.ts`, `auth.strategy.ts`) | Redis `user:<id>` (the cached identity) and `refresh_token:<id>` (the one accepted jti); the JWTs that clients hold | `login`, `refresh`, `validate` before every non-public route | reads user rows through the repository; every administrative write deletes its keys |
| Accounts (`auth.service.ts`, `users.service.ts`) | user rows; `email_verifications` and `reset_passwords` rows | `register`, `create`, `resendVerificationEmail` (two), `verifyEmail`, `forgotPassword`, `resetPassword` | queues mail after its commits; a reset ends sessions |
| User administration and profile (`users.service.ts`, `profile.service.ts`) | user rows and `user_roles` | `update`, `updateStatus`, `updatePassword`, `remove`, `changePassword` | deletes the Redis keys of the user it wrote |
| Roles and permissions (`roles.service.ts`, `permissions.service.ts`) | role and permission rows, `role_permissions` | create, update, remove of each | a role write deletes the identity of every holder; a permission write deletes nothing |
| Cache service | the two keys per user, each with a time to live | `get`, `set`, `del`, `revokeSession` | Redis |
| Repositories, date filters, filter pipe | none | `findOne`, `findByMail`, `userInformation`, three paginated `findAll` with allow-lists, enum checks and date ranges | the query parameters the controllers default and pass on; Postgres |
| Controllers, guards, decorators | route metadata | AuthGuard, then PermissionGuard, then RoleGuard | the identity `validate` resolved; the strings the seeder stores |
| Seeder (`prisma/seed`) | the RBAC catalogue, three roles, three users | permissions, roles with grants, users with roles; one await after the other, no transaction | run on every deployment |
| Mail queue (`libs/common/src/mail`) | BullMQ jobs in Redis: where each is, its attempts, its lock | `sendMail` from the handlers after their commits, `process` and `onFailed` in every worker | SMTP; the error log |
| Utilities, other pipes, responses, throttler, i18n, configuration | none, or a library's | formatting, validation, counting | - |

What is hard, and where (PROJECT.json lists each hazard at its line):

- *Read, await, write back.* `validate` and `login` read an identity and store it an await later; `refresh` compares a jti and replaces it two awaits later; `resetPassword` checks `usedAt` and stamps it later; names, addresses and ids are checked in one await and written in another.
- *Commit, then invalidate.* Every administrative write commits its rows first and deletes Redis keys afterwards, two keys in parallel; a process may die in between, and another request may refill a key.
- *Fan-out.* A role update has to reach the cached identity of every holder, and who holds the role may change between the commit and the read of the holders.
- *Several statements without a transaction.* The seeder may die anywhere, be rerun, and run on two hosts at once; a listing counts and reads in two queries.
- *At least once.* A mail job may be run again by another worker while the first, whose lock has expired, is still sending; a worker may die after the server took the mail; a job may end in the failed set without an attempt that ended it.
- *Days and zones.* A date filter names local days, the columns hold instants.
- *Agreement of distant text.* Guards name permissions as strings in five controllers, and the seeder composes the strings it stores from two lists.

What makes each component correct:

- sessions: a revoked or rotated refresh token never works again; tokens are issued to active accounts only; a stale identity has an owner who is about to delete it, or a race that explains it; a deleted user is forgotten;
- accounts: mails lead to rows that exist; a verification token is spent exactly with the verification of its account; a link is redeemed once; two live accounts share an address only after a race;
- administration: references never dangle and names stay unique, whatever checks were overtaken;
- guards and seeder: each guard can be satisfied, after whatever sequence of partial seeder runs;
- mail: each queued mail is settled exactly once, never counted as sent when no server took it, attempted a bounded number of times, and its failure leaves a trace;
- listing: a date range is whole days, a client who pages to the end has seen what was there all along and nothing twice, and the metadata is that of the data.

## 2. Modules

```
Store ── AuthSessions ── UserAdmin ─┐           ┌─ TokenHistory ─ MCTokenHistory
  ├───── RoleAdmin ─────────────────┼─ Backend ─┼─ CacheHistory ─ MCCacheHistory
  └───── Accounts ──────────────────┘           ├─ AddressHistory ─ MCAddressHistory
                                                └─ MCBackend
Access ── Seeding ── MCSeeding
Query ─── Listing ── MCListing

Backend ─ Backend_proofs ─┬─ TokenHistory_proofs (and TokenHistory)
                          └─ Records_proofs ─┬─ CacheHistory_proofs (and CacheHistory)
                                             └─ AddressHistory_proofs (and AddressHistory)
Seeding ─── Seeding_proofs        TokenHistory implements Sessions
Listing ─── Listing_proofs        MailQueue implements Outbox
MailQueue ─ MailQueue_proofs
```

**Store** declares the state shared by all handlers. `account[u]` is a user row with its `user_roles` (soft deletion is the state `deleted`: the row and its roles stay), `role[g]` a role row with its `role_permissions`, `permission[p]` the name of a permission row; a row that was really deleted carries the name `Gone`, so a dangling reference would be visible. `userCache[u]` and `refreshCache[u]` are the two Redis keys; `issued` is the set of refresh tokens clients hold; `link` the rows of both token tables; `mailed` the tokens whose mail is queued. `req[r]` is the request that slot r is serving: its `pc` names the await it is at, the other fields the local variables that live across it. `UserInformation(u)` is `userInformation` of the user repository (deleted, unverified and inactive accounts are `None`). `DropKey` executes one of the pending deletions of a slot (`Promise.all` in `revokeSession` and `invalidateRoleHolders`), `ExpireUser` and `ExpireRefresh` are Redis' expiry, `Abort` is a rejected await or a dead worker.

**AuthSessions**, **Accounts**, **UserAdmin** and **RoleAdmin** hold the handlers, one action per stretch between two awaits on Postgres or Redis:

| Code | Actions |
|---|---|
| `AuthService.login` | `LoginBegin` (address, password, verification), `LoginDrop` (del of the identity), `LoginRead`, `LoginCache`, `LoginIssue` |
| `AuthService.refresh` | `RefreshBegin` (jti comparison), `RefreshRead` (revokes the session of an inactive user), `RefreshIssue` |
| `AuthStrategy.validate` | `ValidateBegin` (cache hit or miss), `ValidateRead`, `ValidateCache` |
| `register`, `UsersService.create` | `RegisterBegin`, `RegisterWrite`; `UserCreateBegin`, `UserCreateRoles`, `UserCreateWrite`; then `SendMail` |
| `resendVerificationEmail`, `forgotPassword` | `ResendBegin`, `ResendForBegin`, `VerifyLinkWrite`; `ForgotBegin`, `ResetLinkWrite`; then `SendMail` |
| `verifyEmail`, `resetPassword` | `VerifyBegin`, `VerifyWrite`; `ResetBegin`, `ResetWrite`, then the deletions |
| `changePassword`, `updatePassword` | `ChangePasswordBegin`, `UpdatePasswordBegin`, `PasswordWrite`, then the deletions |
| `update`, `updateStatus`, `remove` of users | `UpdateBegin`, `UpdateEmail`, `UpdateRoles`, `UpdateWrite`; `UpdateStatusBegin`, `UpdateStatusWrite`; `RemoveBegin`, `RemoveWrite`, then the deletions |
| roles | `RoleCreateBegin`, `RoleCreatePermissions`, `RoleCreateWrite`; `RoleUpdateBegin`, `RoleUpdateName`, `RoleUpdatePermissions`, `RoleUpdateWrite`, `RoleUpdateHolders`, then the deletions; `RoleRemoveBegin`, `RoleRemoveCollect`, `RoleRemoveDelete`, then the deletions |
| permissions | `PermissionCreate`, `PermissionUpdate`, `PermissionRemove`, one step each: nothing is read that a later write trusts beyond what the database itself refuses |

**Backend** composes them: any number of slots, any mix of request kinds, expiry, failures. The constant `Traffic` says which kinds the clients send, so that a run can look at the requests that meet in one question. `TypeOK` (in Store) includes `SlotOK`: what a handler has established by each await.

**TokenHistory**, **CacheHistory** and **AddressHistory** add history variables that record and never constrain: which jtis a pending revocation has condemned, which were revoked or exchanged, whether a request's account was ever active while it ran; and which cached identities strayed, that is were out of date already when written or lost the request that was to delete them; which addresses another request took between a request's look-up and its write, and which accounts were written in spite of that.

**Sessions** is the abstract specification of the token side: the jti each account's refresh token must carry, the jtis minted and those withdrawn, with `Issue` (mint a fresh one and accept it), `End` (accept none of some accounts any more) and `Withdraw` (declare dead what nobody accepts). TokenHistory instantiates it as `Contract`, with `accepted` the stored keys, `minted` the issued jtis and `withdrawn` those revoked or exchanged. The three-await login, the compare-then-replace refresh and the commit-then-delete revocations each map to one such step, everything else to a stutter.

**Access** is pure: `Routes`, each a handler with the gate its decorators and its class give it, and the three guards as predicates. A permission `<group>:<action>` is the pair.

**Seeding** is `prisma/seed`: the two permission loops, role upserts with their grants (a look-up and a create each), users (look-up, create, attach), for several processes that die and are restarted. `orphans` records the users a death left between the two statements. It uses Access for its main property.

**Query** is pure: what the controllers make of absent and odd parameters (`PageOf`, `LimitOf`, `SortOf`, `Direction`), which filters `FilterValidationPipe` keeps (`FilterOf`), `parseDateRangeFilter` (`Parts`, the positions that are not empty, `FirstPart` and `LastPart`, `DateRange`, and in `RangeStatus` the order of its checks, with the RangeError of `dayjs.tz` between them), the allow-lists and checks of the three repositories (`Refused`), the where on the two dates (`Admitted`), what the driver and the database throw on (`DriverThrows`), and the status `handleError` makes of the first failure (`Status`). The controllers check no number: a fraction or a number out of the driver's range is `Odd`. A filter's value is the sequence of its comma-separated parts, a date what the clocks of `APP_TIMEZONE` show; the empty string, which the code ignores, is `<< >>`, and one of blanks only, which it does not, `<<Blank>>`.

**Listing** is `findAll` of the three repositories as their controllers call it: `Ask` has the query checked, then two queries are sent together for each page, in any order, over a table that other requests change (`Enter`, `Leave`), and the client asks for one page after the other until one comes short.

**MailQueue** is `sendMail`, the processors and the part of BullMQ they rely on. `state[m]` is the set the job is in, `owner[m]` the worker that holds its lock, `pc[w]` the await of a processor.

| Code | Actions |
|---|---|
| `MailService.sendMail` | `SendMail` |
| `MailProcessor.process` | `Process` (take a waiting job, call the mailer); `Deliver` or `Refuse` (how the call ends: a delivery may still answer with an error); `Complete` or `Fail` (report it, if the lock is still held) |
| `attempts`, `backoff` in `mail.module.ts` | `Count` (in `Fail`), `Wake` |
| `MailProcessor.onFailed` | `OnFailed` |
| BullMQ and the environment | `LoseLock`, `Die`, `Stall` (an active job nobody holds waits again), `Expel` (one that stalled too often fails) |

**Outbox** is what the queue promises its callers: a posted mail may be delivered any number of times, and even although it is given up; it is settled once, as done only if a server took it, and settled at last. MailQueue instantiates it as `Promise`.

## 3. Runs and properties

Checked and found to hold:

| Run | Properties | What it shows | Size |
|---|---|---|---|
| `tokens` | `HTypeOK`, `DeadTokensStayDead`, `TokensNeedActiveAccount`, `KeepsContract` | Three requests at once among login, refresh, forgot, reset, status changes and removal, with failures. No refresh token that a finished revocation covered, and none that was exchanged, is ever the stored one again, although a login or refresh past its checks may store its own key before or after the deletion; no request reaches `issueTokens` unless its account was active at some instant since it began; and every step is one of Sessions or a stutter there. | 1.1 M states |
| `coherence` | `TypeOK`, `StaleOnlyAfterRace` | Two users who may share a role, two requests among login, validate, user update and role update, with failures. A cached identity that differs from the database is about to be deleted by the request that made it differ, or a fill race or a dead request explains it: no write path forgets an invalidation, and the fan-out of a role update misses no holder. | 1.3 M |
| `forgetting` | `DeletionIsFinal`, `DeletedIsForgotten`, `CacheCatchesUp` | Whichever of the requests on one account (sign-up, verification, reset, sessions, administration) race its deletion, no step takes it back, and no request passes its check of the account after it; under fairness Redis in the end holds nothing about a deleted user, for ever; and once a user's identity changes no more, the cached one is in the end current and stays so. | 114 k |
| `catalogue` | `CatalogueIntegrity` | Two administrators against each other: references to roles and permissions never dangle and names stay unique, because every check that can be overtaken is backed by an index or a foreign key. | 1.6 M |
| `links` | `LinksAreBacked`, `SpentTokensVerify`, `SharedOnlyAfterRace` | A queued mail is backed by committed rows; a spent verification token has verified its account; and of the four writes that give an account an address none lets two live accounts share one, unless the other took it between the look-up and the write. | 958 505 |
| `mailqueue` | `TypeOK`, `CallsAreBounded`, `FailuresAreLogged`, `KeepsPromise` | Two workers, two mails, with refusals, lost answers, expired locks and deaths: the mailer is called at most `Attempts` + `MaxStalled` times for a mail, a mail that is given up is in the log or lost its entry to a dying worker, and, with liveness, the queue implements Outbox. | 0.3 M |
| `seeding` | `TypeOK`, `SeededRolesOpenTheirRoutes`, `RacesHaveAWinner`, `OnlyDeathsOrphan` | Two hosts, two runs each, deaths anywhere: once one run completes, the superuser is admitted everywhere and the admin wherever no role is demanded; two seeders never both fail on each other's rows; and a user who exists lacks his role only while a seeder is between the two statements, or because one died there. | 0.6 M |
| `listing` | `NothingMissed`, `NothingRepeated`, `MetaNamesLastPage`, `RangesAreWholeDays` | A row that matched throughout, with a sort value of its own, is returned by a walk during which rows came in anywhere but none left its place, and is returned once by a walk during which rows left but none came in; on a quiet table `totalPages` is the number of the last page with a row; a date filter returns exactly the rows of the local days it names. | 2.6 M |

Checked and found violated, each a disagreement described in section 7: `rotation` (`EachTokenWorksOnce`), `single_use` (`EachLinkWorksOnce`), `refused` (`InactiveIsRefused`), `renaming` (`StaleOnlyAfterRace`, with permission updates in the traffic).

Each property of a passing run has a mutant, an operator next to the definition it replaces (comment "Mutant:"), which is a plausible mistake in that code: a revocation that keeps the refresh token, a role update that reaches one holder only, a query that does not filter `deletedAt`, a cache hit that is stored again, a role removal that ignores the foreign key, a mail queued inside the transaction, a token stamped without verifying the account, a seeder that takes an existing role to be complete, an off-by-one in `skip`, a `skip` that counts pages, a floor for a ceiling, a range that ends when its last day begins, a mailer that retries by itself, a job completed by a worker that lost its lock, an address update without the look-up. TLC finds each property violated under its mutant.

How to read `StaleOnlyAfterRace`: its exceptions are what makes it true of this code, and they are narrow. `Pending(u)` is a request that has committed and holds the key of u in its list of deletions, or has yet to read the holders. `strayed` records an identity that was *already* stale when it was written (its read preceded a commit and its write followed the deletion), or whose deleter died. An identity written correctly that becomes stale by a commit nobody follows up is in neither: that is a forgotten invalidation, and what `renaming` exhibits.

`SharedOnlyAfterRace` is read the same way: `overtaken[r]` says that since r looked its address up another account has been given it, `contested` holds the accounts written by a request overtaken like that. A write path that skipped its look-up, or looked among the wrong rows, would leave two live accounts with one address of which neither is contested.

`CacheCatchesUp` is what remains of coherence when races are granted: any number of fills may be overtaken and any number of deletions lost, yet once the last change of an identity is committed, the requests that read the old one come to their end, the entry they leave runs out, and whoever fills the cache after that reads the row. Expiry alone does not give it: a handler that writes anew what it found in the cache would keep an old identity alive under the same fairness (the mutant of `ValidateBegin`). In `DeletedIsForgotten` the half about the cached identity is the stronger one in the same way; the half about the refresh token is weaker than it looks, because an instance has finitely many jtis and `IssueTokens` must stop when they are used up. What makes it true of the code, that no request passes its check of a deleted account, is in `DeletionIsFinal`, where jtis do not run out.

`NothingMissed` and `NothingRepeated` are the two halves of what pages by offset can promise: insertions push rows back, deletions pull them forward, so under insertions alone nothing is missed and under deletions alone nothing is repeated. With both neither holds, nor does either for rows that share their sort value. `alone`, a history variable, is the set of rows the second speaks of; it is emptied when a row comes in.

`SeededRolesOpenTheirRoutes` is about admission: that a guard which reads the wrong metadata would fail open is not something it can see. `RacesHaveAWinner` counts a seeder that died as one that has not failed.

## 4. Bounds

- *Requests*: 2 slots, 3 in `tokens`. Slots are reused, so a behaviour contains any number of requests one after the other; the bound is on how many run at once. Each race here is between a request that read and one that wrote; three are needed where a token is issued, exchanged and revoked at once.
- *Users*: 1 where the requests meet on one account (keys and rows are per user), 2 where a role's fan-out, an address or a link relates two.
- *Jtis*: 2 (3 in `rotation`): the revoked token and the one that replaces it. A jti is never reused, as 32 random characters are not; once all are used no more tokens are issued, which stops the issuing steps but not the rest. `coherence` is about identities and needs one.
- *Passwords*: 2 in `tokens`, so that a change is a change; 1 elsewhere.
- *Statuses*: `ACTIVE` and one that is not; every other inactive status is treated alike by the code.
- *Roles, names, permissions*: 2 of each in `catalogue`, so that names can collide and a reference dangle; fewer where only the holding matters. Row ids are not reused.
- *Links*: 1 or 2 tokens.
- *Seeding*: 2 hosts, `MaxRuns` = 2 starts each, the catalogue in full: 18 permissions, three roles, three users.
- *Listing*: 3 rows, limits of 1 and 2 (the default), so there are full last pages, short ones and empty ones; 4 sort values, which as instants are two days of two ticks, so ties occur and a range can begin or end inside a day; zones one tick ahead of UTC and one behind, so that local days never coincide with UTC days; about fifty queries, among them each kind of bad one on each resource and numbers the driver refuses; writes happen up to page `MaxPages` = 2, after which the client finishes on a table at rest.
- *Mail*: 2 mails and 2 workers, which suffice for a job to be run by two workers at once while another waits; `Attempts` 3 as configured, `MaxStalled` 1, BullMQ's default.

Symmetry is used for slots, users, addresses, jtis, passwords, links and rows, which the models treat alike, and never in a run that checks liveness. Deadlock is checked in the runs of Backend; a finished seeder, a finished walk and a queue with every mail settled really stop, so `seeding`, `listing` and `mailqueue` do not check it.

## 5. Fairness

`FairSpec` assumes two things. `WF(Progress(r))` for each slot: a handler that has begun is run on, because its awaits settle (Postgres and Redis answer or fail; in the model a failure is `Abort`, which is not assumed to happen). `WF(ExpireUser(u))` and `WF(ExpireRefresh(u))`: every `set` in `cache.service.ts` carries a time to live - the default of `cache.module.ts` or the one `issueTokens` passes - and Redis drops the entry when it is over. Nothing is assumed of clients: they need not send, retry or refresh. Both are needed: without expiry an identity stored by a request that lost its race would be served as long as nobody deletes it.

MailQueue's `FairSpec` assumes `WF(Work(w))`: a worker that can take a job, or whose mailer call or Redis call is due, gets on with it (a mailer call ends, by delivery or refusal, because SMTP connections time out; a process that dies is restarted by PM2); `WF(Wake(m))`: a backoff ends; `WF(Stall(m))`: BullMQ repeats its stalled check. Nothing is assumed of `SendMail`, and `LoseLock` and `Die` need not happen. They cannot go on for ever on one mail either, since each leads to a stall and stalls are counted; that is why weak fairness is enough for every mail to be settled.

## 6. Proofs

TLAPS checks these for every value of the constants - any number of users, roles, permissions, tokens, links and concurrent requests, any traffic, with or without failures - from the assumptions named in `Store`: `NoneAssumption` (None and Gone are not names or ids), `StatusAssumption` and `FaultsAssumption`; for the queue from `MailAssumption` of MailQueue; for the seeder, with the catalogue as the code has it, from `SeedingAssumption` (somebody seeds); for the listing, with any finite table, any sort values and limits, any zone and any length of the day, from `QueryAssumption`, `ListingAssumption` and `QueriesAssumption` (a walk begins with the first page or the driver throws on its page, limits are not negative, a date filter is a sequence of dates, blanks and junk).

| Theorem | Statement |
|---|---|
| `TypeCorrect` (Backend_proofs) | `Spec => []TypeOK` |
| `Invariance` (TokenHistory_proofs) | `HSpec => []IInv` |
| `HistoryTypeCorrect` | `HSpec => []HTypeOK` |
| `RevocationIsFinal` | `HSpec => []DeadTokensStayDead` |
| `IssuingNeedsActive` | `HSpec => []TokensNeedActiveAccount` |
| `ImplementsSessions` | `HSpec => KeepsContract`, the refinement of Sessions |
| `RolesStayWhole` (Records_proofs) | `Spec => []CatalogueIntegrity` |
| `MailLeadsToAccount` | `Spec => []LinksAreBacked` |
| `NoTokenWasted` | `Spec => []SpentTokensVerify` |
| `OnlyRacesShare` (AddressHistory_proofs) | `ASpec => []SharedOnlyAfterRace` |
| `NothingElseGoesStale` (CacheHistory_proofs) | `CSpec => []StaleOnlyAfterRace`, if no permission is renamed |
| `DeletedForGood` | `Spec => DeletionIsFinal` |
| `ForgottenForGood` | `Spec => [](Forgotten(u) => []Forgotten(u))` for every user `u` |
| `TypeCorrect` (Seeding_proofs) | `Spec => []TypeOK` |
| `SeedersHaveAWinner` | `Spec => []RacesHaveAWinner` |
| `OrphansAreOfTheDead` | `Spec => []OnlyDeathsOrphan` |
| `NoRouteIsClosed` | `Spec => []SeededRolesOpenTheirRoutes` |
| `WalksMissNothing` (Listing_proofs) | `Spec => []NothingMissed` |
| `WalksRepeatNothing` | `Spec => []NothingRepeated` |
| `TotalPagesIsTheLast` | `Spec => []MetaNamesLastPage` |
| `WholeDays` | `Spec => []RangesAreWholeDays` |
| `QueueTypeCorrect` (MailQueue_proofs) | `Spec => []TypeOK` |
| `RetriesAreBounded` | `Spec => []CallsAreBounded` |
| `FailuresLeaveATrace` | `Spec => []FailuresAreLogged` |
| `ImplementsOutbox` | `Spec => Promise!Spec`, the safety half of the refinement of Outbox |

`TypeOK` is inductive as it stands, since `SlotOK` carries what each handler has checked; the proof has one lemma per component and one step per action.

`DeadTokensStayDead` is not inductive: it says that no *stored* jti is dead, and a step could store or kill one. `IInv` adds:

- `OneOwner`: a jti was issued for one user. Without it, a revocation of one user could cover a jti stored for another.
- `StoredIsIssued`, `PastIsIssued`, `PresentedIsIssued`: stored, condemned, revoked, exchanged and presented jtis have all been issued; so the fresh one that `issueTokens` stores is none of them.
- `CondemnedIsPending`: while a revocation has not answered, a key that still holds a jti it condemned is still on its list. This is the heart: when the handler answers, its list is empty or its last deletion is being executed, so no condemned jti is stored, and from then on only fresh ones can be.
- `CheckedSawActive`: a request past the re-read of its account has seen it active.

The step from the 40-odd actions to the invariant goes through `Transition(r)` and `SlotMoves(q)`, a summary of what any action may do to the token state (leave or drop stored jtis, or mint a fresh one for the request's own user) and to a slot (what may precede being in refresh, past the check, or dropping keys). Each component has a lemma that its actions are transitions; `InvNext` then reasons about transitions alone, one step per conjunct of `IInv`.

`ImplementsSessions` uses `IInv` once more: that `Issue` mints a jti not minted before and not withdrawn follows from the `...IsIssued` conjuncts, and that `Withdraw` declares dead only what nobody accepts from `CondemnedIsPending`.

`CatalogueIntegrity` is inductive together with `TypeOK`: whatever a handler checked awaits ago, the transaction that writes checks again - the foreign keys and unique indices of `UserCreateWrite`, `UpdateWrite`, `Accepts` and `RoleRemoveDelete`. `RoleWritten` is the heart: a role row written under a free name with grants that exist, or emptied while nobody holds it, leaves the catalogue whole.

The links have no such index behind them, so `LinksInv` says what the checks before an await have established (`Backed`): a request about to queue a mail holds a link that is written, one about to write a link an account that is inserted, one about to verify a link of kind verify for the account it is about to verify. That survives the steps of the others because no step removes a row, unverifies an account or changes whom a link is for (`AccountsPersist`, `LinksPersist`).

`SharedOnlyAfterRace` rests on `Clear`: a request between its look-up and its write that has not been overtaken knows that no account but its own has the address. `AddressStep` summarises what a step may do: leave every live account at its address, write one account with the address looked up, or begin with a look-up that found nobody else.

`StaleOnlyAfterRace` is inductive together with `TypeOK` and `CatalogueIntegrity`; what takes the work is that every write path pays. The proof keeps books. A step *owes* a user (`Owed`) unless it leaves his identity as it was, or he had none, or somebody has the deletion of his key on his list when the step is over: each component has a lemma that its actions owe nothing else (`AccountsOwe`, `UserAdminOwes`, `RoleAdminOwes`), the fan-out of a role among them, where the holders are read after the commit and so the debt is to whoever holds the role at that time. A debt stays until it is paid: the request that owes deletes the key, or dies, which `strayed` records (`OwnDebt`); the steps of others leave it (`OthersDebt`), for one who takes the role from its holder meanwhile owes that holder a deletion himself. The hypothesis on `Traffic` cannot be spared: with permission updates the run `renaming` refutes the statement. It is met by `coherence` and by every other traffic without that one kind of request.

`DeletionIsFinal` needs no invariant beyond `TypeOK`, but all of the handlers: the writes by id alone (`PasswordWrite`, `UpdateStatusWrite`, `UpdateWrite`, `VerifyWrite`, `ResetWrite`) may hit a row that was deleted since they looked, and must leave `deletedAt` as it is (`StaysDeleted`); and a request is past its check of an account (`Past`) only by a step that has just read the account live, and writes no keys but those of that account (`Passes`). `ForgottenForGood` follows: with the keys gone and nobody past the check, the state in which Redis holds nothing of the user is closed under every step. That such a state is reached is `DeletedIsForgotten`, which TLC checks.

For the seeder, `RacesHaveAWinner` is true because the last process to insert a grant has found the row free: `SomebodyWins` names a process that has not failed and is not about to. `Behind` says what a process leaves behind it, role by role and user by user (`RolesOf`, `UsersOf`), and what an account without its role is (`Settled`); that nothing is ever deleted (`Grows`) keeps it true while others run, and deaths lose only the place, not the rows. When a run is done everything is behind it, and `GatesMet` checks the routes: every permission a guard names is one the loops compose.

For the listing, `OnTheWay` explains why nobody is passed. Until a row that stayed has been returned, it is on the page just read, or at least as many rows come before it (`Ahead`) as the pages the client is through with hold (`ToCome`). `Position` ties the two: a row alone with its value stands, in every order the database may choose, right behind those with smaller values, so a page that is not reached by it is full of rows that come before. Rows that enter only add to `Ahead`; a row that leaves may take away, and that is the exception of `NothingMissed`. `OnceOnly` is its mirror image: of a row that stands alone and has been returned, fewer rows come before it than the pages the client is through with hold (`Behind`), and as rows only go, that stays so; the next page begins further on, and holds at its place only (`PlaceOnPage`). `Calm` says that on a table nobody writes to the responses so far are the pages of one table, which gives `MetaNamesLastPage`. `RangeIsDays` is the arithmetic of `startOf("day")`, `endOf("day")` and the zone: an instant is in the range just if its local day is between the two days named; with `EndsOfAFilter` (what passes the checks has a first and a last date) and `Judged` (the status is the one the query deserves) it follows that the where clause and the calendar agree (`CalendarAgrees`).

For the queue, `CallsAreBounded` is not inductive either. `CallsAreCounted` balances the account: calls are the attempts that were counted, plus the stalls, plus one while the job is active or once it is completed. `LocksAreHeld` says that a lock's owner is at work on that job, which is active; `FailsOnce` that a job is failed by its last attempt or by one stall too many, never by both; `NothingFromNothing` that only posted mails are worked on and arrive, and that what is completed has arrived. Together with `TypeOK` they give the bound, the trace of failures, and each step of Outbox.

Every invariant and every action property the passing runs check is thus a theorem. Only model-checked is what needs fairness, which the prover does not reach: `DeletedIsForgotten` and `CacheCatchesUp` of `forgetting`, and the liveness half of `KeepsPromise`. The inductive invariants that are not properties of a run themselves (`SomebodyWins`, `Behind` of the seeder, `OnTheWay`, `Calm` and those above) were checked by TLC on the same instances before they were proved.

## 7. Where the code and its documents disagree

- `rotation`: two concurrent refreshes with one token are both issued a pair; the comment above `refresh` and SECURITY.md say each token works once. One of the two pairs ends up stored, the other's refresh token is dead on arrival (`DeadTokensStayDead` holds), but both access tokens work.
- `single_use`: two concurrent resets with one token both set a password; `usedAt` is checked and later stamped by id alone. SECURITY.md says a spent token is refused.
- `refused`: a suspension that commits and deletes `user:<id>` between the read and the write of `validate` (or `login`) leaves the suspended user cached, and served, until the time to live ends. SECURITY.md says he is refused on the next request. `CacheCatchesUp` bounds the damage: once his account stays as it is, the old identity runs out and is not written anew.
- `renaming`: updating a permission's name deletes no key, though SECURITY.md says the cache is invalidated wherever authorization changes.

Met while modelling, and not given a run: a seeder that dies between creating a user and attaching his role leaves a user whom every rerun skips, though DEPLOYMENT.md calls the seeder re-runnable (`OnlyDeathsOrphan` shows that nothing else does); an unparseable date filter answers 500, because `parseInZone` (`dayjs.tz`) throws a RangeError before `isValid` is asked, where API_DOCUMENTATION.md (lines 100-101) and the comment of date-filter.ts (lines 15-17) promise a 400; `page` and `limit` are passed on whatever number they are, so `limit=2.5`, `limit=1e30` or a page before the first answer 500; `filter[id]` of permissions is handed to Postgres unchecked, so one that is no uuid answers 500; `filter[id]` of users is on the allow-list but restricts nothing; the throttler counts in the memory of each worker, so in cluster mode a client has its limit once per worker; two concurrent registrations of one address both insert (look-up and insert are two awaits, and by design there is no unique index; audit-findings.md calls it "a service check only"); a login past its checks may store a jti after a suspension has revoked the session, which `refresh` then refuses on its re-read; `login` answers an unverified account with a message of its own, where API_DOCUMENTATION.md says all failures share one; controllers turn any unknown `sortDirection` into `desc`, where API_DOCUMENTATION.md promises a 400 (lines 80 and 93); a client who stops at `meta.totalPages` instead of at a short page can miss rows, because the count may be taken before an insert and the page after it; a page may repeat or omit rows whose sort values are equal; the comment above `MailProcessor.onFailed` says it fires once every attempt is used up, while BullMQ emits `failed` after each.

## 8. Abstractions and omissions

- A `$transaction` commits in one step; a statement inside it that fails undoes all of it. `userInformation`, one Prisma query with nested selects, reads in one step.
- A `del` or `set` that resolves has taken effect; one that rejects is `Abort`.
- Awaits on local work (bcrypt, signing) belong to the step before them: they delay a handler, which an interleaving does anyway.
- Passwords are represented by what they verify; JWTs by user and jti, with signatures and expiry left to the library (an access token may be presented by whoever was issued one; letting it expire removes behaviours). Jtis and link tokens never repeat, and clients present only tokens that exist.
- Guards are not composed with the handlers of Backend: any request of `Traffic` may come at any time, which includes every request a guard would admit. `validate` is a request of its own for the same reason.
- `UsersService.sendForgotPasswordEmail` has no caller and is not modelled.
- While the seeder runs, nobody else writes. Each of its upserts is one atomic statement (Prisma sends `ON CONFLICT` for an upsert on one unique column).
- Query leaves out texts: search terms and substring filters decide which rows match, and Listing takes that as given. A query with a date filter sorts by that date. Zones have a fixed offset; a day of 23 or 25 hours is not modelled. Negative limits, which Prisma reads as counting from the end, are left out, and so is a request for a later page that no walk leads to, a fractional page among them whose `skip` happens to come out whole. What Prisma and Postgres throw on is modelled as far as section 7 lists it; texts they might refuse are left out with the texts.
- Status codes are modelled for listings only; elsewhere a request that is refused is one that answers.
- MailQueue: the subject, template and addresses of a mail; the length of the backoff (a delayed job wakes at some time); the removal of old settled jobs (`removeOnComplete`, `removeOnFail`: a job counts as settled still). BullMQ is external and modelled as the options and comments of `mail.module.ts` and `mail.processor.ts` rely on it. `sendEmailSync` has no caller. Redis losing its data would lose jobs and is not modelled. The handlers' side of the queue is `mailed` in Backend: a link token that was mailed may be presented any number of times, so duplicate delivery adds no behaviour there.
- Not modelled: utilities, the validation pipes, wording and i18n, throttler, file upload, configuration and bootstrap, for the reasons in PROJECT.json.

## 9. Plan

Done: Store and the four handler modules, Backend with its three histories, Sessions and its refinement, Access and Seeding, Query and Listing, MailQueue and Outbox; every invariant of the passing runs and both refinements (safety) proved.

Next: `ENABLED` and fairness are out of the prover's reach, so what is left to prove are safety statements the runs do not make yet: for each stale identity that only a race explains, which race.

## 10. Running

`tlc -config <run>.cfg <module>` with the module PROJECT.json gives for the run; `tlapm <module>.tla` for each of the eight `_proofs` modules. The longest run takes about two minutes on four cores, the proofs several.
