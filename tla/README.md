# PropFlow in TLA+

PropFlow is a NestJS backend for renting property. Owners list properties and
their units; tenants ask for a unit, get a lease and ask to renew it. Every
operation is a handler of an HTTP request; handlers run concurrently, in any
number of server processes, over one PostgreSQL database, one Redis and an
image store. There is no worker and no timer in the rental flow: a lease
expires when some later request happens to run the expiration sweep.

This directory models the handlers whose correctness depends on how they
interleave, checks them with TLC and proves the central results with TLAPS.
Paths below are relative to `src/`, the root of the repository.

## Inventory

| Part (code) | State | Operations that change it | Correct when | Status |
| --- | --- | --- | --- | --- |
| Leases (`src/leases/leases.service.ts`) | `leases`: status, dates | create, update, activate, terminate, renew | a unit is never booked twice; a lease follows its state machine; it ends together with its tenancy | modelled |
| Lazy expiration (`src/common/lease-expiration`) | none of its own | one SQL statement over leases, renewal requests, units | it frees a unit only with the lease that held it | modelled |
| Renewal requests (`src/leases/lease-renewal-requests.service.ts`) | `lease_renewal_requests` | create, approve, reject, cancel; closed by renewal, termination, sweep | one decision; PENDING only while the lease can still be extended | modelled |
| Rental requests (`src/rental-requests`) | `rental_requests` | create, approve, reject, cancel; rejected by property removal | one decision; an approval makes exactly one lease | modelled |
| Units (`src/units`) | `units`: status, data, images; search cache | create, update, setStatus, image changes, remove | RENTED exactly while a lease is ACTIVE; nothing refers to a removed unit; no stale search without a cause | partly: all but create |
| Properties (`src/properties`) | `properties`: soft deletion, data, images | create, update, image changes, remove | removed without tenants, PENDING work closed | partly: remove, images |
| Maintenance (`src/maintenance`) | requests, history rows, image references | create, assign, start, complete, close, cancel, image changes | each transition once, one history row each; no image of a committed row deleted | modelled |
| Sessions (`src/auth/auth.service.ts`) | `refresh_tokens` | login, refresh, logout, reset and change of password, cleanup | a token is used once; reuse and a new password end the family | modelled |
| One-time codes (`src/auth/otp.service.ts`) | Redis keys: code, attempts, cooldown | issue, verify | a code is accepted once and after bounded attempts | modelled |
| Users (`src/users`) | `users`: password, role, active, verified, Google account, avatar | registration, setStatus, setRole, profile, avatar | no change of a password silently undone | partly: all but the image of the avatar |
| Cache (`src/common/cache`, `src/common/redis`) | Redis keys with a TTL | fill after a miss, delete by pattern | an entry is out of date only for a known reason, and for at most its TTL | modelled |
| Throttler (`src/common/throttler`) | Redis counters | one Lua script | at most `limit` hits pass in a window | modelled |
| Uploads (`src/common/uploads`) | the image store | upload, delete | no row names a deleted image | modelled |
| Analytics (`src/analytics`) | none of its own; cached dashboard | read through the cache | as for the cache | partly: what the dashboard can see |
| Notifications, audit logs | append-only rows | insert in the caller's transaction | committed with the change | left out: they share the transaction and no handler decides on them |
| Guards, policies, filters, interceptors (`src/common`) | none; the token guard reads `users` | - | a deactivated account is refused although its access token is still valid | partly: the token guard |
| Health, mail, pagination, configuration, migrations, seeds, bootstrap | none, or start-up only | - | - | left out: read-only, stateless or run before any request |

How they interact: handlers of different services write the same rows
(activation, termination, the sweep, property removal and unit edits all write
`units.status` or depend on it). Mutual exclusion comes from `SELECT ... FOR
UPDATE` on single rows, from constraints, and in several places from nothing:
a row is read, checked, and saved later. The image store and Redis are outside
the transaction: what was uploaded, deleted or dropped there is not undone by a
rollback, and a process may crash between a commit and the invalidation of the
cache. The hard behaviour is thus the order of steps of two requests and what a
failure leaves behind; `PROJECT.json` lists every such place under `hazards`,
with the property that watches it.

## Modules

Four models, of the parts of the program that share no row a decision depends on.

```
Database            tables, row locks, constraints, handler state
  LeaseExpiration   the sweep
  Leases            create, update, activate, terminate, renew
    Renewals        renewal requests (approve calls Leases!ApplyRenewal)
  RentalRequests    rental requests
  Properties        remove
  Units             handlers that save a unit they read without a lock
Occupancy           abstract: a unit is empty or held by one lease
PropFlow            the rental core; Init, Next, Spec, properties; it implements Occupancy
  PropFlowLocks, PropFlowProofs                                       proofs

Accounts            the user, the refresh tokens, handler state
  Users             registration, Google, the saves of a user
  Sessions          login, rotation, reuse, logout, new passwords, clean-up
TokenChains         abstract: a session is a chain of tokens, one of them current
  TokenChainsProofs                                                   proofs
AccountFlow         the authentication; Init, Next, Spec, properties; it implements TokenChains
  AccountProofs                                                       proofs

Uploads             the image store, handler state
  Maintenance       maintenance requests and their images
  Gallery           the image list of a property or a unit
WorkOrders          abstract: the stages a maintenance request goes through
  WorkOrdersProofs                                                    proofs
MaintenanceFlow     both, with crashes; Init, Next, Spec, properties; it implements WorkOrders
  MaintenanceProofs                                                   proofs

Redis               keys that expire
  Otp               one-time codes behind the throttler; Spec, properties
    OtpProofs                                                         proofs
  LockOrder         the locks of the rental core, one by one
    ReadCache       cached reads and their invalidation
      Pipeline      both; Init, Next, Spec, properties
        PipelineProofs                                                proofs

MCPropFlow, MCAccountFlow, MCMaintenanceFlow, MCOtp, MCPipeline       instances
```

Definitions whose comment begins with "Wrong form of" are not part of a model:
each is a plausible mistake in the definition it names, kept to check that the
properties notice it.

In every model `pc[q]` is the next step of handler `q` and `job[q]` what it has
read and will use. A step ends where another handler can act: at a commit, an
unlocked read, a wait for a row, a call to Redis or to the image store.

### The rental core (PropFlow)

**State.** `unit`, `lease`, `request`, `renewal` are the tables with the
columns that handlers decide on; `deleted` is `properties.deletedAt`. Columns
no statement changes (the unit of a lease, the tenant of a request) are
constants, so an identifier is a row that may be inserted later and has status
`"NONE"` until then. `today` is the date. `job[q]` is the entity in memory.

**Steps.** A transaction that locks rows, checks and writes is one step, taken
when it gets its last lock. It is two steps where another handler can act
between two of its locks: `activate` (lease, then unit), `approve` of a rental
request (request, then unit), and more in `remove` of a property (the count, then
for leases and for requests the snapshot and the locks of its rows).
Locks held between the steps are `HeldLeases` and `HeldRequests`, computed from
`pc` and `job`; a step that needs such a row is disabled until it is released.
A read outside a transaction is a step of its own. `save()` of TypeORM selects
the row and writes the columns in which the entity differs from it, so saving a
stale entity writes old values back; `UpdateLeaseSave` also allows the case
that this select came before the other handler's commit, where the status is
not written. The several unlocked checks of a new rental request are taken as
one step: what can go stale is the whole of them, before the insert.

**The sweep** is one statement under READ COMMITTED: its rows come from a
snapshot (`SweepBegin`), rows changed since are checked again in their new
version and rows inserted since are not seen (`SweepCommit`). It never waits
for a lock the model keeps, because held leases are PENDING (`LocksHold`). A
sweep with nothing overdue changes nothing and is left out (`Receive`); handlers
that only read are the sweeps that go back to `"idle"`.

**Failure.** `Fail` is a handler that throws at any step: a refusal, a
constraint, a lost connection, a crash of its process. Its transaction rolls
back and its locks are released. Refusals by role or ownership are not
modelled further: requests come from actors that may make them. In the code
`terminate` compares no property owner itself, though its JSDoc lists a
ForbiddenException.

**Constraints** are guards on the writes: the exclusion constraint over
`[startDate, endDate]` of PENDING and ACTIVE leases of a unit, `startDate <
endDate`, one ACTIVE lease per unit (`LeaseWritable`), and one PENDING rental
request per tenant and unit (`DuplicateRequest`). The property is read without
a lock in most handlers; where that read and the write are one step it is read
at the moment of the write.

**Refinement.** `Occupancy` knows of each unit the lease that holds it and of each
lease whether it is over: `Take` gives an empty unit to a lease that is not
over, `End` ends leases and empties the units they hold. `PropFlow` maps a unit
to its ACTIVE lease while it is RENTED (`HolderOf`), and calls the leases that are
TERMINATED or EXPIRED over (`EndedLeases`). `UnitsAreHeld` says that every step
of the handlers is such a step or changes nothing of it: the sweep, a
termination and a removal are `End`, an activation is `Take`, and no step hands
a unit from one lease directly to another. That is more than `RentedIffActive`,
which relates one state.

### Locks and the cache (Pipeline)

PropFlow merges the steps of a transaction that nothing can come between;
`LockOrder` keeps them apart, because there the question is who waits for whom.
`Locks(q)` are the rows handler `q` has locked, `Wants(q)` those it locks next,
`Dirty(q)` the leases it has written and not committed: the exclusion constraint
makes an insert or a new period wait for those. `WaitCycle(S)` is a deadlock of
the database; PostgreSQL ends one of its transactions, which is `Fail`. Only
what decides on locks is kept: the units of one property, no periods, so any two
leases of a unit may overlap and any ACTIVE lease may be overdue. `create` of a
maintenance request locks the lease and then, through its foreign key, the unit, in
the order activation does, and adds no new wait; it needs an ACTIVE lease, so it
adds nothing to the history of a unit that is being removed either. It is left out, as
are the renewal requests, whose handlers hold only their own row or lock the lease
first.

The sweep is one statement that updates leases and units of several rows
(`SweepFind`, `SweepRow`, `SweepCommit`). PostgreSQL says of the updates in a `WITH`
that their order is unpredictable, so `SweepWants` admits any, but for what the
statement itself implies: a unit is found through a lease that was updated. Rows it
found and that changed before it came to them are passed over.

`LeasesService.update` and the handlers that save a unit read the row without a
lock (`UpdateRead`, `UnitRead`) and write what they read (`UpdateLease`, `SaveUnit`): a
lease ACTIVE meanwhile is PENDING again, a unit RENTED meanwhile is not, and a unit
removed meanwhile is inserted again.

`ReadCache` adds the readers (`FillRead`, `FillStore`) and the calls that follow a
commit (`Invalidate`). `redis[k].ref` and `fill[q].ref` do not hold the answer but
how it relates to the tables: it shows them as they are, does not, does not
for a reason already known, or not since a commit after which nothing is dropped
(`AnswersAge` updates this with every commit that changes `View(k)`, what the query of
the key can see; the last is the update of a lease).

### Users and sessions (AccountFlow)

`user` is one row, `token` the refresh tokens, with the family of the login that
each descends from. Revocations of several rows are two steps, `RevokeBegin` and
`RevokeCommit`, because under READ COMMITTED the update works on the rows of a
snapshot, waits for those another transaction has updated (`HeldTokens`) and never
sees a row inserted since. `job[q].known` is no variable of the code: it records which
tokens had been issued when a password change took its snapshot, for the properties
about it. Handlers of `Users`
read the user and save it later (`SaveUser`); the entity does not select the
password, so a save does not write it. The select and the write inside one
`save()` are one step. `Authenticated` is what `JwtAuthGuard` asks of a request with an
access token: the account is read again, the session is not. Hashes, signatures and cookies are left out: a client
presents a token that was issued.

**Refinement.** `TokenChains` is what a session means to its client: `Open` begins a
chain of tokens, `Exchange` replaces its current token by one successor, `End`
makes tokens useless. `AccountFlow` maps a chain to the tokens of a family, those
since deleted included (`TokensOf`), and its current tokens to the live ones.
`SessionsAreChains` says that every step of every handler is one of the three or
changes nothing of them: `IssueTokens` is `Open`, the *commit* of a rotation is
`Exchange` although its update was an earlier step, and a revocation, the
clean-up and a logout are `End`. That a token expires changes none of them: an expired
one is refused, and stays in its chain until it is revoked or cleaned up. A second successor of a
token, or a token added to a chain that is over, is none of these.

### Codes and the throttler (Otp)

One address and one purpose. Each Redis command, script or MULTI block is one
step, and `Fail` may come between two. Codes are numbered as they are generated
and a guess is a number; 0 is never right. `Tick` ages every key by one unit. The
window and the block of the throttler have the same length, as in the code's
configuration. `admitted` is no key: it counts what the throttler let through in
the current window.

### Maintenance and images (MaintenanceFlow)

`request` and `history` are the rows, `store[i]` is the fate of image `i`: fresh,
stored, deleted. A handler uploads first, then takes its lock and commits, or
goes on to `DeleteImages`, where any of the deletions may fail; `Crash` ends it
anywhere. `Moves` is the state machine, read off the checks of the six
transitions; `HeldRequests` and `LeaseHeld` are the row locks held between two
steps. `LateLookup` names the transitions that look for the property only after
they saved the request, inside the transaction: they fail later than the others
when it is gone, which rolls them back. `Gallery` is the image list of a property or
unit, a column of a row that is read without a lock and saved whole, by the image
handlers and by `update` and `setStatus` (`RowRead`, `RowSave`); `dropped` remembers
which images a `removeImage` has taken out of the list.

**Refinement.** `WorkOrders` is the request as the tenant and the staff see it: the
course of stages it has gone through, who works on it, and the images shown of
the defect and of the repair. `MaintenanceFlow` maps the course to `"OPEN"` and then
the status at which each history row ends (`CourseOf`), so the *history*, which the
code only appends to, must tell the same story as the row the code decides on. Each
transition is a step of its name at its commit, `create` is `Report`, the image
handlers are `EditDefect` and `TrimRepair`; uploads, locks, deletions, failures and
crashes change nothing of it.

## Properties

| Name | Claim | Checked by | Proved |
| --- | --- | --- | --- |
| `TypeOK` | types; every handler remembers a row its next step can use | LeaseFlow | `TypeCorrect` |
| `RentedIffActive` | a unit is RENTED exactly while a lease of it is ACTIVE | LeaseFlow | `UnitsFollowLeases` |
| `NoDoubleBooking` | PENDING and ACTIVE leases of a unit share no day, one is ACTIVE | LeaseFlow, RequestFlow, StaleSaves | `NeverDoubleBooked` |
| `PendingRenewalsAreOpen` | a PENDING renewal request still extends its lease | LeaseFlow | `RenewalsFollowLeases` |
| `LeaseLifecycle` | the documented state machine; ACTIVE leases only grow; ended leases never change | LeaseFlow | `LeasesFollowLifecycle` |
| `TenancyEndsWhole` | ending an ACTIVE lease frees the unit and, on termination, closes the renewal request | LeaseFlow | `TenanciesEndWhole` |
| `ApprovalMakesOneLease` | an APPROVED request has a lease of its own with its unit and dates | RequestFlow | `ApprovalsMakeLeases` |
| `DecisionsAreFinal` | a decided request of either kind never changes | LeaseFlow (renewal), RequestFlow (rental) | `DecisionsStay` |
| `UnitsAreHeld` | PropFlow implements Occupancy | LeaseFlow | `UnitsImplementOccupancy` |
| `SessionsAreChains` | AccountFlow implements TokenChains | Sessions | `SessionsImplementChains` |
| `OneLiveTokenPerFamily` | however many requests present a refresh token, its family never has two live ones | Sessions | `FamiliesHaveOneLiveToken` |
| `DeadFamiliesStayDead` | a family without a live token and without a rotation about to commit is never revived | Sessions | `SessionsStayOver` |
| `SpentTokensAreKept` | a spent token is recognisable until it has expired | Sessions | `SpentTokensStaySpent` |
| `PasswordChangeEndsTokens` | a password reset or change leaves live no token that had been issued at its snapshot, but those of the session spared | Sessions | `PasswordChangesEndTokens` |
| `PasswordNeverReverts` | no stale save of a user restores a password | Sessions | `PasswordsOnlyAdvance` |
| `UsedCodesAreGone` | an accepted code is never accepted again | Codes | `CodesAreUsedOnce` |
| `GuessBudget` | a code survives fewer than `MaxAttempts` wrong guesses; only a new code resets them | Codes | `GuessesAreBudgeted` |
| `AdmittedPerWindow` | at most `Limit` requests pass in a window | Codes | `WindowsAreLimited` |
| `LockoutsEnd` | every cooldown, window and block ends | Codes | liveness, TLC only |
| `RequestsAreOrders` | MaintenanceFlow implements WorkOrders | Maintenance | `RequestsImplementOrders` |
| `HistoryTellsStatus` | the history of a request is a chain from OPEN to its status | Maintenance | `HistoriesAreComplete` |
| `RequestImagesStored` | every image that a request names is stored | Maintenance | `EvidenceIsStored` |
| `ImagesFreeze` | images change only while OPEN, completion images only by the completion and before the closing | Maintenance | `EvidenceStays` |
| `CreatedUnderLease` | a request is created under an ACTIVE lease | Maintenance | `RequestsNeedLease` |
| `ImageLimits` | no list outgrows `MaxImages` | Maintenance | `ListsAreLimited` |
| `GalleryStored` | an image that a list names and that is not stored was taken out of it before, and put back by a save | Maintenance | `GalleriesAreStored` |
| `WaitCyclesHaveACause` | in every deadlock there is the removal of a property, a change of a period, a circle of sweeps or a unit that a stale save has freed | Pipeline | `DeadlocksAreKnown` |
| `RemovedUnitsHaveNoHistory` | nothing ever refers to a removed unit | Pipeline | `RemovalsKeepHistory` |
| `StaleAnswersHaveACause` | a cached answer out of date is about to be dropped, or was stored by a reader slower than the change, or its invalidation was lost, or an update of a lease wrote its status | Pipeline | `StaleAnswersAreExplained` |

Each of the other models has a `TypeOK` of its own, checked in its run and proved.

The abstract modules have properties of their own, proved of them and carried over to
the handlers by the refinement:

| Abstract | Claim | Of the handlers |
| --- | --- | --- |
| `ChainsHaveOneEnd` | chains share no token and have one current one at most | `SessionsHaveOneEnd` |
| `ChainsStayOver` | a token never becomes current again, a chain without a current one never grows | `SessionsEndForGood` |
| `WorkIsAssigned` | work starts after an assignment, which gives the request a worker for good | `RequestsAreAssigned` |
| `CoursesOnlyAdvance` | no stage twice, none after CLOSED or CANCELLED | `RequestsOnlyAdvance` |
| `EvidenceIsFinal` | what is shown of the defect is fixed by the assignment, of the repair by the closing | `RequestsKeepEvidence` |

Handlers that save stale rows (`StaleSavers`: update of a lease, and setStatus,
update and image changes of a unit) break some of these, as the findings below
show. `Ops`, the set of operations clients call, says which properties survive
which handlers: `NoDoubleBooking` and `DecisionsAreFinal` hold with all of
them, `RentedIffActive` and `TenancyEndsWhole` without `StaleSavers`, the
others without the update of a lease (`LeaseSavers`). The theorems carry that
as an assumption on `Ops`.

## Runs and bounds

| Run | Question | Bounds |
| --- | --- | --- |
| LeaseFlow | all operations on leases, renewal requests and property removal; refinement of Occupancy | 2 handlers, 1 unit, 2 leases, 1 renewal request, 4 days |
| RequestFlow | rental requests, activation, property removal | 2 handlers, 2 leases, 2 requests of one tenant, 3 days |
| StaleSaves | lease operations with every stale save: do the constraints alone prevent double booking? | 2 handlers, 2 leases |
| LeaseUpdate, UnitUpdate, PropertyRemoval, Expiry | one documented claim each about the rental core, refuted | as above |
| Sessions | login, rotation, reuse, logout, new passwords, clean-up, saves of the user; refinement of TokenChains | 2 handlers, 3 tokens, 2 families, passwords 1 and 2 |
| Revocation | the documented claim that a revocation ends sessions, refuted | as Sessions |
| Codes | codes and throttler with crashes and expiry | 2 handlers, 3 codes, 3 attempts, limit 2 in a window of 2; lifetimes 4 (code) and 1 (cooldown) |
| Maintenance | transitions, images, failures, crashes, end of the lease, removal of the property; refinement of WorkOrders | 2 handlers, 1 request, 3 images, at most 2 in a list, 2 members of staff |
| Pipeline | deadlocks, removal of a unit, cache | 3 handlers, 1 unit, 2 leases, 1 request, one cached key, TTL 1 |

Two handlers are enough for every race of two requests, and each hazard listed as
covered is one, but for the deadlocks, of which the cycle of removal, approval
and creation needs three: so Pipeline has three. Races of more are covered by the
proofs, which hold for any number of handlers and rows.

- *Rental core.* One unit is enough for TLC because the locks, guards and
  constraints relate rows of one unit; the sweep and property removal treat
  several units alike. `LastDay = 4` lets two leases follow each other, `[1,2]` and
  `[3,4]`, so that a renewal can run into the next lease and a sweep can fall
  between them; `LastDay = 3` in RequestFlow lets `[1,2]` and `[2,3]` meet on one day.
- *Sessions.* Three tokens are a token, its successor and that of a
  second login, or two rotations in a row; two families are the one to be spared
  and the one to end. The role is written and never read by the handlers
  of this model, so the instance has only `TENANT`.
- *Codes.* The code outlives its cooldown, so that a second code can replace a
  first one that still has attempts used; the window is short enough to end while a
  code is alive. Three codes are a first, its replacement and one after a lockout.
- *Maintenance.* Three images and a limit of two let two uploads race for the last
  place. One request is enough for its history; that an image of one request
  is never deleted for another is part of the proof, which has any number.
- *Pipeline.* The dashboard (`stats`) sees what a search sees and more, and both are
  dropped by the same calls, so one key is checked. `CacheTtl = 1`: an entry may
  expire at any time. One unit with two leases has the waits of the exclusion
  constraint; a second unit adds the circle of two sweeps, which
  `WaitCyclesHaveACause` names and which an instance with a lease on each of two units
  reaches. What it claims of several units is proved, not checked.

`Tick` of the rental core stops at `LastDay`; the identifiers bound how many rows
are ever inserted, `LastPassword` and `LastCode` how often a password is changed
and a code issued; nothing else is bounded. Symmetry is used for handlers, and in
Sessions, Maintenance and Pipeline for the rows that are only compared; not in
Codes, which has a liveness property.

Deadlock of the model is checked in every run: `Fail` leaves no dead state, so
this shows only that the step relation is total. The deadlock of the database
is `WaitCycle`.

**Fairness.** Only Codes states any: `WF_vars(Tick)`, time never stops. That is what
Redis guarantees about keys with a time to live, and it is enough for
`LockoutsEnd`; no client has to do anything, and one that keeps trying does not
prolong its block. No other liveness is claimed: a request may fail at
any step and clients need not come back, so nothing the handlers do is bound to
happen.

## Findings

1. **A lease update can undo an activation or termination** (LeaseUpdate).
   `LeasesService.update` checks PENDING on an unlocked read and saves the
   entity. docs/business-logic.md:46-64 allows no way back to PENDING.
2. **A unit save can free a rented unit** (UnitUpdate). `addImages`,
   `removeImage` and `update` write the status they read;
   docs/business-logic.md:30 leaves that to the lease flow and
   docs/transactions.md:139 lists only `setStatus` as a gap.
3. **A property can be removed with a tenant** (PropertyRemoval). The count of
   RENTED units comes before the lock, docs/transactions.md:109-111 says after.
4. **A renewal request can outlive its lease's expiry** (Expiry). The sweep's
   snapshot misses a request inserted after it; README.md:366. It needs a
   midnight between that request's own sweep and its insert.
5. **A session can survive its revocation** (Revocation). A refresh that has spent
   its token but not committed when a password reset takes its snapshot inserts a
   successor that the reset, which waits for the old token, does not see; the session goes
   on under the new password. `changePassword`, and `revokeFamily` after a logout or the
   reuse of a spent token, miss a successor in the same way. README.md:406,
   docs/authentication.md:16 and :91, docs/security.md:29, docs/transactions.md:127 and the
   JSDoc at `auth.service.ts`:319 say that all sessions, or the whole family, are revoked.

Three more, which the properties name as exceptions and no run singles out:

- *A deleted image can return to its list.* `update` and `addImages` of a property or unit
  and `setStatus` save the list they read (`units.service.ts`:300, :388, :444,
  `properties.service.ts`:229), over that of a `removeImage` that has since deleted the
  image. The comments at `units.service.ts`:492 and `properties.service.ts`:450 call the
  row "the source of truth", and README.md:415 says that both copies go. One handler that
  edits images is enough. `GalleryStored` admits exactly these images (`dropped`).
- *An update of a lease leaves the cache as it is* (`leases.service.ts`:296). It can save
  PENDING over ACTIVE (finding 1), which the dashboard counts, and drops nothing;
  docs/Redis.md:24 says that "every cached page/scope is dropped on a relevant write".
  `StaleAnswersHaveACause` tells such answers apart (`Unannounced`).
- *An overdue lease can be activated.* `activate` (`leases.service.ts`:353) compares no
  date, so a lease left PENDING past its last day is ACTIVE, overdue, until the next
  sweep; docs/business-logic.md:70 says that "no overdue lease reports itself as ACTIVE".
  It takes one request and no race.

Smaller differences, with no run: docs/transactions.md:119 says pending rental
requests are not rejected by property removal, the code rejects them;
docs/transactions.md:131 describes a QueryRunner and two statements, the sweep
is one query on the DataSource; docs/transactions.md:50 says lease creation
re-checks conflicts, the code relies on the exclusion constraint; the documents
know no CANCELLED rental request and describe the uniqueness of requests as
unconditional, the index is partial on PENDING; docs/transactions.md:145 says that
uploads are not compensated, the code deletes them when the transaction fails;
docs/transactions.md:93-99 says that the removal of a property processes its units,
the code locks leases and requests and no unit.

Other behaviour the models allow, which no document denies in so many words:

- A login that checked the old password, or a Google login begun before it, inserts its
  token after a password change has committed: that session is not revoked. The model
  has the step (`LoginRead`, `IssueTokens`), and `PasswordChangeEndsTokens` speaks only of
  the tokens that had been issued at the snapshot.
- `DeadFamiliesStayDead` starts once no rotation of the family is about to commit, which
  is what finding 5 leaves of a revocation.
- A save of a user read earlier undoes a change of another column made meanwhile: it
  can re-activate an account or restore a role. Only the password is safe
  (`PasswordNeverReverts`).
- Of two overlapping edits of the image list of a property or unit, the later save
  wins, and images of the other are lost from the list while they stay stored.
- A property's maintenance requests are not closed by its removal, and stay as they
  are afterwards: every transition looks for the property.
- `assign` checks the staff member before its transaction; one deactivated in between
  is assigned all the same.
- `HistoryTellsStatus` is about the rows in the order of their commits. `getHistory`
  sorts them by `createdAt` (`maintenance.service.ts`:671), the start of the transaction:
  a transition that began earlier and waited longer for the lock is listed first, so
  "ordered from oldest to newest" (:659) is not the order of the transitions. The model
  has no start times.
- Deadlocks, which PostgreSQL ends by failing one transaction (the request is answered
  with 500, nothing retries it): the removal of a property or a change of a
  period with others; two sweeps with leases of several units, which take the rows in
  an order nobody states; and, once a stale save has freed a unit under its ACTIVE lease
  (finding 2, `Occupied`), termination, which locks the lease first, with creation, which
  locks the unit first. `WaitCyclesHaveACause` lists these and excludes all others.
- A unit that was removed is inserted again by a handler that saves it afterwards.

## Proofs

The theorems hold for every value of the constants under the named assumptions
of the modules that declare them: in the rental core the constant columns are
functions between the sets of rows (`ColumnsAssumption`), the calendar is not empty
(`CalendarAssumption`), `None` is no lease (`NoneAssumption`); in Accounts there is
a first password, `TENANT` is a role and `None` no family; in Otp the lifetimes are
finite and the limits positive (`OtpAssumption`); in Uploads a list may hold an
image and the images are finitely many (`ImagesAssumption`); in LockOrder leases,
rental requests, units and `None` are different rows (`RowsAssumption`) and each
lease and request names a unit (`UnitOfAssumption`); in Redis and
ReadCache a lifetime is finite (`ForeverAssumption`, `CacheTtlAssumption`). TLC
evaluates them in every run.

Rental core:

- `TypeCorrect`: `TypeOK` is inductive, one lemma per service.
- `PropFlowLocks`: the handlers' memory is no row lock by itself. `LocksInv`
  says that a lease or request held between two steps is still PENDING and held
  by that handler only; every action that writes a row either needs it free or
  writes only rows with another status. The later proofs use it to know what
  `ActivateCommit`, `ApproveRentalCommit` and `RemoveCommit` write over.
- `NeverDoubleBooked`: `Disjoint` says in terms of dates, not days, that
  occupying leases of a unit do not meet and one at most is ACTIVE; it is
  preserved because `LeaseWritable` guards every write that can create such a
  pair, whatever the handler believed.
- `UnitsFollowLeases`: `RentedIffActive` alone is not inductive. The sweep frees
  only units in its snapshot, so `SweepsSeeUnits` adds that the unit of each
  lease it may still expire is among them, as long as that lease is ACTIVE; and
  the lock invariant that no held lease is ACTIVE.
- `RenewalsFollowLeases`, `LeasesFollowLifecycle`, `TenanciesEndWhole`,
  `DecisionsStay`, `ApprovalsMakeLeases`: one step per action, from the types,
  the locks and what an action writes (`LeaseEffect`, `RequestEffect`,
  `CloseRenewalsEffect`). Theorems with an assumption on `Ops` first prove that
  no handler is ever at a step that belongs to an excluded operation.

- `UnitsImplementOccupancy`: the refinement. The mapping chooses the ACTIVE lease of a
  RENTED unit; `HoldersOK`, from `Disjoint` and `RentedIffActive`, says there is
  exactly one, so a step that changes no ACTIVE lease keeps the choice
  (`HoldersLeave`), an activation is `Take` (`ActivationMaps`) and every
  other step is `End` of the leases it ends, or a stutter (`StepMaps`).

Authentication (`AccountProofs`). The invariant `AccountInv` adds to the types what a
handler may rely on between two steps: that there is a user, that every token has a
family (`FamiliesKnown`) and a rotation works on the family of its token, that one
password change at a time is under way (`ChangesOK`), and that between the update
and the commit of a rotation its token stays live and is nobody else's
(`RotationsOK`). The last is what makes `OneLiveTokenPerFamily` inductive: the successor is inserted while its
predecessor, live until then, is the only live token of the family. For
`PasswordChangesEndTokens`, `ChangesSeeTokens` says that a change under way revokes or
spares every token that it knows and that is still live; one that is being rotated is
among them until its rotation commits, and no other step makes a token live again.

`SessionsImplementChains` rests on the same invariant. A step that inserts no token and
revives none is `End` of what it makes useless (`EndsMap`), which covers all
handlers but two. `LoginMaps` needs only that a login takes an unused family.
`RotationMaps` needs `RotationsOK`: at the commit the old token is still live and in
the family of the new one, so the commit is one `Exchange`, although the
check and the update were taken earlier and other handlers ran since.

Codes (`OtpProofs`). `OtpInv`: the key of a code names a code that was issued and not
used, and has fewer than `MaxAttempts` misses (`CodeOK`); the counter of the window
counts at least the requests it let through (`WindowOK`). `UsedCodesAreGone` alone is not inductive: `IssueCode` keeps
it because used codes are below the next number.

Maintenance (`MaintenanceProofs`). `FlowInv`: a transition between its lock and its
commit remembers the status the request still has, and nobody else holds it
(`MovesOK`); absent rows are empty, and a create that found the lease keeps it ACTIVE.
From it the history, the freezing of images and the creation under a lease follow
one row change at a time (`RequestEffect`: what any step may write to requests).
`RequestImagesStored` is far from inductive: `OwnersOK` splits the images into those
a request names, those one handler is about to link, and those the gallery and the
handlers that edit or delete hold, and says that these do not meet, so a
deletion never hits the first two. `ListsAreLimited` needs that also a list waiting
to be saved is within the limit; `GalleriesAreStored` that every list in the hands of a
handler is like the row (`GalleryOK`): what it names is stored, or on its way to the store,
or dropped before.

`RequestsImplementOrders`: the mapping reads the course off the history while the
guards of the code read the status, so every step first needs that the two agree,
which is `HistoryTellsStatus` with `FlowInv`: the course ends at the status
(`CourseNow`), and appending a history row appends a stage (`CourseGrows`).
`CreateMaps`, `MoveMaps` and `EditMaps` then show each change of a row to be a step of
`WorkOrders` and every other step to leave the mapped state alone.
`WorkOrdersProofs` proves what follows, and `OrdersPromise` (as `ChainsPromise` for the
sessions) carries it over: `Before` gives for each stage those that may
precede it, a course is `Ordered` by it, and as no stage is before itself and none
after CLOSED or CANCELLED, a course has no repetition and ends there.

Locks and cache (`PipelineProofs`). `PipelineInv`: no two handlers have locked the same row
(in `TypeOK`), a unit has one ACTIVE lease at most (`OneActiveLease`), and what a handler
found when it took its locks still holds (`Holds`): the unit is AVAILABLE for one that is
about to insert a lease or activate one, the lease to be ended still ACTIVE, the leases of
a property removal still PENDING, every unit a sweep holds RENTED with a lease of it
that the sweep holds too, the unit about to be deleted without history. It is
inductive because every transaction leaves alone what others have locked (`Respects`,
itself proved as `LocksAreRespected`): so a check under a lock is not stale when it is
used, in any number of handlers.

- `RemovalsKeepHistory`: a lease or a request is inserted by a handler that holds the
  unit, or that checks and inserts in one step, and `DeleteUnit` holds the unit too. A
  stale save can only turn a unit that is gone into one that is not.
- `DeadlocksAreKnown`: take a circle without a removal and a change of a period, and
  without an insert for a unit that is `Occupied`. Nobody in it inserts a lease: it would
  wait for one that ends a lease of the same unit, which is ACTIVE by `Holds`, on a unit
  that is AVAILABLE, the state `Occupied` excludes; for a second insert would need the
  unit. So only sweeps hold a unit and wait (`UnitHolders`). A termination waits
  for a sweep that holds its unit and with it the one ACTIVE lease of it, which the
  termination has locked: it is not in the circle. So a row that a sweep waits
  for, a unit or an ACTIVE lease, is held by a sweep (`LeaseHolders`): the sweeps of the
  circle are one. Without `Occupied`, or with the removal, the move or the second
  sweep in the circle, there is a deadlock to be found.
- `StaleAnswersAreExplained`: a transaction that does not go on to `Invalidate`
  changes nothing a cached answer shows (`OthersChangeNoView`), and one that does is
  itself the cause until it has dropped the key (`TransactionCauses`); a reader that
  stores an answer which is no longer true stores it as excused (`CacheCauses`).

Only model-checked: the five violations and `LockoutsEnd`, which is liveness. Liveness,
ENABLED and inductive facts about data are outside what the prover can do; every other
property of a passing run is stated by a theorem. A theorem whose run leaves operations
out carries the same restriction of `Ops` as its hypothesis.

## Not modelled

- Notifications and audit logs: appended in the transaction of the handler, read back
  by nobody who decides on them.
- Mail, health, configuration, migrations, seeds, bootstrap, policies, filters,
  interceptors, pagination: no state that two requests share. Roles and
  ownership are assumed checked.
- The avatar's image: `setAvatar` deletes the old image before it saves the row, so a
  failed save leaves a row that names a deleted image. That needs no
  interleaving and no run to see.
- The clocks: handlers compare dates with the UTC day, the sweep with `CURRENT_DATE`
  of the database session. The model has one date.
- Whether a property read before its removal and saved after it writes back the empty
  delete date depends on what TypeORM selects inside `save()`.
- The sums and averages of the dashboard, the filters of the searches, signatures and
  hashes.

## Plan

What is left, most useful first:

1. An abstract specification of the one-time codes (a code is issued, guessed at,
   used or lost) that `Otp` implements, so that all stateful parts with a
   promise to a client have one.
2. A second clock for the sweep, if the difference of a day is to be studied.
3. The save of a property that was removed meanwhile, once what TypeORM selects inside
   `save()` is settled.
