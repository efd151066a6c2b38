# InfluencerOS: a verification project

TLA+ models of the parts of InfluencerOS in which requests meet: the influencer registry and its
Character Bibles, the disclosure policies, the memberships of an organization, authentication and
permissions, the lists that clients page through, and the session of the web client. They have the
transactions, row locks and audit rows of the API. TLC checks the models on small instances; the
theorems of the eight `_proofs` modules hold for every value of the constants.

Paths below are relative to the repository; `app/` stands for `apps/api/app/`.

## 1. The system

A FastAPI application over PostgreSQL (SQLAlchemy, asyncio), a Next.js client, an ARQ worker and an
operator CLI. One request is one database transaction: `get_session` (`app/api/deps.py`) opens it,
`Database.session` (`app/shared/db/session.py`) commits when the handler returns and rolls back when
anything raises. Services never commit, with one exception (a failed login).

| Component | State | Operations | What is hard | What makes it correct |
| --- | --- | --- | --- | --- |
| Influencer lifecycle and editing (`app/modules/influencers`, `app/core/state_machine.py`) | `influencers` rows: status, adult confirmation, policy, archival mark | `create`, `update`, `change_status`, `list_influencers` | `update` and `change_status` decide on a row read without a lock and write it later; the UPDATE writes only changed columns and checks nothing | unique codes; archived is terminal and read-only; an active influencer is confirmed, has a policy and a bible; each change is audited with true images |
| Character Bible versions (`app/modules/character_versions`) | `influencer_versions` rows: number, author, `is_current` | `create_version`, reads | number, demotion and insert are separate statements; archivals, rollbacks and other versions come between | gapless numbers, one current version, the newest; immutable; none on an archived influencer; both audit rows land with it |
| Disclosure policies (`app/modules/influencers`, `DisclosurePolicyRepository`) | `disclosure_policies` rows: code, `is_default`, texts | `create_policy`, `update_policy`, `clear_default` | a code is looked up and inserted in two statements; `clear_default` lists rows without a lock and a flush updates several of them | unique codes; one default at most, handed over; no lock cycle; every change audited |
| Audit trail (`app/modules/audit`) | `audit_logs`, append-only, `sequence_number` | `record`, `record_entity_change`, `list_entries` | rows are inserted in one order and become visible in another; paging over a moving table | a row exists exactly when its change committed; numbers are unique; paging to the end skips nothing |
| Unit of work (`app/shared/db/session.py`) | an open transaction per request, its locks | commit, rollback, dispose | an exception at any `await`; the dependency's exit runs after the response | all or nothing; locks always released |
| Organizations and memberships (`app/modules/organizations`) | `organizations`, `memberships` (role, `revoked_at`) | rename, add, change role, revoke, list | the acting role is read once per request; unique `(organization, user)` over revoked rows too | revoked stays revoked; changes by managers only; the trail explains who had access |
| Actor resolution and permissions (`app/api/deps.py`, `app/core/actor.py`, `app/shared/permissions`) | none (a fixed matrix) | `get_current_actor`, `require_permission` | header, claim and membership disagree; a revocation between resolution and commit | who acts had that role since the request arrived; the agent fence, whatever the matrix says |
| Authentication (`app/modules/auth`, `app/core/security.py`, `app/modules/users`) | `users`; stateless tokens | `login`, `dev_login`, `refresh` | a failed login commits in the middle of its transaction; a refresh token is not consumed | only active members get tokens; a chain of tokens begins with a password; failed attempts, and nothing else, survive the rollback |
| Web session and cache (`apps/web/src`) | zustand store in `localStorage`, TanStack Query cache, requests in flight | login, sign-out, `useSession`, mutations and invalidations, 401 handling | answers to an earlier session's requests arrive in a later one; retries, requests held back offline; route transitions end later than they begin, or are interrupted | what is shown belongs to a session of this page; only a 401 that is not an accepted token's ends a session; no spinner for ever of the client's own doing |
| Web screens (`apps/web/src/features`) | form state, the page a list is at | rendering, paging, mutations | pages cut by offset from a list that grows | see the audit trail |
| Job queue and worker (`app/shared/queue`, `apps/worker`) | Redis keys (ARQ) | `enqueue`, heartbeat | a repeated enqueue while the job or its result is kept | one job per idempotency key |
| Operator CLI (`app/cli.py`) | none of its own | `seed`, `export-openapi` | a rerun after members were revoked | adds only what is missing |
| Configuration (`app/core/config.py`) | settings | validation | combinations of switches | no development login outside development, no placeholder key outside development and test |
| HTTP application, errors, health, observability, storage, migrations, shared packages | none of their own | wiring, envelopes, probes, logs | - | - |
| Later product steps (`app/modules/{approvals,assets,...}`), desktop edition | - | empty packages, documents | - | - |

Interaction: the web client calls the routers; a router resolves the actor, calls one service;
services call repositories and `AuditService` on the same session; the only shared state is the
database. Influencers refer to policies by id (`Registry`'s `Policies` are never deleted, as no
code deletes one). Versions and influencers are written under the same row lock by
`create_version`, and without a common lock by everything else.

`PROJECT.json` lists every component with its status and every hazard at its source line.

## 2. The modules

| Module | Models | Kind |
| --- | --- | --- |
| `Lifecycle` | the declared transition table and its queries (`can_transition`, `is_terminal`) | operators |
| `Registry` | `InfluencerService.change_status`, `update`; `InfluencerVersionService.create_version`; `AuditService.record`; the unit of work | state machine |
| `VersionLog` | what a Character Bible promises: per influencer, an append-only log of authors whose last entry is current, closed to appends while archived | abstract specification |
| `Codebook` | what the codes of an organization promise: a name is entered once, under a code of its own, for good; a code is refused only if an entry uses it | abstract specification |
| `AccessList` | what memberships promise: a list founded once, with an owner in it, that changes by one account at a time; a revocation is final | abstract specification |
| `DisclosurePolicies` | `create_policy`, `update_policy`, `DisclosurePolicyRepository.clear_default`, the multi-row flush | state machine |
| `Memberships` | `get_current_actor`, `add_member`, `change_member_role`, `revoke_member`, the `seed` command with `create_with_owner` | state machine |
| `Permissions` | the permissions, the roles, the matrix, the agent fence, `CurrentActor` | operators |
| `Settings` | the production safety checks, `dev_auth_active`, the routes of `build_auth_router` | operators |
| `Auth` | `AuthService.login`, `dev_login`, `refresh`; `get_current_actor` and `RequirePermission`; extends `Permissions` and `Settings` | state machine |
| `Catalogue` | `InfluencerService.create`; the audit rows of the other changes; `list_influencers`, `list_audit_logs`, the history of an influencer, and the clients that page through them | state machine |
| `WebSession` | `auth-store.ts`, `use-session.ts`, `app-shell.tsx`, `login-form.tsx`, `query-provider.tsx` | state machine |
| `Registry_proofs`, `RegistryAudit_proofs`, `DisclosurePolicies_proofs`, `PoliciesAudit_proofs`, `Memberships_proofs`, `Auth_proofs`, `Catalogue_proofs`, `WebSession_proofs` | theorems about these | proofs |
| `MCRegistry`, `MCDisclosurePolicies`, `MCMemberships`, `MCAuth`, `MCCatalogue` | symmetry sets, the seeded accounts, the deployments and the mistaken matrix for TLC | instances |

### Registry

The service code is sequential between two `await`s and every statement is awaited, so **one action
is one statement** with the code around it. Four variables are shared (`row`, `versions`, `emitted`,
`lock`: tables and row locks), the others belong to the sessions (`seen`: the entity as loaded;
`want`: the entity as assigned to; `number`, `demoted`, `inserted`, `entries`: what it has flushed and
not committed).

| Action | Code |
| --- | --- |
| `CreateVersion`, `GetForUpdate`, `RefuseArchivedVersion` | `create_version` up to its status check; `SELECT ... FOR UPDATE` waits for the row lock and reads the committed row |
| `NextVersionNumber`, `DemoteCurrent`, `InsertVersion`, `RecordVersion` | the following statements, one each |
| `ChangeStatus`, `RefuseTransition` | `get` without a lock, `assert_transition`, the assignments |
| `PassActivation`, `RefuseActivation` | `activation_blockers`, a statement of its own |
| `Update`, `RefuseUpdate` | `get` without a lock, the checks, the assignments; every patch of the two compliance fields, the explicit null included |
| `Flush` | the flush inside `AuditService.record`: the audit row, and an UPDATE of the changed columns, which waits for the row lock |
| `Commit`, `Rollback` | the two ways out of `Database.session`; `Rollback` may come at any point and stands for every exception, a lost connection and a crash |

`emitted` holds the audit rows the last step made visible. Names and texts of an influencer are left
out: no rule reads them.

Taken as given from the libraries and marked external in the map: READ COMMITTED isolation,
row locks held to the end of the transaction, a UNIQUE index, and SQLAlchemy's unit of work (it
writes changed columns only, by primary key, UPDATEs of one flush in primary-key order;
`build_database` turns autoflush off).

### DisclosurePolicies

The same conventions. `claim` is the unique index on `(organization_id, code)`: a second INSERT of
a code waits for the first to end, and is then rejected or accepted. `todo` is the set of rows
the running flush has still to UPDATE, which it does in ascending order; each UPDATE waits for
its row lock, so two requests can hold one row and wait for another. Primary keys are numbers up to
`MaxId` (UUIDs are 128-bit numbers); the order of two keys is all the model uses of them.

### Memberships

One organization, whose rows are keyed by user (the unique index on `(organization_id, user_id)`).
`Admit` is `get_current_actor`: it reads a live membership and keeps the role in `role`, which every
permission check of the request uses. The rows a request or the seed has assigned to or inserted
are in `draft` until the commit. The membership loaded by `Admit` is not referenced once `CurrentActor` is
built, so the service reads the acting user's own row afresh. The seed (`SeedOrganization`, then
`SeedSkip` or `SeedMember` for each entry of `SEED_USERS`) is one transaction with several INSERTs; it
sees its own. Its creation of the organization and of the founder's membership is one step: both wait on the
same other seed. The database starts empty, so that every state comes from the code.

### Auth

A request is again one action per statement. What a login, a refresh or a call decides from the
account (`get_by_email`, `get_by_id`) is one action; what it decides from the memberships is another; between
them, `SetStatus` and `SetMembership` may do to the user whatever an operator and
`OrganizationService` can.

| Action | Code |
| --- | --- |
| `Login`, `LoginUnknown` | `login` up to its decision: password, status, rehash |
| `FileFailure`, `FailUnfiled`, `KeepFailure`, `FailLogin` | `_record_failed_login` with its `session.commit()`, then the 401 and its rollback |
| `DevLogin`, `Refresh`, `RefuseToken` | the other two ways in |
| `Resolve`, `RefuseMembership`, `Issue`, `Commit` | `_establish_session`: the membership, the tokens in the response, the commit after it |
| `Call`, `RefuseInactive`, `LoadMembership`, `RefusePermission`, `Act` | `get_current_actor`, the permission of the route, the handler |
| `Tick` | a unit of time |

A token is what the code relies on: whose it is, for which organization, of which type, how old. A password is
right or wrong, its hash current, outdated or absent. `held` and `was_active` record what the user had since
the request arrived, and `dev` whether a chain of tokens began with the stub; the
code has none of these, and no action depends on them. `Matrix` is a parameter, so that the fence is checked against
a matrix that needs it. An operator changes account statuses in the database: no code of the API does.

FastAPI runs the exit of a dependency with `yield` after the response is sent, so `Issue` hands the tokens out
before `Commit`: a crash between the two leaves tokens whose login is not on record.

### Catalogue

Writers (`Create`, `InsertInfluencer`, `Change`, `Record`, `Commit`, ...) against readers (`Open`, `ReadPage`,
`Count`, `Leave`). An influencer is named by its place in the order of `(created_at, id)`, which is fixed when its
transaction begins and not when it commits, so a row may appear behind newer ones; an audit row by its
`sequence_number`, which `Record` allocates and `Commit` makes visible. What a change writes and the row lock it
waits for are in `Registry`; here a change is the audit rows it inserts and whether it archives.
`Rows` is `_conditions`: the default list hides the archived, a history has one entity's rows. Other
filters are left out (a filter on the status loses rows to any change of status, as the default list does
to an archival).

### WebSession

One browser tab. Sessions are numbered by login, and what a session fetched is named by it. `query` and `fetching`
are the query client: `me`, and `data` for every other key. The library (TanStack Query) is modelled from how it is
used here and marked external where the code only configures it. `Unauthorized` is a 401, `GiveUp` any other
error that is not retried, `Retry` one that is: it calls `queryFn` again, which reads the store again.
`router.replace` is a route transition that ends later: `SignOut`, `Login` and the guard's `Redirect` change the store and set
`leaving`, and the screen that is left stays up, observers, retries and all, until `Arrive`. `GoElsewhere` is a navigation to another
screen behind the guard in the meantime, which takes the place of the pending one; `GoBack` leaves the login screen by the history of
the tab. `told` says that the guard's effect has run for what it sees: it runs again only when `isLoading` or
`isAuthenticated` has changed, which `SameGuard` keeps track of in every action.
No `networkMode` is set, so the library's "online" holds: a request that would be sent while the browser is offline, or retried
while the page is hidden, is held back (`paused`), neither loading nor failed, until `Continue`; the store is read when it is sent.
`Load` is a reload or an opened link; `Hydrate` the end of zustand's rehydration.
`here`, the sessions this page has had, is a history no action depends on. Not modelled: a second tab with the same
`localStorage`, `setOrganization` (no caller), `authApi.refresh` (no caller), and mutations, which invalidate
and are never repeated.

### The refinements

Four of the state machines implement an abstract specification that knows no tables, locks or transactions
(`INSTANCE ... WITH`, checked by TLC and proved).

`Registry` implements `VersionLog` (`ImplementsVersionLog`):

    log[i]     = the authors of the versions of i, in the order of their numbers
    current[i] = the number of the current version, 0 if there is none
    closed[i]  = the committed status of i is archived

Every commit of `create_version` is one append to an open log; all other steps stutter, except
those that archive an influencer (close) or, through a stale read, revive one (open).
That an archived influencer can be revived is why `VersionLog` lets a log open again.

`Catalogue` and `DisclosurePolicies` implement `Codebook` (`ImplementsCodebook`), each with its own names:

    book    = the codes of the committed influencers, or of the committed policies
    refused = the codes the last step answered as already used; {} for the policies, whose answers are not modelled

A commit of a creation enters a name; a 409 is a `Refuse`, which the book allows only for a code that is in it at
that moment, so the loser of a race may not be refused on account of a row that rolls back later. No update, demotion or
archival changes or removes an entry.

`Memberships` implements `AccessList` (`ImplementsAccessList`):

    access[u] = NoRow if the committed row of u is revoked, its role otherwise; no entry without a row

The first commit is that of a whole seed and founds the list with an owner; each later one is a grant, a role change or a
revocation of one account, or leaves the list as it is: a role change computed before a revocation writes the role column
of a revoked row, which is `NoRow` here, and a later seed has nothing it could insert. `NoRow` is no role, and so can stand for
a revocation.

## 3. The runs

| Run | Question | Instance |
| --- | --- | --- |
| `registry_bible` | Is the bible an append-only, gapless, audited log when versions, archivals and rollbacks interleave? (`GaplessNumbers`, `CurrentIsNewest`, `InsertNeverConflicts`, `VersionsAreImmutable`, `NoVersionOnceArchived`, `VersionsAreAudited`, `ImplementsVersionLog`) | 1 influencer, 3 sessions, 3 versions; 271,569 states |
| `registry_races` | What holds when `change_status` and `update` act on reads without a lock? (`TypeOK`, `LiveHasBible`, `ArchivalIsMarked`, `ChangesAreAudited`; and, when the read is still current at the commit, `UndisturbedCommitsAreLegal`, `UndisturbedImagesAreTrue`) | 1 influencer, 2 sessions, every kind of request, 2 versions; 322,477 states |
| `registry_live` | Does every request end, and every lock get released? (`RequestsFinish`) | 1 influencer, 2 sessions; 9,562 states |
| `policies` | Codes entered once, no circular wait, audited changes, and a default that only a disturbed request duplicates or loses (`TypeOK`, `ImplementsCodebook`, `NoCircularWait`, `NamedChangesAreAudited`, `UndisturbedDefaultIsHandedOver`) | 3 policies, 3 codes, 2 texts, 2 sessions; 701,875 states |
| `memberships` | Does the organization change by one account at a time, with revocations that last? Does the trail explain every access, how can the last owner go? (`TypeOK`, `ImplementsAccessList`, `AccessIsExplained`, `LastOwnerLeavesByOwnHand`) | 3 users, 2 of them seeded, 2 roles, 2 sessions; 81,129 states |
| `auth` | Who gets tokens, who acts, and what of a failed login stays? (`TypeOK`, `RightsAreCurrent`, `TokensAreEarned`, `AgentIsFenced`, `FailuresAreKept`, `OnlyTheFailureIsKept`, `AccessIsFresh`) | 1 user, 2 organizations, 2 roles, 1 session, 2 token pairs, lifetimes 1 and 2, 5 deployments; 551,450 states |
| `catalogue` | Codes entered once and refused only when used, a complete trail, and what a client that pages has seen (`TypeOK`, `ImplementsCodebook`, `TrailIsComplete`, `NothingSkipped`, `TotalCoversPage`) | 3 influencers, 3 codes, 2 writers, 1 reader, 1 row a page, 3 audit rows; 562,363 states |
| `web_session` | Whose data is shown, what ends a session, and does every spinner end? (`TypeOK`, `ShownIsOfThisPage`, `SessionIsKept`, `RedirectIsEarned`, `EverySpinnerEnds`) | 2 logins, 2 page loads, 2 retries; 523,468 states |

The runs that TLC must find violated are the findings of section 6.

Why the bounds suffice. `create_version` of different influencers share nothing, so one
influencer shows all its interleavings; three sessions are a writer, a waiter and an
archiver at once; three versions let a version be superseded twice. The races of `update` and
`change_status` need two sessions and one row. Three policies let a default pass through a third, and let two
requests hold one row each and want the other's.
In `memberships` an owner, a seeded member and an account that is not seeded meet in every pair
of requests, the two seeds included; more roles would behave like the one that is not the owner's.
In `auth` requests share nothing but the account and the memberships, which change at any moment anyway, so one
session meets every other; two organizations are needed to confuse header, claim and membership, two token
pairs to have a fresh and an old one, and a refresh lifetime beyond the access lifetime to confuse the types.
In `catalogue` the two writers race for a code, and one of them commits a lower number after the reader has passed
it; one row a page makes every shift of a row cross a page. An archival that makes the reader of the
influencers skip one is among its behaviours, and why `NothingSkipped` has its exception; the proof does without the bound.
In `web_session` two logins are a session and the next, so that a request can outlive its session; a second load puts a reload anywhere
before, between and after them; two retries are the code's.
Sessions, writers and codes and texts are interchangeable and declared symmetric, except in `registry_live`,
`auth` and `web_session`, which use no symmetry.

The bounds inside guards: `MaxVersions` stops new `create_version` requests, `MaxPairs` holds a response back while
clients hold that many live pairs (time drops them), `MaxEntries` stops the audit rows, `MaxLogins` and
`MaxLoads` stop logins and page loads. `web_session` and `previous_session` turn TLC's deadlock check
off: a page at rest, with nobody doing anything, is no deadlock.

Fairness. `Registry!FairSpec`: strong fairness of each session's statements. A started handler
is run to its end by the event loop; a session that waits for a row lock is queued by
PostgreSQL and gets the lock when the holder ends, though the lock is not free
continuously, hence strong. Nothing is assumed of clients (requests need not arrive) nor of
failures (rollbacks need not happen, and may happen for ever). `WebSession!Fairness`: what the
browser does by itself. Weak fairness of the rehydration and of each request in flight, which is answered or ends in a network
error. Strong fairness of the guard's effect, since a refetch may turn the error back to pending before the effect has run, and of the
end of a transition, since somebody may interrupt it; neither wins that race for ever (a transition whose payload cannot be fetched
becomes a full page load). None of a request held back: a browser may stay offline. None of what people do, and none of what the
server answers. `EverySpinnerEnds` therefore assumes two things, in its statement: that a request for the session is not
held back for good, and that nobody leaves a redirect for another screen for good. Without either TLC finds a spinner that stays.

## 4. The proofs

`Registry_proofs` proves, for any sets of influencers, sessions and policies, any `Kinds` and any
`MaxVersions`, from the one assumption `RegistryAssumption` (the null markers are not members of the sets they
stand beside, `MaxVersions` is a number):

| Theorem | Statement |
| --- | --- |
| `InductiveInvariant` | `Spec => []IInv` |
| `TypeCorrect` | `Spec => []TypeOK` |
| `GaplessNumbering` | `Spec => []GaplessNumbers` |
| `NewestIsCurrent` | `Spec => []CurrentIsNewest` |
| `InsertIsAccepted` | `Spec => []InsertNeverConflicts` |
| `ArchivedTakesNoVersion` | `Spec => NoVersionOnceArchived` |
| `LiveInfluencersHaveBibles` | `Spec => []LiveHasBible` |
| `NoDeadlock` | `Spec => [](LocksAreUsed /\ NoCircularWait)` |

and `RegistryAudit_proofs`, on top of it,

| Theorem | Statement |
| --- | --- |
| `DecisionsHold` | `Spec => [](IInv /\ Decisions)` |
| `CommitsAreLegal` | `Spec => UndisturbedCommitsAreLegal` |
| `ImagesAreTrue` | `Spec => UndisturbedImagesAreTrue` |
| `ChangesLandWithTheirAudit` | `Spec => ChangesAreAudited` |
| `VersionsAreKept` | `Spec => VersionsAreImmutable` |
| `VersionsLandWithTheirAudit` | `Spec => VersionsAreAudited` |
| `ArchivalsAreMarked` | `Spec => []ArchivalIsMarked` |
| `FreshReadsKeepArchived` | `Spec /\ NothingIsStale => ArchivedIsTerminal` |
| `SerialRequestsKeepArchived` | `Spec /\ []OneAtATime => ArchivedIsTerminal` |
| `RegistryImplementsLog` | `Spec => ImplementsVersionLog` |

None of these invariants is inductive alone: that a commit adds number n + 1 to a bible
of size n is only known if what the session computed earlier is still true. `IInv` says why it is:

- `LockHeld`: a session between `get_for_update` and its commit, or one that has flushed an
  UPDATE, holds the row lock, so nobody else commits to that influencer (`CommitOwnsRows`).
- `WorkSoFar`: such a session has read a row that is not archived, its number is one more than
  the highest committed one, it has demoted exactly the current versions and inserted
  exactly its own row; a session that creates no version has demoted and inserted nothing.
- `WellFormedBibles`: each bible has n rows, numbered 1..n, only the nth current. `PublishKeepsShape`
  is the lemma that demoting and inserting gives n + 1 such rows.
- `TypeOK`.

`LiveHasBible` is of another kind: `activation_blockers` takes no lock, so the lock invariant does
not help. It holds because a bible never shrinks (`BiblesStay`): `LiveInv` says that a session which
has read a live influencer, or has passed the check, works on an influencer with versions, and nothing can
make that false.

`Decisions` relates what a session is about to write to what it read: the change is a legal one of the row it
read (`LegalChange(seen, want)`), and its audit rows are those of its work. A commit writes the changed columns onto the committed
row; when that row is still the one read, the result is the row the session decided on (`FlushedOntoRead`), which gives the
two `Undisturbed` properties. When it is not, what a changed column was changed to is still in the `after` image, which is
`ChangesAreAudited`. For the refinement, `LogOfBible` says that a bible of n versions maps to a log of n authors
with its current version last, `CommitAppends` that a commit of a version is an append to an open log, and
`LogUnchanged` that nothing else touches the log.

`ArchivalIsMarked` survives the stale reads because the date is written with the status and never cleared: `MarkInv` says
that the date a session has read is still there (`MarkedWork`), that its own row keeps it, and that a session which
archives sets it. `NoDeadlock` is short for a reason worth having on record: a session takes one row lock, its influencer's, and a
session that waits has none (`LocksAreUsed`).

When archived is terminal. The run `archived_revived` shows that it is not in general; `FreshReadsKeepArchived` shows what is
missing. `NothingIsStale` admits the histories in which each commit lands on the row its session read, which is what a
lock, a version column or serializable isolation would give; any number of sessions may still interleave. `OneAtATime`
admits those in which no two requests overlap, as the tests run them: `SerialRequestsKeepArchived` derives the first from it
(`CurrentReads`), so no test of one request after the other can find the race.

`DisclosurePolicies_proofs` proves, for any sets of sessions, codes and texts and any set of primary keys
bounded by `MaxId`, from `PoliciesAssumption`:

| Theorem | Statement |
| --- | --- |
| `InductiveInvariant` | `Spec => []IInv` |
| `TypeCorrect` | `Spec => []TypeOK` |
| `CodesAreUnique` | `Spec => []UniqueCodes` (part of `IInv`) |
| `NoDeadlock` | `Spec => []NoCircularWait` |
| `PoliciesImplementCodebook` (`PoliciesAudit_proofs`) | `Spec => ImplementsCodebook` |
| `ChangesAreNamed` (`PoliciesAudit_proofs`) | `Spec => NamedChangesAreAudited` |
| `DefaultIsHandedOver` (`PoliciesAudit_proofs`) | `Spec => UndisturbedDefaultIsHandedOver` |
| `FreshReadsKeepOneDefault` (`PoliciesAudit_proofs`) | `Spec /\ NothingIsStale => []AtMostOneDefault` |
| `SerialRequestsKeepOneDefault` (`PoliciesAudit_proofs`) | `Spec /\ []OneAtATime => []AtMostOneDefault` |

Here `IInv` adds to `TypeOK` and `UniqueCodes`: `Shapes` (which variables of a session are set in
which step), `Claims` (a session that has inserted a policy holds its code, and no committed policy has
that code), `FreshTargets` (two creations have different ids) and `LockOrder` (a
flush takes row locks, and each is below the rows it has still to write).

`NoDeadlock` follows from the order: a session waits either for a code, before it holds any row lock, or for a row
lock, at its least pending key. If every session of a set waited for another of the set, each holder would
be in its flush and wait for a key above the one it holds; the session that waits for the
greatest key (it exists, keys being bounded: `GreatestOfBounded`) would have nobody to wait for.

The last four rest on `SessionsArePrepared`: only a request for a default has policies to demote, and what it is about to
record is the row it read and the row it assigned. The last two say when there is one default, as for the archived
influencers above: here `NothingIsStale` asks that at each commit the row read and the list of `clear_default`
are still what the table holds.

`Memberships_proofs` proves, for any users, roles and sessions and any list of seeded accounts that has an
owner, from `MembershipsAssumption`:

| Theorem | Statement |
| --- | --- |
| `InductiveInvariant` | `Spec => []IInv` |
| `TypeCorrect` | `Spec => []TypeOK` |
| `MembershipsImplementAccessList` | `Spec => ImplementsAccessList` |
| `LastOwnerStays` | `Spec => LastOwnerLeavesByOwnHand` |
| `TrailExplainsAccess` | `Spec => AccessIsExplained` |
| `NoDeadlock` | `Spec => []NoCircularWait` |
| `SeedConflictsExplained` | `Spec => []SeedConflictsAreKnown` |
| `SeedIsIdempotentWithoutRevocations` | `Spec /\ []OneSeed /\ []NobodyRevoked => []SeedIsIdempotent` |

`IInv` is `TypeOK`, `Claims` (a claimed key has no committed row and was drafted by its holder) and, per
session, `Work`: a request that changes a membership read it live and drafted only that row
(`Changing`), every row otherwise drafted is claimed (`Inserting`), and each has its audit row with the
images the session saw (`Trail`). From it `CommitRows` tells what a commit writes: fresh rows, or one
flush whose `revoked` column was read as false. So the flush either leaves that column as it is or
sets it (`CommitKeepsRevoked`); with `cannot_revoke_self` an acting owner's own row stays
live unless they change their own role, which is `LastOwnerStays`.

A second invariant, `SeedInv`, follows the seed through its INSERTs. `Founded`: once anybody is a member, every seeded account has
a row. `LocksAreUsed`: a row lock is held between a flush and its commit only. Per session, `Seeding`: a seed that holds the
founder's key has made the founder an owner and drafted everybody it has passed (`Opening`), a seed of an organization
that is there holds nothing and only ever tries to insert revoked accounts (`Repeating`), and a request drafts one row and
holds a key only when it is done (`Handling`). From it:

- The refinement: the first commit is of a whole seed with an owner (`FirstCommitFounds`); a later one drafts one row at
  most, because what a later seed would insert the index rejects (`LaterCommitsChangeOne`).
- `NoDeadlock`: whoever is waited for while it waits itself is the one seed that holds the founder's key
  (`WaitersHoldNothing`), so no circle closes, although a seed keeps the keys it has inserted while it inserts the next.
- `SeedConflictsExplained`: the index rejects an INSERT of the seed for two reasons only, a revoked row or another seed that founded
  the organization meanwhile. Without both the seed is what it says it is, which is the third theorem; `seed_rerun` is
  the first of the two.

`Auth_proofs` proves, for any users, organizations, sessions, matrix, deployments and lifetimes, from
`AuthAssumption`:

| Theorem | Statement |
| --- | --- |
| `PermissionsAgree` | `permissions_for_role` and `role_has_permission` are one decision, for every matrix |
| `FenceHolds` | no matrix gives an agent a forbidden permission |
| `InductiveInvariant`, `TypeCorrect` | `Spec => []IInv`, `Spec => []TypeOK` |
| `RightsHold` | `Spec => []RightsAreCurrent` |
| `TokensHold` | `Spec => []TokensAreEarned` |
| `AgentsAreFenced` | `Spec => []AgentIsFenced` |
| `FailuresHold` | `Spec => FailuresAreKept` |
| `OnlyTheFailure` | `Spec => OnlyTheFailureIsKept` |
| `AccessHolds` | `Spec => AccessIsFresh` |

`IInv` adds to `TypeOK`: `Admitted` (whatever memberships the user has now are among those it had since the request
arrived, so one that a later statement reads is too; past its first checks a request is of somebody who was active), `Failing` (a
failing login has nothing pending but its audit row, and after the early commit has that row saved), `Earned` (the stub's tokens
exist only in a process that may issue them) and `Dated` (no pair is younger than its user's last session).

`Catalogue_proofs` proves, for any influencers, codes, writers and readers, any page size and any number of audit
rows, from `CatalogueAssumption`:

| Theorem | Statement |
| --- | --- |
| `InductiveInvariant`, `TypeCorrect` | `Spec => []IInv`, `Spec => []TypeOK` |
| `CodesAreUnique` | `Spec => []UniqueCodes` (part of `IInv`) |
| `CatalogueImplementsCodebook` | `Spec => ImplementsCodebook` |
| `TrailHolds` | `Spec => []TrailIsComplete` |
| `PagingHolds` | `Spec => []NothingSkipped` |
| `TotalsHold` | `Spec => TotalCoversPage` |
| `PagesPartition` | the pages of a finite list that nobody changes have `PageSize` rows at most, and each row is on exactly one of them |

The paging invariant is `Ahead`: a row that was there at the first page and has not been shown has at least
`offset` rows before it, so it is on this page or a later one. Rows that appear only add to what is before it
(`RankGrows`); the page shows all rows ranked from `offset` to `offset + PageSize - 1`, so those left
have a page more before them; and a row that ranks at `offset` or later makes the total larger than `offset` (`RankInside`), so
the client does not stop before it. `Covered` gives the totals by counting: a page's rows and the `offset` rows before them are all among
the rows (`PageCovered`), and those of a trail never leave it (`RowsStay`). `PagesPartition` is about the operator `Page` alone: with rows counted by rank, page n has
those ranked from n * `PageSize` on, and a rank has one quotient. It says that whatever a client sees twice or misses
comes from a change of the list, not from the arithmetic of the pages.

`WebSession_proofs` proves, for any number of logins, loads and retries, from `WebSessionAssumption`:

| Theorem | Statement |
| --- | --- |
| `InductiveInvariant`, `TypeCorrect` | `Spec => []IInv`, `Spec => []TypeOK` |
| `ShownHolds` | `Spec => []ShownIsOfThisPage` |
| `SessionsAreKept` | `Spec => SessionIsKept` |
| `RedirectsAreEarned` | `Spec => RedirectIsEarned` |
| `OneSessionPerPageHidesOthers` | `Spec => [](OnePerPage => PreviousSessionIsHidden)` |
| `SpinnersAreNotStuck` | `Spec => []SpinnersHaveACause /\ OnlyNavigationInterrupts` |

`IInv` says that before hydration there is nothing (`Blank`), after it the store and `localStorage` agree (`Persisted`),
everything shown or requested is of a session the page has had (`Own`), one request per key (`Single`), sessions are numbered in order
(`Past`), the effect has run only for a guard that sees no session (`Told`), and (`Between`) a page that has had no session requests
nothing, and a request without a token is in flight only on a page that has had another session than the one it has now. `Between` is what
`SessionIsKept` needs: a request without a token, sent between `clear()` and the login screen, gets a 401 too, and clears whoever
is signed in when it arrives. That a new login is a session the page has not had comes from `Past`.

`OneSessionPerPageHidesOthers` bounds the finding `previous_session`: a page that has had one session since it was loaded shows no other, so
a page load with each login would be enough. `SpinnersAreNotStuck` is the safety half of `EverySpinnerEnds`: in front of
a spinner, or behind the guard without a session, either the rehydration, an answer to `me`, the guard's redirect or the end of a
transition is due, or the request is held back, or a redirect was interrupted; and nothing interrupts one but a navigation. It rests on
`Pursued`: behind the guard, `me` is pending only while there is a request for it. That the thing due then happens is left to
fairness and to TLC.

What the conditional theorems assume (`NothingIsStale`, `OneAtATime`, `OneSeed` with `NobodyRevoked`, `OnePerPage`) are
histories the system has, and whole ones: the serial histories contain every request, rollbacks included. They are the four findings
read the other way: each run shows a property violated, and the theorem shows which kind of step its counterexample cannot do without.

Only model-checked: liveness (`RequestsFinish`, `EverySpinnerEnds`), which is out of the prover's reach, as is
`ENABLED`, so that `NoDeadlock` speaks of waits and not of enabled steps. Every safety property of a passing run is proved.

## 5. What is not modelled

- Searching, the status histogram of the dashboard and renaming an organization: no rule reads what they read or write.
- Wording, formatting, logging, envelopes, CORS, probes; password hashing and token signing; rendering.
- The job queue: `enqueue` has no caller, the worker runs a heartbeat, and the rest is Redis and ARQ.
- The object storage client, which stores nothing yet; the packages of later product steps, which are empty; the desktop edition,
  which is a document.
- The connection pool: how many transactions are open at once changes when a request runs, not what it does.
- Several tabs of one browser sharing `localStorage`: the store is read back at a page load only.
- The client's cache of list pages (30 seconds, and beyond a visit of the screen): a reader of `Catalogue` fetches each page when it turns to it.
- That two lists are filtered differently, and which answer a client gets when an index refuses a policy's code (a 500, where an
  influencer's code gives a 409).

## 6. Findings

| Run | The code | What is said of it |
| --- | --- | --- |
| `archived_revived` | `change_status` computes a transition from a row read before an archival and overwrites `archived` | `docs/domain-model.md:133`, `app/core/state_machine.py:39`: archived is terminal |
| `two_defaults` | two `clear_default` calls, each listing before the other commits, leave two defaults | `repository.py:69`: at most one policy is the default |
| `seed_rerun` | after a seeded member was revoked, the seed inserts the same pair again and is rejected as a whole | `cli.py:72`, `docs/local-development.md:180`: idempotent, adds only what is missing |
| `previous_session` | a login invalidates `me` only, and a sign-out leaves the query cache: the next user of the page is shown the lists the previous one fetched until they are fetched again | `login-form.tsx:50`: the previous session's cached data must not be visible to the new one |

`PreviousSessionIsHidden` asks for less than the comment: only for the moments at which `me` has been answered for the new session.

What each of the four cannot do without is proved in section 4: a commit on a row that changed since it was read, for the first two
(`FreshReadsKeepArchived`, `FreshReadsKeepOneDefault`); a revocation, or a second seed at the same time, for the third; two sessions in one page load for the last.

Observations that contradict a document or would surprise, stated as exceptions in the properties:

- `update` refuses to withdraw the confirmation of an active influencer but accepts an explicit null policy
  (`service.py:183`), so an active influencer can be left without one, where `README.md:8` says each carries one. `LegalChange`
  asks for the policy at the activation only.
- The policy that `clear_default` demotes changes without an audit row (`repository.py:73`), where `models.py:47` says every field
  change has one. `NamedChangesAreAudited` excepts it.
- The stale read behind `archived_revived` lets an edit land on an archived influencer, lets an activation and a
  withdrawal of the confirmation both succeed, and puts a row that was already replaced into a `before` image. The two
  `Undisturbed` properties say that nothing but a stale read does. `create_version`, which locks the row first, has none of these.
- A rename of a policy demoted since it was read demotes the new default too, and none is left.
- The unique index makes a revoked member impossible to add again. Two owners may revoke each other, an owner may give up
  the role as the last one, and a role change computed before a revocation still changes the role column of the revoked row, with an
  image that shows the membership live: `AccessIsExplained` speaks of the columns a request changed, not of whole images.
- An influencer archived while a client pages through the list shifts the rows behind it past that client.
- A refresh token is good for any number of refreshes until it expires, and each gives a new one: a chain ends with a suspension,
  a revocation or a pause longer than the lifetime.
- A 401 to a request of an earlier session signs out whoever is signed in when it arrives (`SessionIsKept` allows any session of this page to
  be the rejected one). So does a 401 with no rejected session at all: a list fails with a 5xx and waits for its retry, the user signs out,
  the retry fires before the login screen is there and goes out without a token, the user signs in again, the 401 arrives. Hence the second
  alternative of `SessionIsKept`, which a page of a first session never meets.
- After a session ended in an error of `me`, the next login is sent back to the login form until `me` has been answered
  (`RedirectIsEarned` does not ask whose error it is).
- A page loaded while the browser is offline shows the guard's spinner until it is online again: the request for the session is held back,
  which is neither loading nor an error, so the guard has nothing to redirect for.
- A navigation while a redirect or a sign-out is under way replaces it, and the guard's effect does not run again: a spinner, or the screens
  with the answers in the cache and no token, until something else changes.

## 7. Plan

What would add most next:

1. The answers: which error a client gets for each refusal, and that a commit that fails was already answered as a success, for every
   request and not only for the tokens of `Auth`.
2. The mutations of the screens with their invalidations, composed with `Registry`: what a client reads back after its own change.
3. A second tab over the same `localStorage`.
4. The job queue, once something calls `enqueue`: the idempotency key against the retention of results.
5. `Memberships` and `Auth` composed, so that the memberships that change under a request change by requests.

What could be proved next: that the abstract specifications promise what they are for (a `Codebook` is injective, an `AccessList`
never relists a revoked account, a `VersionLog` only grows), so that the properties of the codes, revocations and versions are
corollaries of the refinements; and the rows that a client of a moving list sees twice, bounded by what was created while it paged.
