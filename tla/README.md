# A TLA+ model of bdhost-backend-py

bdhost hosts static sites: a user reserves a subdomain, uploads files or a zip, and the edge
serves them under `https://<subdomain>.<base domain>`. Three processes share PostgreSQL, Redis and
an R2 bucket. Most of what can go wrong goes wrong between two awaited calls: a handler checks in
one statement and writes in a later one, changes two systems that have no common transaction, or
acts on what it loaded before somebody else's commit. That is what the modules here are about.

Paths below are relative to the repository root.

## 1. Inventory

| Part | State it keeps | Operations | Correct when |
|---|---|---|---|
| Tenant apps (`src/api/services/app_service.py`, `quota_service.py`) | rows of `apps` | create (uniqueness, limit, insert, invalidate), update, delete, list, get | a name has one owner; limits hold; a deleted app stays deleted |
| Tenant resolution (`src/app_runtime/resolver.py`, `shared/cache/redis_client.py`) | Redis keys `app:<subdomain>`, positive or negative, 60 s | look up, query, fill, expire; invalidation by the API | an entry is of the app that holds the name; stale entries go away |
| Sessions (`src/api/routers/auth.py`) | rows of `refresh_tokens`, Redis keys `refresh:<jti>` | login, refresh with rotation, logout | a revoked token is refused; a session keeps its user |
| Accounts (`src/api/routers/auth.py`) | rows of `users` | register, setup-admin | one account per address; one initial administrator |
| Site storage (`src/api/services/file_service.py`, `shared/storage/r2_client.py`) | objects in R2, `apps.storage_bytes_used` | upload, zip deploy, file delete, app delete | quota respected; the column accounts for the bucket; a deleted site is empty |
| Quota worker (`worker/`) | one database session per job | nightly `recalc_quota` | the column becomes exact |
| Serving (`src/app_runtime/main.py`) | none | resolve, check the status, GET, SPA fallback | only an active site's own objects are served |
| Addresses (`shared/utils/path.py`, `validate_subdomain`, `extract_subdomain`) | none | sanitise, validate, extract | keys are canonical; what one request stored another finds; every app can be visited |
| Wildcard DNS (`src/api/services/cloudflare/`, `scripts/check_cloudflare.py`) | the zone's A records, at Cloudflare | runs of the script: list, ensure the wildcard record | no standing wildcard is overlooked; duplicates only from runs that race |
| Rate limiting, access tokens, admin overview, billing and AI stubs | none of their own | refuse, verify, read | see section 8 |

How they interact: the API and the runtime share Redis (the API deletes keys, the runtime fills
them) and the table `apps`; the API and the worker share the bucket and `storage_bytes_used`; the
API keeps each refresh token in both PostgreSQL and Redis. The script that provisions the wildcard
record shares only the zone with others who edit it. There are no locks and no
`SELECT ... FOR UPDATE`. What the database enforces is the unique indexes on `apps.subdomain`,
`users.email` and `refresh_tokens.jti`, and PostgreSQL's row locks while an UPDATE is uncommitted.

The hard behaviours: check-then-write races of API handlers; a cache fill that overtakes an
invalidation; Redis errors that are swallowed; a crash or an error between two systems; an ORM
session that writes absolute values computed from old ones; a job that measures long before it
commits. `PROJECT.json` lists each at its line.

## 2. Modules

| Module | Models | Extended by |
|---|---|---|
| `TenantApps` | create, update and delete handlers, the table `apps`, the resolution cache | `MCTenantApps`, `TenantAppsProofs` |
| `NameRegistry` | the abstract registry of names: sites open, change, and are told of, each in one step | instantiated by `TenantRegistry` |
| `TenantRegistry` (extends `TenantApps`) | two history variables, and the refinement mapping to `NameRegistry` | `MCTenantRegistry`, `TenantRegistryProofs` |
| `TenantServing` (extends `TenantApps`) | the runtime's request, from Host to answer, while the API changes table, cache and bucket | `MCTenantServing`, `TenantServingProofs` |
| `Sessions` | login, refresh, logout, `refresh_tokens` and its mirror in Redis | `MCSessions`, `SessionsProofs` |
| `SiteStorage` | upload, deploy, file and app deletion, bucket, ledger, runs of `recalc_quota` | `SiteLedger` |
| `SiteLedger` (extends `SiteStorage`) | two history variables, and what holds of bucket and ledger whoever overlaps | `MCSiteStorage`, `SiteStorageProofs` |
| `Accounts` | register, setup-admin, the table `users` | `MCAccounts`, `AccountsProofs` |
| `WildcardDNS` | runs of `check_cloudflare.py` and `ensure_wildcard_record`, the zone | `MCWildcardDNS`, `WildcardDNSProofs` |
| `SitePaths` | path sanitising, archive entries, the key of a request: operators | `SiteAddresses` |
| `HostNames` | subdomain validation and extraction: operators | `SiteAddresses` |
| `SiteAddresses` | the requests that pass names and keys through those functions | `MCSiteAddresses`, `SiteAddressesProofs` |

The modules are built alike. Handlers are asyncio coroutines on several processes, so any await is
a point where others may run; a handler is one action per database statement, Redis command or R2
call, and `call[r]` is a record with the program counter of handler `r` and the local variables it
keeps. Work between two awaits is part of the action before or after it. A transaction takes effect
at its commit: `CommitUpdate` is the flushed UPDATE and the COMMIT together, since nobody sees one
without the other. Where an uncommitted UPDATE is visible as a row lock (the worker's job, which
updates many rows and commits once), `Locked` says so. A request that is refused changes nothing,
so refusals are guards; where the refusal comes in the middle of a handler (`CheckAppLimit`,
`CheckRow`, `CheckEmail`), the handler ends. Reads that change nothing and whose result decides
nothing that is modelled, such as the SELECT of the user by id, are left out. A commit that the
unique index refuses raises: the handler ends and its row is not there.

Two behaviours of SQLAlchemy matter and are modelled by how the code uses it: an UPDATE names only
the columns that differ from what the session loaded (`WriteBack`, `WriteUsed`), and
`app.storage_bytes_used += n` writes the value, not the difference.

Beside some definitions stands a second one with a longer name (`InsertWithoutConstraint`,
`RecognisedRelative`...): the same code with a plausible mistake. No specification uses them. They
serve as mutations: put in the place of the right definition, each makes TLC report the property
that `PROJECT.json` names for it. Every property of every passing run has one.

### State and code

* `TenantApps.apps` is the table, `NoRow` an id not yet drawn. The row has the columns the handlers
  decide by; `config` stands for `custom_index` and `spa_fallback`, which are written and cached
  alike. `cache` is Redis; `look[k]` is one execution of `resolve_app`. `LiveApps` counts every
  status but "deleted", as `check_app_limit` does. `Answers` has no filter on the status, as the
  query of `resolve_app` has none.
* `TenantRegistry` adds two history variables. `past` is every status and configuration a site has
  had; `unsure` the names whose entry outlived an invalidation that was lost, or was out of date
  when a resolution wrote it. The refinement mapping takes the stored rows for the sites (with
  `past`) and the cache for what is told of a name (a missing key: nothing; a negative entry:
  nobody). `InsertApp` maps to `Open`, a commit that changes columns to `Change`, a fill to `Tell`
  or `TellNobody`, an invalidation or an expiry to `Forget`, everything else to a stutter.
* `Sessions.row` and `mirror` are the two copies of a token. `parent` is a history field: the token
  whose rotation inserted the row. `issued` is the set of tokens in some `Set-Cookie`; a client can
  only present those. `ExpireRow` is the clock passing `expires_at`; `ExpireMirror` the end of the
  key's time to live, which starts later for the same number of days, so it comes after;
  `LoseMirror` is eviction or a restart of Redis. `kept` is a history variable: the tokens of which a
  DEL has failed (`redis_client.py:119` swallows the error). Such a token, once revoked, may still
  be accepted by `refresh`, which never reads the row of a token that Redis knows. `rivals`, another
  one, is how many handlers were past the check of a token when its first rotation committed.
* `SiteStorage.used` is `storage_bytes_used`, `objects` the bucket (0: no object), `seen` in a call
  the column as the session loaded it. `job[t]` is a run of `recalc_quota` with its pending UPDATEs:
  `Nightly` is the one cron starts, and there is one of these at a time, since arq enqueues a night's
  job once and ends it after its timeout; the others are runs for one app, deleted or not, as the
  task's second parameter allows. arq runs up to ten jobs together (`worker/main.py:37`), so they
  overlap each other and the handlers. The zip's entries are written in any order, which covers the
  archive's. Listed keys are deleted batch by batch (`BatchSize` is 1000 in the code), and the
  handler may die, or R2 keep some keys, in each. A listing is one step: it is, for a site whose keys
  fit one page of 1000; for larger ones PUTs may fall between its pages, which the model leaves out.
  `faults` counts errors and crashes and is bounded by `MaxFaults`.
* `SiteLedger` adds two history variables. An app is `unsure` from the moment when two requests, or
  a request and a run that has measured it and not yet committed, are at work on it together, or a
  request on it is cut off, until the column is exact and nobody is at work on it. It is `crossed`
  when a deletion has met an upload or a deploy, or R2 has kept keys of it.
* `TenantServing` keeps the four variables of `TenantApps` and adds `files` (of the bucket, only
  which objects are there), `transfer` (an upload or a file deletion between its load of the app and
  its call of R2) and `visit` (one execution of `serve_tenant_request`; while it resolves, its query
  and its fill are the resolution `look[v]`). `CommitDelete` happens after `EmptyPrefix`, which is
  `delete_objects_by_prefix`, and `emptied` the handlers that are between the two; R2 may keep keys
  it was to delete, since the errors in its answer are not read (`r2_client.py:162`). The calls one
  by one and the objects' sizes are in `SiteStorage`.
* In `SitePaths` a path is the sequence of pieces between its slashes. A piece can be encoded, with
  the slashes inside it, so that decoding changes how the path is split. A name is an atom with the
  attributes the functions look at: "", ".", "..", dots only, hidden, null byte, blank, permitted
  extension. In `HostNames` a name is a sequence of five characters, one for each class.
* `SiteAddresses.taken` is a history variable: the files a deploy made of hidden entries.
* `Accounts.Normal` is `email.strip().lower()`: several submitted spellings, one address.
  `contenders` is a history variable: the set-ups that had found no administrator and were under
  way when the first one was committed.
* `WildcardDNS.zone` holds the A records in the order Cloudflare lists them; a new one may appear
  anywhere. A `run` lists page by page, first for the script and then again in
  `ensure_wildcard_record`, and sends the creation; when the answer is lost the client library,
  which `client.py:20` takes with its default of retries, sends it again (`tries`). `edits` counts
  what others do to the zone; `standing` is a history variable: the wildcard records that are there
  since a run's last listing began, while none has moved. A record's content is left out: the code
  only warns by it.

## 3. What the runs check

| Run | Bounds | Shows |
|---|---|---|
| `tenant_races` | 2 users, 2 apps, 2 names, limit 1, 2 handlers and 1 resolution of which 2 at once, faults | types; `TenantIsolation`, `StaleOnlyByRace`, `ImplementsRegistry`, `RevivedOnlyByOverlap` |
| `tenant_serving` | 1 app, 2 configurations, 1 handler, 1 visit, 1 transfer, 2 file names, faults | types; `InactiveGoesDark`, `ReadyIsServed`, `NegativeEntriesHeal`, `CacheConverges` |
| `tenant_visits` | 2 users, 2 apps, 2 names, 1 handler, 1 visit, 1 transfer, faults | `VisitsStayHome` |
| `tenant_limit` | 1 user, 3 apps, 3 names, limit 1, two of 2 handlers and 1 resolution at once, faults | `AppLimitOvershoot` |
| `site_addresses` | paths of 1 or 2 of 14 pieces and of 3 of 4, names of up to 4 characters, 1 file at a time | `KeysCanonical`, `ListedNamesWork`, `IndexIsFound`, `LiveUrlReaches` |
| `session_mirror` | 2 users, 3 tokens, 2 handlers, crashes, Redis failing and losing keys | types; `RevokedUnmirrored`, `SessionsKeepOwner`, `RotationsBounded` |
| `storage_races` | 1 app, 2 paths, sizes 1 and 2, quota 3, batches of 1 key; two of 2 handlers, the nightly run and a run for one app at once; 1 fault | types; `ShortOnlyByRace`, `OverrunOnlyByRace`, `OrphansOnlyByOverlap`, `EventuallyReconciled` |
| `accounts_set_up` | 4 spellings of 3 addresses, 5 ids, 3 handlers | types; `OneAccountPerAddress`, `AdminsBounded` |
| `wildcard_dns` | 2 runs, pages of 1 record, 1 retry, 2 edits by others | types; `NothingOverlooked`, `DuplicatesBounded` |

and three runs in which the code does not do what the repository says of it:

* `addresses_hidden`: `file_service.py:123`, "Skip macOS or hidden metadata folders". The test at
  line 125 looks at the sanitised path, and sanitising has stripped leading dots (`path.py:44`): an
  entry `.vscode/settings.json` is deployed as `vscode/settings.json`, and a `.DS_Store` at the top
  makes the whole archive be refused for its extension. Hidden parts further down are skipped.
* `storage_orphans`: `README.md:240`, "Delete app and its R2 storage files". An upload that loaded
  the app before the deletion puts its object after `delete_objects_by_prefix` has listed the
  prefix (`app_service.py:153`). Nothing removes it later: a deleted app can be neither loaded by
  a handler nor is it among the apps of the nightly job.
* `accounts_race`: `auth.py:67` and 70, "One-time initial admin setup endpoint", "Once an admin
  account exists, this endpoint is permanently locked", and likewise `README.md:227`. Two set-ups
  with different addresses that both find no administrator (`auth.py:75`) make two. What the lock
  does achieve is `AdminsBounded`.

### What holds only up to a race

Much of this code checks in one statement and writes in another. Its properties say what holds
whatever races: a bound, or that the exception has a named cause. The bounds are reached.

* `app_service.py:142` invalidates the cache "so changes take effect immediately". A resolution that
  queried the row before the commit fills Redis after the invalidation (`resolver.py:101`), and a
  failing DEL is swallowed (`redis_client.py:93`). `StaleOnlyByRace`: with no handler in flight Redis
  says what the table says, but for the names where just that happened. `CacheConverges` and, for
  visitors, `InactiveGoesDark` and `ReadyIsServed` say that this ends by itself.
* `RevivedOnlyByOverlap`: `update_app` assigns the status it was asked for, whatever the row says by
  then (`app_service.py:137`), so an update that loaded the row before a deletion can bring the app
  back, without its files. Nothing that begins after the deletion can.
* `AppLimitOvershoot`: the live apps of a user are at most the limit and one more for every further
  handler. `tenant_limit` has two handlers of one user, so two creates can both pass their check, and
  an update can revive a deleted app behind a create that did.
* `RotationsBounded`: a refresh token is exchanged at most as often as there were handlers past its
  check when it was exchanged first, unless a DEL of its key failed. The UPDATE of the old row does
  not ask whether it is revoked already (`auth.py:280`).
* `RevokedUnmirrored`: a revoked token is accepted by the fast path of `refresh` only if a DEL of its
  key failed.
* `AdminsBounded`: the administrators are at most the set-ups that had found none and were under way
  together when the first of them was committed. A set-up that begins later is refused.
* `DuplicatesBounded`: `README.md:292` promises wildcard provisioning "without duplicates". Runs one
  after the other keep it; two that race, or a request that is sent again after its answer was lost,
  can add a second record if Cloudflare takes it, which the model leaves open.
* `ShortOnlyByRace`, `OverrunOnlyByRace`: nothing in the code keeps two requests, or a request and
  the worker, off one app. Of two commits computed from one value of the column the later one wins
  (`file_service.py:74`), so the column falls behind the bucket, and the quota, which is checked
  against it (`file_service.py:60`), lets a site outgrow its plan. The two properties say that this
  is all: the column falls short, and a PUT takes a site beyond its plan, only while the app is
  `unsure`. No bound is stated for by how much; that the column is repaired is `EventuallyReconciled`.
* `OrphansOnlyByOverlap`: a deleted app has objects left only if a deletion of it met an upload or
  a deploy, as in `storage_orphans`, or R2 kept keys it was to delete (`r2_client.py:162`).

`ListedNamesWork` and `IndexIsFound` exclude names that still hold an escape after one decoding, and
a name of spaces. The comment at `path.py:25` speaks of repeated decoding, but the code decodes
once, so an upload of `%2561.html` is listed as `%61.html`, and a request or a DELETE for the
listed name is about `a.html`.

`NothingOverlooked` takes `BASE_DOMAIN` for the name of the zone (`ZoneWildcard = BaseWildcard`), as
`.env.example:21` and the README's section on Cloudflare do. Were it a subdomain of the zone, the
record created as `*` would get the zone's wildcard name, which `ensure_wildcard_record` does not
look for (`dns.py:275`), and each run would create another.

### Why the bounds are enough

Every race the properties are about is between two handlers, or a handler and a resolution or a run
of the job; the runs have at least two of each kind that can meet, and `MaxBusy` says how many are
in flight together. Two apps and two names are needed to tell one tenant from another, three tokens
for a login and two racing rotations of it, or one and then another, three apps under a limit of one
for an overshoot by two, three handlers for two set-ups that race and one that comes later, two
paths to tell an archive from a file, quota 3 so that an overwrite, counted twice, does not by
itself use it up; one of the archives has two entries of one name. `storage_races` has one app,
since nothing that handlers do to one app touches another, and the nightly run treats the apps one
by one; instances with two apps, or with three in flight, were explored as far as time allowed and
showed nothing else, and the theorems on `SiteLedger` cover them. `Size` and `Quota` are in units.
In `tenant_serving` one handler and one visit are enough for each order of a visit's steps and a
handler's; what a second handler adds to the cache is in `tenant_races`, and a second tenant in
`tenant_visits`, where every app is a single-page application, so that every visit can reach its
second GET. In `wildcard_dns` pages of one record make every listing of the script run over page
boundaries, and two edits can move a record over one. In `site_addresses` two pieces put every kind
of name before and after every other, three try leading dots, slashes and hidden names in depth;
each function looks at its pieces one by one or at the first and the last. `MaxLabel` is 3 instead
of 63, so that names of four characters are too long.

Ids, jtis, user ids and record ids are finite pools: a handler that will draw one begins, or goes
on, only while one is left for it, which ends a run early but forbids no interleaving before that.
Deadlock is checked wherever the model cannot use up such a pool; it is switched off in the runs of
`Sessions` and `Accounts`, where the pool of tokens or user ids runs out, and in `tenant_limit`, where
every app may be deleted and every name taken, and nothing is left to do.

Symmetry is used in runs without liveness. Those of `tenant_races` are temporal formulas, but safety
ones, an initial condition and `[][...]_v`; the exchanged ids, names and handlers occur in them only
under quantifiers, so TLC may check them on one state of each orbit.

`PatchStatus` of the runs leaves out "deleted": an administrator may PATCH an app to it without the
files being removed, which is a deletion of the row only. The theorems include it.

## 4. Fairness

* `TenantServing!ServingSpec`: a visit that has started goes on (each await returns, or raises,
  which is `AbortVisit`), and Redis expires keys. Nothing is assumed of clients or of the API's
  handlers: the properties are conditional on changes coming to an end instead.
* `SiteLedger!LedgerLiveSpec`, with the fairness of `SiteStorage`: strong fairness of `StartJob`,
  because arq starts the cron job every night however often other jobs or a busy moment were in its
  way, and of the steps of each run, `JobRun`: a run that is not cut off goes on, and PostgreSQL hands
  a row lock to those that wait for it in their order. The number of faults is bounded, so some
  nightly run reaches its end. No API handler is assumed to finish: `EventuallyReconciled` speaks of
  the time after the API has become quiet.

## 5. What is proved

For every value of the constants that satisfies the modules' assumptions: any sets of users, names,
ids, tokens, handlers and visits, with every fault of the models. `PROJECT.json` lists the theorems.

* `TenantAppsProofs!TypeCorrect`, `Isolation`, `DeletedStaysOut`. `TenantIsolation` is not inductive:
  that an entry of Redis names the holder of its key survives other handlers' steps only because
  rows are never removed or renamed (`RowsStay`), and because a commit writes to a row that existed
  when it was loaded (`CallsTargetRows`). `IInv` adds that, and states "one holder" as
  `OneRowPerName`, without cardinalities; a lemma goes back from it to `Cardinality(...) <= 1`.
  `DeletedStaysOut` adds that an update in flight saw its row live (`UpdatesSawLive`).
* `TenantRegistryProofs!Implementation`. Initial states map to the registry's, and every step to a
  step of it or a stutter. `HInv` adds to `IInv` that the cache, and a resolution about to fill it,
  only say what the history knows of the holder: that is what `Tell` asks for. `Freshness`: every
  entry agrees with the table, or its name is `unsure`, or a handler is still about to invalidate it
  (`Excused`); with no handler in flight the third is gone.
* `TenantAppsProofs!LimitHolds`. Live apps alone say too little: what counts with them is what
  handlers in flight can still add, creates that have passed their check and updates that can revive
  an app. When a check passes, the live apps are fewer than the limit, and each app beyond costs one
  of the handlers; from then on a handler that adds an app gives up its own share.
* `TenantServingProofs!ServingTypeCorrect`, `ServingRefinesApps`, `VisitIsolation`. Every step of the
  composition is a step of `TenantApps` or leaves its variables alone, so `IInv` carries over; a
  visit takes its entry from the cache or from its own resolution, and the holder of the name stays
  the same while it waits.
* `SessionsProofs!TypeCorrect`, `OwnersKept`. `OwnerInv` adds that a handler works on a token that
  has a row, with that row's user, and that issued tokens and parents have rows.
* `SessionsProofs!RevocationReachesMirror`. `MirrorInv` adds the two facts that carry it: a handler
  about to commit a revocation has already deleted the key, or failed to
  (`DroppedBeforeRevoked`, the order DEL before COMMIT in `refresh` and `logout`), and a handler
  about to set a key does so for a token nobody else can know yet (`StoringIsNew`), so no key is
  set again behind a DEL.
* `SessionsProofs!RotationIsBounded`. Once a token has a successor, its successors count together
  with the rotations of it that are under way, and the sum stays within `rivals`: the first rotation
  to commit sets it, no other begins after that, since by `MirrorInv` the key is gone and the row is
  revoked, and each that commits gives up its own share.
* `AccountsProofs!TypeCorrect`, `AccountsUnique`, `AdministratorsBounded`. For the second, what is
  stored is normal already, so that the unique index, which compares what is stored, compares
  addresses. The third is inductive together with the set-ups that have passed the check and not yet
  inserted: once there is an administrator, they
  and the administrators are together no more than `contenders`.
* `WildcardDNSProofs!TypeCorrect`, `ListingsOverlookNothing` and `ProvisioningBounded`, the last two
  for `ZoneWildcard = BaseWildcard`. What carries the first page by page is `Ahead`: while a listing
  has found nothing, the records that stand since it began lie behind the pages it has read; records
  that others add can only push them further back. For the second the wildcard records count
  together with the requests that may still be sent (`Outstanding`: pairs of a run and a try), by
  runs that create and by runs whose listing began when there was none; by `NothingOverlooked` no
  other run creates. The lemmas are about `InsertAt` and `RemoveAt`.

* `SiteStorageProofs!TypeCorrect`: no sum over a prefix or an archive leaves the natural numbers, with
  any races and faults. The lemmas on `Usage` and `TotalOf` go by induction on subsets: a sum grows
  by what is added, shrinks by what is taken away, and is monotone.
* `SiteStorageProofs!LedgerShort`, `OverrunByRace`: of `LedgerSpec`, with any handlers, runs and
  faults. `SureInv` says of an app that is not `unsure` that no two are at work on it (`Crowded`), and
  what the one handler there may be has left to do is accounted for (`SiteInv`): an app that nobody
  works on has a column that covers the bucket; what is still to be put fits beside what is there;
  what was measured is what the column will get. `RecordDoubt` makes an app `unsure` whenever a step
  breaks this, and takes it off only where the column is exact.
* `SiteStorageProofs!Orphans`: `UncrossedInv` says of an app that is not `crossed` that a deletion
  under way is met by no upload and no deploy, that the keys still to be deleted are all there are,
  and that once the last batch is gone there are none.
* `SiteAddressesProofs!AppsAreReachable`. A name that the regular expression admits has neither
  spaces nor dots, so appending the domain, trimming and lower-casing lose nothing; a name that one
  side reserves, the other reserves too.
* `SiteAddressesProofs!KeysAreCanonical`, `ListedNamesLeadBack`, `IndexesAreFound`. `KeysInv`: the
  index and every key is something `sanitize_relative_path` has returned (`Clean`): relative, no
  special part anywhere, a first part without a leading dot. A key that is clean and not encoded is
  a fixed point of the function. `UnderDirectory` is the lemma behind the third: with a clean name
  after a directory's slash, the function commutes with concatenation. Decoding and splitting
  flatten sequences, so the lemmas on them (`Spread...`) go by induction on a path's length; they
  hold for paths of any length and any depth of encoding, where TLC looks at three pieces.

The constants' assumptions are what configuration and schema give: administrators are users, the
default plan is a plan, limits are natural numbers, the sentinels are not values of the types they
extend, the characters of a class are not those of another, and, for the theorems that count or sum,
the handlers that may run, the paths of a site and the entries of an archive are finitely many.

Only model-checked: liveness under fairness (`InactiveGoesDark`, `ReadyIsServed`,
`NegativeEntriesHeal`, `CacheConverges`, `EventuallyReconciled`) and anything with ENABLED, which are
out of the prover's reach. Induction is used only in the form in which it can be cited: the lemmas
`Induction`, `SequenceInduction` and those on sums take the set of the values that have a property
and not the property itself. Every invariant that a passing run checks is stated by a theorem.

## 6. What is left

Done: all of the plan's models, the refinement of the registry, the isolation of visits, the bounds
under races. Left: an abstract store of sessions for `Sessions`, as `NameRegistry` is for
`TenantApps`; listings of several pages in `SiteStorage`; a bound on how far the column can fall
behind between two nights.

## 7. Running

`tlc -config <run>.cfg <MC module>` for a run, `tlapm <module>Proofs.tla` for the proofs.
`PROJECT.json` maps every definition to the lines it translates.

## 8. Not modelled

* Rate limiting: the window is kept by fastapi-limiter, outside this repository.
* Access tokens, password hashing: library functions without state of ours. Authentication reads
  `users`, and no route removes a user or changes an address or a role.
* Admin overview, account and list routes: reads, but for PATCH /account, which writes the user's
  `full_name`; nothing else reads it.
* Billing and AI: stubs; nothing writes `payments`, `send_email` only logs.
* Migrations, configuration, seeding: declarations. Their constraints that matter are in the
  actions that rely on them.
* Of wildcard DNS: the records' contents, and which error of Cloudflare becomes which exception;
  each ends the run. Of archives: the limits on the number and the total size of entries, which
  refuse before anything is written. ETags and conditional answers of the runtime, and its answers
  to hosts that are no tenant's.
* In `TenantApps`, the bucket part of `delete_app`, which is in `SiteStorage` and `TenantServing`; a
  failure there is `AbortCall`. In `Sessions`, a user's removal, which no code does.
