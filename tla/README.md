# Verification of lss-headscale-dashboard

TLA+ models of the dashboard's own logic, the TLC runs that check them on small
instances, and theorems about them checked by TLAPS. The models are translated
from the Go code, the SQL migrations and the systemd unit; `PROJECT.json` says
which lines each definition stands for.

## 1. Inventory

The dashboard is one Go process: a `net/http` server whose handlers run
concurrently over one SQLite database (WAL, no explicit transaction except
where noted), two ticker goroutines, and calls to a Headscale server through
its REST API and, optionally, straight into Headscale's own SQLite file.

| Component | State | Operations | What is hard about it |
|---|---|---|---|
| Accounts (`internal/login`, `internal/auth`, `settingsPassword`, `startBackgroundCleanup`) | tables `users`, `sessions`, `recovery_codes`, `auth_failures`, `password_resets` | login with password and TOTP or recovery code, logout, forgot, reset, change password, purge | every handler is a sequence of separate statements; time is compared inside SQL |
| Start-up (`internal/db`, `cmd/dashboard/main.go`) | `schema_migrations`, the setup key in `settings` | migrate, load or create the key, serve, die, restart (also with another release) | death between any two steps |
| Setup wizard (`internal/setup`, `internal/users`) | `users`, `totp_secrets`, `recovery_codes`, `settings`, signed cookie | create admin, confirm TOTP, SMTP, Headscale, close the wizard | check-then-act, half-done enrolment |
| Passkeys (`internal/passkey`) | two in-memory maps under a mutex, table `webauthn_credentials` | begin/finish registration and login, delete, sweep | repeated and late answers, shared slots, restarts, deletion under way |
| Policy editor (`internal/dashboard/policy.go`) | none of its own: Headscale's policy document | raw save, add rule/group/tag owner | read-modify-write over HTTP, lossy parsing |
| Tag manager (`internal/dashboard/tags.go`, `headscaledb.RewriteTags`) | Headscale's policy, `nodes.tags`, `pre_auth_keys.tags` | rename and delete a tag everywhere, set a node's tags, restart Headscale | four stores changed one after the other, failures and retries |
| Node, user and key pages (`internal/dashboard/handlers.go`, `headscaledb`) | Headscale's `nodes`, `users` and `pre_auth_keys`; the forms in the browser | edit a node's row, register, expire, delete, tags, users, pre-auth keys, restart, wait | stale and blank forms, direct database writes behind a live server, overlapping restarts |
| Settings (`internal/settings`, settings handlers) | `settings` as JSON values | save and test SMTP, Headscale, local database | they switch the other pages on and off while these are in use |
| Audit log (`internal/audit`) | `audit_log` | insert, list, list for a node, export | targets share a name space; limits; an effect without its entry |
| Presets, mail | `register_presets`, none | upsert/delete, send | little |
| Helpers (CSRF, client address, Argon2, TOTP, templates) | none | local computations | none |

How they interact: handlers share the database and nothing else, except the
pending passkey maps; login, password reset and the cleanup meet in `sessions`;
passkey login creates rows in the same table; the wizard creates the account
the login uses; the tag manager uses the policy editor's `loadAndMutate` and
Headscale's database and then restarts Headscale; so does the node editor, and
its wait page polls the API until Headscale answers again. Headscale writes the
same rows whenever a node reports or a call asks it to. Every handler ends with
an audit row, which the audit pages and the page of a node read back.

What makes a component correct, in short: a secret that is meant to be used once
is used once (recovery codes, ceremonies, reset links); a password or passkey
that was replaced opens nothing; sessions end when they should and not before;
a start-up that was interrupted can be resumed; an enrolment is complete or
known to be broken; an edit of the policy changes the traffic it says it changes,
one of a node the column the operator typed into, and one of a tag every place that
names it, in the database and in what Headscale serves; what was done is in the
log, once, under the right node. The
`hazards` of `PROJECT.json` list, line by line, what can go wrong.

## 2. Plan

| # | Modules | Content | Status |
|---|---|---|---|
| 1 | `OneShot` | abstract store of one-time secrets | done, with `OneShotProofs` |
| 2 | `Auth`, `MCAuth` | accounts | done |
| 3 | `Boot`, `Setup`, `MCSetup` | start-up; the wizard on top of it | done |
| 4 | `Passkey`, `MCPasskey` | ceremonies and credentials | done |
| 5 | `Policy`, `TagOps`, `MCTagOps` | policy algebra; edits and tag operations | done |
| 6 | `AuthProofs`, `SetupProofs`, `PasskeyProofs` | types, refinements, and every safety property of these components | done |
| 7 | `AuditLog`, `Fleet`, `MCFleet` | node editor (form, diff, UPDATE) and restarts behind a live Headscale; wait page; nodes, users, pre-auth keys, settings pages, presets; the audit trail | done |
| 8 | `PolicyProofs`, `TagOpsProofs` | a rename is a substitution on grants, a deletion a restriction; every safety property of `TagOps` | done |
| 9 | `FleetProofs` | every safety property of `Fleet` | done |

Composition: `Setup` extends `Boot` (its requests live and die with the process),
so what is proved of `Boot` carries over. `TagOps` extends `Policy`. `Auth` and `Passkey`
both implement `OneShot` under a refinement mapping. `Auth` and `Passkey` are
separate: they share only the insertion into `sessions`, and no statement of
one reads what the other writes before that. `Fleet` extends `AuditLog` and
is separate from `TagOps`: one is about rows and who writes them, the other about
tags and where they are named; both restart Headscale.

## 3. Modelling conventions

* A request is a process. It has a program counter and the local variables of
  its handler, and one step is one SQL statement, one critical section or one
  call to Headscale; whatever is between two of them is local. SQLite runs each
  statement atomically, and transactions (a migration, the recovery codes, the
  update half of `RewriteTags`) are one step.
* A request identifier is used once. It also names what the request creates
  (session, reset link, user row, challenge, credential), which the code draws
  at random or from AUTOINCREMENT.
* Faults are a bounded budget: any statement may fail, and then the handler does
  what its error branch does (`OnError`, `StatementFails`); the process may die
  between any two steps, which loses memory and requests and keeps the
  database. A call to Headscale that fails may have taken effect (`CallFails`), and
  a read whose error nobody asks for may be a part of the table (`Read` of `TagOps`).
* History variables are kept apart in each module and are read by properties
  only.
* A definition under the comment `slip:` is a plausible bug in the definition
  that follows it. No specification uses it: replacing the definition by its
  slip shows that a property notices.
* Not told apart: wording, layout, HTTP status, log lines, hashes
  (a password is its value; hashing and verification are exact), the contents
  of tokens. Audit rows are told apart in `Fleet` only.

## 4. Modules

**OneShot.** Secrets are issued, may be withdrawn, and each is accepted for one
holder at most.

**Auth.** `LoginArrive` (lockout check) → `LoginLookup` (account and password) →
`LoginTOTP` or `LoginRecoveryCode` → `LoginClear` → `LoginSession`, with
`LoginFail` from any rejection; `LogoutArrive`/`LogoutDelete`;
`ForgotArrive`/`ForgotInsert`/`ForgotMail`;
`ResetArrive`/`ResetUpdate`/`ResetMark`/`ResetSweep`;
`ChangeArrive`/`ChangeRead`/`ChangeWrite`; the cleanup goroutine alternates
`PurgeOldAuthFailures` and `PurgeExpiredSessions`. Two details of SQL carry
weight. The driver stores a `time.Time` as local-time text while
`CURRENT_TIMESTAMP` is UTC text, so an expiry is `Stored(t) = t + TZOffset`. And
`datetime('now', m)` is NULL for a modifier SQLite cannot parse, so a comparison
with it selects nothing: `WindowModifier` has the form Go's `Duration.String`
produces. The history keeps which password epoch each session saw
(`seen`), which epoch was last swept (`cleaned`), the logins already past
their password check at a sweep (`late`), which reset used which link (`applied`),
and the resets whose marking of the link failed or died (`unmarked`). At the limit
`IsLockedOut` goes on to read `MAX(failed_at)` into a `time.Time`, which fails
because the expression has no declared type; the request ends either way, so
`LockoutDuration` decides nothing there.

**Boot** and **Setup.** `Boot` is the life of the process: `Start` (read what is
applied), `Apply` per migration, `Migrated`, `LoadKey`, `PersistKey`, `Listen`,
serving. It ends in three ways at any point: by a failure (`Exit`: `os.Exit(1)`, a
panic, a kill), after which the service manager starts it again; by a signal
(`Stop`); or, from the listener on, because the server failed (`ServerFails`), after
which `main` returns with status 0. From the last two only `OperatorStarts` leads
on, since `Restart=on-failure` does not restart a clean end. `Releases` are the
migration sets of the binaries that may be started; they only grow at the end
(`AppendOnlyAssumption`, the numbering convention of `internal/db/migrations`).
`Setup` adds the wizard's requests, which exist only while `proc = "serving"`;
`Shutdown` waits for them when the server failed (`ServerFailsIdle`), and a
shutdown that takes longer than 15 seconds is an `Exit`.

**Passkey.** The two maps are `pending` (one slot per user) and `pendingLogin`
(one entry per cookie token). `Sign` is the browser and the authenticator, which
either counts signatures or always reports 0; `Verified` is the library's rule
for the stored count. Both are external.

**Policy.** Names are sequences of their parts between colons, because the code
cuts names at the last one; rules, and the lists in a rule, are sets, so that order
and repetition are not told apart (no edit depends on either). `Documents` are the
documents of given names. `RenameTagInPolicy` and
`DeleteTagFromPolicy` are the code's rewriting; `AclGrants` and its relatives
are the reference they are compared with. A stored document is absent, plain
or opaque (accepted by Headscale, not decodable by the dashboard), and has
sections the dashboard does not know or not.

**TagOps.** `GetPolicy`/`PutPolicy` around `Mutate`, `SaveRaw`, `SetNodeTags`, and
for a tag operation `ReadNodes`, `WriteNodes`, `ReadKeys`, `WriteKeys`,
`RestartHeadscale`. A cell of a tags column is a list or does not decode
(`Undecodable`, passed over by `Rewrite`). `Read` gives the table or, since
`RewriteTags` does not ask for `rs.Err()`, a part of it. `live` is what Headscale
serves from memory, `up` whether it has loaded its database: a restart ends with
Headscale down, `LoadDatabase` makes it serve what is stored, and until then no call
is answered (`NotReached`). History: `disturbed` has the requests during which another one
wrote, `broken` those that read a table in part, and `unserved` says that a tag
operation ended between its first write and its restart.

**AuditLog.** The rows newest first; `Write` puts one in front, `List` and
`ListForNode` select and cut as the two queries do, with their rule for limits
out of range. `ListForNode` gives the positions of the rows it returns: those of
the hits that have fewer than the limit of hits before them (`Newest`).

**Fleet.** Headscale is a process of its own: `headscale` goes from `starting`
(it has not read its database) by `LoadDatabase` to `loaded` and by `ComeUp` to `up`,
and `served` are the nodes in its memory. An edit is `LoadForm` (the page is made;
`LoadFormFails` is the detail page that could not read the row and offers
blank fields), then `Submit` (GET the rows again, compare, refuse what the danger
gate does not allow; `SubmitUnread` is a save whose read failed, which goes on
against an empty row), `UpdateNodeFields`, `RestartHeadscale`, `Audit`, and `Poll`
on the wait page. All other handlers are `Arrive`, `Call` and `Audit`, with `LookUpUser`
first where a pre-auth key is created; `Effect` is what each of them does. The
columns of a row stand for the ways a column is written: `given_name` by operators,
`expiry` by Headscale, `machine_key` behind the danger gate, `deleted_at` by
deletion, `updated_at` by every UPDATE that is not given one (`Written`), and the id. History: `did` (what a request changed or refused to
change), `cut` (stopped by an error or a death), `stale` (forms whose row another
party wrote), `unloaded` (edits Headscale has not read). NULL and the empty text
look alike in a form (`Text`) and are different in a row, so clearing a field
stores the empty text; a time loses its fraction and zone on the way into a form
(`ToSecond`, Go's `toString`), so writing it back changes it. Users are made
through the dashboard or outside it; those called `node.<id>` are `Lookalikes`, and
the entries about them have the target of that node's entries. The tests of the Headscale
connection and of the local database change settings without an entry
(`UnloggedTests`).

## 5. What the runs check

| Run | Bounds | Shows |
|---|---|---|
| `auth_race` (`AuthRace.cfg`) | 4 requests of any kind, 1 user, 2 passwords, 1 code, clock 0..2, 1 fault | `TypeOK`, `ReplacedPasswordIsDead`, `SpentLinkIsMarked`, `LiveSessionsEndOnRequest`, `RecoveryCodesAreOneShot` |
| `auth_time` (`AuthTime.cfg`) | 2 requests, 2 addresses, 2 names, clock 0..4, server one unit east of UTC, 1 fault, fairness of the cleanup | `FailuresRemembered`, `ExpiredSessionsAreCollected` |
| `setup` (`Setup.cfg`) | releases {1,2} and {1,2,3}, 3 wizard requests, 2 names, 2 ends of the process, 1 fault, fairness of start-up | the start-up and wizard invariants, `StartsServing` |
| `passkey` (`Passkey.cfg`) | 3 requests, 1 user, 1 earlier credential, clock 0..2, 1 fault, fairness of the sweeper | `PasskeyTypeOK`, `CeremoniesAreOneShot`, `DeletedCredentialIsDead`, `StoredCountWasReported`, `AbandonedCeremoniesAreSwept` |
| `tag_ops` (`TagOps.cfg`) | 2 requests, 2 tags, 3 documents × 3 forms, 1 node, 1 key, 3 tag lists and a cell that does not decode, 1 failed call or broken read | `TagOpsTypeOK`, `WrittenRulesAreUsable`, `ServedTagsAreStored`, `UndisturbedTagOpIsComplete`, `EditsMeanWhatTheySay` |
| `fleet` (`Fleet.cfg`) | 2 requests of any kind, 2 ids that are nodes and may be keys, 2 users, one called like a node, 2 polls, 1 fault, fairness of the polls | `FleetTypeOK`, `UndisturbedEditIsExact`, `RedirectMeansReloaded`, `WaitEnds`, `NodeHistoryIsExact`, `EffectsAreLogged` |

Why the bounds are enough: four requests hold a link, its reset, an old login in
flight and a fourth that uses or ends the session; three passkey requests hold a
begin and two answers to it, or a login, a second one and a deletion; three wizard requests hold
two admins racing and one confirmation, or an admin, a confirmation and the
closing of the wizard. Two ends of the process are an interrupted start and the
interruption of its repetition, or a start of either release after the other. Two requests of `TagOps` are a failed operation and its
retry, or an operation and its disturbance. Two requests of `Fleet` are two edits
whose restarts overlap, an edit and what disturbs it (Headscale's own reports are
not requests), or a key created and expired under the number of a node; two ids
are what an edit of an id needs. Operators type a new name, a new machine
key or the other id, or nothing (`MCTyped`); Headscale reports only on rows that some
form holds, since no other report is told apart by a property; two polls stand for
the 90 of `wait.html`, and the limits of the log are 1 to 3 instead of 50 to
50000, in the order of the code's numbers. All time constants are one or two
units: only their order matters (`FailureWindow <= LockoutDuration < History`).
Permutations of requests and passwords are used as symmetry in runs without
liveness properties only.

Deadlock is not checked in the runs of `Setup`, `TagOps` and `Fleet`: requests are used
once, so these systems stop when all have been served. In `Auth` and `Passkey`
the cleanup and the sweeper never stop.

Six more runs each show one disagreement between the code and what it says of
itself; `findings` in `PROJECT.json` quotes the sentences.

| Run | Property that fails | Trace |
|---|---|---|
| `auth_lockout` | `LockoutEngages` | two failures in the window, and a third attempt is let through: the modifier `-10m0s` is not SQLite's |
| `auth_link` | `LinkIsValidForOneHour` | a link created at 0 with a life of 1 is accepted at 1, east of UTC |
| `setup_admins` | `SingleAdmin` | two requests count zero users, both insert |
| `policy_opaque` | `AppendKeepsRules` | adding a group to an opaque policy leaves only the group |
| `audit_export` | `ExportIsComplete` | two rows in the log, a limit above the maximum, and the default number of rows in the export |
| `policy_ssh` | `RenameRewritesEveryReference` | renaming `tag:a` leaves the SSH destination `tag:a` |

What the passing properties leave out:

* `LiveSessionsEndOnRequest` and `ExpiredSessionsAreCollected` hold for a shifted
  clock too, because the look-up and the purge compare the same texts; that the
  texts may name the wrong hour is `auth_link`.
* `SpentLinkIsMarked` excepts the one reset whose own marking failed or died (the
  code logs the failure and goes on); no other failure, death or reset is excepted.
  It does not say that a link changes one password only: two submissions that both
  find it unused both do, though `forgot.html:16` calls it a one-time link.
* `ReplacedPasswordIsDead` speaks of resets whose DELETE was done. The error of that
  DELETE is thrown away (`reset.go:168`): a reset whose sweep failed answers as if
  the sessions were gone.
* `NoHalfAdmin` excepts enrolments that an error or a death cut short.
* `StoredCountWasReported` says nothing of the order of two counts: `UpdateSignCount` is
  unconditional, and of two overlapping logins the smaller count may be stored last,
  though `passkey.go:281` relies on its advancing.
* `UndisturbedTagOpIsComplete` excepts operations during which another request
  wrote, those that read a table in part and rows that do not decode. In these
  three cases the tag may be left although the page says "everywhere"
  (`tags.go:185`). It says that Headscale is restarted; that it then serves what is stored,
  whatever else restarts it or writes through it, is `ServedTagsAreStored`. SSH
  destinations are left out for the reason `policy_ssh` shows.
* `EditsMeanWhatTheySay` is about ACL traffic, whose destinations have ports, and about
  policies nobody wrote between the GET and the PUT.
* `UndisturbedEditIsExact` is about forms whose row nobody else wrote, and saves that
  could read it. A disturbed form writes the old values back, which the code does
  not exclude (it compares with the row at save time); a save that could not read
  compares with an empty row and writes every column back, times shortened to the
  second. Besides the field typed into, `updated_at` changes. Also left
  out is an id typed into a form that came up blank: there the blank fields differ
  from the row, and the save blanks the columns with the new id.
* `EffectsAreLogged` excepts what a failure or a death cut short, and the tests of
  Headscale's address and of the local database, which save without an entry.
* `NodeHistoryIsExact` is about nodes that no user is called like; the page of a node
  `5` lists what is done to a user called `node.5`, too.

Fairness. The two ticker goroutines loop for as long as the process, and their
statements are local: weak fairness of `Cleanup` and `SweepPending`. Start-up is
straight-line code, and systemd starts the process again after a failure
(`Restart=on-failure`, `RestartSec=5`): weak fairness of `StartUp`, which does not lead
out of a clean end: a listener that fails is one (`main.go:291`). The wait page sets a timer after every poll: weak fairness of
`Poll(r)`. Nothing is assumed of requests (sending a mail has a time-out for the dial
only, `smtp.go:42`, and the restart command has none, `headscaledb.go:436`), nor of
arrivals, faults, operators, answers in the browser, the clock, or of Headscale,
which may never come up. So `StartsServing` ends in serving or in a clean end,
and no property says that a request is answered.

## 6. What is proved

For all values of the constants that satisfy the modules' assumptions. Every safety
property that a passing run checks is one of these theorems.

| Theorem | Statement |
|---|---|
| `OneShotAcceptsOnce` | the abstract store never accepts a secret twice |
| `AuthTypeCorrect` | `Spec => []TypeOK` |
| `ReplacedPasswordStaysDead` | `Spec => []ReplacedPasswordIsDead` |
| `SpentLinksAreMarked` | `Spec => []SpentLinkIsMarked` |
| `SessionsEndOnRequest` | `Spec => LiveSessionsEndOnRequest` (an action property) |
| `FailuresAreRemembered` | `Spec => FailuresRemembered` (an action property) |
| `RecoveryCodesImplementOneShot` | `Auth`'s recovery codes implement `OneShot` |
| `MigrationsAreExact`, `MigrationsAreInOrder`, `ServedSchemaIsCurrent` | `SetupSpec => []BodiesRunOnce`, `[]AppliedInOrder`, `[]ServingSchemaIsCurrent` |
| `SetupTypeCorrect` | `SetupSpec => []SetupTypeOK` |
| `CookiesStayGood`, `CookiesNameEnrolled`, `AdminsAreWhole` | `SetupSpec => []CookiesSurviveRestarts`, `[]CookieMeansEnrolled`, `[]NoHalfAdmin` |
| `PasskeyTypeCorrect` | `Spec => []PasskeyTypeOK` |
| `CeremoniesImplementOneShot` | `Passkey`'s ceremonies implement `OneShot` |
| `DeletedPasskeyStaysDead` | `Spec => []DeletedCredentialIsDead` |
| `StoredCountsWereReported` | `Spec => []StoredCountWasReported` |
| `RenameIsSubstitution`, `DeletionIsRestriction` | what `RenameTagInPolicy` and `DeleteTagFromPolicy` do to the grants of any policy |
| `TagOpsTypeCorrect`, `RulesStayUsable` | `Spec => []TagOpsTypeOK`, `[]WrittenRulesAreUsable` |
| `ServedTagsStored` | `Spec => []ServedTagsAreStored` |
| `TagOpsComplete`, `EditsMeanIt` | `Spec => UndisturbedTagOpIsComplete`, `EditsMeanWhatTheySay` (action properties) |
| `FleetTypeCorrect` | `Spec => []FleetTypeOK` |
| `EffectsAreInTheLog`, `NodeHistoriesAreExact` | `Spec => []EffectsAreLogged`, `[]NodeHistoryIsExact` |
| `RedirectsMeanReloaded` | `Spec => []RedirectMeansReloaded` |
| `UndisturbedEditsAreExact` | `Spec => UndisturbedEditIsExact` (an action property) |

Arguments.

*Types*: each action preserves each conjunct; what a request's program counter says
of its locals (`LocalOK`, `OpFits`, `RowsFit`, `Handles`) is what makes them
inductive, since a step relies on locals set several statements earlier. In `Fleet`
that includes that a request on the wait page has polls left.

*Accounts.* `ReplacedPasswordIsDead` is not inductive, since a login past its password
check has no session yet. `DeadInv` adds that such a login, and every session, saw
an epoch that is at least the swept one unless it is in `late`, and that the epochs
a sweep or a check carries do not exceed the user's current one. `SpentInv`
(for `SpentLinkIsMarked`) adds that the row of a link is there only when the request
that made it is past its insertion, so no later insertion replaces a marked row, and
that a link that was applied has its row; a reset leaves its marking step only by
marking, or into `unmarked`. `LiveSessionsEndOnRequest` and
`FailuresRemembered` are about single steps: every action but a logout, a reset's
sweep, a login's clearing and the two purges leaves the table alone, and a
purge removes only what its comparison selects.

*Start-up.* While migrating, what is left to do is exactly what the release embeds
and the table lacks; with the append-only assumption the applied versions stay a
prefix of all versions. This is proved for `Boot` (`BootInv`) and carried over by a
lemma: every step of `Setup` is one of `Boot` or leaves its variables alone.

*Wizard.* `KeyInv`: no cookie exists before a key is stored, every cookie is signed
with the stored key, a key is persisted only where there is none, and a serving
process has the stored one in memory. `EnrolInv`: the user row of a request exists only past its insertion, the
rows a creation has written are those its program counter says (`LocalsOK`), and a
creation answers, with a cookie, only after the last of them.

*The refinements.* A code is live while its row is unused, a ceremony while it is in
a map; every step of the detailed module is an issue, an acceptance, a withdrawal or
a stutter, given that an entry in a map was begun and a request that has not
arrived has issued nothing.

*Passkeys.* `DeletedInv` says of a session, and of a login past its look-up, that the
row of its credential is there or the login is in `late`; only a deletion removes a
row, and it puts every such login in `late`. `CountInv`: the count a login carries,
and the one in every answer, is bounded by the authenticator's counter, which never
falls.

*Policy.* Two policies permit the same when they have the same grants, and a grant
comes from one rule, one source and one destination, so both theorems are proved
for one of each. The rename needs that tags have two parts or more: the host of a
renamed destination, cut at its last colon again, is then the new name.

*Tag manager.* `ServedTagsAreStored` is inductive with the types: the node rows change in
`WriteNodes`, which leads to a statement in `Unserving`, together with `live`, or not
at all, and a request leaves `Unserving` by a restart or into `unserved`.
`TagOpsInv`: a document about to be put is the edit of the one that was
read, with usable rules (`EditFits`); and for a request nobody disturbed
and that read its tables to the end (`CleanSoFar`), the old name is gone from the
grants and owners of the policy once that is put, from the nodes once they are
written, then from the keys, and a snapshot of a table equals the table. A disturbed operation may leave the name behind, and the code does not
say otherwise. `EditsMeanIt` follows from `EditFits` and the two theorems about
policies.

*Node pages.* Every step of a request is a `Move`: it changes that request's record, adds at
most to what it did, and writes its entry exactly when it passes from its audit
statement to an answer (one lemma per action). From that alone follow `DidFits`
(what a request has done fits the statement it is at) and `TrailInv`: a request that has not been
answered has no entry, an answered one that did something and was not cut has one,
and an entry names the node its request acted on (`EntryFits`) or none at all,
though nodes and keys are numbered alike. `ReloadInv`: a request that has restarted
Headscale and whose edit is unread sees a Headscale that is down or starting; a
restart brings it back there, and only `LoadDatabase`, which reads every edit,
leaves it. `FormInv`: as long as nobody else wrote the row, an open form shows the
row as it is or is blank (`ShowsRow`), and what is about to be written is the row
but for the field typed into (`WritesTouched`), if it was read when it was compared;
every writer of a row puts the forms over it in `stale`.

TLC checked each of these invariants on the runs' instances before it was proved.

Assumptions the proofs use are the named ASSUMEs of the modules, which TLC
evaluates in every run: the finite and append-only releases; that `None` and `Null`
are no record, name or id, and that ids and user names differ, as numbers and names do; the
ranges of the time constants; that a tag has two parts (`tags.go:115`, `150`, `175`
refuse one without its prefix `tag:`); that the documents and rules which enter
`TagOps` are documents over its names with no empty side (Headscale refuses others,
`policy.go:183`, and `policyAddRule` an empty field); and that the page of a node asks for
no more rows than `ListForNode` gives (`handlers.go:600` asks for 50, of 200).

Only model-checked: the four liveness properties (`ExpiredSessionsAreCollected`, `StartsServing`, `AbandonedCeremoniesAreSwept`,
`WaitEnds`). They follow from weak fairness, whose definition uses `ENABLED`, and the
prover has no rules for it. What a run with `expect` violation shows is a
counterexample and nothing to prove.

## 7. What is not modelled

Argon2, TOTP codes,
HMAC, CSRF tokens and client addresses are local computations; their outcomes
appear as nondeterministic choices or exact comparisons. Templates, static
files, packaging and the install script have no state of their own.
`DeletePreAuthKey` has no caller at this commit. Pages that only read (home, routes,
users, the tag and policy pages), the join command that a registration prints and
the checks on names, tags and ids before a call are left out. The SMTP dialogue is one
step that may never be taken. Fields of an audit row other than action and target,
and the rows of logins and policy edits, are not kept. Malformed forms and missing
configuration change nothing and are left out, except where an error branch
changes state. SQLite's busy time-out is one of the causes of a failed statement.

## 8. Running

    tlc -workers 2 -config AuthRace.cfg MCAuth
    tlapm AuthProofs.tla

Module and configuration of every run are in `PROJECT.json`. The longest run,
`fleet`, takes two minutes or three; the longest proof, `FleetProofs`, about two.
