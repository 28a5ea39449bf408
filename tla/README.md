# Formal models of api-fa-backend

This directory holds TLA+ models of the authentication service in `app/`, the
TLC configurations that check them on small instances, and TLAPS proofs of the
properties that matter most, for every value of the constants.

The service is small and sequential to read, but it runs as several asyncio
workers over one PostgreSQL database at READ COMMITTED, and almost every
guarantee it makes is a guarantee about interleaved statements. The tests of
the repository run one request at a time; the models run them together.

## 1. Inventory

| Component | State | Operations | Talks to | Hard part |
|---|---|---|---|---|
| Session life cycle (`app/api/v1/endpoints/auth.py`, `app/models/refresh_session.py`) | `refresh_sessions` rows, `users.token_version`, tokens held by clients | login, refresh, logout, the session half of reset-password | database, JWT helpers, access-token check | concurrent presentations of one token, reuse sweeps, resets, crashes between statements |
| Rate limiter (`app/core/rate_limit.py`) | `rate_limit_hits` rows | `enforce_rate_limit`, `client_ip` | every OTP endpoint and register | count-then-insert, two counts and a reserved band |
| Cleanup jobs (`app/core/scheduler.py`) | none of their own | purge of `refresh_sessions`, cleanup of `rate_limit_hits` | both tables above | deleting evidence that reuse detection or a window still needs |
| Access-token check (`app/api/deps.py`) | none | `get_current_user` compares `ver` | users | what a reset invalidates |
| OTP verification (`_check_and_consume_otp`, forgot-password, verify-otp, reset-password) | `verifications` rows with `attempts` | request, check, consume | rate limiter, email | shared attempt budget, cooldown, duplicate rows |
| Registration and email verification | `users`, `verifications` | register, verify-email, resend | email sender | send failure rolls the account back; two registrations of one email |
| JWT, bcrypt and HMAC helpers (`app/core/security.py`) | none | mint, decode, hash | all endpoints | `exp` boundary |
| Client IP (`client_ip` in `app/core/rate_limit.py`) | none | the trusted hop of `X-Forwarded-For` | rate limiter | hops a client typed, no peer at all |
| Settings (`app/core/config.py`) | one object per process | parsing, field and cross-field validators | all | what a value that is accepted does to a request later |
| Application (`app/main.py`, `app/core/security_headers.py`, `app/api/deps.py`) | the middleware stack | boot, host and CORS checks, headers, routes, dependencies | settings, limiter, endpoints | the order of the layers, exceptions that pass them |
| Startup (`lifespan` in `app/main.py`) | none | `create_all` | schema | beside other processes and alembic, under a role that may not create |
| Migrations (`alembic/env.py`, `alembic/versions`) | schema, `alembic_version` | upgrade, downgrade, stamp over 0001 to 0009 | live requests, startup, an older release | one transaction over all revisions, table locks, the cast of 0006, roles that are not there yet |
| Email (`app/core/email`), audit log | none | output | | a provider without implementation; codes in a log |

What makes each correct:

- *sessions*: one active token per family, a token exchanged once, revocation
  for good, a dead family never revived, nothing from before a reset accepted
  after it, reuse kills the family;
- *rate limiter*: bounds per email, per IP and per pair over every sliding
  window, with the overshoot of concurrency made explicit;
- *cleanup*: it forgets only what nobody can use any more;
- *OTP*: a code that is spent, consumed, rotated away or expired is never usable
  again; a code opens only what it was asked for; an unverified account has a
  code or can rotate it;
- *registration*: never an account without a code, never two accounts for one
  email;
- *client IP*: a row is counted under an address that a trusted server saw for
  itself, whatever the client typed;
- *settings and application*: no accepted setting refuses everybody, what fails in
  front of an endpoint is not counted against the client, the configured origins are the ones a browser
  may use, every answer carries its headers, production shows neither its docs
  nor a code;
- *migrations and startup*: the committed schema is always the one
  `alembic_version` names, the rows fit their columns, the release is served
  from 0006 on, and no command or request waits for ever.

## 2. Modules

| Module | Models |
|---|---|
| `RefreshSessions` | login, refresh, logout, reset-password, the reuse sweep, the purge; statement by statement |
| `RefreshChains` | the abstract promise: families of single-use tokens, no database |
| `RefreshRefinement` | the mapping (`INSTANCE RefreshChains WITH ...`) under which `RefreshSessions` implements `RefreshChains` |
| `RateLimit` | `enforce_rate_limit` for one scope and the cleanup of its table |
| `OtpCodes` | register, resend, verify-email, forgot-password, verify-otp and the code half of reset-password, statement by statement |
| `OneTimeCodes` | the abstract promise: accounts and the codes that verify them, no table, no clock |
| `OtpRefinement` | the mapping under which `OtpCodes` implements `OneTimeCodes` |
| `Migrations` | alembic commands over the nine revisions, `create_all` at startup, live requests, an older release, PostgreSQL's deadlock detection |
| `ClientAddress` | `client_ip`, as an operator over sequences of hops |
| `Serving` | one process: its settings, the middleware, routes, dependencies, the limiter behind `ClientAddress`, the endpoints by kind |
| `MCRefreshSessions`, `MCRateLimit`, `MCOtpCodes`, `MCMigrations` | symmetry sets for TLC |
| `MCServing` | the environments and the requests of the instance of `Serving` |
| `RefreshSessionsProofs`, `RefreshHistoryProofs`, `RefreshRefinementProofs`, `RateLimitProofs`, `OtpCodesProofs`, `OtpRefinementProofs`, `MigrationsProofs`, `ServingProofs` | theorems and proofs |

`RefreshSessions` and `OtpCodes` meet in reset-password: one transaction
consumes the code and revokes the sessions. In `RefreshSessions` the code is a
variable of its own (`IssueOtp` issues it, `ResetCommit` spends it); in `OtpCodes`
the reset is a consumption. Their composition is planned (section 6). `Serving`
puts the limiter's decision at its place in a request, after the dependencies
and with the key of `ClientAddress`; `RateLimit` interleaves the statements of
that decision. `Migrations` says which tables a request finds; the other modules
assume the schema of the head revision.

### 2.1 How a handler becomes actions

A handler is a coroutine with one database connection. Between two `await`s
nothing else of the request can happen, so each awaited statement is one
action, together with the Python code up to the next `await`. At READ
COMMITTED a statement sees what is committed when it starts; an `UPDATE` waits
for row locks and re-evaluates its `WHERE` on the current version of the row.
The effects of a transaction are invisible until `COMMIT`, so a request keeps
them in its record `tx[p]` and the commit action applies them. A crash at any
point (`Crash`) is the rollback that `get_db` performs when it closes the session.

- `login`: `LoginSelect` (SELECT user, password check, clock, uuid4),
  `LoginCommit` (INSERT and COMMIT).
- `refresh_token`: `RefreshSelect` (decode, SELECT row; a revoked row goes to
  the sweep), `RefreshExpired`/`RefreshRejected`/`RefreshLoadUser` (SELECT user
  and the checks), `RefreshCas` (the compare-and-set UPDATE, which takes the
  row lock or rolls back), `RefreshCommit` (INSERT, flush, link, COMMIT). The
  last three statements are one step: the row is locked, and nothing they write
  can be seen or changed before the COMMIT. A crash between them is a crash
  before that step.
- `_revoke_active_sessions`: `SweepStart` takes the snapshot of the bulk UPDATE,
  `SweepCommit`/`ResetCommit` have every lock, re-evaluate `revoked_at IS NULL`
  and commit. A row that is committed in between is not touched, as in
  PostgreSQL. `Logout` enters it with the filter on the row, reuse detection
  with the filter on the family, reset-password with the filter on the user.
- `reset_password`: `ResetSelect`, `ResetLoadUser` (reads `token_version`),
  the sweep, `ResetCommit` (writes the incremented copy).
- scheduler: `Purge` (one DELETE with the foreign key's SET NULL), with any
  cutoff a delayed job may have computed.
- `enforce_rate_limit`: `Request`, `CountIp`, `CountEmail`, `CheckBand`,
  `Insert`; `_raise_rate_limited` is `Finish`.
- `register`: `RegisterSelect` (the branch on the SELECT), `RegisterFlush` (both
  INSERTs; the unique index of `users.email` makes it wait for a registration of
  the email that is still open, and fail when that one has committed),
  `RegisterSends` or `RegisterSendFails` (the email goes out inside the
  transaction; a failure rolls it back), `RegisterCommit`.
- `forgot_password` and `resend_verification_email` are the same statements with
  another purpose: `IssueUser`, `IssueLatest` (the cooldown), `IssueDelete` (the
  snapshot of the DELETE), `IssueCommit` (what is left of it, the INSERT and the
  COMMIT). The email goes out after the commit and its failure is ignored.
- `_check_and_consume_otp`: `CheckWrong` and `CheckRight` are the SELECT of a
  live row. `WrongCommit` writes the columns that the wrong guess changed,
  computed from the values read; `ConsumeCommit` is the DELETE of `verify_email`
  and `reset_password` with the account it verifies. A row that is gone by then
  is an error for the UPDATE (`StaleDataError`, nothing is written) and only a
  warning for the DELETE.

- `alembic upgrade` and `downgrade`: `Start` reads the version, `ReviseUp` and
  `ReviseDown` run one revision each, with the locks of its ALTER TABLEs and
  CREATE INDEXes, `Validate` is the look 0006 takes at the rows before its ALTER,
  `Commit` ends the one transaction of `run_migrations`, `Abort` rolls it back.
  `Stamp` is `alembic stamp`, `ProvisionRoles` the script 0007 waits for.
- `lifespan`: `Inspect` looks which tables exist, `CreateAll` creates the missing
  ones in one transaction or fails. A request of a live process is `Request`,
  `Use` for each table of its transaction in the order of its statements, and
  `Finish`. `RunIsVictim` and `RequestIsVictim` are PostgreSQL breaking a cycle
  of waits; `OlderReleaseInserts` is a process from before 0006.
- A request on its way through a process (`Serving`): `SecurityHeaders`,
  `TrustedHost`, `Cors`, `Route`, `Dependencies`, `EnforceRateLimit`, `Endpoint`,
  in the order `add_middleware` and the router give them, then `Reply`. `Boot` is the
  import of the settings with all that refuses a value, `Expire` a row leaving
  the window.

History variables and fields (`resets`, `swept`, `hit`, `code`, `mailed`, and
`family`, `parent`, `epoch` of a token) record what the properties speak of; no guard of an action
that models code reads them, except that a new hit gets the next key.

### 2.2 Abstractions

- Passwords, signatures and OTP codes are not data: a login step is a login
  whose password matched, a token is accepted only if it was minted.
- A user is active and verified or not (`eligible`), changed by the environment.
- The clock is one number for all workers. `now()` of PostgreSQL in the
  rate-limit cleanup and Python's `datetime.now` are the same clock.
- `Latency` bounds how long a request runs after reading the clock. Only
  `PurgedIsExpired` and the rate-limit bounds depend on it, and it is a constant
  of the statements that use it.
- Deadlocks between two multi-row UPDATEs that lock rows in opposite orders are
  aborts in PostgreSQL and covered by `Crash`; a sweep takes its locks at once. A
  cycle of row locks is therefore no state of `RefreshSessions`, and `LockWaitsEnd`
  is about queues for a row, not about such cycles. Cycles of table locks are
  states of `Migrations`.
- In `Migrations` a `CREATE INDEX` takes its table as an `ALTER` does (PostgreSQL would
  let readers pass, so the model has more waits), and `create_all`, one transaction
  of several statements, is one step, which is coarser than the code.
- A code is the row that stores it: a guess is right or wrong for the row read.
  Requests of the code endpoints that write nothing (an unknown or known email,
  no live code, a right code at verify-otp) have no action, since nothing they
  do can be seen.
- Row locks of `verifications` are left out. A guess that would wait for the
  DELETE of a rotation commits in the model before it instead; the row it writes
  is removed by the DELETE either way.
- The rate limiter in front of the code endpoints is not composed with them: the
  properties of `OtpCodes` do not rely on it.
- A schema is the set of the objects that revisions change, one name each;
  columns nobody changes later are part of their table. A row of
  `rate_limit_hits` is the text form of its address: as the server prints it, with
  the netmask that `inet::text` adds, with a port, or the word `unknown`.
- A header is the sequence of hops that `client_ip` makes of it, a setting one of
  the few values its validators and readers tell apart.
- `Serving` passes one request at a time. Requests share nothing there but the
  hits, and their races are `RateLimit`'s. Its requests have well-formed bodies. Its
  endpoints are the six that call `enforce_rate_limit`, one scope each, and `/` and
  login, which no limiter stands in front of; refresh, logout and `/me` are left to
  `RefreshSessions`. An endpoint is its outcomes: the statuses of its `return`s and
  `HTTPException`s (503 would need a sender that fails, and the only one there is
  does not), and for four of them an exception nobody catches (`Raising`). All
  limits are one number.
- Scopes of the rate limiter share nothing, so `RateLimit` models one. The optional
  `COUNT(DISTINCT ip)` of the 429 path is logging.

## 3. What is checked

| Run | Instance | Shows |
|---|---|---|
| `refresh_race` | 3 requests (one may reset), 3 tokens, clock stopped | type correctness, `OneActivePerFamily`, `ExchangedOnce`, `ChainKeepsClaims`, `NoTokenOutlivesReset` with one reset at a time, `DeadFamilyStaysDead` |
| `refresh_purge` | 2 requests, 3 tokens, 4 instants with lifetime 1, no resets | `NoDanglingNext`, `PurgedIsExpired`, `RevokedForGood`, `ImplementsChains` |
| `refresh_locks` | 2 requests, 2 tokens, fairness | `LockWaitsEnd` |
| `rate_limit` | 2 requests, 2 IPs, 2 emails, 4 hits, limit 2 with 1 reserved slot, IP limit 2, 3 instants | type correctness, `EmailBounded`, `IpBounded`, `ReserveKept` |
| `otp_codes` | 2 requests, 1 email, 2 codes, 2 attempts, lifetime 1, 2 instants, fairness | type correctness, `ExhaustedIsDead`, `DeadCodeStaysDead`, `OneRowPerRequest`, `AccountsGotTheirCode`, `UnverifiedHasRow`, `VerifiedByOwnCode`, `RegistrationsMoveOn`, `ImplementsCodes` |
| `migrations` | 1 process with 1 request, 1 row, 3 commands with targets 0, 1, 5, 6, 9, fairness | type correctness, `SchemaOfVersion`, `RowsFitColumn`, `CheckedRowsCast`, `HeadServes`, `CommandsEnd`, `AppsMoveOn` |
| `serving` | 46 environments, 49 requests, limit 2, 2 hits | type correctness, `KeyIsObserved`, `OnlyServableCounted`, `UnseenIsServed`, `OriginsHonoured`, `SecuredUnlessCrashed`, `ProductionShowsNothing` |
| `refresh_reuse` | 2 requests | **violated** `ReuseKillsFamily` |
| `reset_race` | two requests that may both reset | **violated** `NoTokenOutlivesReset` |
| `otp_budget` | 2 requests, 2 attempts | **violated** `BudgetHolds` |
| `register_answers` | 2 requests, 1 email | **violated** `RegisterAnswersAlike` |
| `cutover` | 1 process, 2 commands | **violated** `CutoverApplies` |

Why the bounds are enough. A race on a token needs the request that reads it,
the one that changes it and a third that sweeps or resets: three requests. A
chain of three tokens is the shortest in which a middle row has both a
predecessor and a successor, which the purge needs. With lifetime 1 and four
ticks a token is minted, expires, passes the retention and is purged while a
second one is alive. In the limiter, four hits exceed the limit 2 by the slack
of one and one more; window 1 and retention 1 put a hit inside a window, outside
it and in the cleanup's range within three instants. The run has one value of
`ReservedSlots`; that every other value, negative or too large, leaves a main pool
is the lemma `Clamp` under the theorem `ReserveLeft`, and `serving` has 0, 1 and 2.
For the codes, two attempts are the fewest at which a lockout differs from a
wrong guess; two codes are that of the registration and one of a rotation or a reset, which every other request
may overlap; lifetime and cooldown 1 let a code expire and be rotated within two
instants. What two codes cannot show, two rotations that both commit, rests on
the theorem `OneRow`, which holds for any number of codes, requests and emails.

For the migrations, the five targets are an empty database, the baseline, the
versions on both sides of 0006 and the head; three commands are an upgrade, its
undoing and a second upgrade, or a stamp and two upgrades. One row is in each
form in turn. One process is enough for a cycle of waits with a command; two
processes that start together, and any number of rows and commands, are in the
theorems of `MigrationsProofs`. In `serving` each setting takes its values against
one base, since no two of them meet except those the instance varies together:
environment, provider and log level; proxies, multiplier and reserve; the lists.

`CHECK_DEADLOCK` stays on: every instance can always do something (a login, a
change of eligibility, a request).

### Fairness

`LockWaitsEnd` assumes `FairSpec`. Weak fairness of `SweepStart` and
`RefreshCommit` is the event loop running a coroutine that can go on. Strong
fairness of the steps that wait for a row lock (`RefreshCas`, `SweepCommit`,
`ResetCommit`) is PostgreSQL's lock queue: a waiter is woken in order when the
holder ends, so one that could be granted again and again is granted. No other
step is assumed to happen: no login, no crash, no purge.

`RegistrationsMoveOn` assumes weak fairness of the end of the send (success or
`EmailSendError`) and of the commit after it, and strong fairness of
`RegisterFlush`, which waits for an index entry as the others wait for a row.
The property excuses a run in which every uuid4 of the model is used up.

`CommandsEnd` and `AppsMoveOn` assume strong fairness of a step of the command in
progress: its lock request stays in the table's queue, before those of requests
that come later. Weak fairness of the other steps is a process that goes on when
it can (`CreateAll`, `Use`, `Finish`) and the server's deadlock detection, which
ends a cycle of waits by one victim or the other. No command, request or start
has to happen.

### Disagreements found

1. *Reuse detection can miss a successor* (`refresh_reuse`). The sweep is one
   UPDATE with one snapshot. A rotation that has passed its compare-and-set and
   not committed holds the only lock the sweep meets; when it commits, the sweep
   re-checks that row, finds it revoked, and never sees the new row. The comment
   at `auth.py:774` ("revoke the ENTIRE family") does not hold then. The family
   is swept at the next reuse.
2. *A lost increment of `token_version`* (`reset_race`). Two overlapping resets
   write the same value; a login between them keeps a valid `ver`
   (`auth.py:711`; `docs/requirements/obj-002-session-token-lifecycle.md:288`).
3. *The attempt budget is not strict* (`otp_budget`). `attempts` is read, incremented
   in Python and written: overlapping guesses count once, and a slow one can
   even lower the count. The rate limits of the endpoints bound the guesses in
   practice. What does hold is `ExhaustedIsDead` and `DeadCodeStaysDead`: once a
   lockout is committed no late write undoes it (`expires_at` is written only by
   a guess that locks out, and only with a time that has passed).
4. *Two registrations of one new email do not answer alike* (`register_answers`):
   the second ends with an unhandled `IntegrityError`.

5. *The cut-over that the docs describe does not apply* (`cutover`). The tables that
   today's `create_all` makes have an INET column and the index of 0009, so a
   database stamped with 0001 is refused by 0006 on the way to the head
   (`alembic/env.py:36-44` and the docstring of 0001 call the tables identical;
   `app/models/rate_limit.py:49` and `:60` differ).

Some remarks that no run is about. The docstring of `enforce_rate_limit` calls
the ceiling per email strict; count and insert are separate statements, and
`EmailBounded` gives the exact overshoot: one per other request in flight. The
cooldown of a code is checked before the DELETE of the rotation, so one of two
overlapping requests may rotate away what the other has just mailed, or both
codes stay; `OneRowPerRequest` bounds the second case. Two requests that have
both read a live code may both consume it, since the DELETE of a missing row is
only a warning: `ConsumeCommit` and `ResetCommit` allow it. The docstring of
`_cleanup_refresh_sessions` and migration 0004 speak of "a newer row's
`replaced_by`" pointing at a purge-eligible row. The code sets the pointer of
the *older* row to the newer. The newer row is normally purged later than the
older one; only because `revoked_at` is read before the compare-and-set can the
newer one be purged first, and `NoDanglingNext` shows that the `SET NULL` of 0004
is needed exactly then.

On the settings. `ALLOWED_HOSTS` is a `List[str]` without `NoDecode`, so
pydantic-settings decodes it as JSON: `.env.example:65-68` calls it a
"Comma-separated list of Host header values", defaults it to `"*"` and sets
`ALLOWED_HOSTS=*`, with which the process does not start (`config.py:91-96` explains
why for the other list). A JSON array in `BACKEND_CORS_ORIGINS` is refused
although the docstring at `config.py:151-155` leaves it to "pydantic's own
complex-type parsing". A `LOG_LEVEL` that `logging` does not know, in lower case
too, stops the start, where the comment at `config.py:104` speaks of verbosity
only; `WARNING` silences the console sender, and with it the codes of development.
An origin configured with a path never matches. On a transport without a peer
the limiter's first statement fails on `unknown`, although the comment at
`rate_limit.py:246-248` falls back "since a missing IP shouldn't take the endpoint
down". A bare 500 carries none of the headers that
`security_headers.py:1-2` puts "on every response". Login calls `client_ip` for its
log line only; it is not one of the limited endpoints. A request that its endpoint fails with a bare 500 has been counted: the limiter
commits its hit before register's flush meets the unique index (`auth.py:295`) or a
wrong guess's commit a code that is gone (`auth.py:164`). `OnlyServableCounted` says
exactly what is not counted: whatever fails in front of the endpoint.

On the migrations. Once 0007 has been applied without the roles, running the
upgrade again after provisioning them grants nothing: the version is past it.
Downgrading 0006 leaves addresses with a netmask, which 0006 then refuses on the
way up until the rows have expired. Its regular expression accepts an address
with a port, which the cast refuses: the command is rolled back with the cast's
error instead of the revision's own message (`CheckedRowsCast`). The docstring at
`scheduler.py:89-96` says that 0004 is there in every environment; a database that
only `create_all` has made does not have it.

## 4. What is proved

For every number of requests, users and tokens, every lifetime and clock:

- `RefreshSessionsProofs`: `Inductive` (`Spec => []IInv`) and its consequences
  `TypeCorrect`, `OneActive`, `NoDoubleExchange`, `ChainKeeps`, and the action
  properties `RevocationKept` and `DeadStaysDead`.
- `RefreshHistoryProofs`: `LinksPresent` and `PurgeIsLate`;
  `ResetEndsTokens` and `UndisturbedReuseKills`, which hold of the behaviours in
  which no two resets, or no sweep and rotation, overlap in their critical part;
  `OneResetterEndsTokens`, for a system in which one request resets.
- `RefreshRefinementProofs`: `Refinement`, `Spec => ImplementsChains`.
- `RateLimitProofs`: `Inductive`, `TypeCorrect`, `EmailLimit`, `IpLimited`,
  `ReserveLeft`.
- `OtpCodesProofs`: `Inductive`, `TypeCorrect`, `OneRow`, `ExhaustedDead`,
  `VerifiedOwn`, `AccountsMailed`, `UnverifiedKeepsRow`, the action property
  `DeadStays`, and `GuessesApartKeepBudget`, which holds of the behaviours in
  which no two guesses of one code overlap.
- `OtpRefinementProofs`: `CodesRefinement`, `Spec => ImplementsCodes`.
- `MigrationsProofs`, for any number of processes, rows, commands and requests:
  `Inductive`, `TypeCorrect`, `SchemaTold`, `RowsFitted`, and the action properties
  `CheckedCast` and `HeadServed`.
- `ServingProofs`, for any environments, requests, limit and number of proxies:
  `TypeCorrect`, `KeyObserved`, `CountedServable`, `OriginsKept`,
  `AnswersSecured`, `ProductionQuiet`, and the action property `UnseenServed`.

The argument for sessions. `OneActivePerFamily` is not inductive: a state in
which two requests hold a rotation of the same row would break it one step
later. `IInv` adds what the code relies on: the row of a rotation that passed
the compare-and-set is active and owned by it alone (`RotationOwnsRow`), a uuid4
is drawn once (`DrawnOnce`), rows and tokens agree (`RowsHaveTokens`), locals
repeat the claims of the presented token (`LocalsOK`), and an active row has not
been exchanged (`ActiveHasNoChild`), which gives `ExchangedOnce` even after the
parent's row was purged.

The argument for what sessions remember. `RetentionInv` dates every request
(`RequestsTimed`: no `now` is older than `Latency`), every token and every row: a
row is revoked at a time read at most `Latency` before it is committed, and its
token expires at most `TTL` and that much later, so a cutoff of `Retention` cannot
pass an expiry. `NoDanglingNext` needs no strengthening: the purge sets NULL
what pointed at its rows, and a rotation links the old row to one that the same
commit inserts.

Three properties are violated by runs (`reset_race`, `refresh_reuse`,
`otp_budget`), and three theorems say that the interleaving each run finds is the
only way. Their hypothesis is a condition on behaviours, `[]ResetsApart`,
`[]SweepsUndisturbed`, `[]GuessesApart`, which excludes that overlap and nothing
else: requests of other users, families and codes, crashes, expiries, purges and
rotations stay arbitrary.

- `ResetEndsTokens` counts. With resets of a user apart, `token_version` *is* the
  number of resets (`VersionsCount`), the copy a reset carries is current until
  it commits, and a token's `ver` is the epoch it was minted in.
  `OneResetterEndsTokens` derives the hypothesis where `ResetProc` has one member,
  which is the instance of `refresh_race` (`ResettersOK`: only a member of
  `ResetProc` is ever in the statements of a reset).
- `UndisturbedReuseKills` follows the snapshot of a sweep (`SweepsCover`): it holds
  every active row of the family, because a family gets a new row only
  from the commit of a rotation. The rows it may not write, those another
  transaction has revoked meanwhile, are inactive already.
- `GuessesApartKeepBudget` follows a guess (`GuessesCounted`): `attempts` counts
  the wrong guesses of its row, and the value in flight is the next one, at most
  `MaxAttempts`, since the row was live when it was read (`ExhaustedIsDead`).

The argument for the limiter. A bound on the hits alone is not inductive:
requests that have passed a count may still insert. Each of `EmailInv`, `IpInv`,
`PairInv` bounds the hits in a window *plus* the requests that have passed the
count and will insert into it. Passing a count with fewer than `limit` hits
leaves at most `limit - 1` hits and at most all requests in flight; inserting
moves one from the second set to the first. `Retained` (the cleanup deletes only
what no running request may still count) connects the table to the history; it
is where `Retention + 1 >= Window + Latency` is used. `Clamp` shows that every value
of `reserved_slots` leaves a main pool of at least one.

The argument for the codes. What has to be carried through the statements of a
request is in `LocalsOK`: a rotation's snapshot holds every row of its email and
purpose that the request itself stored, a guess and a consumption know the email
and the purpose of their row, also after the row is gone (`StoryOfRow` ties the
table to the history), and the time a guess may write as `expires_at` has
passed. `EmailOwned` and `NotYet` say what the unique index guarantees a
registration that has flushed; with `AbsentHasNoRows` they give the new account
exactly one row. `Quiet` proves the invariant once for all steps that only read,
`Stored` once for both steps that insert.

The refinement of the codes. `OneTimeCodes` knows accounts, the codes issued, the
live ones, the ones used, and the ones *held*: accepted from somebody who has not
redeemed them yet. A registration makes an account appear with its first code, a
rotation replaces only codes of its own email and purpose, codes die, a code is
accepted while it lives, and redeemed only if it is held. The mapping takes the
rows that have not expired for the live codes, and the requests between the
lookup and the commit of `_check_and_consume_otp`'s callers for the holders; the
abstract step of each commit is shown in a lemma (`RegisterAppears`,
`IssueRotates`, `WrongLocksOut`, `CheckAccepts`, `ConsumeRedeems`, `TickExpires`), and
all other statements leave the promise alone or abandon a code (`MoveAbandons`). Two
details of the code are visible in it. The first code of an account may be dead
when its account appears, since its `expires_at` was computed before the email
was sent; a rotated code never is. And a code may be redeemed more than once or
after its death, but only by requests that had read it alive.

The argument for the migrations. The lemmas of the first part are about the
revisions as data: `AddsAreNew` (no two of 0002 to 0009 touch the same object, and
what they drop was made by 0001), from which `AfterUp` and `AfterDown` follow: the
shape of a version is that of its neighbour with one revision applied or undone.
`IInv` carries that shape through the transaction of a command (`WorkIsShaped`), so
a commit publishes a whole version and a rollback none. A stamped database stops
before 0006 (`StampStops`), for 0006 looks for a column it does not have. For the
rows the code relies on a lock that another revision takes: an upgrade from below
0005 has altered `rate_limit_hits`, and holds it, before 0006 looks (`HitsHeld`), so
what was looked at is still so (`RowsSeen`); only a command that starts at 0005
looks without the lock, and `CheckedCast` excepts exactly that.

The argument for serving. `ClientIpIsSeen` is the fact about `client_ip`: with at
least as many observed hops as proxies are trusted, the hop counted from the
right is the one the outermost trusted proxy appended, whatever stands before it.
`InProgress` carries what the validators guarantee of the settings of a process
that is up (a positive multiplier), without which the limiter would
refuse a client nobody has counted, and that only endpoints with a limit are
reached behind the route; `CountedLast` says that the count is the last thing
that happens before the endpoint. `Passage` follows a request through the layers,
in the order they are added: behind the host check its host is allowed, behind
CORS it is no preflight, behind the dependencies an endpoint that mails has the
console sender (which production refuses at boot), behind the limiter its key is
an address, and an answer made inside carries what the layers outside add on its way back
(`AnswerCarries`): its policy, and the permission to read it exactly if its
origin is configured (`OriginSpelt` compares the spellings).

Assumptions: those on the constants at the head of each module, which TLC
evaluates in every run, and the hypotheses named in the three conditional
theorems. The proofs rest on no other assumption. Every safety and action
property of a passing run is a theorem. Model-checked only is what is out of
this prover's reach, liveness: `LockWaitsEnd`, `RegistrationsMoveOn`,
`CommandsEnd`, `AppsMoveOn`.

## 5. Not modelled

The audit log and the email templates, which write and render text that nothing
reads back; alembic's offline mode, which prints SQL; the size of the connection
pool, a default of the library. The lengths and the randomness of codes, bcrypt
and HMAC are not modelled: a guess is right or wrong. Of the settings, those
without a validator (names, credentials, lifetimes) appear where they are used,
as constants of the modules.

## 6. Plan

1. `AuthSystem`: a composition in which reset-password consumes the code and the
   sessions in one transaction, with the crash in between, and the limiter in
   front of the guesses (the bound on guesses per code that `otp_budget` leaves
   to it).
2. An abstract specification of the limiter (a window with a slack), with a
   refinement run and its proof.
3. Consequences of the abstract specifications, proved once there and carried
   over by the refinements: an account never goes back, a code that is dead and
   that nobody holds is never redeemed.
