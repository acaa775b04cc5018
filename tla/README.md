# Formal models of Aegis and Athena

TLA+ modules, TLC configurations and TLAPS proofs for the cloud-native
security reference: the gateway **Aegis**, the identity service **Athena** and,
where the protocol depends on it, the browser client **AthenaUI**. Paths below are
relative to the repository (`src/`).

## 1. The system

Clients talk to Aegis. Aegis forwards `/api/auth`, `/api/projects`, `/api/users`
and `/api/admin` to Athena, and the paths configured in Athena's table
`project_routes` to the backends of the projects. Athena keeps users, projects,
memberships, routes and refresh tokens in MySQL, with one auto-commit statement
per repository call and **no transaction anywhere**. Aegis keeps its
configuration, its circuit breakers and nothing else in memory; rate counters and
cached answers are in Redis. The two exchange configuration by polling only: every
30 seconds Aegis fetches the routes and then the map from hosts to projects.

| Component | State | Operations | Hard behaviour | What makes it correct | Model |
|---|---|---|---|---|---|
| Circuit breaker (`Aegis/internal/circuit`, `router/proxy.go`) | state, count, time of last failure | checkState, Success, Fail | goroutines report late, twice or never; clients cancel | open means shielded, and not for ever | `CircuitBreaker` |
| Refresh tokens (`token_handler.go`, `token_repository.go`) | table `refresh_tokens` | login, refresh | lookup, delete and insert apart; failed delete only logged; lost answers | a session survives, an exchanged token does not | `TokenRotation` |
| Second factor in a project (`otp_handlers.go`, `auth_handlers.go`) | row of `user_projects`, `force_2fa` | setup, verify, disable, two logins | code checked by one statement, row changed by another | on means usable; off only with a code; logins follow the policy | `ProjectOTP` |
| Accounts (`auth_handlers.go`, `user_handler.go`) | `users`, `user_projects` | register, for a project or globally; change of the email | count, check and insert apart; second insert may fail | who becomes administrator; whose account an email is | `Registration` |
| Membership, routes, settings (`project_handlers.go`) | `projects`, `user_projects`, `project_routes` | create, add, change roles, remove; create, edit, delete a route; set | right checked, row read and row written by three statements; routes found by id alone | changed only by who may; owners remain; deleted is deleted; projects are apart | `ProjectMembership` |
| Access tokens and ACL (`jwt.go`, `Aegis/internal/auth`) | tokens at their holders | login, refresh, validation, comparison of roles | roles copied into tokens nobody takes back, and that name no project | a lost role stops working, and soon; a role counts in its project | `ProjectAccess` |
| Configuration and hot reload (`api_loader.go`, `server.go`, `router`) | routes, hosts, router, breaker registry | edits, poll, reload, restart | two requests per poll; outages; fatal errors while serving, by the order of the rows | complete versions, forward only, convergence | `GatewayConfig` |
| Rate limiter (`limiter.go`) | counters in Redis | Incr, Expire, decision | concurrent requests, shared keys, death between two commands, lost answers | the limit, for whom, and for how long | `RateLimiter` |
| Response cache (`cache.go`) | answers in Redis | get, forward, set | old answer stored late, broken bodies, keys shared by routes | only recent, whole answers; old ones disappear | `ResponseCache` |
| Global second factor (`admin_handlers.go`, `AdminProfileView.js`) | row of `users`, the page in each tab | profile, setup, verify, disable, logins | as in a project; pages older than the row, answers to pages that are gone | the administrator can always log in | `AdminOTP` |
| Browser client (`AthenaUI`) | session in the store | login, OTP screens, logout | answers that arrive after a logout | session and view agree | profile page only, in `AdminOTP` |
| Signatures, webhooks, CORS, headers, context injector, audit, telemetry, keys and Vault, start-up | none, or set once | | stateless, cryptographic, or sequential | | not modelled, section 7 |

The repository contains no test, so every statement about what the code ought to
do comes from its comments, its READMEs and its own error handling.

## 2. Modules

| Module | Role |
|---|---|
| `CircuitBreaker` | one breaker and the requests through it |
| `BreakerAutomaton` | abstract: Closed, Open, HalfOpen and when they may follow each other |
| `TokenRotation` | refresh tokens of one user in one project |
| `SingleUseTokens` | abstract: a token is made at a login or paid for by one that is gone |
| `ProjectOTP` | second factor of one member |
| `OTPEnrolment` | abstract: off, pending, on; on only with a key the device knows; void once its user has broken the rules |
| `GatewayConfig` | Athena's configuration and the gateway that polls it |
| `VersionedReplica` | abstract: one published version is served, never an older one than before |
| `AdminOTP` | second factor of one administrator, with the page in several tabs |
| `ProjectMembership` | members, routes and settings of several projects |
| `ProjectAccess` | composes `ProjectMembership` with the tokens of one user, the gateway and a clock |
| `Registration` | accounts, their emails, and the project they belong to |
| `RateLimiter`, `ResponseCache` | the components of those names |
| `MC_*` | instances for TLC: values of the constants, symmetry sets. `MC_Route` holds breaker, cache and limiter, `MC_Gateway` the polled tables and the tokens; the parts of each share no state, and a run takes one of them at a time (`part`) |
| `*Proofs` | theorems about the module of that name; `RedisProofs` about `ResponseCache` and `RateLimiter`, what the gateway keeps in Redis |

The grain of a step is everywhere the unit the code makes atomic: a critical
section of `Breaker.mu`, an SQL statement, a Redis command, an HTTP exchange
between gateway and Athena. A request is a record or a program counter that
carries what the handler holds in local variables between two such steps.
Requests refused at their first statement change nothing and are left out.
Each component module has a section "Bugs this code could have had": variants of
its operators, never part of `Next`, that show what its properties catch.

### CircuitBreaker

`Admit` and `Reject` are the two results of `checkState`; `Success` and `Fail` are
the methods of the same name. A request in service ends by `ReportSuccess` (status
below 500), `ReportFailure` (5xx from the backend), `ErrorHandler` followed by
`ReportErred` (the round trip failed, because of the backend or because the client
has gone and its context is cancelled: the proxy's handler calls `Fail` and the
middleware, which sees the 5xx it wrote, calls it again) or `Abort` (the proxy panics
while it copies the body, and the middleware never reports). None of these ends is
ever ruled out: a healthy backend does not keep clients from cancelling. `Tick` is the clock; the
time since the last failure saturates one past the timeout, beyond which nothing
in the code tells values apart.

### TokenRotation

`ReadToken`, `ReadRoles`, `DeleteOld`, `SaveNew`, `Respond` are the statements of
`RefreshHandler` in their order; a token that is not in the table is refused there and
writes nothing (`RefuseReplay`, when it was exchanged before: the model notes the login it
goes back to, its `Family`, which the code does not), `Forbid` is the exit of who is no member any more.
`Login` enters at the making of tokens. `DeleteOld` may fail and the handler goes
on; `Abandon` is a failed insert, a lost answer or a killed process. `Tokens`
bounds how many tokens are issued. Two constants say what the surroundings do to a
token, not what the code does: the holders of `Careful` tokens never present them
twice at the same time, and only the DELETE of a `Stuck` token may fail. Single use
is claimed for the tokens that are careful and not stuck (`Sound`), in the presence
of all the others. `Exchanging` are the refreshes between the DELETE of such a token and the
INSERT of its successor, which is what the abstract protocol calls claims; together with the
table they are the sessions of the user (`Worth`).

### ProjectOTP

Setup is `Setup` (statement) and `ShowSecret` (answer received); Verify is
`CheckCode`, `EnableOTP`, `ReadRoles`; Disable is `CheckDisable`, `DisableOTP`; a
password login is `LoginRead`, `LoginDecide`, because otp_enabled and force_2fa
come from different statements. A TOTP code is the secret it was computed from,
so a code is right exactly for the device that has received the secret.
The history variable `orderly` is true as long as the user has behaved like one
browser tab: requests that manage OTP or the membership have not overlapped, and Setup
was sent only while OTP was off (`ProfileView.js:60-72`). Nothing forbids the other
behaviours, which the same run explores; `EnabledIsUsable` and the refinement speak of
the time before the first of them.

### GatewayConfig

`log` holds every state the tables have had; a version is an index into it. A poll
is `FetchRoutes` (or `RoutesUnavailable`), `FetchMap`, then `Reload` or
`ReloadFatal`; the same steps after `Launch` are the initial load, where a missing
answer ends the process and in the poller it does not. `BuiltIn` says whether `SetupRouter`
survives a table with its rows in a given order: every duration that is needed is there
(`log.Fatalf` otherwise), chi takes every path (`Unroutable`: `/*`, which is a mount of the
empty path, `/a/*/b`, an unclosed brace), and no path comes after one it clashes with (`Clashes`:
a mount given twice, or `/a/*` after `/a*`). `GetAllProjectRoutes` has no ORDER BY, so a table may
be `Loadable`, which some order makes it, without being `Safe`, which every order does; `Reload`
and `ReloadFatal` are then both possible. Athena asks of a path only that it begins with `/`
(`dto.go:86`), so all of these tables are stored. `Registered` is `GetBreaker` for all rows: the
entry of a target is made by whichever row asks first and is then kept for the life of the
process. `offered` is a history: the versions this process has served.

### ResponseCache

`Hit` and `Miss` are the two results of the GET in Redis (a failing GET is a miss),
`Answer` and `Copied` the inner handlers up to the return of `ServeHTTP`, `Store` the
SET. `Answer` may be a refusal: the cache is the outermost handler
(`router/handlers.go:132-136`), so rate limiter, access control and breaker lie inside it.
`BreakOff` is the panic of the proxy when a body breaks off, at either end. `KeyOf` need not be injective:
`StripPrefix` is applied outside the cache (`router/router.go:99-125`), so routes that
differ only in the prefix share their entries. `age` is a history variable: how long
ago the inner handlers last completed an answer.

### AdminOTP

`Setup` and `ShowSecret`, `CheckCode` and `EnableOTP`, `CheckDisable` and `DisableOTP` are the
statements and answers of the handlers, as in `ProjectOTP`. Here the page is part of the
model: `page` is what each tab offers, `ReadProfile` and `ShowProfile` bring a profile that
may be old when it is drawn, `Open` and `Leave` replace the page, after which the answers
to its requests find elements that are no longer in the document (`live`, `Detached`), and
`Succeed` is `onSuccess`, which draws the page anew wherever the tab is by then. The
page keeps a setup button disabled until its answer; the code forms are not. The two
logins are predicates of the row (`PasswordSuffices`, `CodeAccepted`), since each reads it once.
`orderly` holds as long as every request was sent while none was in flight and no
other tab showed the page; nothing forbids the rest, which the same run explores.

### Registration

There is one path for a project (`CheckEmail`, `CreateCustomer`, `AssignProject`) and one
without (`CheckEmail`, `CountUsers`, `CreateUser`). `FindUser`, `AddFound` are the addition of an
existing account by its email, in two statements between which the email may change
hands. `AllowChange`, `UpdateUser`, `ConfirmChange` are `UpdateCurrentUserHandler`: the reads, the
UPDATE, the answer. The unique key of the table refuses an email in use. History variables:
`doubleCount` remembers that two counts of users raced; `knows` is the set of emails a
holder has to reckon with, the one last confirmed and those he has asked for since;
`overlapped` are the accounts whose holder has had two changes in flight.

### ProjectMembership and ProjectAccess

A request names a project in its URL. An operation begins with the check of the right in
that project (`Authorise`, `AuthoriseRoute`, `AuthoriseSettings`: checkProjectOwner,
checkProjectAdmin and what else precedes the first write), an edit then finds its row
(`LoadRow`), and a last statement writes. `Arrives` are the first steps, `ManageMembers` and
`ManageProject` the others. `CreateProject` and `EnrolOwner` are the two inserts of
`CreateProjectHandler`. Membership operations ask for an owner or a global administrator, the
others for an administrator or owner of the project, for whom being a global administrator counts
nothing (`Right`). A row of `routes` says which project it belongs to; `LoadRow`, `DeleteProjectRoute`
and `UpdateProjectRoute` find it by its identifier, whatever project the URL names, as the
statements in `route_repository.go` do. `lapsed` is a history: the right was taken from the
actor after his request began (`Ends`).

`ProjectAccess` extends this with the tokens of one user: `ReadRoles` and `Issue` are the two halves
of every path that ends in `GenerateToken` (login, code verification, refresh), for any project he is
a member of, and `Manage` is any step of the handlers above, which may fall between them. A token
carries names of roles and no project. `Accepts` is `ValidateToken` (expiry with the leeway), `Admits`
adds `ACLMiddleware`, which compares names. `away` is a history: how long ago the user last held a
role of a name in any project. Tokens, and the time since a role was held, are counted in ticks;
a token the gateway no longer accepts is forgotten. The module ends at `ACLMiddleware`: an answer
from the cache, which lies outside it (`handlers.go:132-136`), is given without it, and how old that
can be is a matter of `ResponseCache`.

### RateLimiter

`Incr`, `Expire`, `Finished` are the steps of `RateLimitMiddleware`; `IncrUnanswered` is an INCR that
Redis executes and whose answer is lost, after which the Redis client sends it again or the
request is let through. `CounterOf` is `getRateLimitKey`, a constant, since the address of a
connection does not change, and nothing is assumed of it: connections of several users, and
routes with different limits and windows, may share a counter, and one user may have several.
`TimePasses` is the expiry in Redis. `through` and `spent` are histories of what has got through on a
counter since it was created, `lost` are the counters whose EXPIRE failed or was never sent. Counting
stops at one more than the greatest limit (`Up`), beyond which the code does not tell numbers apart.

## 3. Runs

| Run | Shows | Bounds |
|---|---|---|
| `route` | breaker: count and state agree; an open one shields, and its timeout runs out; it closes again and again while some requests are answered, and for good once none fails; implements `BreakerAutomaton`. Cache: what it serves is recent, whole and successful; only a request that held an old answer makes an entry outdated or prolongs it; outdated entries disappear. Limiter: the limit of a route on each counter, nobody denied before a limit is used up there, nothing prolongs a window, an exhausted counter goes away unless its EXPIRE was lost | 3 requests, threshold 3, timeout 2; 2 requests, 2 routes with one key and TTLs 2 and 1, 2 versions per route, ages up to 2; 3 connections, 2 of them with one counter and different routes, limits and windows 2 and 1 |
| `tokens` | unused tokens live; served roles were held; exchanged tokens are dead; one successor; sessions multiply only by logins and by tokens that are not sound; implements `SingleUseTokens` | 3 tokens (one sound, one stuck, one careless), 2 requests, 2 role sets |
| `otp` | grants follow the policy; off only with a code; while orderly, on means usable; implements `OTPEnrolment` | 3 requests, 3 secrets |
| `gateway` | tables: map not older; breakers as the first served table that asked; outages and nil maps harmless; convergence; implements `VersionedReplica`. Tokens: the gateway admits only who has held a role of that name within life, leeway and one request; a name lost everywhere opens nothing in the end | 2 rows, 7 configurations, 2 host maps, 2 edits; 2 projects, 2 users, 1 managing request and 1 login, life 1, leeway 1, request 1, horizon 3 |
| `registration` | customers are never administrators; one administrator without the secret unless two counts race; a holder knows his email unless his own changes overlap | 2 accounts, 2 emails, 3 requests |
| `membership` | changes were authorised; an owner's removal keeps an owner; deleted routes stay deleted | 2 projects, 2 users, one of them global administrator, 2 requests, 1 route, 2 rules, 2 settings |
| `admin` | the administrator can always log in; Setup is offered only while the factor is off; implements `OTPEnrolment` | 2 tabs, 3 requests, 3 secrets |

Five more runs end in a counterexample on purpose, each to a sentence of the
repository (section 6): `gateway_empty`, `registration_bootstrap`, `tokens_reuse`,
`membership_isolation` and `access_scope`. Crashes, lost answers and failing statements are steps of
every run. The type invariants are proved (section 4); only `registration` checks one as well.

**Why the bounds suffice.** Each is one more than the case it has to produce.
`route` and `gateway`
choose in their initial state which part works, so their bounds do not multiply. Breaker: one request opens it, one is late from the period before, one arrives now;
threshold 3 leaves room for a double report below and at the threshold. Tokens:
a login and two successors from two concurrent refreshes, in every assignment of
the three kinds of token to these parts. OTP: two handlers that
race and a login that watches; two secrets make an overwrite, and a third one a new enrolment after it. Gateway: two rows
make a duplicate path, a clash in one order only and a shared target, of two edits one falls
before and one between the two requests of a poll, and together they make a correction or a deletion.
Cache: one slow request and one that overtakes it; versions come and go without bound.
Limiter: two
connections that race on one counter for routes with different limits, and a counter besides. Registration: two that race and one that comes after; with
two emails one can be given up and taken by the other account. Membership: two owners, or an
owner and an administrator, against each other, each of whom may also be acted upon, and a second
project that one of them has no right in. Tokens: one tick of life, one of leeway and one of delay, and
`Horizon` is their sum (`AccessAssumption`), beyond which no age makes a difference; a second project in
which a role is kept or lost. Two lives, a grace token and an ordinary one, are in `access_scope` and,
for any number, in the proofs. Admin: two tabs, and one request more than they need to overtake each other.
Symmetry is used only with invariants, action properties and step refinement that
treat the permuted values alike, never with liveness. Deadlock is checked in every run.

**Fairness.** `CircuitBreaker`: time passes and admitted requests end
(`ServiceFairness`: `http.Server` has write timeouts, and a round trip returns or
fails). Two premises of `HealsAfterRecovery` are not fairness of the code: clients keep calling
(`Traffic`), without which nobody asks the breaker, and of the requests that reach the backend
again and again some are answered below 500 (`SomeAnswered`), without which there is
nothing to heal. That a backend works does not keep the breaker closed, since a client that cancels
counts as a failure; hence *closed again and again*, and for good only once no request fails
any more.
`GatewayConfig`: the poll goes on (`WF(Poll)`: a ticker that nothing stops, and an
HTTP client with a timeout of ten seconds); nothing is assumed about launches, kills
or edits, so convergence is claimed for a gateway that serves. `RateLimiter`: time
passes in Redis, and a goroutine whose INCR was answered goes on to EXPIRE unless the gateway dies. `ResponseCache`: time passes
in Redis and a request in service ends. `ProjectAccess`: time passes (`WF(Tick)`), and a login that
has read roles ends in a token or without one (`WF(Issue \/ NoToken)`; the servers have write
timeouts); nothing is assumed about owners, and that a role is lost for good is the premise of
`LostRoleLosesAccess`. In `ResponseCache`, that contents stop changing is a premise of
`CatchesUp` and not a fairness condition.

## 4. What is proved

TLAPS checks these for all values of the constants that satisfy the modules'
assumptions (`BreakerAssumption`, `RotationAssumption`, `OTPAssumption`,
`ConfigAssumption`, `CacheAssumption`, `LimiterAssumption`, `RegistrationAssumption`, `MembershipAssumption`, `AccessAssumption`,
`AdminAssumption`).

*CircuitBreakerProofs.* `TypeCorrect` is inductive as it stands. `CountCorrect` is inductive
relative to it, because `Fail` clears the count in the same critical section that opens
the breaker. `OpenProtects` and `RefinesAutomaton` follow step by step; the only step
that may leave Open early is a success of a request admitted before.

*TokenRotationProofs.* The base invariant adds to the types that a request which
holds a token has it from a delivered one, and that what is being made is new.
`UnusedLive` needs that a delete only ever hits a token accepted by a refresh
(`FreshSafe`). `ServedRoles` carries the roles read to the answer (`HeldCurrent`).
`ExchangedDead` needs that a request past its delete holds a token that is gone, or
stuck (`SpentInv`). `SoundOneHeir` and `RefinesSingleUse` add that no two requests
hold one careful token, and that a sound token is in the table until its delete and
without an heir until the insert (`SingleInv`); what makes them theorems of the code
is that no step for one token touches another. `AbstractStep` says which abstract step each
statement is. Since every abstract step but a login keeps the number of tokens and claims or
lowers it, `SessionsDoNotMultiply` follows by counting (`CountOneMore`, `CountOneLess`, from the
library's theorems about finite sets; `SessionsFinite` is invariant even where the constants are
infinite). `GoneForGood` is read off the same steps: none of them brings a token back.

*ProjectOTPProofs.* `GrantsFollow`: what a login has read is among the settings it has
seen (`AllInformed`). `OffOnlyByHolder`: a request that is disabling has shown a code
of its device (`CodeShown`). `EnabledUsable` and `RefinesEnrolment` rest on
`AloneInv`: while `orderly` holds at most one request manages, and the secret it has
checked is still the one in the row; `orderly`, once lost, is lost for good
(`OrderlyOnce`), which lets the abstract protocol end in its stage "void".

*GatewayConfigProofs.* `Order` relates the versions: a served or loaded map is not
older than its routes, nothing newer than the log, and what is loaded is at least what
was ever served, since one goroutine polls. From it follow `MapFollowsRoutes` and
`RefinesReplica`. `BreakersConfigured` is inductive relative to it: versions in the log never change,
the registry is empty when a process begins, and an entry is made only by a table that is served
from then on (`offered`). `SurvivesOutages` rests on `ServedBuilt`, that the served routes could be
built in some order, and on `OnlyFatal`, that only rows in hand end a serving process: what ends it is
therefore an edit, or the same rows in a worse order, and no outage.
`NeverServesOlder` is proved from `RefinesReplica` alone, in the variables of the abstract
specification: this is what the refinement is for.
`CompleteTablesKeepRunning` is the other side of run `gateway_empty`: under the hypothesis that every table
stored names its durations (`DurationsGiven`), has only paths that chi takes (`PathsTaken`) and
no two that clash (`NoClash`), none of which Athena enforces, the property refuted there is a
theorem. `BreakersKept` shows that the gateway gives each breaker what
`CircuitBreaker` takes for granted, a threshold and a timeout that never change.

*RedisProofs.* `CacheIsRecent` rests on `RecentInv`: the age of a stored answer
and the rest of its entry's life never exceed the TTL of the route it came from
(`EntriesRecent`), because an answer about to be stored has just been completed
(`StoringNow`) and only a SET prolongs a life. It needs nothing of `KeyOf`.
`OutdatedOnlyLeaves` states `NoNewOutdated`, from the same types: only `Store` makes an entry, and it
empties the hands of its request.
Of the limiter, the base invariant `LimiterInv` adds to the types that a request about to
send EXPIRE has created its counter, alone, and that the counter has no expiry yet (`Creators`), and
that a counter without an expiry is about to get one or is `lost` (`StuckWasLost`).
`WithinLimit` is inductive as `ThroughIsCounted`: a route has admitted on a counter at most what the counter
says. `DeniedRightly` is inductive as `CountedIsSpent`: until the limit of some route there is used up,
everything counted was spent, so that a number beyond the limit is not given out. Neither asks
anything of `CounterOf`: they speak of counters, and what a counter is to a user is
a matter of section 6. `NeverRenewed` (`WindowRunsOut`) is read off the steps.

*AdminOTPProofs.* `TypeCorrect` says besides the types that secrets in flight were generated and codes
come from the device (`Carried`), from which `OffOnlyByHolder` follows for any number of tabs. `AloneInv` says what
is true while `orderly` holds: one request at a time, an enabled secret on the device,
no page that offers Setup while the factor is on or being confirmed, and a code just checked
is that of the row. It gives `NeverLockedOut`, `OfferIsCurrent` and `RefinesEnrolment`;
the last step, in which `orderly` is lost, maps to the stage "void".

*RegistrationProofs.* The types include that emails identify accounts, which `InsertTypes` and
the step of `UpdateUser` take from the unique key; `Carried`, which `TypeCorrect` states with them, says that a request past its
first statement has an email and, where it names an account, one that exists. `CustomersOnly`
and `OneFirst` look at the two steps that make accounts (`CustomerMade`, `UserMade`); `OneFirst` is
inductive with `FirstAlone`: without a race one registration at most is about to make a first
administrator, and none exists meanwhile. `HolderInformed` needs that of a holder who is not
`overlapped` one change at most is in flight (`Informed`). `BootstrapCloses` says how long the race of
section 6 can last: once somebody has an account and no registration that counted before is on
its way (`BootstrapOver`, which no step undoes), nobody becomes administrator without the
secret any more. `OneAtATime` says that it is the only cause: with requests that do not
overlap, `OnlyFirstIsAdmin`, refuted in `registration_bootstrap`, is a theorem.

*ProjectAccessProofs* covers both modules, for any number of projects. The base invariant `Inv` adds to the
types that a request in flight has the target and the value its operation needs (`Carried`) and that
its actor has the right in the project of the URL, or has `lapsed` (`Entitled`). From it follow
`Authorised`, `OwnerRemains` and `DeletedForGood`. What `Authorised` says of a route is no more
than the code provides: a right in the project the URL names. That the route is of that project is
`RoutesWithinProjects`, which run `membership_isolation` refutes. `AuthorisedNow` and `LastOwnerStays` take one
request at a time: then nothing lapses (`NoneLapsed`), the right is there at the moment of the
change, and no removal by an owner takes the last owner away. What the
general theorems allow beyond that is therefore the price of the
statements being apart, and of nothing else. `AccessIsMembership` shows that the composition implements
the management it extends, which carries these results over. `AdmittedRecently` is inductive as
`HeldRecently`: a role name in a token was last held, in whichever project, at most the age of the token and the
longest request ago, and one a login has read at most the duration of the login ago. That it was
held in the project of the route is `RolesStayInProject`, which run `access_scope` refutes.

*Progress.* TLAPS has no rule for ENABLED, so fairness enters these theorems with the
enabling condition written out, as "the action is taken again and again, or the condition
is false again and again". The condition implies that the action is enabled, so that this is
no more than the WF of the fair specification says.

- `GatewayConverges` is `Converges` itself, from `PollFairness`. After `Settle` a poll goes through
  `Stages`: the load in progress is finished, the next begins after the last edit, and what it
  brings is current (`Progress`); `UpToDateStays` says that nothing makes it old again, a
  restart included. `PollPossible` is the written-out condition.
- `ClosesAgain`: whatever fails, is cancelled by its client or breaks off, the breaker is closed again and
  again, if its timeouts run out (`OpenAges` is one step of that), requests keep coming and end, and
  some of those served are answered. An overdue breaker stays so until it admits somebody, and while
  it is not closed nothing keeps the next request from being admitted (`QuietSteps`).
- `HealsWhenCalm`: once no request fails any more (`NewFailure`: a status of 5xx or a failed round trip,
  because of the backend or of the client) and no failure is left to be reported, it closes for good
  (`CalmSteps`). `ErredEnds` says that from then on each of the failures left over is reported.
- `OutdatedOnlyLeaves`, `OldAnswersEnd`, `OutdatedAges`: while contents do not change, an entry
  can become outdated only by a request that held an old answer; every such request gets rid of
  it; after that each outdated entry loses life tick by tick.
- `NeverRenewed` and `WindowAges`: what is left of the life of a counter only goes down, by ticks,
  whatever traffic continues.
- `NoAccessAtHorizon` and `LostRoleAges`: a role name lost in every project comes nearer to `Horizon` tick by
  tick, and there is not admitted, whatever logins the member keeps making. The second needs `Longest > 0`:
  if no request lasted a tick, one login after the other could stop the model's clock.

Proved and in no run: the type invariants, but for that of `Registration`; `OffOnlyByHolder` of
`AdminOTP`, whose counterpart in `ProjectOTP` is checked; `GoneForGood`, `NeverServesOlder`,
`BreakersKept`, `BootstrapCloses`, and the two theorems about requests one at a time in a project.

Only model-checked as a whole: `OpenExpires`, `HealsAfterRecovery`,
`CatchesUp`, `Unblocks` and `LostRoleLosesAccess`. Of these five every single step is a theorem above,
for any value of the constants. What is missing is that finitely many such steps, one
for each tick or each request, make the whole, an induction on a number or a finite set whose
hypothesis is a temporal formula; the library's induction theorems cannot be applied to it.

## 5. Assumptions about what lies outside the source

MySQL executes a statement atomically and, with the connection string of `keys.go:137`,
reports changed rather than matched rows. Redis executes a command atomically and
removes keys when their time is up. `httputil.ReverseProxy` calls its ErrorHandler
once for a failed round trip and panics when copying a body fails. Secrets and tokens
are never generated twice.

## 6. Where the code departs from its own words

| Run | Sentence | What happens |
|---|---|---|
| `gateway_empty` | `handler_helpers.go:26`, an empty duration means off | the serving gateway exits at its next poll |
| `registration_bootstrap` | `auth_handlers.go:127`, the very first user | two first users |
| `tokens_reuse` | `Athena/README.md:29`, reuse of a token is detected and its family invalidated | a token used again is answered 401 (`RefuseReplay`), and its successors can still be exchanged |
| `membership_isolation` | `Athena/README.md:33`, projects are isolated | the right is checked in the project of the URL (`project_handlers.go:673`, `:721`), the route found and changed by its identifier (`:694`, `:752`): an administrator of one project changes and deletes routes of another |
| `access_scope` | `Athena/README.md:81`, roles scoped to a project | claims name no project (`jwt.go:25-35`) and `ACLMiddleware` compares names (`auth.go:88-100`): a role held in one project opens the routes of another |

What else could cause the first two is settled by proof. A serving gateway is ended by missing durations
and by paths that chi does not take, alone or together, which Athena stores as well (`dto.go:86`), and
by nothing else (`CompleteTablesKeepRunning`). Two first users need registrations that overlap
(`OneAtATime`), and there are none once those that overlapped are over (`BootstrapCloses`).

These departures are explained by the models and have no run of their own; the
properties above are stated so that they hold in spite of them.

- `circuit/middleware.go:43-46` calls the first request of a half-open period the test, but
  every request is admitted until one reports (`Admit` in HalfOpen). Hence the automaton may
  leave HalfOpen through any of its probes.
- `Athena/README.md:29` promises rotation too, but two concurrent refreshes with one token both
  find its row, the second DELETE affects nothing and is only logged, and both get a
  successor. Hence `OneHeir` speaks of `Sound` tokens.
- `otp_handlers.go:443-452` calls an enabled factor without a secret an internal
  configuration error, but a Disable, or a removal and re-addition of the member, between the
  code check and the UPDATE of a Verify produces it. Hence `orderly` in `EnabledIsUsable`.
- `admin_handlers.go` has the same gap: with two tabs `EnableGlobalOTP` can reach a row whose
  secret is gone, or is one the device never received, and the login with a code is then
  answered 401 for good. Hence `orderly` in `CanLogIn`.
- `limiter.go:60` says the key is the user or his address. The limiter runs before the token is
  read, so users behind one address share a counter; without X-Forwarded-For the key
  contains the port, so each connection has a counter of its own and may use up the limit again; and the
  key names no route, so routes with different limits count together. Hence `LimitPerKey` and
  `DeniedWhenExhausted` speak of counters, not of users, and assume nothing of `CounterOf`.
- `limiter.go:43-48` sets the expiry at the first count and answers Retry-After with the window. A
  crash or a failing EXPIRE in between, or an INCR whose answer is lost, leaves a counter for
  ever. Hence `Unblocks` excludes the counters in `lost`.
- `project_repository.go:206` reads zero affected rows as "was not in the project", but
  an unchanged role set is answered 404 as well (`UpdateRoles`).

Behaviour that is surprising but contradicts nothing written: successes in Closed do
not reset the count of failures; a changed threshold never reaches an existing breaker;
a failed fetch of the context map replaces the good map by none until the next poll;
a Setup on an enabled factor replaces the working secret at once; two routes that are
equal without their prefixes serve each other's cached answers; a cached answer may be
followed by an older one, stored late; hits are not counted by the rate limiter,
which lies inside the cache; two owners can
remove each other (the third case of `RemovalsKeepAnOwner`); a project whose owner could
not be enrolled is reported as created; an edit of a route that was deleted after it
was found is answered 200; two changes of one email by its holder that overlap may be
confirmed in the other order than they were stored; an owner who adds a member by email adds
the account that had the email when it was looked up.

## 7. Not modelled

Stateless code (signatures, CORS, headers, webhook signature, context
injector, Athena's middleware), cryptography, output (logging, audit, metrics,
tracing), sequential start and shutdown, path matching by chi, read-only handlers. A kill is a
step of every model where it matters. The lease of the database credentials
(`keys.go:110`) is taken once and never renewed; what follows from that depends on Vault's
configuration, which is not in the repository. The session store and the login screens of
AthenaUI are not modelled: an answer that arrives after a logout makes a session again
(`auth.service.js:18`), and the grace flag does not survive a reload (`auth.store.js:27`), but no
sentence of the repository says what should happen instead. The gateway's command line is
not called by `main.go`.

## 8. Plan

Done, in this order: breaker, tokens, second factor of members, gateway configuration, rate
limiter, registration, membership, response cache; then the second factor of administrators
with its page, changes of emails, routes and settings, the composition of membership with
access tokens, and the proofs of these four; then the proofs about the limiter and the
progress of gateway, breaker, cache, limiter and access; then the number of sessions, what follows
from the refinements of tokens and gateway, and the theorems that name the causes of the departures;
then several projects, cancelling clients, paths that chi refuses, and counters shared in any way.

Left:

1. `BrowserSession`: the store of AthenaUI, its router guard and answers that arrive
   after a logout, once it is decided what the session should be then.
2. The inductions that remain of the five properties named at the end of section 4, should the
   prover learn to do them.
