# A verification project for Cyvantas

TLA+ models of this repository: the backend in `apps/api`, where requests,
failures and the clock meet, the Lab in `apps/lab` and the parts of the main
site in `apps/main` that keep state. TLC checks the models on small instances;
TLAPS proves the results that matter most for instances of any size.

## 1. Inventory

| part | where | state it keeps | operations | modelled |
|---|---|---|---|---|
| Environment service | `apps/api/src/services/environmentService.ts`, `domain/environmentStateMachine.ts`, `idempotencyStore.ts` | the `Environment` table; an idempotency map of the process | create, list, get, start, touch, reset, stop, destroy; timeout, fail and the expiry sweep for housekeeping | yes |
| Scoring | `services/challengeService.ts`, the scoring repository in `repositories/prisma.ts` | progress rows, the append-only `ScoreEvent` ledger, audit rows | submit, getProgress | yes |
| Challenge environments | `services/challengeService.ts` | none of its own; the rows of the environment service | create, get, reset, submit | yes |
| Abuse controls | `security/rateLimiter.ts`, `abuseGuard.ts`, `monitoring/detection.ts`, `securityMonitor.ts` | counters with a TTL in the shared store | check of the rules of a route, observation of a signal | partly |
| Sessions and accounts | `services/authService.ts`, `plugins/auth.ts`, `sessionCleanup.ts` | the `User` and `Session` tables | register, login, the session hook, logout, sweep | partly |
| Sandbox orchestrator | `orchestration/sandboxOrchestrator.ts` | a cache of provisions per process | provision, start, reset, stop, destroy, each with a deadline; describe | yes |
| Sandbox policy | `orchestration/sandboxPolicy.ts` | none | resolution of a proposal | yes |
| Request pipeline | `app.ts`, `routes/`, `plugins/`, `security/csrf.ts` | none | hooks, guards, handlers and error handler of every route | yes |
| Readiness | `health/readiness.ts`, `db/databaseHealth.ts` | none | bounded probes | yes |
| Repositories | `repositories/` | maps of the process, or tables | every method of both implementations | yes |
| Shared state | `infra/` | in memory or Redis | increment, expire, ping; get, set and delete have no caller | yes |
| Configuration and boot | `config/env.ts`, `server.ts` | none after boot | parsing, refusals, wiring | partly |
| Lab: content and pages | `apps/lab/src/data`, `routes`, `lib`, `providers`, `services/catalogService.ts` of the API | React view state | navigation, loading, filters, links | yes |
| Menus of both sites | `components/layout/` | React state, focus, scroll lock | open, close, resize, navigate, keys | yes |
| Contact form | `ContactForm.tsx`, `lib/contact.ts`, `apps/main/api/contact.ts` | React state; mail that was sent | type, submit, forward, conclude | yes |
| Lab: text tools; main site: content; founder site; event formatting; passwords and tokens | | none | | no, see 5 |

How they interact. A request passes the hook of `plugins/auth.ts` (session
lookup), the observation hook of `app.ts`, the abuse guard of its route, and
then one service. The challenge service is a client of the environment service;
both write the same database through `repositories/prisma.ts`, which uses
neither transactions nor row versions: every statement stands alone. The
idempotency map and the provision cache belong to one process; the rate-limit
counters are shared by all instances when a Redis client is wired. The runtime
provider is a seam: the one in the repository refuses every call. The Lab reads
static content through asynchronous providers and talks to no backend yet; the
main site sends one request, that of its contact form.

Behaviours that are hard to test, all listed under `hazards` in `PROJECT.json`
at the line where they bite:

- a handler decides on a row it read several awaits ago and updates it by id;
- limits and uniqueness are checked by one statement and relied on by another;
- an await rejects, or the process ends, between two writes that belong
  together;
- a call is retried while, or after, its first attempt took effect;
- a deadline ends the wait for a call and not the call;
- the clock moves between being read and being used;
- the sweep and a request meet on the same row;
- a dependency hangs in front of a handler that has nothing to do with it;
- two implementations of one interface drift apart;
- an answer arrives at a page that has moved on;
- effects of the view run in an order that depends on what closed it.

What makes each part correct:

- *Environments.* A row only takes the edges of the transition table; limits
  hold; the expiry slides forward and never past the absolute lifetime; nobody
  touches a row of somebody else; a retry with a remembered key creates nothing;
  whatever a failure leaves behind can be reclaimed; every call is answered.
- *Challenge environments.* Calls reach only rows of their own user, and those
  of a challenge only rows of that challenge.
- *Scoring.* The ledger has a solve once and for ever; the progress row follows
  it; what a user is told is backed by it.
- *Abuse controls.* A limit is a limit across instances; a failing store
  denies; a detection window alerts exactly once; buckets expire.
- *Sessions.* A dead session admits nobody; the sweep takes only dead ones; a
  revocation is final; one account per email.
- *Orchestrator and policy.* Every call is answered; an answer of READY is the
  runtime's; destroy leaves nothing remembered; a granted policy is bounded and
  names no reserved host in a spelling the code knows.
- *Pipeline and readiness.* No effect before its guards; answers say what is so;
  only a dependency that hangs keeps a request waiting.
- *Boot.* A process that listens is configured coherently, or it does not
  listen.
- *Repositories.* Both implementations give the same answers, but for the
  differences that are known (section 3).
- *Views.* A page shows what its location says; links lead somewhere; a form
  thanks only for what was sent; a menu gives the page back.

## 2. Modules

| module | models | composes with |
|---|---|---|
| `EnvironmentLifecycle` | the transition table, as an abstract specification | |
| `EnvironmentService` | every handler of the environment service | INSTANCE of `EnvironmentLifecycle` with the status column of the table |
| `EnvironmentServiceProofs` | invariants of it, proved | |
| `EnvironmentRefinementProofs` | the refinement and five more properties, proved for requests that do not overlap | |
| `ScoreBook` | what `docs/SCORING.md` promises, as an abstract specification | |
| `Scoring` | submit and getProgress | INSTANCE of `ScoreBook` |
| `ScoringProofs` | the refinement, the invariants and the fold of the totals, proved | |
| `AbuseControls` | limiter, guard and detection over the store's two commands | |
| `AbuseControlsProofs` | its types and all its properties, proved | |
| `AuthSessions` | registration, login, hook, logout, sweep | |
| `AuthSessionsProofs` | all its properties, proved | |
| `SandboxOrchestrator` | the calls of the orchestrator against their deadlines, over a runtime | |
| `SandboxOrchestratorProofs` | its types and both its invariants, proved | |
| `SandboxPolicy` | the resolution of a policy | |
| `RequestPipeline` | every route, gate by gate, over dependencies that are up, down or hung; the readiness probes | |
| `PipelineProofs` | its types and both its invariants, proved | |
| `Configuration` | `loadConfig` and `main` | its `BootIsCoherent` is the assumption the environment service rests on |
| `Repositories` | both implementations of the repositories, side by side | |
| `ChallengeEnvironments` | the challenge service over the environment service | the transition table of `EnvironmentLifecycle` |
| `Listings` | `filter` and the stable `sort` of JavaScript arrays | extended by `Repositories` and `LabCatalog` |
| `LabContent` | the content of the Lab, record by record, with its references | gives `PartsMC` the values of the constants of `LabCatalog` |
| `LabCatalog` | how content is published, looked up, resolved and filtered, for any content | |
| `LabPages` | the pages, their loads and their filters | `LabCatalog` |
| `ContactForm` | form, client, function and mail provider | |
| `MobileMenu` | the menus of both sites | |
| `PartsProofs` | one theorem each for the policy, boot, challenge environments, form, menu, pages and repositories | |
| `...MC` | symmetry sets and values for TLC; `PartsMC` puts seven modules into one run | |

### The common form

A request is a *slot*, a record whose `stage` says at which await it is
suspended and whose other fields are the local variables the handler still
needs. JavaScript runs one continuation at a time, so an action is either the
code from one await to the next or one statement of the database. Slots
interleave freely, which also covers several instances over one database.
Awaits that change and read nothing the properties speak of (the audit log,
password hashing) add no action; they are places where `Abort`, the rejection
of an await, can strike. `Restart` ends all requests of the process and empties
what it kept in memory.

A database statement is one atomic step that reads or writes the rows it names;
an update by id does not look at the other columns, as in `prisma.ts`. A unique
index is a guard of the insert: its loser gets P2002.

Definitions marked `Wrong:` are slips the next definition could hold (a dropped
guard, an off-by-one, a swapped order). The specifications never use them;
`mutants` in `PROJECT.json` pairs each with the property that catches it, so
that every property is known to be able to fail.

### EnvironmentService

`envs` is the table, `idem` the idempotency map, `now` a bounded clock, `req`
the slots. `Call` is the code before the first await, `Read` the query,
`Decide` the handler after it (one `Decide...` per operation, in the source's
order of guards), `RuntimeReturns` the provider's answer, `Transition` the
update made by `transition()` and `IllegalTransition` the error it throws,
`Slide` the update of `touchEnvironment`, `Insert` and `Minted` the create. The
audit rows, titles and DTOs are left out; `startedAt` and `destroyedAt` are
kept as null or not. `mintedWith` is a history field.

Some properties hold however requests interleave, and the others only when
requests do not overlap. The module lists them apart, and the runs below show
both the holding and, where the repository promises more, the failing.

### ChallengeEnvironments

Here the handlers of the environment service are one step each; what is under
test is the layer above them. `MoveRow` moves a row along any edge of the
transition table between two steps of a call, as other requests and the sweep
do; `RequestMission` is the other way to a row, `POST /environments`, which
shares the idempotency keys. `open` is a history of which submissions were made
while their environment was open to them, and `RestartProcess` empties the map.

### Scoring

`progress` and `ledger` are the two tables, `announced` counts
`CHALLENGE_SCORE_AWARDED` rows, and `lost` is a history of the awards whose
request failed right between the insert into the ledger and the update of the
row. The statements of `recordSubmission` are separate actions in the order of
the code. Whether a flag is right is a Boolean input.

### AbuseControls

`store` holds the counters with their TTL. Reading the clock, `INCR` and
`EXPIRE` are three steps, and the clock may run on between them without bound:
with Redis no command has a deadline. `passed`, `hitters`, `alerts`, `struck`,
`late` and `slow` are histories. A guarded request goes through a user scope and
then an ip scope, the two kinds of rule a route combines; an observed one
through one signal. A bucket is `late` once a hit came after its window and the
headroom of its TTL: it may have expired by then, and the hit starts it again
from one. A user is `slow` once a command of the first scope took so long that
more than a window lies between the two scopes of a request. These two cases are
reached, and without the exemption `WithinLimit`, `EscalatesOnce` and
`LoneUserNeverTripsIp` fail in them: the limits of the code are limits only
while a command takes less than the headroom. `RuleAssumption` says that an ip
limit is at least twice the user limit beside it, as in every pair of
`RATE_RULES`.

### AuthSessions

`users` and `sessions` are the tables, `cookies` the tokens clients were given.
A request with a cookie runs the hook (`LookUp`, `Check`, `Touch`) and then its
route; "visit" stands for every route that only needs a user. `dead` records on
arrival whether the session could still admit anybody. `Deactivate` is an
operator at the database, since `src` only reads `isActive`.

### SandboxOrchestrator

A slot is a call; each write of an audit event is a stage, because the code
awaits it and it may reject. `provisioned` is the cache. In the stage "runtime"
two things race: what the runtime does (`Apply`, `Refuse`, then `Settle`, the
continuation) and `Deadline`. A call that was given up stays in `late` and
`ApplyLate` may carry it out at any later time, or never. `sandboxes` is what
exists at the runtime, `born` and `crossed` are histories. The verdict of the
policy is a Boolean input here and the subject of `SandboxPolicy`.

### RequestPipeline

A request is the sequence of the gates that are left of its way, in the order
of the handler, with what it has passed. A gate that touches the database or
the store needs it up; a dependency that is down rejects and one that hangs
leaves the gate waiting. `Service` has what each service does, statement by
statement and audit row by audit row: most record what they are asked to do and
then do it. `Check` and `Begin` are where a service decides, and `Turns` the
ways on from there. Three conflicts with another request end in a 500 although
the database is healthy, and are steps of their own: a session swept under the
hook (`Session`), the loser of two registrations (`Statement`) and a start of a
FAILED row (`Begin`). `Change` lets a dependency go up, down or hang at any
moment. The two probes of `/ready` run at once and each ends by its answer or
its timeout. Requests do not meet here: where they do is the subject of the
other modules.

### The parts of `PartsMC`

- `Configuration`. `env` is the environment of the process, read by `LoadConfig`
  with each parser's notion of "unset", "blank" and "not a number"; the steps
  after it are those of `main()`. `ClientWired` is FALSE, as in `server.ts`.
- `SandboxPolicy`. `ResolveSandboxPolicy` as a whole; a destination is the form
  it is written in, the kind of its host, an IPv4 address its first two octets,
  and the way the host is spelled, since the code compares spellings. `Reserved`
  is a reference definition with the blocks as prefixes; `Overlooked` lists the
  spellings of a host that the code does not recognise, and `Safe` excepts these
  and no others.
- `Repositories`. `mem` holds sequences of rows, as the maps keep them, `db`
  sets with unique keys. Progress in a challenge and its score are one table
  there (`entries`) and two maps of `memory.ts`, and an update may name an id
  that is missing. Each call goes to both, and `answer` has what each returned;
  `AnswersAgree` lists where they differ. `Listings` defines what `filter` and
  `sort` make of a sequence by the places of its elements, ties included, and
  without recursion, so that it can be proved about.
- `LabContent` is the data of the Lab with the orders, prerequisites and
  references that pages follow and the fields that filters read, and nothing
  else. `LabCatalog` has it as constants, so that
  what is proved of the code holds for any content; `ContentAssumption` is what
  is kept by hand in the three files of data (distinct slugs, and what is
  published builds on published records of a lower order), and TLC
  evaluates it on `LabContent` whenever `Parts` runs. `LabPages` has the routes,
  what the effects of the page have been run for (`applied`), and the answers
  that are awaited with whether their effect is still active. `Navigate` is the
  commit of a location, which resets the page; `ApplyEffects` cleans up the
  effects of the old one and runs those of the new one, and answers may come in
  between. A tool needs a record and a panel (`Panels`, the second list kept by
  hand, which `PanelsAssumption` compares with the first).
- `ContactForm`. `values` and `result` are what is on the screen, `post` the
  request in flight, `mailed` what the provider accepted.
- `MobileMenu`. `opened`, `drawn` and `effective` are the three moments of a
  change in React: the state, what is rendered of it, what effects have run for.
  The focus is "lost" when its element goes and "hidden" when the layout hides
  the toggle or a link of the bar under it; only an effect of the menu restores
  it, so that of a closed menu stays hidden.

## 3. Runs

All runs but `Parts` check deadlock; there most parts come to an end, and a
process that listens or refused to start is meant to. Two slots are two
requests in flight; every race found in this code is one of two requests.

| run | instance | shows |
|---|---|---|
| `EnvSerial` | 1 user, 2 rows, 1 key, 1 slot, clock to 2, faults | the refinement of the life cycle, the limit of retained rows, idempotency, the sweep and, under fairness, that every call is answered, all across failures and restarts |
| `EnvRaces` | 1 row, 2 slots, clock to 1, faults; one user alone, or a user and an admin | what survives overlap: the window, ownership, the only escaping error, and the finality of settled rows |
| `EnvTerminal` | 1 row, 2 slots | violation: an overlapping start brings a DESTROYED row back |
| `EnvActiveBound` | 2 rows, 1 slot | violation: reset of a timed-out row exceeds `MAX_ACTIVE_ENVIRONMENTS` |
| `ScoreRaces` | 1 user, 2 challenges, 2 slots, faults | the refinement of the score book, the ledger behind every number, and, under fairness, that an award reaches the row |
| `ScoreCrash` | 1 user, 1 slot, faults | violation: a solve that is answered and not on the progress row |
| `AbuseRaces` | 2 slots and four profiles: 2 users behind 1 ip, clock to 2; 1 user alone or 1 signal, clock to 4, past two windows and an expiry; 1 user, 1 signal, 1 window, faults | limits across window ends and bucket expiry, with hits that come after it; fail-closed, one alert per window, TTLs |
| `AuthRaces` | 1 user, 2 sessions, 2 slots, clock to 2 | all session properties |
| `Sandbox` | 1 environment, 1 key, 2 slots, with and without a runtime | answers that are earned, a cache that only a crossing can leave stale, and, under fairness, that every call returns |
| `Pipeline` | every route, cookie, origin and body, both dependencies changing at will | guards before effects, answers that say what is so, and, under fairness, that only what hangs blocks |
| `HungProbe` | the same | violation: with a hung store neither probe is answered |
| `Parts` | the seven parts above, one per behaviour | one property each, two for the pages of the Lab |

Why the bounds are enough. One row is enough for the properties of a row,
because no handler relates two rows except through the limits; those get two
rows, minted in one order in `EnvSerial` (`MCFairSpec`), as ids are
interchangeable. A lifetime of one or two ticks with a clock of one or two
reaches the tick of expiry itself, the tick after it, and an absolute lifetime
that clamps the TTL. In `AbuseRaces` the clock crosses two window ends and
passes the expiry of a bucket (window plus headroom) while hits on it are under
way; `MCNext` keeps limits, a lone user, signals and faults to a behaviour
each. In `AuthRaces` a session is created, expires, is swept and a second one
is made. In `Sandbox` no operation reads what another environment or key has,
and a call that was given up may be carried out after a second and a third.
`KeysLeft` bounds creations by the keys that are left; it stops new requests
and never one that is under way.

In `Parts` the inputs are complete where they are finite (flags, forms and
kinds of hosts, routes, filters) and stand at the bounds where they are numbers
(each ceiling and the value above it, the octets at both edges of every
reserved block, each limit of the configuration and the value beyond it).
`Tries` allows three submissions, so that a solve follows a failure and is
repeated; `Marks` has progress that is begun and progress that is completed,
before and after a submission. `MaxLoads` bounds the answers under way when a
page is left to one, which may then come before or after the cleanup of its
effect and the answer of the new page, and `MaxFilters` sets two criteria at
once. Larger instances would repeat these cases, and for the properties with a
theorem the size does not matter.

Fairness. `FairSpec` of `EnvironmentService` and `Scoring` asks weak fairness of
what a request does once it has arrived: the event loop resumes every settled
await, and the driver and the provider settle every call, as those services
have no deadline of their own and wait for them. `SandboxOrchestrator` asks it
of the code's own continuations and of its timers, and nothing of the runtime,
as the point of a deadline is that the runtime may never answer.
`RequestPipeline` asks it of a gate: a command to a dependency that is not hung
settles, and a hung one need not recover. Nothing is assumed of arrivals, the
clock, failures, or the sweep, which no scheduler in the repository runs.

### What the code does and the repository says otherwise

Four disagreements are findings, each with its run: `EnvTerminal`
(ENVIRONMENTS.md, DESTROYED is terminal), `EnvActiveBound` (the limit of
concurrently live environments), `ScoreCrash` (`repositories/types.ts`,
recordSubmission is transactional) and `HungProbe` (PRODUCTION-INFRASTRUCTURE.md
says that `/health` touches no dependency and `/ready` cannot hang; the
observation hook of `app.ts` awaits the store in front of both).

More were met while modelling and have no run of their own. Where a property
has to step around one, its comment says so:

- two overlapping creates with one idempotency key make two rows
  (ENVIRONMENTS.md:125-129 has a repeated key create nothing);
- a start of a FAILED row ends in a 500, although ENVIRONMENTS.md:54-57 maps
  the violations of an operation to `ENVIRONMENT_INVALID_STATE`
  (`OnlyFailedStartEscapes` bounds it);
- a reset revives an expired environment, which ENVIRONMENTS.md:118-119 rules
  out;
- an idempotency key belongs to a user and not to its target: repeated for
  another challenge, or for a mission, it answers with the first environment;
- the session hook can throw for a session swept under it, although its comment
  says it never does (`OnlySweptSessionsFail` bounds it);
- a rate-limit bucket whose `EXPIRE` failed does not expire, although
  `rateLimiter.ts` says buckets do (`BucketsSelfExpire` bounds it);
- a provision that a destroy overtakes remembers a sandbox that is gone, where
  SANDBOX.md:114-115 says a later provision reuses no stale one
  (`OnlyCrossingsLeaveStale` bounds it);
- `env.ts:138` compares a host with `::1`, and `new URL` writes it `[::1]`, so
  that one loopback origin passes in production;
- `listByUser` of `memory.ts` is oldest first and of `prisma.ts` newest first;
  an update of a missing environment is null in one (`memory.ts:296`) and
  rejects in the other; and progress in a challenge overwrites the status of
  its score in one table (`prisma.ts:124,383`) but not in two maps
  (`memory.ts:50,57`). Nothing in `src` calls the progress repository so far;
- the header of `sandboxPolicy.ts` (9-13) says that unsafe destinations are
  rejected; the classification compares spellings, and passes over a trailing
  dot, user information before the host, some ways to write an address, and
  fe81 to fe8f (`Overlooked` names them);
- an answer for a slug that was left can be shown under the next slug, if it
  comes between the commit and the cleanup of its effect
  (`LearningDetail.tsx:80-121`), until the next answer;
- a limit of the rate limiter is one only while a command takes less than the
  headroom of a bucket, as no command has a deadline;
- the toggle of the Lab's menu, or a link of the bar, that has the focus when
  the layout hides it loses it (`Navbar.tsx:29-36,107`), which nothing
  restores;
- the menu of the main site stays open when the layout becomes wide, and the
  page behind it does not scroll;
- the honeypot field of the contact form can be edited while a request is in
  flight (`ContactForm.tsx:54`), which no visitor does.

## 4. Proofs

All theorems hold for every value of the constants the assumptions allow.

- `EnvironmentServiceProofs`. `IInv` relates a request to the table: what it
  can hold at each stage (`WellStaged`), that its copy agrees with the row in
  everything no update changes, owner and birth (`Copies`), and that the actor
  may hold it (`Allowed`). The properties alone are not inductive, since a
  stale copy is written back and only `Copies` says that it writes nothing
  wrong. From it: `TypeCorrect`, `WindowCorrect`, `IsolationHolds`,
  `DestroyedIsFinal`.
  A second invariant, `AllLawful`, says of the status a request is about to
  write that its own handler found a copy from which the table allows it, or a
  FAILED one on its way to ACTIVE. It speaks of the request alone, so no other
  request disturbs it, and yields `OnlyFailedStarts`.
- `EnvironmentRefinementProofs`, assuming that at most one request is in flight
  (`OneAtATime`); `EnvTerminal` shows that the assumption cannot be dropped.
  `SerialInv` has three parts. `Kept` is about the table between calls: the
  number of retained rows, activity no later than the clock, remembered keys
  that lead to rows of their user. `Fresh` says that a copy is the row. `Told`
  says, per stage, what the handler concluded and still relies on: a create has
  counted every row before it inserts and its key was not remembered, a sweep
  has every row it is to reclaim in its list, an answer has reached its goal,
  and the instant a window restarts from is not behind the window. None of the
  properties is inductive without the part of `Told` that carries it over the
  awaits in between; a `Tick` may fall into any of them, and `Abort` and
  `Restart` may end any. From it: `ServiceImplementsLifecycle`,
  `RetainedIsBounded`, `AnswersWithTheRow`, `SweepReclaimsAll`, and of steps
  `ExpirySlidesForward` and `RememberedKeysMintNothing`.
- `ScoringProofs`. A request that inserted the event holds a *claim* until it
  announces; claims are exclusive because the ledger is a set. From it:
  `ScoringImplementsScoreBook`, `ProgressIsBacked`, `AwardsAreRecorded`.
  A total is a fold over the ledger. What is proved of it, that it is a number,
  grows by the points of an element that is added and never falls when the set
  grows, is by a smallest counterexample: `SmallestSet` says that a family of
  subsets of a finite set has a least one under inclusion, from the library's
  fact that strict inclusion is well-founded there, so that no induction is
  needed. `CInv` then follows a total back to the ledger at the moment of its
  read, and the rows of a summary to the ledger before its second read. From
  it: `TotalsAreCurrent`, `SummariesAreBacked`, `ScoringTypeCorrect`.
- `AbuseControlsProofs`. `EntryInv` says that no bucket expires before its
  headroom is over, and so before any hit that is not late; `FirstInv` and
  `TtlInv`, who is to set a missing TTL. On them rest the others: `CountInv`,
  that the requests which have passed a scope and those about to are no more
  than its hits and no more than its limit, both cardinalities of sets of
  requests; `AlertInv`, that the hit which reaches a threshold is one;
  `LoneInv`, that what a lone user spent and may still spend on an ip was let
  through as user in this window or the one before; and `CoveredInv`, that a
  count once covered in that way stays so although its bucket may have expired.
  From it: `AbuseTypeCorrect`, `NeverOverLimit`, `NeverFailsOpen`,
  `NoBucketForEver`, `EscalatesExactlyOnce`, `LoneUserIsSafe`.
- `PipelineProofs`. `PipeInv` speaks of the way that is left: what a request
  has not passed yet stands before its first "write" (`GuardsAhead`), the audit
  event of a write is still to come or passed (`AuditAhead`), and no service
  turns a request away once it has changed a row (`NothingYet`), which is why a
  500 of a conflict has changed none. The services and routes are looked at
  once, in the lemmas that every way has this shape (`Services`, `Ways`); after
  that a gate is a tail, or one of the `Turns`. From it: `PipelineTypeCorrect`,
  `EffectsGuarded`, `AnswersTrue`.
- `AuthSessionsProofs`. `TablesGrow` says that no step revives a session;
  `Honest` says what a request knows of a dead session at each stage, and is
  preserved by the others because death is final. From it: type correctness,
  `DeadAdmitNobody`, `LivingAreSpared`, `OnlySweptFail`, `RevocationIsFinal`;
  with exclusive claims as above, `OneAccountPerEmail`.
- `SandboxOrchestratorProofs`. `SInv` says of the cache that what it remembers
  exists at the runtime or was crossed, of a call that is about to destroy that
  the cache holds nothing of its environment but what was crossed, and of every
  call how its answer and the result it has from the runtime go together. The
  second part is what makes the first inductive: a destroy clears the cache
  before it reaches the runtime, one that was given up long before. From it:
  `SandboxTypeCorrect`, `AnswersEarned`, `StaleIsCrossed`.
- `PartsProofs`. `GrantedSafe`: whatever is proposed, what is granted is safe,
  the spellings of `Overlooked` excepted, and resolves to itself, from lemmas
  about the classification of addresses. `BootCoherent`: for every environment,
  from what the parsers accept. `ContactHonest` and `MenuReturnsThePage`:
  invariants of the form and the menu with what holds while a request is in
  flight, and while React has not caught up. `ChallengeCallsBound`: what a call
  knows of its row at each stage (`VisitInv`) is about what no step changes,
  the owner and the target, and the history `open` records the one thing that
  may have changed since. `PagesShowTheRoute`: while the effects of a page are
  run for its location, an answer that may still change it was asked for by the
  page of this location (`PagesInv`), and what a page shows is the record of
  its slug, or says that there is none only of an unknown one, unless an answer
  is still to come. `PagesKeepTheirPromise` adds what links a page can have
  (`LinksInv`), from lemmas about what a filter, a stable sort and a resolution
  of slugs can return (`ArrangedElements`, `ResolvedAreIn`, `RelatedAreIn`).
  `ListsLeadOnward`: a filter keeps the order of its list (`FilterAscends`),
  and in a list ordered by a number, with one record of a slug, a record of a
  lower number that is shown is shown before (`ShownLeadsOn`). Nothing is said
  there of the lists of the API, which `catalogService.ts` makes of the same
  files by the same words. Both unfold no record of the content.
  `StoresStayAlike`: under `StoresInv` each sequence of `memory.ts` mirrors the
  set of its table by the unique key, without repetitions, so that a search
  finds the row the index finds and a filter lists the rows a `where` selects
  (`MirrorsAppend`, `MirrorsMap`, `MirrorsAt`). Of a challenge there are two
  rows and one; `RowsAgree` says what they share, row by row. Awards agree
  because an entry has a time of solving exactly when the ledger has its event
  (`Solved`): `memory.ts` looks at the former and the table's unique index is
  on the latter. Ids ascend in the sequence (`InOrder`), which makes newest
  first the reverse of it (`NewestFirstIs`).

Only model-checked, and why:

- the liveness properties (`EveryCallAnswered`, `AwardReachesProgress`,
  `EveryCallReturns`, `OnlyHangingBlocks`), which need fairness;
- the content of the Lab as such: TLC evaluates `ContentAssumption` on it; the
  theorems about pages take it as an assumption.

## 5. Not modelled, and why

The text tools of the Lab (JWT, CSP, header and regular expression inspectors),
redaction and event formatting are functions from one string to another.
Passwords and tokens are cryptography of the platform; `AuthSessions` takes a
password to be right or wrong and tokens to be distinct. The content of the
main site and the founder site is static. The normalisation of a flag and its
constant-time comparison, cookies' attributes and the set-up of plugins are
conditions on a single request that nothing else depends on. `revokeAllForUser`
and the store's get, set and delete have no caller in `src` but tests; the
first is in `Repositories` for the comparison.

## 6. What is left

Every invariant and every action property of a passing run is stated by a
theorem; the liveness properties stay with TLC. What
`EnvironmentRefinementProofs` shows needs requests that do not overlap, which
the code does not promise: a version of a row that an update checks, or a
transaction, would let the same argument run without `OneAtATime`. The parts
marked "partly" in section 1 lack what section 5 names.
