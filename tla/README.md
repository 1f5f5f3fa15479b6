# Valax: specifications of the recovery service and its bots

TLA+ specifications of the parts of this repository that decide something: the
job queue in its two implementations, the path a recovery takes from the product
API through Redis to the worker daemon, the API's quotas, idempotency registry,
identities and sessions, the rate limiter, the Redis client, the recovery
pipeline with the gates that admit a replacement, the stage that takes a
dispatcher apart, its parser, cleanup passes and generator, and the Discord side: the bot's voice onboarding,
community service and command /1, the script that prepares the guild, and the package with the slash commands. TLC
checks them on small instances; TLAPS proves for every instance the safety properties of
the queues, the dispatch, identities and submissions, the Discord side
and the recovery pipeline (section 4).

- `PROJECT.json` lists components, runs, the source lines of every definition,
  findings, hazards and theorems.
- A run: `tlc -config JobQueue.cfg JobQueueMC`. A proof: `tlapm JobQueue_proofs.tla`.

Contents: 1 inventory, 2 modules and how they follow the code, 3 runs, 4 proofs,
5 findings and divergences, 6 what is not modelled, 7 plan.

## 1. Inventory

### 1.1 The system

```
 browser / Discord command
        |  HTTP
 ProductApiServer  --- RateLimiter, quota and idempotency Maps (one process)
        |  submitJob
 RecoveryGateway   --- RateLimiter, ArtifactStore, Metrics
        |  enqueue                               in one process (tests, CLI):
        |                                          InMemoryJobQueue
 RedisQueueAdapter --- MinimalRedisClient --- Redis: queue:waiting, job:, idemp:, lease:
                                                  |  RPOP
                              run-product-worker-daemon --- container runner
                                                  |                  |
                                        FilesystemArtifactStore   WorkerExecutor
                                              (shared)               |
 command line: RecoveryService ----------------------------+         |
 serverless: api/recovery.js --- preflight, capStage ------+--- pipeline L0..L5
                                                                     |
                            analyzers -> completeness verdict -> admission gates

 Discord bot process: VoiceService + helper bots, CommunityService + JSON store,
                      /1 --- worker process, or api/recovery.js
 setup-guild.js: the guild's roles and channels, before and between runs of the bot
 DiscordBotAdapter: /recover, /status, /cancel --- AttachmentFetcher, ProductApiClient
```

Everything is JavaScript on one event loop per process. A synchronous method is
atomic; at an `await`, an event callback or a timer, other handlers of the process
run; processes share only Redis, the artifact directory and Discord.

### 1.2 Components

| component | state it keeps | operations | correct when |
|---|---|---|---|
| In-memory queue (`packages/queue/src/in-memory-queue.js`) | `jobs`, `waitingQueue`, `leases`, `idempotencyMap` | enqueue, leaseNextJob, heartbeat, completeJob, failJob, cancelJob, getStats, each reclaiming stale leases first where the code does | queue = queued jobs, leases = running jobs, one believer per lease, late answers ignored, attempts within budget, backlog bounded, every job settles |
| Redis queue (`redis-queue-adapter.js`) | the same, in Redis keys and a list | the same calls, several commands each, no reclaim | one consumer per job, life cycle respected by processes that write back old copies, a fault costs one job |
| Redis client (same file, `MinimalRedisClient`) | socket, `buffer`, `pendingCallbacks` | connect, sendCommand, `_processBuffer`, `_parseResp` | a call gets its own reply, in order, whatever the chunks; every call returns |
| Gateway and artifact stores (`packages/gateway/src`) | rate limiter, counters, artifact records or directories with `meta.json` | submitJob, processNextJob, cancelJob, getJob, getArtifact, expiry | files exist before the state says so, no source outlives its run, counters agree with the queue |
| Worker daemon (`scripts/run-product-worker-daemon.js`) | none between jobs | pop, read, write RUNNING, run, store, write COMPLETED | no job run twice, every job answered, COMPLETED means success |
| Product API (`packages/api/src/server.js`) | `dailyJobCounts`, `idempotencyRegistry`, the queue's jobs | submit, status, cancel, artifacts | quota, one job per key, no replay of somebody else's job, answers stay true |
| Rate limiter (`packages/gateway/src/rate-limiter.js`) | `requestTimestamps`, `activeJobs` | checkLimit, acquire and release of concurrency | limits hold in every window, slots are those in use |
| Authentication (`packages/api/src/auth`) | identity documents, sessions, pending OAuth states, seen nonces | sign-in, callback, session look-up, rotation, logout, assertions | one principal per subject, a session ends by logout and by age, a process takes a state or an assertion once |
| Voice onboarding (`apps/discord-bot/src/voice-service.js`) | rooms noted per member, helper pool and its queue, `activeMembers`, players | member and voice events, reconcile rounds, one long asynchronous onboarding per newcomer | served once at a time, nobody waits for a free helper, nobody unlocked unheard, a noted room exists |
| Community service (`community-service.js`, `community-store.js`) | tickets, applications, leaves, drops, invites, coins in one JSON file | button and modal handlers, joins, messages | one open ticket per member, its channel there while it is open, its own transcript, a closed ticket's channel goes; the true inviter, credited and paid once; an item decided once, with what follows; a reward paid once |
| Guild setup (`setup-guild.js`) | what one run has fetched and made; in Discord roles, channels and overwrites | find or make each thing, backfill the verified role, open and close channels, save the ids | nobody who stays loses a channel, whatever breaks off; the ids are saved only when all is there |
| Command /1 (`index.js`, `access.js`, `safe-fetch.js`, `worker-client.js`) | cooldowns, roles as the client knows them, a promise and a child process per recovery | presence events, one handler from the press to the answer, fallbacks | the role follows the status; a recovery costs a wait and a failure none; a limited one says so; no worker is left |
| Gateway package (`packages/discord/src`) | nothing between commands; a fetch its promise, timer and sockets | /recover, /status, /cancel | a fetch settles once, one job per press, what is told of a job stays true |
| Worker, sandbox (`packages/worker`, `packages/sandbox`), serverless endpoint (`api/recovery.js`), service (`packages/core/src/service`) | none between jobs | run one recovery with limits and make a report of it | classified result for every input, a report that claims no more than was done |
| Recovery pipeline and admission (`transforms/pipeline.js`, `analysis/completeness-verifier.js`, `final-admission-gate.js`, ...) | the tree, the level, metrics during one call | stages L0 to L5, verdict, gates | a program is replaced only on proof, the oracle cannot promote |
| Front end and cleanup (`lexer/`, `parser/`, `ast/`, `evaluator/`, `transforms/cleanup.js`, `generator/`) | the tree, the round, whether anything changed | parse; propagate, fold, prune, clear, until nothing changes; generate | the text put out is read as the tree, a pass keeps what the program does |
| Environment analyzer (`analysis/environment-access-analyzer.js`) | what is declared, written and looked up, during one call | analyze: find the environment, two walks, verdict | a closed program looks up nothing the report does not name |
| Stage L4 (`cfg/`, `analysis/*-analyzer.js`, `transforms/closure-splitter.js`, `residual-dispatcher.js`) | the flow graph and the search tree during one call | discover, follow, rebuild, compress | functions do as rebuilt what they did, shared states stay |
| Web front end, other serverless functions and scripts, native preflight | none worth modelling | | |

### 1.3 What is hard here

- *Stalled workers.* A lease runs out while its worker is alive. The next call of
  anybody reclaims it, in the middle of that call; the old worker answers later.
- *Read, await, write.* The Redis adapter, the daemon, the API handler and
  `createPrivateChannel` all act on what they read before an await.
- *Crashes between commands.* An enqueue is four commands, a lease four, a
  completion four; the daemon holds a popped job in memory only.
- *Order alone.* RESP replies carry no id; what a lost connection leaves in
  `pendingCallbacks` shifts what comes after.
- *Two verdicts and a net under them.* The pipeline asks the gate twice, about
  different code, and swallows every exception of its last stage with what was assigned so far.
- *One word, several values.* A stage is asked for, capped, admitted, lowered after a stack
  overflow and reported, by four callers that name it differently.
- *Overlapping presses.* A cooldown, a role or a state of a job is read before an await and told or
  cleared after it; timers and sockets of a fetch go on when it is over.
- *A script that breaks off.* It is run again over what it left, in a guild that changes meanwhile.
- *Graphs with joins, loops and computed edges.* A block is written once; who leads to
  a state decides whether it may go.
- *Text and tree.* Parentheses, order and names are all that is left of a tree in its text,
  and passes feed each other; the check after generation asks only whether it parses.
- *Boundaries.* Attempts against the budget in two places, `<` and `>=` on window
  and burst, bytes against characters.
- *Something must happen.* Nothing wakes up on its own to reclaim a lease, pump
  the helper queue or retry a failed reconcile round.

`PROJECT.json` lists each hazard at its line with the properties that cover it, or
why none does yet.

## 2. Modules

| module | models | composes |
|---|---|---|
| `JobTypes` | `types.js`: states, terminal states, `isValidTransition` | |
| `Ranking` | sorting a finite set and filtering a sequence, without recursion | |
| `JobLifecycle` | abstract specification: what both queues promise of each job | `JobTypes` |
| `JobQueue` | the in-memory queue with its workers | implements `JobLifecycle` |
| `RedisQueue` | the Redis adapter, one action per command | implements `JobLifecycle` |
| `ProductDispatch` | API submission, worker daemon, artifact directories | extends `RedisQueue` |
| `ApiServer` | the submission handler from await to await | |
| `RateLimiter` | sliding window, burst, concurrency slots | extends `Ranking` |
| `Gateway` | gateway, artifact stores and counters over the queue of its process, and what the server tells of it | extends `Ranking` |
| `Accounts` | identities, sessions, OAuth states and assertions, from await to await | |
| `RespClient` | the RESP connection | |
| `Admission` | the evidence, the proofs and the gates that admit a replacement: operators | |
| `Recovery` | one recovery from the request through the stages to the answer | extends `Admission` |
| `Separation` | stage L4 on every program of a few states, and what programs do before and after | |
| `LuaText` | lexer, parser and generator: texts as sequences of words, trees as nodes | |
| `LuaMeaning` | external: what a program does, as far as a caller can tell | extends `LuaText` |
| `Cleanup` | parse, the rounds of the cleanup passes, generate | extends `LuaMeaning` |
| `VoiceOnboarding` | voice service, helper pool, Discord's rooms | |
| `GuildSetup` | the script that prepares a guild, and the guild meanwhile | |
| `RecoverCommand` | the command /1: role, cooldown, input, worker, fallbacks, answer | |
| `SlashCommands` | the commands of the gateway package, the attachment fetcher, the API behind them | |
| `Bot` | `GuildSetup`, `RecoverCommand` and `SlashCommands` beside the voice service | extends `VoiceOnboarding`; the three |
| `VoiceOnboardingMC` | one of the four | `Bot` |
| `Guild` | what the parts of the community service share | |
| `TicketDesk` | tickets of the community service and its store, Discord's channels | extends `Guild` |
| `Invites` | the invites Discord counts, the snapshot, the rewards | |
| `Community` | applications, leaves and drops; daily, message and counting rewards | extends `Guild` |
| `Desk` | the community service: `TicketDesk`, `Community` and `Invites` side by side | the three |
| `DeskMC` | `TicketDesk`, `Invites` or `Community` | `Desk` |
| `RedisSide` | the queue over Redis, the deployed path and the client that carries their commands, side by side | extends `RedisQueue`; `ProductDispatch`, `RespClient` |
| `RedisMC` | one of the three | `RedisSide` |
| `Front` | the front of the API: who a request is from, the submission, the limits, the gateway, side by side | extends `Accounts`; `ApiServer`, `RateLimiter`, `Gateway` |
| `FrontMC` | one of the four, the gateway in two settings | `Front` |
| `Environment` | what a program looks up and sets in the global environment, and whether it is closed | extends `Cleanup` |
| `CoreMC` | `Recovery`, `Separation`, `Cleanup` or `Environment` | the four, `CleanupMC` and `RecoveryMC` |
| `CleanupMC`, `RecoveryMC` | the programs, and the requests and evidence, that TLC goes through | `Cleanup`, `Recovery` |
| `JobQueueMC` | a check of an operator beside the queue | `JobQueue` |
| `Ranking_proofs`, `JobQueue_proofs`, `Redis_proofs`, `RedisSide_proofs`, `Desk_proofs`, `Front_proofs`, `Voice_proofs`, `Recovery_proofs` | theorems | |

Where an MC module holds several components, a variable `part` says which one runs, and
it never changes: each takes the outcome of the other as a choice of its own, so
their product would add nothing. `RedisSide`, `Front`, `Desk` and `Bot` are the parts of such
compositions that theorems speak of.

`\* defect` definitions: next to some definitions stands a second one with the same
parameters, written as a plausible mistake would be. No action uses it. Put in the
place of the right one, it must make a property fail; that is how each property is
known to depend on the code.

### 2.1 JobQueue

One variable per Map or array of the class, with the fields of `job` that matter
(`state`, `attempts`, `idempotencyKey`, `result`) as functions of the job id, and
`claim`, what each worker remembers. Every method is synchronous, so it is one
action: `Enqueue`, `LeaseNextJob`/`LeaseNothing`, `Heartbeat`, `CompleteJob`,
`FailJob`, `CancelJob`, `GetStats`, and `Forget` for a worker that dies or is
refused. Calls that return early without changing anything are stutters.

`_reclaimStaleLeases` is the group `Stale`, `Reenqueued`, `ReclaimedState`,
`ReclaimedLeases`, `ReclaimedQueue`: the values after it, used by the three methods
that begin with it. A Map iterates in insertion order and each reclaimed job is
`unshift`ed, so they end up in the reverse order of their grants; tokens are drawn
in that order, hence `Ranked` by `-token`.

Abstractions: random lease tokens are a counter (all the code needs is that no two
are equal); `lease.left` is `expiresAt - Date.now()` in ticks, with -1 for any
expired value; event emission, timestamps, payloads and error texts are dropped.
`result` is the token under which it was written, since that is what tells a late
answer from a current one.

### 2.2 RedisQueue and ProductDispatch

A process is a record `[at, id, key, doc, token]`: the command it will send next and
what it has read. `EnqueueLookup` to `EnqueueSetIdemp` are the commands of
`enqueue`; `LeasePop` to `LeaseSetLease` those of `leaseNextJob`; `CompleteGetLease`
and following, `FailGetJob` and following the two reports. Redis is single threaded, so
a command is atomic and anything may come between two. `Crash` drops a process's
record, `LeaseExpires` drops a lease key (SET ... EX). `abandoned` is a history
variable: the jobs a fault has hit.

`ProductDispatch` adds what runs in production. `scripts/run-product-worker-daemon.js`
does not call the adapter's `leaseNextJob`: it pops the list itself, without a
lease, a state check or an attempt counter (`PopJob`, `GetJob`, `SetRunning`, `Run`,
`SetCompleted`). `gateway.processNextJob`, which does lease, is only called from
tests. API processes are the producers of `RedisQueue`, and store files
(`InitJobArtifacts`) after the enqueue has resolved, when a daemon may already have
the job. `files[j]` is the content of the job's directory; a directory without
`meta.json` is invisible to expiry.

### 2.3 ApiServer, RateLimiter, RespClient

`ApiServer` cuts `_handleSubmitRecovery` at its awaits: `Arrive` (quota read),
`ReadBody` (key looked up), `Submit` (gateway), `Record` (usage and key written).
`activeJobsCount` is constantly 0, because the handler asks the gateway for a method
that does not exist and falls back to 0. `overlapped` remembers which principals
have had two requests under way.

`Gateway` is the gateway over the queue of its own process: `ProcessNextJob` is one step because
`processNextJobSync` is synchronous from lease to release, so no lease is ever seen to expire there, no
slot refused and no job RUNNING. `LookUp` is a handler up to its await, `GetRecovery`,
`ListArtifacts` and `CancelRecovery` what it does with its copy of the job after it; `DownloadArtifact` asks
the store before it waits. `store` is the class of the artifact store, chosen at the start;
`files` and `age` are its records, as in `ProductDispatch`. An answer stays in `handler` until the next
request, so that a property can compare it with what happens later. `Steps` is every step of the
process for some of the requests and jobs, so that a run can look at less than all of them. `Outcomes` holds what a
container runner may answer; the one of `runJobSync` never times out. Code is within the limit of
the store, which is above the worker's; a report may not be.

`RateLimiter` keeps ages in place of time stamps. `Arrive` and `Submit` are the two
checks one submission passes. `granted` is a log for the properties, cut to what
they can see.

`RespClient` models the byte stream as characters that know which call they
belong to, cut into chunks of any size by `Data`. `Processed` is the loop of
`_processBuffer`, a turn of it `Turn`; `Turns` is a recursive function, so that the prover can be shown what it computes. `Separation`, `LuaText`, `LuaMeaning`, `Cleanup` and `Environment` are the
modules with RECURSIVE operators; no module with a theorem reaches them.

### 2.4 VoiceOnboarding

The state is in two halves: Discord's (`inGuild`, `verified`, `voice`, `created`,
`owner`, `open`), which survives a restart of the bot, and the bot's. One helper's
`runOnboarding` is a record that goes through `fetch, settle, start, playing,
postroll, unlock, disconnect, delete, cleanup`, one value per await; the `finally`
block is `cleanup`. `createPrivateChannel` is a call in `creating` between its
await and its return, `reconcilePrivateChannels` a pair of sets (`unchecked`,
`unvisited`) that it works off, waiting for every deletion and creation. Handlers
of Discord events run to their next await in one step.

Three history variables name the only ways the promises fail: `early` (newcomers
queued before the helpers logged in; nothing pumps the queue at login), `doubled` (a room was
made for a member beside one they had, noted or open; kept over restarts) and `crossed` (the member left while the
bot was making or checking their room). Stating the properties with these
exceptions says that nothing else breaks them.

### 2.5 TicketDesk

Again Discord's half (`owner`, `channels`, `button`), the store's (`status`,
`archived`), which is written to disk by each method that changes it,
and the process's. A `handler` is one interaction between two awaits: `OpenTicket`,
`ChannelCreated`, `CreateTicket`, `SendButton`, `Reply` are `openTicket` with
`SetupFails` its `catch` block; `CloseTicket`, `ArchiveTicket`, `Tidy` are `closeTicket`,
each with its failure. `timers` are the pending `setTimeout`s; a `Restart` forgets
them and the handlers, and `ReconcileClosedTickets`, `SweepNext` work off what is
closed. `ticket` is the channel it was created with, which is what makes it
possible to say that a transcript is "of its own channel".

History variables again name the exceptions: `doubled` (a member who pressed twice
and has a second channel, whose button closes the *first* ticket), `failed`
(`openTicket` failed after `createTicket`: the channel is deleted, the ticket stays
open) and `refused` (Discord refused a request about the channel). Assumed: writing
the state file succeeds and nobody deletes a channel by hand.

`Invites` has Discord's uses of each invite and the service's snapshot of them; a join is handled by
`HandleMemberAdd`, `Waited` (a second later Discord is asked), `Compared` or `CompareFails`,
and the start, like a failed comparison, goes through `Asked`, `Refreshed` or `RefreshFails`.
`confused` marks behaviours in which joins overlap: Discord does not say which invite a member
used, and whoever compares first then takes all of them off the snapshot.
`Community` has an `item` for each application, leave and drop; a handler goes
from storing it to posting it, and from a press to the decision (one step on the store) to the role, the
message and the author, each of which may fail. A counting message is accepted in one step and paid in the next, after
the reaction; the slash command does both in one.

### 2.6 Accounts

A handler is a record that goes from await to await through what
`_resolvePrincipal`, `handleCallback`, `rotateSession`, `handleLogout` and
`verifyPrincipalAssertion` do; `shared` chooses between the stores over a database,
used by one process or several (`process` is that of each handler), and those of one process, where the
session store's calls run to their end. Over either store the pending OAuth states, the nonces seen and the locks of
subjects are `Map`s of the controller or the store object, so they belong to a process; one that has
restarted with the database still there is another process. `TakeLock` to `Reread` are `getOrCreatePrincipal` with its
lock map and the unique index (`Insert` may be told of a duplicate).
`Expire` and `Touch` are the two writes of `getSession`, `Unlink` and `Relink` the two
of a rotation, and an absent document is a value the code goes on with.

Abstractions: a token is a number, and stands for its CSRF token too; two ticks of the clock
are a second, because the expiry of an assertion is compared in seconds and that of
its nonce in milliseconds; a principal is a number given out in order. A browser is what it
carries: two cookies and the token its page was given. History variables say when the sign-in
of a session was, which logouts were answered, and what a process accepted again.

### 2.7 Admission and Recovery

`Admission` is the judgement as operators: `FromTree` and `FromLifting` make a mixed-closed
report, `Violations` is `validateProofIntegrity`, `RequiredProofs` the contract of nine or of
single features, `FinalEligible` the gate and `Verify` the completeness verifier that asks them in
order. What the single analyzers find in a tree is *evidence*, a record described at the
head of the module, chosen in `RecoveryMC` from every value of one group of fields at a time.

`Recovery` is the rest of a call. `Receive` refuses as the early returns of its entry
stand (`FirstOf`: the first of the reasons that holds) or admits a stage; `ParseInput`, `Normalize`,
`RecoverStrings`, `RecoverAliases`, `Separate` are L0 to L4 with the level each
leaves; `KeepStatic` and `Synthesize` are L5, the second with the two verdicts (`Judge`).
`Throw` is an exception outside what L5 swallows, `FallBack` the serverless endpoint's run to a
lower stage after a stack overflow. `Versioned`, `Completed`, `Adapted` are the three
reports. Of the code, the model keeps whether it is the program put in or one made
up, the states of the dispatcher left in it, whether it names the dispatcher's variable and,
when it was emitted from a graph, what it prints.

### 2.8 Separation

A protected program is a root state and a block per state: the state a closure made there begins
at, and where the block goes (a number, a test with two, a computed state, the end). `Init`
chooses the program and any search tree over its states. `Discover` is the analyses, with
`Follow`, `Dominators`, `ImmediateDominators` and `Components` written as the code computes
them (worklist, rounds to a fixpoint, Tarjan's numbers, links and stack); `Rebuild` is
`reconstructFunctionBody`; `Compress` prunes the tree. `Dispatched` and `Executed` say which
blocks a program runs before and after, for given outcomes of tests, and that is what the properties
compare; `Reached` is the reference definition of reachability, as a least set.

Abstractions: states are 1 to n, so that a leaf of the tree stands for one state; a
block has at least two statements; which calls are closure helpers, and the recognition of
`cond and s1 or s2` as a test, are data. What a block computes is not modelled, only
that it ran.

### 2.9 LuaText, LuaMeaning and Cleanup

A text is a sequence of words, with the spaces and line breaks that matter; a node is its type, a
label and its groups of children in the order of the fields of `ast/nodes.js`. `Tokens` is
the lexer up to what is inside a word (a comment begins where two minus signs meet), the operators from
`Block` to `Fields` are the parser's methods, each giving what it read and the position
after it, and those from `Text` to `Written` are the generator's.

`Cleanup` is one action per pass: `PropagateLocalConstants`, `FoldConstants`,
`EliminateDeadBranches`, `EliminateEmptyBlocks`, in rounds (`BeginRound`), between `ParseSource` and
`PutOut`. `Mapped` is `transform`: children first. `Given` and `Constants` are the flat
search for constants, `Substituted` where the literal is put.

`LuaMeaning` is not of this repository: it runs a tree as Lua does, with closures, varargs, multiple
values, short circuits and errors, and records what an external function is called with, what is
returned and whether an error ends it. Numbers are small integers, strings differ in their length,
a table only in the values it was made of; loops are followed for `maxRounds` rounds and calls
up to `maxCalls`.

`TextIsTheTree` and `PassesKeepMeaning` hold with the exceptions `Unwritable` and `Loses`, which
name the forms the generator has no text for and the ways a pass may change a program (5).
Every one of them occurs among the programs of `CleanupMC`: a property without it fails.

### 2.10 Environment

`analyze` in three steps: `BindEnvironment` (which function is handed the environment), `DetectMutations`,
`Classify`. The code walks the tree twice with the same rules for scopes and constants, once
for what is written and once for what is read; `Walk` is either: what it comes by, for each place its node and parent,
whether it is in the function with the environment, and its scope, which is what is declared around it and
the strings variables were last set to (`ScopeFrom`). `KeyGiven` resolves a key: a literal,
what folds to one, a variable, a call of the string accessor. `ClassOf` is the verdict on a key.

To resolve a key or a value the code calls `fold`, which replaces in the tree what is below the node it is called for
and not the node itself (`Settled`). `Walk` therefore also gives the tree it leaves: both walks settle
the values variables are set to on entering a statement (`ValuesSettled`), the first one the keys that
are set and that of a function that is called, the second one every key of the environment (`KeysSettled`). The second
walks the tree that the first has left. The function and the argument that the code knows by identity carry a `role`, since
folding may move them.

`ClosedIsClosed` runs the program as it was before the analysis (the history variable `parsed`) with `LuaMeaning`, which keeps what is set in the environment and
what is looked up there, and compares. `Overlooked` names the forms the analyzer does not look at (5);
each occurs in `CleanupMC` and without its exception the property fails.

### 2.11 GuildSetup

`Script` is what the run goes through, `piece` where it is. `Make` and `Find` are `ensureCategory`,
`ensureTextChannel` and the same by hand for roles and the AFK channel; a channel "deobfuscate" or a
category "Start Here" that is there already is edited call by call (`EditCommandChannel`,
`EditStartHere`), and the order of those calls differs. `ShowPanel` may not find the panel it put up.
`FetchMembers` takes the list, `Backfill` works it off; then `Visit`, `Unlock`, `LetBotIn` for
each channel, `Close` for all of them, `Save`. `Fail` is a refused call at any await: the process ends,
what Discord has stays, and `Start` begins again with nothing in memory. `Join`, `Leave` and `Onboard`
are the guild meanwhile, the last one by a bot that has the saved ids.

Of the overwrites the model keeps whose there are: the bot's (`own`), the role's (`unlocked`), another
bot's (`welcome`), everyone's denial (`shut`), and whether the bot was kept out by hand (`hidden`). `CanSee` is how
Discord combines them for somebody who is no administrator. `late` are those who joined after the list was
fetched, whom the script cannot know, and `unread` counts the panels it did not find.

### 2.12 RecoverCommand

A press is a record at the await its handler is in: `defer`, `input`, `worker`, `hosted`, `answer`, `sorry`.
`Failed` is the `catch` block, and what every step to it has in common. `child` is the worker process, which
may outlive the promise about it until it is reaped. `cached` are the roles the client knows, `calls` and `news` the
changes on their way to Discord and back: `syncSupporterRole` compares with the first and waits for neither.
Events of different requests of the bot are not ordered among each other; those about one member are, as the gateway sends them.

`alone` and `last` are history: a press that had no other of its user beside it, and how the user's last such press
ended; `unsure` are users whose role changed while a change was under way, or for whom a call was refused (5).
Time is only in `CooldownEnds`: a cooldown stands or not.

### 2.13 SlashCommands

A handler goes from `deferReply` over the fetch and the request to `editReply`. `hops[h]` are the requests of one
fetch, one per redirect, each with its timer, its `settled` and its socket, because the listeners of all of
them stay: `Breaks` is an error or a timer of any of them at any time. `request` is the API's
side: a look-up, and for a cancellation a second look after the await, as in `Gateway`; `Restarts` empties its queue, and ends the
requests it had looked up. `Unanswered` is a connection that breaks, with the request done or not.

## 3. Runs

| run | question | distinct states |
|---|---|---|
| `queue` | does the in-memory queue keep its data structures and promises consistent, implement `JobLifecycle`, and settle every accepted job? | 170 thousand |
| `redis` | claims exclusive, life cycle respected, a fault costs one job; on the deployed path no job run twice, files before state, every job answered; below, own reply and every call returns over lost connections | 450 thousand |
| `redis_stale_lease` | is a stale lease recovered, as the docs say? (violated) | |
| `dispatch_failure` | does COMPLETED mean success, as the docs say? (violated) | |
| `api` | identities, sessions and assertions; registry and usage; limits and slots; jobs, artifacts and counters of the gateway, and what the server tells of them | 1.3 million |
| `recovery` | is a program replaced only on proof and does the report say what was done; are the analyses of stage L4 exact and what do rebuilding and compression keep; is the text put out the tree, and do the cleanup passes keep what a program does; does a closed program look up only what the report names? | 880 thousand |
| `recovery_stage` | does the report record the stage that was asked for, as the docs say? (violated) | |
| `recovery_literals` | is a replacement made of the program's own values, as the docs say? (violated) | |
| `separation` | does stage L4 lose nothing, as the docs say? (violated) | |
| `cleanup_meaning` | does a program do after the cleanup passes what it did, as the docs say? (violated) | |
| `voice` | the promises of 1.2 for voice onboarding, the setup, the command /1 and the gateway package, with the exceptions of 2.4, 2.11 and 2.12 | 2.9 million |
| `tickets` | the promises of 1.2 for the community service, with the exceptions of 2.5 | 800 thousand |

Properties, by run:

- `queue`: `ClaimsAreExact` ties list and leases to the job states (`PlacesAreExact`), and says of
  stalled workers that one believer holds a lease and the result is the newest one's (`OneHolderPerLease`,
  `ResultIsNewest`); `RetriesAreOrderly` is about retries: how long they make the list, how many a job gets, that
  they go first (`BacklogBound`, `AttemptsWithinBudget`, `RetriesGoFirst`); `OneJobPerKey`;
  `JobsFollowTheirLifecycle` is the refinement, with the retry budget in the abstract steps;
  `EveryJobSettles`, that every accepted job ends in a terminal state.
- `redis`: `OneConsumerPerJob`; `JobsFollowTheirLifecycle` (a stale copy never
  undoes a newer write); `EveryJobSettles` unless a fault hit that very job; of the dispatch
  `OneRunPerJob`, `CompletedIsDownloadable`, `EveryJobIsAnswered`; `ReplyIsOwn` and
  `EveryCallReturns` of the client. The three liveness properties say that again and again
  nothing is left unanswered; ids are finite and answers stay, so that is that each is answered.
- `api`: `OnePrincipalPerSubject`; `SessionsEnd` (no grant after a logout was answered, none
  beyond the absolute lifetime however often rotated); `LoginsAreSingleUse`, of OAuth states and, by one process, of
  assertions (but for the last second of an assertion's life); `KeysNameJobs` and `UsageIsFair`, always as far as
  replay and refusal go, for principals whose requests do not overlap as far as counts go;
  `LimitsHold` (with `RetryAfter` sufficient for a full window, a burst refusal names one
  second whatever the window says; and slots that are the running jobs); `AnswersStayTrue`
  (a terminal status, a confirmed cancellation and a list, against what happens after the copy they
  were made from) and `BooksAreTrue` (sources purged, every run counted once).
- `recovery`: `ReplacementIsProven` (nor does the oracle promote), `AnswerIsTrue` (level, report,
  and a reason for a lower stage); `AnalysesAreExact`, `PartsAreKept` (functions that
  are trees, and what stays); `TextIsTheTree`, `PassesKeepMeaning`, `ClosedIsClosed`.
- `voice`: `QueueIsServed`; `NotesAreTrue` (`ListenedBeforeUnlocked`, `NotedRoomIsOpen`); of the setup
  `AccessIsKept`, that no step takes a channel from somebody who stays, but for `late`, and `SetupIsTrue`, which
  relates the four kinds of overwrites, the saved ids and the panels at every moment; `CommandsAreTrue`
  (`RoleFollowsStatus` when all has arrived, `CooldownsHold` for presses that were alone, `RecoveriesAreTold`);
  `RepliesAreTrue` (`FetchesSettle`, `RepliesStayTrue`, one job per press).
- `tickets`: `OpenTicketsAreServed` (one per member always, with its channel unless the set-up
  failed); `TranscriptIsOwn` unless the owner has two channels;
  `ClosedChannelGoes` (by timer or by the next start); `InvitesAreTrue` (the inviter unless joins
  overlap, credit and pay always); `DealingsAreFair` (`ItemsAreDecidedOnce`; `RewardsArePaidOnce`, but for the coins of a
  number that a restart forgot before they were paid).

### 3.1 Bounds, and why they are enough

- `queue`: three jobs, two workers, depth 1, one running, two attempts. A retry overfills
  the full list while the third job wants in; a worker stalls past its lease and the
  other is given the same job. Durations 0 and 1 let a heartbeat matter. No symmetry,
  which would not be sound for liveness. That two leases are reclaimed in one call
  needs two running jobs: this was checked once with depth 2, two running and symmetry
  (100 thousand states), and the proofs of 4 cover it for every size.
- `redis`: two jobs, two consumers or daemons, two producers in the dispatch. Every race in this code is between two processes over one job or
  between the two ends of the list.
- `api`, submissions: two handlers and two principals, three ids with a quota of 2: the quota is
  reached and one more request comes.
- `api`, limits: a window of 3 ticks and 3 requests, a second of 2 ticks and 2
  requests: either limit can be the one that refuses.
- `api`, accounts: one user, one browser, two handlers, two processes: the handlers are in one or in both. Every race is between two handlers
  of one user; three tokens let two rotations of one session overlap, three instants let a
  session outlive its day.
- `api`, gateway: two handlers about one job of either of two principals, with a restart, or one
  handler beside two jobs; each job may run twice, over each of three stores, and wait past the
  retention, which is 0: a record is past it or not, and nothing else of its age counts.
- `redis`, client: three calls, two waiting together: replies of two calls in one
  chunk, and a call after a lost connection.
- `recovery`: every entry, every refusal, every stage and every group of evidence. Two states of a
  dispatcher tell one that lost some from one that lost all or none.
- `recovery`, separation: every program of four states whose last state has one way on of
  each kind, with or without a closure made in the first: joins, nested and overlapping
  loops, states of no function, functions that share a state. Functions of up to three
  states are rebuilt, so that both sides of that limit occur; runs are compared over four
  blocks, as many as there are states.
- `recovery`, cleanup: the expressions of up to two operators over eight kinds of operand, grouped
  or not, every statement around every other, chains of two suffixes, tables of two fields
  (`CleanupMC`): two operators are what precedence and associativity are about, two nested
  blocks what shadowing and reassignment are.
- `recovery`, environment: every two of some sixty statements that set and use a key or a variable,
  with the environment by name or handed over, with and without a decoder of strings: a key set
  and used, set again, shadowed, set in a block, and names that folding drops from a value or a key.
- `voice`: two newcomers, one helper, two rooms, one restart. With two rooms each
  newcomer has one, or one of them two. Three rooms without a restart (8.2 million states)
  were checked once with the same result; they take longer than a run should, and the
  proofs of 4 cover any number of rooms.
- `voice`, setup: two people and a bot, the rules and one more channel, two runs and two moves: a run
  over the rest of another, a channel the bot is kept out of beside one it is not, somebody who
  comes or goes between any two calls, or leaves and is back. Of the things there may have been before, those
  two that the script edits call by call.
- `voice`, command: two presses of one user, whose status changes twice: presses that overlap or follow each other,
  a presence while a change is under way. Users have nothing to do with each other.
- `voice`, package: two commands of two users about two jobs, a redirect in each fetch: a fetch has at most
  one request before the last.
- `tickets`: two members, two interactions, two channels, one restart. Two presses of one
  member, two people closing one ticket, a press while another closes, and a new
  ticket after a closed one are each two interactions and two channels. Two invites, one of
  them for a single use, and two of three joins at a time: an invite that is gone when it is compared, one
  that is newer than the snapshot, and every overlap. Two items: two presses on one, and one that another
  was posted beside.

`maxRooms`, `maxChannels`, `maxRestarts`, `maxRuns`, `maxMoves`, `maxChanges`, `maxHops`, `maxCalls`, `maxPending`, `maxTokens`, `maxStates`
(of `Accounts`: OAuth states; of `Recovery`: states of a dispatcher), `maxAssertions`,
`maxTime` and `maxSteps` are bounds of the models, not of the code; they appear in the guards of
the actions that make one more.
The job ids of a cfg are what bounds submissions. `CHECK_DEADLOCK FALSE` stands
where the system stops when every id is used.

### 3.2 Fairness, and why the code justifies it

- `JobQueue`: weak fairness on a worker's asking for work (worker nodes poll), on
  its end of a job in *some* way (completing, failing, or dying or being refused, `Forget`; no
  outcome in particular), and on the clock. Not on heartbeats, submissions or
  cancellations. Heartbeats cannot hold a job for ever because reporting is fair.
- `RedisQueue`: a call that has begun goes on and consumers poll. A crash ends the
  call and puts the job in `abandoned`; crashes are not fair and not excluded.
- `ProductDispatch`: an API process finishes its submission, the daemon's
  `while` loop goes round, a run of the container ends (it has a timeout).
- `RespClient`: the server answers, and what it sent arrives.
- `Accounts`, `ApiServer`, `Gateway`, `RateLimiter`, `Recovery`, `Separation`, `Cleanup`, `Environment`, `VoiceOnboarding`,
  `GuildSetup`, `RecoverCommand`, `SlashCommands`: none, every property is about safety.
- `TicketDesk`: Discord answers every request, with success or an error; timers fire;
  the loop of `reconcileClosedTickets` goes on. Not: presses, restarts.

## 4. Proofs

The theorems hold for every value of the constants: any numbers of jobs, members, processes,
handlers, rooms, tokens and restarts, any limits and durations, any evidence. TLC only looks at the
instances of section 3.

| theorem | module | states |
|---|---|---|
| `Typing` | `JobQueue_proofs` | `[]TypeOK` of the in-memory queue |
| `EveryJobIsInItsPlace` | | `[]PlacesAreExact`, which is `QueueHoldsTheQueued` and `LeasedIffRunning` |
| `ExactClaims`, `OrderlyRetries` | | `[]ClaimsAreExact`, `[]RetriesAreOrderly`: the parts together |
| `Implementation` | | `Spec => JobsFollowTheirLifecycle`: the queue implements `JobLifecycle` |
| `RetryBudget` | | `[]AttemptsWithinBudget`, from the refinement |
| `Ownership`, `NewestResult` | | `[]OneHolderPerLease`, `[]ResultIsNewest` |
| `Idempotency`, `BoundedBacklog`, `RetriesInFront` | | `[]OneJobPerKey`, `[]BacklogBound`, `[]RetriesGoFirst` |
| `OneClaim` | `Redis_proofs` | `[]OneConsumerPerJob`, over Redis |
| `RedisImplementation` | | the Redis queue implements `JobLifecycle` too, whatever crashes |
| `OneRun`, `Download` | `RedisSide_proofs` | `[]OneRunPerJob`, `[]CompletedIsDownloadable`, on the deployed path |
| `OwnReplies` | | `[]ReplyIsOwn`, for replies in ASCII |
| `TicketsServed`, `Transcripts` | `Desk_proofs` | `[]OpenTicketsAreServed`, `[]TranscriptIsOwn` |
| `Decisions`, `Rewards`, `FairDealings` | | `[]ItemsAreDecidedOnce`, `[]RewardsArePaidOnce`, and `[]DealingsAreFair` for the two |
| `Attribution` | | `[]InvitesAreTrue` |
| `Identities`, `Ends`, `SingleUse` | `Front_proofs` | `[]OnePrincipalPerSubject`, `[]SessionsEnd`, `[]LoginsAreSingleUse` |
| `Replays`, `Usage` | | `[]KeysNameJobs`, `[]UsageIsFair` |
| `Allowances` | | `[]LimitsHold` |
| `Answers`, `Books` | | `[]AnswersStayTrue`, `[]BooksAreTrue` |
| `Queue`, `Notes` | `Voice_proofs` | `[]QueueIsServed`, `[]NotesAreTrue` |
| `GuildIsSetUp`, `NobodyIsLockedOut` | | `[]SetupIsTrue`; `AccessIsKept`, which is about steps |
| `CommandsKeepTheirWord` | | `[]CommandsAreTrue` |
| `RepliesKeepTheirWord` | | `[]RepliesAreTrue` |
| `Replacement`, `Answer` | `Recovery_proofs` | `[]ReplacementIsProven`, `[]AnswerIsTrue` |

### 4.1 What is assumed

Only what the modules state as ASSUME, each by name: that limits and times are naturals
(`LimitsAssumption`, `DurationsAssumption`, `BoundsAssumption`, `TtlAssumption`,
`CommunityAssumption`), that ids, handlers and requests are finitely many (`JobIdsAssumption`,
`GuildAssumption`, `RequestsAssumption`), that `None` is no value of anything else
(`NoneAssumption`, `MembersAssumption`), that keys are not job ids (`KeysAssumption`), that a
process of the Redis queue is a producer or a consumer (`ProcessesAssumption`), and which faults there are
(`FaultsAssumption`). `Recovery`, `ApiServer`, `RateLimiter`, `Gateway`, `ProductDispatch`, `Invites`, `GuildSetup`, `RecoverCommand` and `SlashCommands` are checked with
other constants in different places, so they define their `Assumptions` as an operator; the module that extends or
instantiates them assumes it (`RecoveryAssumption`, `SubmissionsAssumption`, `LimitsAssumption`, `RecoveriesAssumption`, `DispatchAssumption`,
`InvitesAssumption`, `SetupAssumption`, `RecoverAssumption`, `SlashAssumption`), and the
theorems about them name it as a hypothesis. That of `Recovery` says that evidence is a record of the
types of its findings and that `None` is neither a failure nor the report on a factory. `OwnReplies` has a hypothesis of its own, `Widths = {1}`:
in a reply with a wider character the parser counts wrongly (5), and the property is false.

### 4.2 The arguments

`Ranking_proofs` is the ground of the queues and the voice service: `Ranked(S, rank)` is an enumeration of the finite set `S`
without repetition, `Without(s, x)` has the entries of `s` but `x`, and what Append, Head, Tail and
concatenation do to `Entries` and `Distinct`. `Ranked` is written with `CHOOSE` and `Cardinality`
so that this needs no induction. `Filtered(s, kept)` has the entries of `s` at the positions `kept` in their
order, and as many of any kind (`FilteredCounts`): JavaScript's `filter`, for the waiting list and the
rate limiter's window. Each component then has one inductive invariant, checked by TLC before it was
proved, with one lemma per action, and the theorems read off what they need.

*In-memory queue.* `IInv == TypeOK /\ QueueHoldsTheQueued /\ LeasedIffRunning /\ TokensDrawn`. None of
the first three is inductive alone. That the head of the list can be leased
(`LeaseNextJob` removes it whatever its state) so that every queued job stays listed needs that listed jobs are
queued; that a reclaimed job is not already listed needs that leased jobs are running; that the
order of a reclaim is well defined (`Ranked` needs an injective rank) needs `TokensDrawn`: no two
leases share a token and none is beyond `issued`. `Implementation` maps every action to a
`JobLifecycle` step under `IInv`; the case to look at is `LeaseNextJob` after a reclaim that put the
same job back: one step from RUNNING to RUNNING with one more attempt, `Starts` under `Retry`.
`RetryBudget` is proved once on the abstract specification and carried over. `ClaimInv` adds that every claim's token has
been drawn, so that a new one is newer than all; `RetriesInFront` needs that what is put in front has run and
what is put at the end has not (`OrderInv`).

*Redis queue.* A process acts on a copy of the job it read some commands ago. `CopyIsCurrent` says that it is
still the document in Redis at every command that writes it back, and this is why no step undoes a newer
one. It holds because a job is with one consumer or in the list or in neither (`ListedAreQueued`, `Claimed`), and before
its LPUSH with the one producer that submits it (`SubmissionIsPrivate`, `OneProducerPerJob`). A crash and a lost lease key only take
something away.

*Dispatch.* Its daemons pop the same list and write RUNNING and COMPLETED without looking at the state.
`DInv` is the queue's invariant with nobody in the consumers' place, and: a job not in the list
yet has been seen by no daemon (`FreshIsUntouched`), each submission is one process's
(`SubmissionsAreApart`), each running job one daemon's; and `FilesBeforeState`: whoever initialises the
files late, a run that has completed finds its results in the directory. Proved about
`ProductDispatch` with the constants of the queue and carried to the two side by side, as `RedisSide` has
them, by `SameSystem`.

*Client.* `RespInv`: what has arrived and what is on its way are, read as one text, the replies to the first of the calls that wait, in their order,
and the server has the rest (`InSequence`); once a connection was lost under somebody nothing is said. Each turn of the parser's loop keeps this,
whatever comes after what has arrived (`TurnKeepsOrder`), so the loop does (`LoopKeepsOrder`). That needs two inductions: that the recursive
function `Turns` exists and is what its definition says (`SomeTurns`, `SameTurns`, `TurnsFollow`), and one over the turns. Both are for sets of
numbers (`Inductive`, from the least element of a set), since the library's rule takes an operator.

*Front.* `AInv` says of each handler what it may take for granted at its await (`CookieInOrder`,
`RotateInOrder`, `CallbackInOrder`, `AssertionInOrder`), and of the shared state that within a
process the lock of a subject excludes (`LocksExclude`; over a database it is the unique index that does), that a
subject's document names its principal, that a stored session has the time of its sign-in and no logout
(`SessionsAgree`), that a state is in one place, and that a process which accepted a nonce still has it or is past its last
second. For submissions, `InSequence` is what
requests that do not overlap may rely on: the count written back is the number of jobs; for the
others only `CountsNoMore` holds, which is why overlapping requests are undercounted and never
overcounted.

*Limits.* `LInv` compares the list the limiter counts with the log of what it let through: in no window that a
check can ask about has the log more entries than the list (`IsCounted`), though the list drops what has left
its window at every check and the log does not. That a wait is long enough then is about the oldest entry that counted: at
the moment named it has left the window, and nothing has come in (`WaitIsEnough`). The slots in use are those of the running jobs.

*Gateway.* `GInv`: listed jobs are queued (`ListedAreQueued`); a job the queue has was made for someone; its record is gone only past
the retention, which is what makes a store that refuses a file hold no source either (`FilesInOrder`); and a handler that
awaits has a job of its own, whose copy, if it says that the job is over, is right (`AskedInOrder`). No step brings a
job that is over back (`JobsGoOn`), so answers stay true; a copy that says QUEUED may be old, and this is why `CancelRecovery`
confirms jobs that ended before. The runs are counted as a set, one element more per run (`RunIsCounted`).

*Community.* `TInv`: a button names a ticket of its own channel, or the channel is a second one
(`Linked`); a channel just made is unknown to everyone else (`MadeAreNew`); what timers and the sweep
will delete is closed. `CInv`: what a handler knows of its item, that at most one is at work on it (`OneAtWork`), the role and
the statistics that follow from decisions, and what a member's coins are made of (`Balance`: days, numbers
counted less those lost and unpaid, drops won). `InvitesInv`: a list of the uses is never ahead of them; while
joins come one by one one call at most is open, the snapshot differs from the uses by the join it is about
(`OneMore`), and what it compares it with is exact. So the one invite whose uses have grown is the one that was
used, if it is still listed. What is recorded of each member stays, and the credits count it.

*Voice.* `VInv == QInv /\ RInv`: jobs, runs and marks name each member once and no job waits beside a free
helper; and rooms, notes, calls that make a room and the round's two sets agree, for every member in
neither `doubled` nor `crossed`. The two need each other: a run knows what its member did only as long as its room
is the noted one.

*Setup.* `SetupInv` says in which order a channel gets its overwrites: one noted as gated has the bot's, the
role's (`WalkIsSafe`) and those of the other bots (`BotsAreLetIn`); what comes before `piece` in the script is there (`MadeSoFar`);
no channel that the bot can edit is forgotten between the list and `Close` (`NoneForgotten`); and once the backfill is over everyone
who is there and has not joined since the list was fetched has the role (`MembersHaveRole`; those who leave and come back are the reason for `late`). So when `Close` shuts a channel, members see it
by their role and bots by their own overwrite, and no other step takes anything away. A second run starts from any such state
and repeats the same calls, which add nothing.

*Command.* `RoleInv`: for a user who is not `unsure`, at most one change is under way, and with it the role is what the last presence
says (`RolesAreInOrder`). `PressInv`: what a handler awaits and what it has (`PressesAreInOrder`); a press that is alone (`AlonesAreAlone`) is the only one of its
user under way, so that the cooldown it started is still there when it ends and the one it clears is its own.

*Package.* `SlashInv`: of a fetch's requests all but the last are settled, and the last one is not only while the fetch waits for it
(`HopsInOrder`); what is said of a job is true from the moment the API says it (`SaidTruly`, `SeenTruly`), and nothing a job does later
takes it back (`JobsGoOn`): an owner stays, an end stays an end, a job forgotten by a restart stays forgotten.

*Recovery.* `RecInv` follows the stages: the target is the one admitted (`TargetIsDue`), the level is
one that the stages before can have left (`Before`), the metrics say how much of the dispatcher is
left (`CountsAreTrue`). What was synthesised passed the gate on the mixed report, on the proofs
required of its features and on the closed environment, so everything is proven. `TraceDoesNotPromote`
is about the operators of `Admission` alone: what the verdict admits with the oracle's trace it also
admits with one that says nothing in particular.

### 4.3 What is only model-checked

- *Liveness*: `EveryJobSettles` of both queues, `EveryJobIsAnswered`, `EveryCallReturns`,
  `ClosedChannelGoes`. The prover has no rule for fairness over these actions.
- `AnalysesAreExact`, `PartsAreKept`, `TextIsTheTree`, `PassesKeepMeaning`,
  `ClosedIsClosed`: about modules with RECURSIVE operators (a parser, an interpreter, a search),
  which the prover cannot expand.

## 5. Findings and divergences

Six runs end in a violation, each of a sentence of the repository:

1. `redis_stale_lease`: `docs/job-lifecycle.md:40` promises that a stale lease is
   reclaimed. `RedisQueueAdapter.leaseNextJob` looks at the waiting list only: a
   job whose consumer died stays RUNNING.
2. `dispatch_failure`: `docs/job-lifecycle.md:9` says COMPLETED is success. The daemon
   writes COMPLETED whatever the worker's status.
3. `recovery_stage`: `docs/native-engine.md:55` says the report records the requested stage. The
   server passes it on as `stage`, the gateway reads `requestedStage`, and the worker
   reports L5.
4. `recovery_literals`: `README.md:12` says there are no hardcoded literals. The graph read from a
   lifted VM is filled with the values of the fixture, and the program emitted from it prints them.
5. `separation`: `docs/recovery-levels.md:17` says unresolvable transitions are preserved. A
   rebuilt function ends where the protected one goes on by a computed transition.
6. `cleanup_meaning`: `docs/recovery-levels.md:15` says semantics are preserved. The search for constants
   does not see an assignment in a nested block: `local y=1 while y==1 do y=2 end f(y)` is put out as
   `local y=1 while true do y=2 end f(1)`.

Seen while modelling and not turned into runs.

*Server, queue and bots.* Two submissions of one key that overlap make two jobs, since the registry is
written after the await on the gateway (`tests/unit/api-security.test.js:488` tests them one
after the other). Lengths in bytes are compared with lengths in characters in
`_parseResp`, so a reply outside ASCII waits for bytes that never come. Overlapping requests exceed the
daily quota by their number, and the concurrency quota counts nothing; two concurrent
enqueues with one key in Redis both succeed and `maxQueueDepth` can be exceeded by
the number of concurrent producers; a source stored after the daemon purged it
stays until expiry, and a directory made by the daemon alone has no `meta.json` and never
expires; a submission through the API takes two tokens of the rate limiter; a
reconcile round that fails at start leaves the voice service without its timer; a member
who presses the ticket button twice gets a second channel whose button archives that
channel as the transcript of the first ticket.

*Gateway.* The server confirms a cancellation without reading what `cancelJob` answered: a job that
ended between its look-up and the call is reported CANCELLED and is SUCCEEDED or FAILED. `RedisQueueAdapter` has no
`cancelJob`, so that over Redis every cancellation ends in a 500. A run that timed out makes the job FAILED, and
`jobs_failed_total` counts runs, retries included. The list names both artifacts of every
recovery that succeeded, also the code of a program recovered to nothing, which is not stored; the store's
`ARTIFACT_NOT_FOUND` is not among the codes the server knows and is answered as 500; a job that
never was is answered as 410, because the message of the store has "expired" in it. A job that waits longer than the
retention is failed by the local store; the one on disk keeps its files without `meta.json` for ever. The S3 store
hands out what has expired until somebody cleans up.

*Accounts.* The nonces a `DiscordOAuthController` has seen and the OAuth states it has given out are `Map`s of the object
(`discord-oauth.js:64-66`), whatever the stores are. A signed assertion is therefore accepted once more by every other process and by
one that has restarted, while it is fresh, and a callback that another process receives is refused for an unknown state. Within a process an
assertion can be accepted twice only in its last second.

*Discord.* A failing press of /1 clears the cooldown of its user, also the one that another press of theirs had started: presses
that overlap defeat the twenty minutes of `README.md:90`. A presence that comes while a change of the role is under way is compared
with the old roles, and the role is then wrong until the next presence. A worker that completes with no code
is reported as "ended with status completed". `setup-guild.js` denies everyone the category "Start Here" before it adds the bot's own
overwrite: over a category made by hand the second call is refused, and so is every later run. A channel "deobfuscate" below a public category
is one of the members' channels too, when its id is not configured: it is opened to every verified member. `/status` compares the state
with COMPLETED, the API says SUCCEEDED: the embed is never green. The text of `/cancel` for a 409 says that the job may be processing; those are cancelled. Requests of the
package to the API have no timeout, and redirects of an attachment no limit but their own.

*Stages and reports.* `docs/recovery-levels.md` names nine proofs as always required; the code requires the
nine only of programs of several features. `capStage` does not cap L5-W or L5-T. The worker
reports no residual states for targets L0 to L3 with the dispatcher untouched, and may
report `isL5WEligible` with another tier. After a cap and a stack overflow the hosted report has two
different requested stages. `semanticEquivalence` is never set, so the branch of a
mismatch (`recovery-service.js:262`) is dead; `dispatcherStatesBefore` is 0 for L5-W, though
`docs/report-schema.md:82` says the original number. `executeJob`'s timer cannot fire
during the synchronous run. When every state is extracted the compressor keeps the whole
tree and reports 0 states (`docs/report-schema.md:83`).

The completeness verifier denies L5-W for a block that was never reached, and its last comment says "All reachable behavior
covered, zero unobserved blocks" (`completeness-verifier.js:369`, `:518`). The list it asks is a field of what
`computeReachability` returns, which has no such field (`completeness-verifier.js:357`, `cfg.js:89`): it is always empty and
refuses nothing. `Verify` therefore has no such gate, and `ReplacementIsProven` says nothing of blocks. What is left of coverage, that the program is
closed or has no branches, is implied once the environment is required to be closed.

*Stage L4.* A call with a numeric first argument equal to a rebuilt entry is replaced whoever
is called; `computeSCCs` skips a successor numbered 0; the root entry is the last helper call in
source order; a block that makes the function it belongs to would become a cyclic tree on
rewriting; an exclusive state that stays, because an unresolved one leads to it, may lead to one that
was taken out; the sibling of a pruned leaf keeps its first statement only.

*Front end and cleanup.* After a list of variables the parser takes any token for the operator of an assignment
(`parser.js:325`): `x, y then 1` is read as `x, y = x THEN 1`. The generator drops the parentheses of a call that is one of several values,
prints `-(-x)` as `--x` (a comment) and `(-2)^x` as `-2 ^ x`, puts a literal that is called or indexed
without parentheses, and a statement that begins with one behind an expression; the name of
`function a:b()` loses its `self`. Propagation puts literals in the place of
parameters, loop variables, method names and keys (`undefined` in the text), and does not look at
shadowing, order or assignments in nested blocks. The evaluator drops the calls in a table that
is a condition (`not {f()}`) and gives `1 and f()` all the values of `f()`. A dead branch that
declares locals is spliced and declares them outside.

*Oracle and analyses.* `synthesizeAST` replaces every numeric argument equal to a loop's first
value by the loop variable, and the type of a returned value is overwritten so that a number is
printed as a string. The environment analyzer says of itself that it audits all external globals across the whole
program (`environment-access-analyzer.js:88-90`). It does not look at a name that is a key in brackets in a table
(`{[f]=1}`), at a method of the environment, at names in the argument that hands the environment over, or at
what a global function declaration sets; it does not follow the environment under another name or a key variable that is
set in a nested block. Its first walk folds the program itself (`visitor.js:135`), so a name in an operand that folding drops,
the `f` of `v = tostring(not {f})`, is gone before the second walk looks for names. Programs with these are found
closed. The name of a global function is counted as a look-up of it, because the test for a declaration asks for
`identifier` where `FunctionDeclaration` has `name` (`environment-access-analyzer.js:134`, `ast/nodes.js:66`): `function f() end`
alone makes a program open.

## 6. Not modelled

- *The rest of the community service* (warnings, announcements, panels): one
  synchronous step on the store each; that an invalid state file is moved aside and
  everything in it forgotten.
- *The rest of the server and the gateway*: health probes, durations and snapshots of the metrics,
  security headers, the check of a file name: no state that outlives the call.
- *`RedisBackedRateLimiter.checkLimitAsync`, `SynchronousRedisClient`*:
  constructed by tests, or a synchronous wrapper around the commands modelled.
- *Sandbox, container*: one job is one step with a nondeterministic
  outcome; what happens inside is another process's.
- *The inside of a word* (string escapes, byte strings, long brackets, number formats), and numbers that are no
  small integers. *The oracle and the single analyzers*: programs over syntax trees of unbounded shape; what
  they find is evidence, chosen.
- *VoiceService without helpers* (radio and the main bot's own queue), *playback errors in
  detail* (every error is the same step to `cleanup`).
- *Which addresses a link may lead to, the signatures of requests, the registration of commands*: data of one call.
- *Web front end, other serverless functions and scripts, native scanner*: I/O or
  run by hand.

## 7. Plan

Order: the queue first, since everything rests on it; then the two processes around
Redis; then the API; then the bots.

| step | state |
|---|---|
| `JobTypes`, `JobLifecycle`, `JobQueue`, refinement, liveness | done |
| `RedisQueue`, `ProductDispatch`, `ApiServer`, `RateLimiter`, `RespClient` | done |
| `VoiceOnboarding` | done, with helpers |
| `TicketDesk`, `Invites`, `Community` | done |
| `Gateway` | done |
| `GuildSetup`, `RecoverCommand`, `SlashCommands`, `Bot` | done |
| `Accounts`; `Admission`, `Recovery`; `Separation`; `LuaText`, `LuaMeaning`, `Cleanup`, `Environment` | done |
| proofs about the queues, the dispatch, accounts, submissions, limits and the gateway, the community and voice services, the setup and the commands, the recovery pipeline | done: every safety property their runs check, but for 4.3 |
| lemmas about what `Admission` admits, as a contract of its own | open |
