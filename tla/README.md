# TLA+ models of the agent governance gateway

The gateway (`src/src/main.py`) stands between AI agents and what they call. It
decides every request (ALLOW, ALLOW_WITH_WARNING, SUSPEND, ESCALATE, DENY),
records the decision, forwards what it allowed and audits it in the background.
These modules model the parts of it in which order, concurrency and failure
matter. They are written from the code; where a comment, a document or a test
says something else, a run shows the difference (see *Where the code and its
words differ*).

- [The system](#the-system)
- [Modules](#modules)
- [Runs](#runs)
- [What is proved](#what-is-proved)
- [What is only model-checked, and what is not modelled](#what-is-only-model-checked-and-what-is-not-modelled)
- [Where the code and its words differ](#where-the-code-and-its-words-differ)
- [Plan](#plan)

## The system

| Component | Source (`src/src/`) | State | Operations | What makes it correct |
|---|---|---|---|---|
| Circuit breaker | `main.py` 276-325, `storage.py` 318-346 | count, window, `_escalate_lock`, one database row | escalate (refuse, grant, trip), resolve, save, restore at start | no escalation granted in a window, trip at the limit, bounded window, no handler stuck, restart keeps the window |
| Request handlers | `main.py` 206-439, 796-1043 | one coroutine per request | evaluate, decide, save, forward, start audits | fail closed; a revoked trace is stopped; every request answered |
| Decision storage | `storage.py` | write buffer, degraded buffer, retry counters, open transaction, table, fallback log | save, read, flush_pending, close | nothing lost, memory bounded, order of arrival, bounded retries |
| Revoke registry | `revoke.py` | bounded map of revoked traces | revoke, is_revoked | bounded, evicts the oldest only |
| Semantic hook | `semantic_hook.py` | background tasks, per-agent prompt windows | audits of prompt, drift, code, output | only ever makes verdicts stricter |
| Chat tools | `main.py` 592-720 | none | names and calls extracted, malformed and dangerous ones refused, the most lethal recorded | a tool is judged wherever it is declared |
| Policy engine | `policy.py` | rules, prefix index, file stamp | load, reload when the file changed, evaluate | first match by priority; an edit takes effect; a broken file keeps the old rules |
| Lethality table | `lethality.py` | weights, file stamp | reload, look up | an edit takes effect |
| Codegen | `codegen/` | a generated module | compile rules to functions, match | answers as the engine does |
| Code gate | `payload_extractor.py`, `ast_guard.py`, `taint.py` | none | extract fragments, judge each | dangerous code in plain sight is blocked, other code is not |
| Call chain | `auth.py`, `context_hmac.py`, `main.py` 150-191 | stored decisions, signatures in circulation | admit, verify, store, sign | a chain is joined only with a signature |
| Protocol gateway | `protocol_gateway.py`, `verification.py`, `mce_introspection.py`, `vce_scanner.py` | compiled rules, validator | evaluate, validate, exchange the validator, report on itself | declared violations and open protocols win; the report is true |
| HA layer | `ha/` | lease file, file lock | acquire, renew, release, guard_write, recover | the split between two primaries is bounded; a dead one is replaced by whoever keeps polling |
| Metacognition observer | `metacognition/observer.py` | `decision_meta` rows | record, append events, trim | the evidence of every audit is in the row, once, unless an error kept it out |
| Bootstrap loop | `bootstrap/` | working tree, cycle table | sense, diagnose, fix, verify, commit or roll back | nothing unverified is committed; a quiet cycle leaves fresh matchers |
| Trace store | `trace/` | files of one trace | append, mark, finalize, load | what was recorded is loaded, in order |
| Meta harness | `meta_harness/` | policy file, backups, candidates | scan, propose, evaluate, deploy | the last content survives; what is deployed loads |
| Pareto loop | `pareto/` | frontier | propose, score, insert, merge | the frontier is the Pareto set |
| Scheduler, rate limiter, critic, certification, scripts | the rest | | | not modelled, see below |

**How they interact.** Handlers are coroutines of one event loop: between two
`await`s nothing else runs on it. Blocking work (policy evaluation, SQLite) goes
to worker threads with `asyncio.to_thread`, and other handlers run meanwhile.
The handlers share the breaker's globals, guarded by an `asyncio.Lock`, and the
revoke registry, guarded by nothing because no one awaits while using it. Worker
threads share one SQLite connection and the buffers around it, guarded by a
`threading.Lock`. Background audits write the registry that later requests read,
and the observer's row of the decision they audit. Policies and weights are
reloaded from files by whichever worker thread sees a new time stamp, without a
lock. The lease, the bootstrap loop, the trace store and the meta harness work
on files that other processes and people change meanwhile.

**What is hard.** A handler samples the clock and then waits for the lock. A
trip awaits its save inside the lock, a reset outside it. An audit may revoke a
trace between any two steps of a request of it. A failed batch is kept for a
retry *and* stays partly in the open transaction of the connection, and so does
what the observer wrote before an error. An edit of a
file falls between the load and the stamp. The process may stop at any point,
between any two file operations. `PROJECT.json` lists each hazard at its line
with the properties that cover it.

## Modules

| Module | Models | Role |
|---|---|---|
| `BreakerContract` | what the breaker promises | abstract: counter and window, changed atomically |
| `Breaker` | the breaker with lock, threads, row and restart | implements `BreakerContract` |
| `Gateway` | both request handlers, registry, audits | EXTENDS `Breaker`; each step conjoins a breaker step or leaves the breaker alone |
| `DecisionLog` | what storage promises | abstract: decisions held in memory, durable, or refused by the disk |
| `Storage` | `Storage` of `storage.py` | implements `DecisionLog` |
| `BreakerProofs`, `GatewayProofs`, `StorageProofs` | theorems about `Breaker`, `Gateway`, `Storage` | EXTEND these; `GatewayProofs` EXTENDS `BreakerProofs` too |
| `PolicyMatch` | the policy engine as a function, under reloads | reference definition: `FirstMatchWins` |
| `ChatTools`, `Codegen` | tools of a chat body; generated matchers | EXTEND `PolicyMatch`, ask its engine |
| `PolicyReload`, `LethalityReload` | hot reload by concurrent threads | one step per assignment |
| `AstGuard` | judging a fragment of code (`Dangerous`) | functions of a tree, no state |
| `CodeGate` | extracting fragments, blocking for a bad one | EXTENDS `AstGuard` |
| `CodeEffects` | what a program does | EXTENDS `CodeGate`: a small interpreter is the reference |
| `Ranks` | sorting | the place of each element by the number of those before it |
| `TraceContext` | key gate, signed headers, stored chain | |
| `ProtocolGateway`, `SelfAudit` | protocol rules and validators; the report about them | `SelfAudit` EXTENDS `ProtocolGateway` |
| `Lease` | lease file, file lock, instances | one step per lock, read, write and comparison |
| `Observer`, `SemanticHook` | `decision_meta`; requests with their audits | `SemanticHook` EXTENDS `Observer`, calls its operations |
| `Bootstrap`, `TraceStore`, `MetaHarness`, `ParetoLoop` | the loops beside the requests | one step per file or git operation |
| `PolicyProofs`, `RequestProofs`, `AuditProofs`, `AutomationProofs` | theorems about `PolicyMatch`, `ChatTools`, `Codegen` and the two reloads; `TraceContext`, `ProtocolGateway`, `SelfAudit`, `CodeGate` and `CodeEffects`; `SemanticHook` with `Observer`; `Lease` and the four loops | EXTEND these |
| `RankProofs` | theorems about sorting, counting, least elements, digits | EXTENDS `Ranks`; cited by `PolicyProofs`, `RequestProofs`, `AutomationProofs` |
| `MCBreaker`, `MCGateway`, `MCStorage`, `MCTraceContext` | TLC runs | add what the repository says and the code does not keep |
| `MCRequests`, `MCAutomation` | TLC runs over several modules | inputs, and a choice of the module a behaviour is about |

Operators named `X_Something` placed before `X` are variants of `X` with a
plausible mistake; every property of a passing run fails under one of them.
They are not part of any specification.

### Breaker

`clock`, `count`, `tripped` are `time.time()`, `escalate_count_since_resolve`
and `breaker_tripped_until`. `queue` is `_escalate_lock`: owner first, then the
waiters in FIFO order, since a released asyncio lock goes to its first waiter.
`phase[r]` says where handler `r` is in the breaker code, `now[r]` is its local
`now`, `arg[r]` the arguments of its outstanding `save_breaker_state`. `db` is
the committed row. `boot` and `saveLost` are history variables. A handler slot
serves one request after another.

- `WaitEscalate`/`WaitResolve`: the lock is taken, the coroutine queues.
- `Refuse`, `Grant`, `Trip`: the three outcomes of the critical section of an
  ESCALATE rule. `Trip` keeps the lock, `SaveTrip` ends the save and releases.
- `Resolve` clears the globals and releases; `SaveReset` ends its save later.
- A save commits the row or meets an `sqlite3.Error`, which is only logged.
- `Restart` loses all memory and reads the row back or, when
  `load_breaker_state` meets an error, starts from the defaults and leaves the
  row as it was (`LoadState`). `rowFailed` remembers that memory and row were
  left apart by an error, which the next save that succeeds ends;
  `PersistedWindowIsCurrent` allows for that. `DurableDb` says whether
  the database outlives the process. `create_app` builds `Storage()` on
  `":memory:"`, so in the gateway as it is the answer is no; the tests of
  persistence use a file.

### Gateway

`pc[r]` moves from `idle` over `policy`, `breaker` (intercept only), `save` and
`answer` back to `idle`. `entry`, `rule`, `verdict`, `trace` are the request's
locals; `registry` holds revoked traces, oldest revocation first; `audits`
holds the traces with a background audit outstanding; `stopped[r]` remembers
that `r`'s trace was revoked before `r` was decided (and not evicted since).

The policy engine answers freely, with any rule action of `RuleAction`, no rule,
or, for intercept, a timeout. Requests that change no state (failed
authentication, unreadable body) are left out. `_record_meta_soft` and the
audits' timing are in `SemanticHook`, headers in `TraceContext`, the tools of a
chat body in `ChatTools`; response bodies are left out. The chat handler has no timeout, no breaker and
no revocation check, and turns a DENY rule into ESCALATE: `ChatVerdict`
translates lines 885-912 as they are.

Audits of the same trace are one element of `audits`: ending one of them may or
may not remove the trace.

### Storage

Each method holds `threading.Lock` and is one step, with all it calls
(`_flush_write_buffer`, `_buffer_or_fallback`, `_append_fallback`). The loop of
`flush_pending` is a step per record, because each commits on its own and the
process can die in between; `busy` says that the loop holds the lock.

`txn` is what the connection has inserted and not committed. Python's sqlite3
opens a transaction at the first INSERT, and no method of `Storage` rolls back:
rows of a batch that failed half way stay there, are committed by whichever
method commits next (`save_breaker_state` included), and the retry of the same
records then meets its own rows. SQLite may also roll the transaction back by
itself on some errors. `TxnFails` allows both.

The code of `flush_pending` takes the time before the lock, the model at the
round: the throttle is then a little earlier or later, the order the same.

A decision is its number in order of arrival. `tries`, `dropped`, `saved`,
`boot` are history variables. Methods called after `close` are left out: the
gateway never calls `close`.

### PolicyMatch, ChatTools, Codegen

A JSON value is a function from addresses to nodes: the whole is at `<<>>`, what
stands under a key `k` of the dict at `a` is at `Append(a, k)`. A text that
parses as JSON is a kind of its own, a glob the set of words it matches, a file a
sequence of rules; an empty file (`EmptyFile`), which is refused, is not a file
without rules, which is not. A pattern is the set of words it matches and the
set it matches once its backslashes are doubled, if it still is an expression
then. Methods and actions come in either case (`UpperOf`) or are left out, an
action then being ALLOW (`Action`); the empty pattern, which the code takes for
none in one place and for one in another, is left out. The recursive walk of
`_extract_at` is the set of addresses reached segment by segment (`Reached`),
where ".." leads to everything beneath.
`Reload` keeps the old rules when a file is refused; `Evaluate` is
`PolicyEngine.evaluate` with the AST gate in front, the candidates of the prefix
index (`MayApply`), and the stable sort. `FirstMatchWins` says the same
without walking, pruning or sorting: a JSON path selects an address when its
segments can be laid along it.

`ChatTools` asks the same engine with the bodies of `/v1/chat/completions` and
turns its answer into the verdict and the audited tool. `Codegen` gives what the
module generated from the same file answers, with Python's rule that the last
definition of a name stays: methods and actions as the file writes them, patterns
with their backslashes doubled, a match that may raise. `GeneratedAgrees` compares
the two on the kinds of rules `config/policies.yaml` has (`Compilable`): a pattern
that the doubling changes is not one of them.

### PolicyReload, LethalityReload

Each worker thread runs check, load and one assignment per step; the content of
a file is the number of the edit that wrote it. Edits set new time stamps,
earlier or later, and write good, bad or no files. `policy.py` stamps after the
load, `lethality.py` before it: the first loses an edit that falls in between
(`lateEdit`), the second does not, but two overlapping loads of different
contents can leave the older one with either stamp (`mixedInstall`).
Both properties allow for exactly that.

### CodeGate, AstGuard, CodeEffects

A body of the gate is a function from addresses as well, with the keys of each
node in their order, since the first language field, the first code key and the
first `MaxFragments` fragments count. `_collect` of `payload_extractor.py` is
the set of addresses it visits (`Visited`: each step on the way there `GoesOn`),
the code each visit takes (`CodeTaken`), and the order of the body (`Precedes`).
A string that parses is an object ("text") or a list ("textlist"), opened where the
code opens it; code is cut to `MaxCodeLen` pieces (`Cut`), and what is judged, by
the gate and by `GateSeesCode`, is the part that is read.
That code is found twice under one address never happens, because a container
that gives a text is not walked further. `CheckRequest` extracts and judges.

`AstGuard` judges a fragment. A Python program is a tree with the node types of
the parser, a function from addresses as a body is, where a node's kids are
numbered; what `_fold_expr` gives is a function on its addresses, each value
made from those of the kids. Texts and names are sequences of pieces, so that
`'ev' + 'al'` is something to fold. A string literal has its source (`raw`), which
the queries read, and its value (`val`), which the taint pass folds: a literal key
of the builtins whose source is escaped is seen by neither, so that `InReach`
leaves it out. The mark `"builtins."` is a sequence of pieces as well, and an alias
a text that begins with it. `_walk` takes the assignments in the order
`WalkedBefore`. SQL is a tree too: statements may stand in statements, and the
guard remembers what it scanned by where its text starts. A pass that raises (a
tree too deep) finds nothing, and the other passes still run (`raises`).
`CodeEffects` runs a straight program, statement by statement: `HarmfulCalls` are
the calls that really reach a dangerous builtin, and `CodeIsJudgedByItsEffect`
compares them with what the queries and the taint pass report. `InReach` says
which programs the two can be compared on: a text that spells out
`taint.py`'s own mark "builtins." would be taken for an alias, and neither the
queries nor the taint pass follow a builtin that is renamed as it stands
(`f = eval`).

### TraceContext

One row per decision, with the headers it was asked for with. `traceSigs` is
every signature made, by the gateway or a service that holds the key; a request
carries any of them with any trace, parent and span it can know, at any time.
Ids are numbers in order of storing. `TraceTree` is the recursive query of
`get_trace`.

### ProtocolGateway, SelfAudit

A declaration is the sequence of fields in the order of its dump, because the
rules' look-aheads read the dump; the fields of the object itself occur once
(`ProtocolAssumption`), those of objects inside it may repeat them. A state that
is no object, and a body that is a JSON text, match rules but are refused by the
validators. A provider whose confidence is no number makes `validate` raise
outside its `try` (reply "garbled"): the caller then gets the exception, no verdict
and no event. The stable
sort by priority puts each rule at the place given by the number of rules before
it (`AtRank`). `Judge` evaluates and validates, `Settle`
downgrades, reading the validator's name again, and feeds the audit sink;
`SetValidator` may come in between. `SelfAudit` computes introspection and scan
from the rules and the validator's name alone, and `ScanTellsWhatPasses` compares
the report with what requests would really be answered. The introspection sorts
rules by module, the model keeps their order: the report holds the same, except
for which blind spots a list that is cut keeps.

### Lease

Deadlines are kept as the time left, so no horizon is needed. Each operation is
its steps: call, take the lock or time out, read (or fail to read), write and
unlock, and for `guard_write` and `recover` the comparison after the lock was
left, and the write that was guarded. A file that cannot be read counts as none
(`MisreadLease`); one whose JSON is no object, a write or replace that fails, and an
unlink that fails leave the lease as it is (`FileFails`). `overlap` counts the
time since the lease changed hands; `misread` remembers an unreadable file that
`try_acquire` took for none.

### Observer, SemanticHook

`Observer` has the table and its operations, each one step under the observer's
lock. Every operation may meet a database error, which is only logged: `meta` is
the table as the connection sees it, `metaSaved` as it was last committed, and what
a call wrote before its error stays in `meta` until the next commit takes it along
or the database gives the transaction up. The marker of a step is searched in the
whole text of a trail (`HasStep`): `says` has the markers that a step's JSON holds
as strings, which a method, path, tool, rule or flag may be named like. The
statistics of a row, its deviation flag and score, are left out.

`SemanticHook` is the handler around them: verdict and drift window, recording,
start of the prompt, code and drift audits, forwarding and the output audit, and
each audit as a task that starts, asks the judge and ends in any order. A text is absent, empty, white space or says something: a prompt and code
of white space are not judged, an answer of white space is (`ExtractPrompt`,
`ExtractCode`, `ExtractAnswer`). `owed` holds the steps that the judge's answers
called for, `failed` those whose append met an error, `masked` those skipped for a
marker that no step of theirs wrote.

### Bootstrap

Three git trees (work, index, HEAD) and a remote over two files, the generated
one and another. A generated file is the policy version it was made from. One
step per command of the cycle; people edit, stage, commit, delete and hold the
index lock in between, and may take the policy file away: without it nothing has
drifted. A `git status` that is too slow ends the cycle as failed (`Sense`); any
other command that takes too long, the compilation of the new file included,
raises (`CommandRaises`). Writing the generated file is one step, though the code
truncates it first: a death in between leaves a torn file, which the next cycle
finds drifted as it finds an old one.

### TraceStore, MetaHarness, ParetoLoop

`TraceStore` has one trace with one file per step and a manifest; `write_text`
truncates and then writes. Names are sequences of digits in base `Radix`, as many
as `StepDigits` or, for a larger number, as it needs (`FileName`), sorted as
strings. A step recorded as failed by hand under a `with` block that ends normally,
and a disk that refuses inside the block, are left out. `MetaHarness` has the
policy file, its backups by second and the
candidates; deployment is read, backup, truncate, write, and a rule of the
candidate replaces all rules of its name if the file has any. Somebody may edit
the file at any time but in the middle of one `write_text`; a deployment may die
at each step, also while it fills the backup, and be run again within the second,
which reuses the backup's name. `lateEdit` remembers an edit that came after the
backup was read, `overlaid` a torn file that was backed up over a good backup: the
two ways to lose a content that `LastContentSurvives` names. A suggestion counts
denials by endpoint only, where the code also groups them by tool, which is in
the rule's name only. `ParetoLoop` inserts
point by point what the proposer brings.

## Runs

| Run | Expect | Shows |
|---|---|---|
| `breaker` | pass | type, `LockDiscipline`, `TripSavedFromMemory`, `NoReaccumulation`, `WindowBounded`, `PersistedWindowIsCurrent`, no handler stuck (`EveryHandlerLeaves`), implements `BreakerContract` |
| `gateway` | pass | type, `HandlerInBreaker`, `FailClosed`, every request answered (`EveryRequestAnswered`) |
| `gateway_revoke` | pass | `InterceptStopsRevoked`, `RegistryBounded` with two traces, room for one revocation and a restart |
| `storage` | pass | type with the bounds on buffers (`StorageTypeOK`), `ArrivalOrder`, `RetriesBounded`, implements `DecisionLog` (`NothingLost`) |
| `requests` | pass | `ChainsAreVouched`, `GateSeesCode`, `CodeIsJudgedByItsEffect`, `FirstMatchWins`, `GeneratedAgrees`, `ToolsAreJudged`, `VerdictFollowsDeclarations`, `ScanTellsWhatPasses`, `QuietEditTakesEffect`, `WeightsCatchUp` |
| `automation` | pass | `TrailKeepsEvidence`, `SplitIsBounded`, `TakeoverAfterExpiry`, `OnlyVerifiedIsCommitted`, `QuietCycleLeavesFresh`, `LoadReturnsRecorded`, `FailedTraceIsNotOk`, `LastContentSurvives`, `DeployedFileLoads`, `FrontierIsParetoSet` |
| `lease` | pass | a crashed primary is replaced (`CrashedIsReplaced`), between survivors that compete |
| `breaker_volatile`, `breaker_save_race`, `gateway_chat`, `storage_shutdown`, `trace_context` | violation | one difference each between code and words, see below |

`requests` and `automation` each hold several components. The components share
no variable, so the initial state picks one (`part`), the behaviour exercises
that one, and the others keep one fixed initial state: the states are the sum of
the components' states, not their product, and nothing of a component's own
behaviour is cut. An invariant is evaluated in every state, a temporal property
on every behaviour, of whichever part.

**Bounds, and why they are enough.**

- `breaker`: 3 handlers are the smallest number with an owner, a waiter and a
  newcomer, or with a trip being saved, a reset being saved and a third party.
  Limit 2 has a first grant and a trip. Cooldown 2 has a strict inside; Horizon
  4 lets a window end and a second one open. One restart. `Horizon` also keeps
  escalations from arriving when their window could end later than the clock
  can reach, so that no behaviour is cut off inside a window.
- `gateway`: 2 handlers on one trace, every rule action but
  ALLOW_WITH_WARNING, which takes the code path of ALLOW; one restart; Cooldown
  and Horizon 1, since the breaker alone is checked with more.
- `gateway_revoke`: 2 traces and `RevokeMax` 1 force evictions; all four rule
  actions and a restart, which empties the registry.
- `storage`: batches of 2, at most 2 pending, 2 attempts, 4 decisions: a full
  buffer overflows into the fallback log, a round succeeds in part, the cap is
  reached with new failures in between, and the throttle (1 tick) both blocks
  and lets through. One restart. The process really stops (`closed`), so
  deadlock is not checked there.

- `requests`: policy files of up to 2 of 15 rules, one or more of every kind of
  condition, an empty file and one without rules, over 13 bodies, 3 paths, 3
  tenants and 3 methods: two rules are enough for an order, a prune and a tie.
  Chat bodies declare up to two tools at either place. 2 worker threads and 3
  edits of the policy file (2 of the weights): two threads load, an edit falls
  between, and another follows. Gate bodies nest past the depth limit of 2, hold
  more code than the limit of 2 fragments, and code of one piece more than the 3
  that are read; 1088 three-statement Python programs and 819 SQL files of up to
  three statements, some with statements in them, are judged. Chains of 2 decisions with one
  foreign signature and a clock that passes the skew. Directories of up to 3
  protocols, of both levels.
- `automation`: 3 instances, ttl 2, tolerance 1, one access to the lease file
  that fails; no bound on time. 2 audited requests over a table of one row, a window of two
  prompts and one database error, with bodies that are missing, say something, or only run
  something, an answer of white space, and trails that may name the marker of the
  drift; more errors and requests are left to the proof. 3 acts of people and 2
  cycles, so that a second cycle finds what the first left. 4 steps with two binary digits: the fourth is
  the first that outgrows them. 2 deployments, each of which may die, be rerun within
  the second, and meet edits at any time. 2 runs of 2 rounds over 3 candidates.
- `lease`: 3 instances, of which two may crash: two survivors compete for the
  lease of the first. Ttl 1, tolerance 1 and one access to the file that fails.
- `CHECK_DEADLOCK FALSE` in these three: counters end, crashed instances and
  ended requests do nothing more, and the bootstrap, trace and pareto parts really stop.

**Fairness.** `FairBreakerSpec`: the event loop eventually runs the coroutine
that was handed the lock (`WF` of the lock steps of a waiting handler), the
thread pool eventually runs each submitted save, time passes. Clients owe
nothing: no fairness on arrivals. Weak fairness suffices because FIFO hand-over
keeps the owner enabled until it acts. `FairGatewaySpec`: each handler that can
take its next step eventually does: policy evaluations end or time out, saves
end, the upstream call has a `ClientTimeout` (`main.py` 451, 966). A chat
evaluation has no timeout and is assumed to end: `evaluate` is a finite loop. A
streamed answer is bounded by the total timeout of its session. `Storage` has no
liveness property: nothing calls `flush_pending` while the gateway runs, only
its shutdown does, so that degraded decisions may wait as long as it lives.

`LeaseFairness` (in `lease`): time passes, and an operation that was called goes
on (`WF` of `HaStep`), be it by giving up its wait for the file lock. Nothing
else is owed: neither calls nor success at the lock. `CrashedIsReplaced` says
itself on what it depends: some survivor's caller polls `recover` again and
again (`[]<>`), and from some time on its wait for the lock is not given up. The second is
needed: with three instances two survivors can time each other out for ever, as
`FileLock` polls without a queue, one holding the lock that `recover` takes to
see the expiry while the other waits for the one to acquire. The first is up to the
caller: nothing in the repository polls `recover`.

## What is proved

TLAPS proves the following for every value of the constants: any number of
handlers, instances, threads, requests, decisions, rounds and deployments, any
capacity, limit and delay. Each component's theorems rest on the assumptions
about its own constants and on nothing else:

| Assumption | Says |
|---|---|
| `BreakerAssumption` | limit and cooldown are positive naturals, the bounds naturals |
| `GatewayAssumption` | rule actions are verdicts, the registry has room for one |
| `StorageAssumption` | batch, buffer and attempts are positive naturals, the rest naturals |
| `LeaseAssumption` | the time to live is a positive natural, the tolerance a natural; having no owner is told from every owner |
| `PolicyAssumption`, `ChatAssumption` | rule files are sequences of rules, bodies JSON values: every node but the whole is in another; the fields the code asks for are keys; each word has an upper case |
| `PolicyReloadAssumption`, `LethalityAssumption` | the bounds on edits are naturals |
| `GuardAssumption` | Python code and SQL are finite trees; no dangerous name is empty, a name of the builtins, the beginning of another, or such that it contains the mark of an alias or overlaps with it |
| `GateAssumption` | the limits on depth, fragments and length are naturals; no code key is one for tool arguments (so in `payload_extractor.py`); bodies are finite JSON values whose keys are distinct, and list indices are no code keys |
| `SelfAuditAssumption` | the limit of the report is a natural; a request may declare a bare claim, and each overlap the rules allow |
| `TraceAssumption` | at least one digit, in a base of at least two |
| `ProtocolAssumption` | a file and a declaration are objects: each has a field once |
| `ObserverAssumption`, `HookAssumption` | the table and the windows have room for one; the markers a trail may name are those of its steps |
| `HarnessAssumption` | people's files are lists of rules that load, the LLM answers with lists of rules |
| `ParetoAssumption` | qualities and costs are integers |

`TraceContext` and `Bootstrap` assume nothing. The names of
`taint.py` 26 are as `GuardAssumption` says: none of `eval`, `exec`, `compile`,
`__import__`, `input`, `globals` and `locals` begins another. The code needs it,
because it joins the alias of a function with other text as it joins any two
texts: with the names `eval` and `evaluate`, folding `getattr(builtins, v) +
'uate'` would give the alias of the second.

| Theorem | States |
|---|---|
| `BreakerTyped`, `BreakerLock`, `BreakerTripSaved`, `BreakerNoReaccumulation`, `BreakerWindowBounded`, `BreakerPersisted` | the six invariants of run `breaker`, a restart whose load fails included |
| `BreakerImplements` | `BreakerSpec` implements `BreakerContract` |
| `GatewayImplementsContract` | `GatewaySpec` implements the contract as well |
| `GatewayTyped`, `GatewayHandlerInBreaker`, `GatewayFailsClosed`, `GatewayStopsRevoked`, `GatewayRegistryBounded` | the invariants of runs `gateway` and `gateway_revoke` |
| `StorageTyped`, `StorageArrivalOrder`, `StorageRetriesBounded` | the invariants of run `storage` |
| `StorageImplementsLog` | `StorageSpec` implements `DecisionLog` |
| `LeaseSplitIsBounded`, `LeaseTakenAfterExpiry` | the safety of the lease (two action properties) |
| `ReloadTakesEffect`, `LethWeightsCatchUp` | edits take effect |
| `TraceChainsVouched` | a chain is joined only with a signature made for it |
| `ProtocolVerdictFollows` | the verdict follows the declarations |
| `HookTrailKeepsEvidence` | a trail has each answer of the judge once, unless an error or a foreign marker kept it out |
| `BootstrapCommitsVerified`, `BootstrapQuietCycle` | nothing unverified is committed; a quiet cycle leaves fresh matchers |
| `HarnessContentSurvives`, `HarnessFileLoads` | deployments lose no content but in two named cases; what they leave loads |
| `ParetoFrontier` | the frontier is the Pareto set |
| `TraceFailedIsNotOk` | a failed trace is not marked ok |
| `TraceLoadReturns` | a trace that loads returns its recorded steps in order |
| `PolicyFirstMatchWins` | walk, index and sorted list answer with the first rule that applies |
| `PolicyGeneratedAgrees` | the generated matchers answer as the engine, action included, for rules as `config/policies.yaml` has them |
| `ChatToolsAreJudged` | no tool escapes judgement by where it is declared |
| `ProtocolScanTells` | the gateway's report about itself is true |
| `GateSees` | code in plain sight that is dangerous in the part that is read is blocked, unless there are too many fragments; what is blocked stands under a key of its language |
| `GateJudges` | code is judged by what it does: no harm of a straight program within reach passes if no pass raises, the taint pass accuses no harmless call |

Besides, `BreakerInvariant`, `GatewayKeepsBreakerInv`, `GatewayInvariant`,
`StorageInvariant`, `LeaseInvariant`, `ReloadInvariant`, `LethInvariant`,
`TraceContextInvariant`, `ProtocolInvariant`, `HookInvariant`,
`BootstrapInvariant`, `HarnessInvariant`, `ParetoInvariant`, `TraceInvariant`,
`TraceRecordInvariant`, `PolicyInvariant` and `GateInvariant`
state the inductive invariants described next. TLC checked each of them as an
invariant on the configuration of its component's run before it was proved.
Each proof has a lemma for the initial state, one per action or group of
actions that does the same, and a theorem that combines them.

**The breaker** (`BreakerInv`). The conjunction of the six
invariants and `LocalsOK`. None of the six is inductive alone. That a trip's
save writes what memory holds needs the mutex (`LockDiscipline`), since only an
owner may change the globals. `NoReaccumulation` needs that a sampled `now` is
never ahead of the clock: a grant then saw `now >= tripped`, and the count may
rise only if the window is over at the clock too. `WindowBounded` needs the same
for the window a trip opens, and needs the bound on the row and on every
outstanding save, because a restart turns the row into memory.
`PersistedWindowIsCurrent` needs that whatever a non-tripping handler is saving
is the cleared state, so a late reset can clear the row but never put an old
window into it, and that `rowFailed` covers the time from a failed exchange
with the row, a save or a load, to the next that succeeds. `LocalsOK` is those facts about `now`, `arg` and
`db.count`.
In the refinement waits, saves and their releases stutter, and `Restart` maps
to `ReloadState` by `WindowBounded` and the persisted count being 0.

**The gateway** (`GatewayInv`). Every action conjoins a breaker action or leaves
`breakerVars` unchanged, so that the breaker's invariant and its refinement carry
over by a lemma. What the handlers promise needs `HandlersInv`: the four invariants
and, for each handler (`RequestsOK`), that its locals are set in the order of
the code (nothing is decided before the save, the trace is known from the start)
and that a stop that is owed (`stopped[r]`) is still in the registry. The last
is what a handler finds when it looks there, after any number of revocations by
others; an eviction is the only step that takes an entry away, and it takes the
debt away as well.

**The storage** (`StorageInv`). `QueuesOK`: both buffers are in order of
arrival, the degraded one before the other, and the evicted are older than both.
`RoundOK` describes the middle of a round of `flush_pending`: what the loop has
still to try and what it could not write are parts of the degraded buffer, in
order, and the rest of it is in the table by now. Without it a round that
succeeds in part could lose or reorder records. `TxnOK`: a row in the open
transaction has another home, so that the refinement can forget the
transaction, whatever SQLite does with it. `TriesOK` relates the attempts of a
record to the counter of failed rounds: it was tried no more often than rounds
failed since it joined, and at the cap every failed round empties the buffer
(`RoundsBehind`).

**The lease** (`LeaseInv`). `HolderOK` and `WriterOK`: whoever reads or writes
holds the file lock, and a writer still has what gave it the right to write,
since nobody else writes meanwhile and time only takes from a deadline.
`GuardOK` relates a deadline that was read under the lock to the lease as it is
when the deadline is compared, after the lock was left: it is the lease's, or
the lease was lost since, when the deadline had passed. Both allow for a read
error that let somebody take a lease in force.

**The reloads** (`ReloadInv`, `LethInv`). `LoadsAreCurrent`: a load that was not
overtaken by an edit holds the rules of the present file. `StampIsHonest`: the
kept time stamp is that of the file only if its rules are in force, unless an
edit fell between a parse and its stamp. For the weights, where the stamp comes
first, `TimeIsHonest` allows for the loads in progress instead, and
`InstallsAgree` says they all bring the same content, unless loads of different
contents overlap.

**The call chain** (`TraceContextInv`). A signature speaks of a trace and parent
that its maker knew (`SignaturesSpeak`), stored rows keep their form
(`RowsTyped`), no key is short (`KeysAreLong`).

**The protocols** (`ProtocolInv`). The rules are those of a directory that loads,
three of each protocol with their actions, in order of priority (`RulesSound`); the rule found is the first that matches (`HitIsFirst`);
the verdict is that of the rule and of the validator, unless it was exchanged
meanwhile (`VerdictIsOfHit`). That the sorted rules are a permutation in order of
priority rests on `Ranking`: in a strict total order on a finite set each rank
is taken once (`RankProofs`). For the report (`ProtocolScanTells`) nothing more
has to be invariant: each claim of the scan is put beside the request that shows
it, which `SelfAuditAssumption` says there is, and the rules a module has are
found again among the introspected ones.

**The policy engine** (`PolicyInv`). The list in force is the last accepted
file, sorted; the answer is what `Evaluate` makes of it. What `Evaluate` makes
is the longer half: that a node is reached segment by segment exactly when the
segments can be laid along its address (`Selects`), by induction over the number
of segments; that a rule the index prunes reaches nothing; that the least hit of
the sorted list is the hit of the smallest priority, the earliest in the file.
`GeneratedAgrees` then compares two minima over the same list, and
`ToolsAreJudged` the places where names may stand with the addresses that
`Entries` and `CallsIn` enumerate; the weights need that a largest one exists
among finitely many.

**The gate** (`GateInv`). What it holds is what `Extract` makes of its body.
That extracted code stands under a key of its language follows step by step
from what a visit takes. That code in plain sight is extracted goes along its
address: no container on a plain way can have a text of another key, so that
the walk goes on there. The order of the body is strict and total on the code
found, since none of it stands beneath other (`FoundNotBelow`), so that by
`Ranking` each piece has its place, and all of them are in the answer unless it
is full.

**The judgement** (`GateJudges`). What a fold and a run say of an expression is
compared node by node, from the leaves of the tree upwards (`FromBelow`, an
induction over the height of a node). The folds of a node tell its value
(`Tells`): a fold without the mark is the text that the expression has, the
alias of a dangerous name says that it has that function, and a text it has is
folded. Where the queries find nothing, a dangerous function it has is folded,
too (`Reaches`). `NodeAgrees` is one step of this, with a lemma per type of node.
A fold may begin with an alias and go on; that it is then nobody's alias is where
no name may begin another (`WellFolded`, `Together`). All this holds
under a table that agrees with the names in force. The table is that of the
whole file, read at every call, while the program has only the names of the
statements before: that both agree on the names an expression uses is what
`Straight` gives, by an induction over the statements, along which the
assignments stand in the order of the walk (`AssignmentOrder`, `TableKnows`). A call
accused by the taint pass is then one that reaches a dangerous builtin
(`TaintIsRight`); a call that reaches one is found by its name, by the queries
for literal keys, or by the fold (`HarmIsFound`).

**Inductions.** The library's induction theorems take an operator, which the
provers cannot instantiate. `RankProofs` has one over the naturals
(`CountingUp`: a set that has 0, and n + 1 with n, has every natural), used for
paths, digits and prefixes through the set of numbers for which the claim holds.

**The audits** (`HookInv`). A decision is inserted once (`InsertedOnce`), before
its audits (`InsertedIsPast`, `NothingOwedYet`), and only what was inserted is
recorded (`RecordedIsInserted`). What the table promises is said of the table as
the connection sees it and of the table as it was committed (`SeenTable`,
`SavedTable`), since an error may leave either behind: rows stand in the order of
their insertion, none twice, so that trimming cannot reach one that is kept
(`Placed`), and each trail has its kinds once, those that answers called for but
for what failed or was masked.

**Bootstrap** (`BootstrapInv`). What the cycle is about to stage passed its
verification (`StagedWasVerified`), whatever people staged and committed besides.
`QuietFixIsFresh` carries what an undisturbed cycle generated to its end.

**The harness** (`HarnessInv`). The file is its last whole content or torn; unless
an edit came late or a good backup was overlaid, that content is in the file or in
a backup, and from the backup to the write it is in a backup (`BackupInv`). For
`HarnessFileLoads`, whatever is or may become the file loads (`FilesInv`): the
file, the backups, what was found deployable, and what is being merged.

**Pareto** (`ParetoInv`). All points kept are scored ones (`FrontierIsScored`),
none dominates another (`Antichain`), and each scored point is kept or dominated
by a kept one (`FrontierCovers`). The last survives the removal of a dominating
point because domination is transitive, which is a lemma over the integers.

**Traces** (`MarkInv`). A failed step has left its mark (`FailIsMarked`); the
trace is ok in memory only unmarked and after its `with` block
(`OkIsUnmarked`); the manifest does not run ahead of the memory
(`ManifestFollows`). For `load` (`RecordInv`): the steps in memory are numbered
in order and at most one of them has not returned (`StepsInOrder`), and the
files are theirs, torn or with their number (`FilesOfSteps`). That the sorted
names give the numbers in order (`NamesSortAsNumbers`) is arithmetic: the first
digit in which two numbers differ decides, since what follows is less than its
place value.

## What is only model-checked, and what is not modelled

Only model-checked, of the properties the passing runs check:

- `EveryHandlerLeaves`, `EveryRequestAnswered`, `CrashedIsReplaced`: liveness,
  whose fairness and ENABLED are outside the prover's reach.

Every safety property they check is proved.

Not modelled, with the reason:

- `task_scheduler.py`, `rate_limiter.py`: no module of the service imports them;
- `proposer/`, the prompts of `meta_harness/proposer_llm.py`: text in, text out;
- `critic/`, `agent_tools/`: sequential command-line reviewers without state;
- `certification/`: cryptography and file I/O;
- `judge/`, scripts, examples, configuration: a separate stateless service,
  development tools and data;
- the character mappings of `norm.py`: `ChatTools` has the normal form of each
  name as a constant;
- queries other than the ones for builtins, and the pattern language of regular
  expressions: a piece of code has the languages that capture it, a pattern the
  words it matches;
- readers without effect (`get_meta`, `get_events`, most of `storage.py`'s),
  report wording and scores;
- exhaustion of the thread pool by evaluations that outlive their timeout, and
  cancellation of a handler by a closing connection.

## Where the code and its words differ

| Run | The words | The code |
|---|---|---|
| `breaker_volatile` | "restart must not reset counters" (`main.py` 1116; `storage.py` 80-81; `docs/architecture_narrative.md` 159) | `Storage()` is in memory: a restart forgets the window. Besides, the count that is saved is always 0, so that no restart keeps escalations even with a file |
| `breaker_save_race` | the same | with a file: a reset saved outside the lock can overwrite a later trip |
| `gateway_chat` | requests of a revoked trace are suspended (`revoke.py` 3-4, `semantic_hook.py` 414-416) | `/v1/chat/completions` does not look at the registry |
| `trace_context` | a request without parent is the root of its chain, anchor of the recursive query (`main.py` 155-156) | with signing on, signed headers that name no parent give the parent `""` (`context_hmac.py` 113, `main.py` 175), and `get_trace` starts at rows whose parent is NULL (`storage.py` 290): the decision is in no tree |
| `storage_shutdown` | the last decisions are "not lost silently" (`main.py` 1052-1053) | one failed round below the retry cap leaves them in memory, with no word in the log |

Seen while modelling, and visible in the models without a run of their own:

- `tests/test_circuit_breaker.py` 13-14 says of the escalation count that "only
  ALLOW or a trip resets it"; a SUSPEND rule, which holds the request back, shares
  the branch and resets it too (`main.py` 309-319, `Resolving`).
- A handler that waited for the lock opens a window counted from its stale
  `now`, so that it may be shorter than the cooldown (the contract bounds
  windows from above only); an ESCALATE that comes from a timeout does not count
  towards the limit; a record can be in the table and in the fallback log, which
  `storage.py` 12 describes as the log of records SQLite cannot accept.
- `ha_design.md` 77 says that two primaries can never write at once; the guard
  lets the old one through up to the tolerance after a takeover
  (`SplitIsBounded`), and what it let through may be written at any later time:
  nothing limits the time from the check to the write (`StorageWrite`).
- An edit of the policy file between parse and stamp is never loaded, though
  `tests/test_policy_hot_reload.py` 75-77 expects every edit to be picked up
  (`QuietEditTakesEffect` allows for it).
- The drift audit compares with the window as it is when the audit runs, later
  requests of the agent included. Prompt, code and output audits share one
  marker, so that a decision's trail has one step for the three. The marker is
  searched in the whole text of the trail (`observer.py` 390): a tool, rule or flag
  of its name keeps the step out, though line 345 says only a recorded step does
  (`masked`).
- The enforce rule also matches a protocol whose dump has "satisfied" before
  "triggered" (`protocol_gateway.py` 183-184, `Plain`). `evaluate_verified`
  reads the validator a second time after validating, so that one exchanged
  meanwhile mixes two in a verdict; no property judges that (`protoSwitched`). A
  provider's confidence that is no number is converted outside the `try`
  (`verification.py` 324, 332) and raises.
- `to_dict` of the introspection keeps no priority, so that the scanner's
  priority collisions can never be found; modules whose names have a digit or a
  dash are left out of its report, and the list of blind spots is cut.
- SQL that does not parse is scanned once per starting point, so that a stray
  error is not scanned when the first statement of the file has an error, too.
- The generated matchers take a rule without a method for POST, the engine for
  any; they compare methods and repeat actions in the case of the file, and give
  "None" for a missing action, where the engine takes upper case and ALLOW. They
  double the backslashes of a pattern (`_escape`, `codegen/generator.py` 101)
  inside a raw literal (107), so that it matches other words than the engine's, or raises, though 94-96 say
  "equivalent"; rules with a JSON path ignore the path, `tool_args` are left out, two
  names can become one identifier (`Compilable` states what remains).
- `commit_fix` commits without a path: what others staged goes along
  (`sweptFiles`). Return codes of `git add` and `git checkout` are ignored.
- A deployment that runs after one that died between truncating and writing
  reads the torn file as no rules, and only the backup has the old ones. Within the
  second it backs the torn file up over that backup (`sandbox.py` 186-188), and
  an edit between its reading and its write is overwritten without a copy, though
  165 calls a deployment reversible (`overlaid`, `lateEdit`).
- A candidate's verdict is not renewed when it is deployed: it is merged into
  whatever the file is by then, conflicts and all (`DeployedFileLoads` says what
  still holds).
- A chat body that is a list ends in an error of its model class, not in a verdict.
- The order of a trace's steps breaks at 1000, where three digits end; a torn
  step file makes `load` raise.
- `merge_policy="strict"` (`pareto/loop.py` 11) holds nothing back.

## Plan

1. **Core** (done): breaker, handlers, storage; the breaker's theorems.
2. **More of the system** (done): reloads, policy engine, code gate, chains,
   protocols, lease, observer and audits, bootstrap, traces, harness, pareto.
3. **Proofs** (done): the safety of the gateway, storage, lease, reloads, call
   chain, protocols, audits and the loops, and the refinement of the storage;
   then what the pure algorithms compute: the policy engine, the generated
   matchers, the chat tools, the code gate, the order of a trace's steps, the
   report about the protocols, that code is judged by what it does.
4. **Further**: action properties that say which steps may shorten a breaker's
   window or remove a revocation; a program that assigns a name twice, for which
   one table for the file is not enough.
