# Verification of grokbot-mcp-bridge

The bridge lets an MCP client (Poke) ask Grok Bot a question through a webhook
and collects the answer, which arrives later as an HTTP callback. One process
serves everything; runs and events live in one SQLite file. What is hard in it
is time: a run can be answered, cancelled and expired by different threads in
the same moment, calls wait for it on an event loop, clients give up, and the
process may stop anywhere.

All paths below are relative to the repository. TLC checks the modules on small
instances (the `.cfg` files); the proofs are checked by TLAPS.

## 1. Inventory

| Part | State | Operations | What makes it correct |
| --- | --- | --- | --- |
| run and event store, `app/db.py` | tables `runs`, `events`, their AUTOINCREMENT counters, `_schema_ready` | `ensure_schema`, `insert_run` (with `_cap_terminal_runs`), `update_run_upstream`, `get_run`, `run_answer`, `cancel_pending_run`, `resolve_callback`, `list_runs`, `prune_store`, `store_event` | a run is decided once and for good; what callers are told is what is recorded; answers reach the run they echo; `answered_at` is right; nothing pending is deleted and nothing is deleted early; stale runs end |
| waiter registry, `app/waiters.py` | `_waiters`: run_id to a set of `asyncio.Event` | `acquire_waiter`, `release_waiter`, `notify_waiters` | no event is left behind, no wakeup is lost |
| tools, `app/tools.py` | the locals of each coroutine | `ask_grokbot`, `wait_for_grokbot_answer`, `get_grokbot_run`, `cancel_run`, `list_grokbot_runs`, read-only ones | every call returns; a decision in time is returned; all clients learn the same |
| routes, `app/routes.py` | the locals of each coroutine | the callback, the inbound webhook with its confirmation, `read_limited_body` | the answer is stored, then the waiters are notified; the body limit is exact; the sender of an event is told what happened to it; a confirmation names its own event |
| cleanup, `app/retention.py` | none | `run_cleanup`, `notify_expired_runs`, `cleanup_once`, `cleanup_loop` | comes back after a failure; notifies on the event loop |
| lifespan, `app/main.py` | the cleanup task | start, stop | cleans up before the first request |
| rate limiter, `app/rate_limit.py` | `_hits`: key to a deque of times | `allow` | no window holds more than the limit; nobody is refused below it; waiting `retry_after` is enough and needed |
| answer texts, `app/answers.py` | none | `extract_answer_text`, `clamp_wait_seconds`, `status_summary` | the first usable field in the documented order; no wait beyond the cap |
| authentication, `app/auth.py`; URL inspection, `app/ssrf.py` | none | `require_mcp_auth`, `verify_signature`, `inspect_callback_url` | the confirmation goes where the inspection looked; what is refused leaves no event |
| configuration, `app/config.py` | none at run time | `_int_env` | garbled or extreme values stay in bounds |
| MCP mounting, log redaction | none | | |

How they interact: a tool or route calls a function of `app/db.py`, most of
them through `asyncio.to_thread`, so that it runs on a worker thread with a
connection of its own; `get_grokbot_run` and `list_grokbot_runs` call it
directly. When a call decided a run, its coroutine then calls `notify_waiters`,
which sets the events of the calls that wait in `_wait_for_run`. Those read the
run again. Reads expire a run that is past its TTL, and so do the list, the
callback route and the cleanup; not all of them notify. Grok Bot is on the
other side of the webhook and of the callback, Poke on the other side of MCP.

Hard behaviours: three compare-and-set races on a row (answer, cancel, expiry)
with a second read after a loss; deletion of rows by two different rules in
between; statements that wait up to ten seconds for the lock with arguments
computed before; registration, read and notification on two sides of an await;
cancelled coroutines whose thread goes on; restarts; bodies that arrive in
chunks and stop in the middle; a body that is parsed a second time after its
event was stored; time that is cut into slices and rounded to seconds.
`PROJECT.json` lists each at its line.

## 2. Modules

| Module | Models | Extends |
| --- | --- | --- |
| `RunLifecycle` | abstract: what the run table promises | |
| `RunStore` | `app/db.py`, statement by statement, with startup and cleanup | |
| `RunStoreProps` | its properties, its inductive invariant, the refinement | `RunStore`, instance of `RunLifecycle` |
| `RunStoreProofs` | its theorems: types, answers, refinement, finality | `RunStoreProps` |
| `RunStoreCallProofs` | its theorems about what calls know and tell, stamps, deletions, events | `RunStoreProofs` |
| `MCRunStore` | symmetry for TLC | `RunStoreProps` |
| `Bridge` | the event loop: tools, routes, cleanup, registry, Grok Bot | `RunLifecycle` as the store |
| `BridgeProps`, `BridgeProofs`, `MCBridge` | its properties; the theorems; values for TLC | `Bridge` |
| `InboundHook` | the inbound webhook from its first byte to the confirmation | `RunStore` as the event store |
| `InboundHookProps`, `MCInboundHook` | its properties; one delivery of each kind | `InboundHook`, `RunStoreProps` |
| `InboundHookProofs` | the theorems, on those of the event store | `InboundHookProps`, `RunStoreCallProofs` |
| `AnswerPath` | callbacks chunk by chunk, the time a client waits, the text it gets | |
| `AnswerPathProps`, `AnswerPathProofs`, `MCAnswerPath` | its properties; the theorems; values for TLC | `AnswerPath` |
| `RateLimiter` | `allow`, the bucket of a call, the configured limit | |
| `RateLimiterProps`, `RateLimiterProofs`, `MCRateLimiter` | its properties; the theorems; values for TLC | `RateLimiter` |

### RunLifecycle

A run is created pending, decided once, and may be removed only if an earlier
step decided it; an answer is one addressed to the run. `Sweep(E, D)` expires
the runs `E` and removes the runs `D` in one step, which is what a cleanup does.
It is the abstract specification of the store, and the store the event loop is
modelled on.

### RunStore

`calls[w]` is the call that worker thread `w` executes: its function, the
statement it has come to (`at`), and its locals. `runs[r]` is the row of run
`r` as it was last written, kept after deletion as history; `present` says
which rows exist. A token and a run_id name the same row, so both are the run.

Granularity: a SELECT outside a transaction is one step. Python's `sqlite3`
opens a transaction at the first UPDATE, INSERT or DELETE, which takes SQLite's
write lock until commit; other connections see nothing of it before (WAL). So
from the first write to the commit is one step. Between two steps of a call any
other call may run, and the clock may advance. Two details depend on this:

- An instant that the code computes before its write waits for the lock is an
  instant of the past when it is written. `began` is when the function was
  entered (`created_at`, the `now` of a cancel, the `moment` of a prune),
  `seen` when the row was judged; stamps computed in between are chosen from
  that interval.
- `expire_stale_pending` takes its list before its first write. `Scan` is a
  step, the transaction another one, and `Expiries` lists what the loop may
  expire: all rows of the list that were stale at the scan, possibly those that
  became stale since, never one decided since.

| Action | Code |
| --- | --- |
| `Startup`, `EnsureSchema`, `Crash` | `lifespan`, the first `db()` of a process |
| `Begin` | a request, or the cleanup loop, enters a function |
| `InsertRun`, `UpdateRunUpstream`, `StoreEvent` | single transactions |
| `ReadRun`, `CasExpire`, `Reread`, `CancelWrite` | `get_run`, `run_answer`, `cancel_pending_run` |
| `ReadCallback`, `CasExpire`, `AnswerWrite`, `Reread` | `resolve_callback` |
| `Scan`, `ListCommit`, `PruneCommit` | `list_runs`, `prune_store` |
| `Fail` | a statement raises; the transaction is rolled back |

Rows of an earlier version (`Old`) are in the database at the start: decided
ones may carry no `answered_at`, and those in `Unnamed` have a NULL run_id,
which matches no `WHERE run_id = ?`. The backfills of `ensure_schema` and of
`prune_store` are modelled.

### Bridge

A coroutine runs without interruption from one await to the next: one action.
A call through `asyncio.to_thread` is a `job`: the function runs on its thread
in a step of its own (`...Job`), and the coroutine resumes later
(`Resume...`), so anything may happen in between. `task[w]` is a call of
`ask_grokbot` or `wait_for_grokbot_answer`; `handler[h]` a request that may
decide a run (callback, cancel, list, cleanup), which first works on a thread
and then *owes* a notification. `waiters[r]` is the registry. A call has one
event at a time, so the event is the call; `flag[w]` says whether it is set.
`late` says that the wait time is over and, for `DecisionNotMissed`, whether the
run was decided by then.

The store is `RunLifecycle`, which `RunStore` implements: one function of
`app/db.py` is one step, except `run_answer`, whose lazy expiry is a second one
because a deletion in between shows in its result. `stale` are the runs past
their TTL. A request that came while the run was fresh may still answer or
cancel it after the TTL, as in the code.

The client may give up at any await (`ClientGone`): `CancelledError` runs the
`finally`, but a thread that has begun goes on, without a task ("detached").
`cancel_run` may be cancelled between its commit and its notify
(`CancelRunGone`; the variable `unannounced` records it). Any database call may
raise. `Restart` empties everything but the store.

Which thread runs the synchronous tool `list_grokbot_runs` depends on the MCP
library; the model allows other steps between its read and its notification.

### InboundHook

The composition of the webhook's coroutine with the event store: `req[q]` is a
delivery, `at` the await it has come to, and worker `q` of `RunStore` the thread
that stores its event, so the trim, the cleanup, failures and crashes are those
of the store. `stored` and `wire` are history: events that were committed,
confirmations that a receiver got.

| Action | Code |
| --- | --- |
| `Arrive`, `Refuse`, `Accept` | reading and authentication; the answers that leave no event |
| `StoreStep` | `store_event` on its thread, and the cleanup |
| `AfterStore` | the second `json.loads`, the choice of the URL |
| `Inspect` | `inspect_callback_url` with its lookup, on a thread |
| `PostRaises`, `Deliver`, `PostReturns`, `PostFails` | the confirmation |

A message is what the code tells apart: what was signed, the timestamp header,
the bearer, how its body parses, its three URLs. `json = "raises"` is a body
`json.loads` refuses with something else than `JSONDecodeError` (a
`RecursionError`, or the `ValueError` of a huge integer), which `store_event` survives and the
handler does not. A URL is a record of what `inspect_callback_url` looks at;
`sendable` says whether httpx can send to it. DNS is external: each lookup may
return any of `Lookups`. So is the receiver: it may answer or not, and may have
got a confirmation that the sender sees fail.

### AnswerPath

`read_limited_body` chunk by chunk, `resolve_callback`, the notification, the
reader of the run, and `extract_answer_text` key by key. It has what `Bridge`
abstracts: the size of a body, the content-length header, the echo as it is found
in the body, time in ticks, and the text. In return it has one reader and no
failures of the database. Only waiting takes time (`Elapse`): reads of the row
and steps of the event loop take none. `slept` counts the ticks of the `wait_for`
the reader is in, `spent` those of the whole wait; `Slice` is
`min(0.5, remaining)` as computed when that `wait_for` began. What a body says
is chosen when it is parsed, since nobody looks at it before, and the header is
forgotten then, to have fewer states. `since` is history.

### RateLimiter

`log[k]` keeps every hit of a bucket since the start of the process, `head[k]`
says where its deque begins, so "popped" and "never admitted" stay apart. Both
tools that are limited call `allow` before their first await, so a call is one
step. The clock, a float in the code, is counted in ticks, `Unit` to a second;
`int(x) + 1` is `x \div Unit + 1`. A restart loses all hits and may bring
another limit (`IntEnv`).

## 3. What is checked

`PROJECT.json` names for every property a mutant of the code it catches.

| Run | Instance | Shows |
| --- | --- | --- |
| `StoreRaces` | 1 run, 2 threads, all functions, 2 texts, TTL 1, retention 1, clock 0..3 | one decision, final, never reported otherwise; stamps; "pending" is honest |
| `StoreCap` | 3 runs, 2 inbound events, 2 threads, cap 1, no expiry | callbacks stay with their run; reports agree while rows are deleted; deletions justified, pending rows stay; `RunLifecycle` implemented |
| `StoreDecides` | a new run and an old row without run_id, 2 threads that insert and clean up, cap 1, TTL 1, retention 1, clock 0..4, crashes, fairness | rows of an earlier version are stamped before they can be deleted, deletions stay justified; while the process serves again and again, stale runs end and decided runs leave |
| `BridgeSafe` | 1 run, 2 tool calls, 2 handlers of all kinds | no leak, no lost wakeup, one outcome for all clients, no decision missed |
| `BridgeLive` | 1 run, 2 calls, 1 handler, fairness | every call returns with its timers; the notification alone is enough for an answer |
| `InboundHook` | 2 deliveries of 7 kinds, the cleanup, cap 1, retention 1, restarts, 5 answers of DNS about two public addresses and a private one, fairness | event ids are unique for good; responses are true; confirmations name their own event and go to an address inspected for them; events are kept; every delivery ends |
| `AnswerPath` | 2 callbacks of 3 sizes and 4 headers around a limit of 2, 39 kinds of body, a client of either tool that asks for -1, 0, 1 or 9 s, a cap of 1 or 2 s of 3 ticks, polls of 2 | answers are whole; the limit is exact; decisions are noticed in one poll; waits end when the client or `MAX_WAIT_SECONDS` says, not before and not after; the text is the first usable |
| `RateLimiter` | 2 buckets, 5 limits, 9 ticks of half a second, window 2 s | the limit per closed window; no early refusal; `retry_after_seconds` to the second |

Four runs end in a violation: the code does something else than its documents.

- `StoreKeepCap`: `insert_run` caps the decided rows at `MAX_EVENTS` in order of
  creation, so a run that expired (or was cancelled) just now is deleted if
  it is old. `SPEC.md:117` promises a full retention window.
- `StoreGone`: a callback that lost to a cancel and finds the row gone is told
  410 expired, which `SPEC.md:72` reserves for expired runs.
- `StoreOldPending`: a pending row from before the run_id column is never
  expired, against `SPEC.md:116` and the docstring of `expire_stale_pending`,
  also if the process stays up and its cleanup returns.
- `AnswerPresent`: `SPEC.md:61` takes the answer from the first *present* field,
  `extract_answer_text` from the first *usable* one: a field that is there but
  blank, or of another type, is skipped for a later one. What the code does
  promise is `TextFirstUsable`.

### Bounds

`MaxTime` bounds the clock, `MaxInbound` the events; `Run` bounds the inserts,
because a run_id is a fresh uuid. The clock runs to 3 with a TTL and a retention
of 1: a run can be created, become stale (2), expire, and outlive its retention
while a slow call of its first instant is still under way. Two threads suffice
for a compare-and-set and its rival; the rival may finish and start again, so a
third call in the gap (cancel, then insert whose cap deletes) occurs with two
threads too. `StoreGone`, `StoreKeepCap` and
`StoreCap` need three runs with a cap of one: a decided row younger than the one
in danger, and an insert.
A second run matters only to callbacks that name another run and to the cap.
In `Bridge` the runs do not interact except through `Sweep`, so one run is
enough; two calls and two handlers give two clients of the same run and a
callback against a cancel.
In `InboundHook` the cap of one makes every second event trim the first, and the
clock lets the cleanup delete one while its confirmation is under way.
In `AnswerPath` the limit of 2 is reached by one chunk, by two, and exceeded by
one byte; a wait of 1 s (3 ticks) ends in the middle of its second poll, and one
of 2 s is three polls exactly. A client asks for less than the least wait, for
one below a cap of 2 s, and for more than any cap. Every field of a body occurs
as the first and as a later one, and a text follows a blank one, a list or a
value of another type.
In `InboundHook` a second lookup may return the other public address, so that
connecting to what is public but was not inspected would show.
In `StoreDecides` an old row meets only inserts and cleanups; that its stamps and
its deletion stay right when it is read, cancelled or answered as well is
`StampsAgree` and `DeletionsJustified`, which hold for every set of operations.
In `RateLimiter` the clock spans two windows, and hits lie before, at and after
every edge. What one instance leaves open for a safety property, the proofs of
section 4 settle; the liveness properties rest on the instances.

The deadlock check is off only in `AnswerPath`: both callbacks and the call end.

### Fairness

`FairSpec` of the store assumes that the clock advances, that threads which
have begun take their next statement, and that *while the process stays up*
(`StaysUp`) the cleanup keeps coming back and its statements do not fail for
ever: `cleanup_loop` catches every exception and sleeps, and the thread pool
takes its calls in order. It needs `CLEANUP_INTERVAL_SECONDS > 0`; with 0 the
loop ends and only startups and reads expire runs.

Nothing is assumed of a startup. `fly.toml:14-16` stops an idle machine
(`auto_stop_machines = "stop"`, `min_machines_running = 0`) and starts it for a
request (`auto_start_machines`): a machine that nobody calls stays down, and its
rows stay as they are, past their TTL and past their retention. The liveness
properties of the store therefore have a premise, `ServesAgain`: the process
serves again and again, because it stays up or because requests start it. It
serves only after the cleanup of its lifespan, so if it is stopped and started
for ever these cleanups do the work, and if it stays up those of the loop. A
request about the run itself is not assumed, nor is one about any run.
`EveryStaleRunEnds` has the same premise, so its violation is due to the code
and not to a machine at rest.

`EventSpec` of the bridge is `Spec` with `Responsive`, what asyncio gives: ready
coroutines resume, threads end (SQLite's timeout is 10 s), the POST ends (httpx
timeout 30 s). `EveryCallReturns` assumes `Timers` besides: a `wait_for` of at
most 0.5 s ends, and the wait time is over at last. `AnswerWakes` does without.
Neither assumes anything of Grok Bot, of the other clients or of the cleanup.

`HFairness` of the inbound webhook: the thread that stores the event ends, the
handler resumes, a lookup returns, the POST fails at last if the receiver does
not answer (httpx's timeout). A delivery counts from the moment its body was
read: nothing in this program bounds the time a sender takes for its body.

## 4. What is proved

Every invariant and every action property of the passing runs is a theorem, for
all values of the constants that satisfy the named assumption of the module, and
so are the refinement and the composition of the event loop with the store. Each
proof rests on an inductive invariant that is stronger than the property: what a
run checks looks at the end of a call, and the invariant has to say what the
call knows in the middle.

### The store

`StoreAssumption`: the constants have their types, the old rows are finitely
many, `MAX_EVENTS` (1000 in `config.py`) is positive. Sets of runs, threads,
texts and operations are arbitrary.

- `StoreInvariance`: `StoreInv` strengthens the type invariant and
  `AnswerBelongsToRun` by what calls in flight know: their
  instants lie in the past and a scan is judged after its call began; a call
  about a run names one that exists; a callback past its checks echoes the run
  it was addressed to, which is what makes `AnswerBelongsToRun` inductive, since
  the check and the UPDATE are two steps; inserts in flight have distinct fresh
  run_ids, without which an insert could reset a decided run.
- `TypeCorrect`, `AnswersBelong`, `DecisionsFinal`: from it.
- `StoreImplementsLifecycle`: one lemma per action under the refinement mapping.
  The cap and the prune are the delicate steps: what they delete was decided
  before the step.
- `CallInvariance`: `CallInv` adds what a call has learned. Its central part is
  that a call which rereads has lost to somebody (`CallLost`), and that what a
  finished call was told is the decision of the row, deleted or not
  (`CallReports`): both hold because a decided row never changes again. For the
  stamps it keeps the instants apart (`CallTimes`): a call entered before its row
  was created stamps nothing on it, what it will expire was stale when it was
  judged, and staleness only grows. `RowTimes` bounds the stamps of all rows;
  a decided row without one is of an earlier version, and only until
  `ensure_schema` has run.
- `ExpiriesHonest`, `StampsAgree`, `ReportsHold`, `LosersLearn`: from it.
- `AtMostOneWinner`: a call wins in the step that decides the run, so every
  earlier winner would have left a decided run, which that step cannot decide.
- `PendingToldHonestly`: a row is judged in the step that answers "pending", or
  it was deleted while the call tried to expire it.
- `DeletionsJustified`: the cap deletes what is outside the `MAX_EVENTS` youngest
  decided rows, and those all stay; the prune, what is past its retention.
- `EventsAreKept`: the table never exceeds the cap. The trim runs on one row more
  than the cap, so it removes one row at most; that it removes the oldest
  follows from a counting lemma and from the fact that each nonempty set of
  naturals has a least element, which replaces induction.

### The event loop

`BridgeAssumption` types the constants. `BridgeInvariance`: `BridgeInv` says for
each task, at each await,

- that the registry has it under its run exactly while it waits (`Registered`);
- that if it *looked*, which is more than that it sleeps (it found the run
  pending and has not cleared its event since, or has its expiry under way), a
  decision that is announced has set its event, or a handler still owes the
  notification (`Woken`). Without the states between the read and the sleep this
  is not inductive: they are the ones in which a wakeup could be lost;
- that what it was told of a decision is the decision (`Agrees`);
- that if its time ended after the decision, its last read is still to come, or
  has returned the decision (`Timely`).

`BridgeTyped`, `RegistryExact`, `NoLostWakeup`, `ToldTheSame` and
`DecisionsReturned` follow. `StoreUsedAsSpecified` is `Spec => LSpec`: every step
of the loop is one of `RunLifecycle`. With `StoreImplementsLifecycle` the two
halves meet in the same abstract specification, which is the reason to use it as
the store.

### The inbound webhook

`HookAssumption` types the constants and says that what a lookup returns are
addresses. `HookInvariance`: `HookInv` contains the invariants of the store
(`StoreInv`, `EventsInv`), since the steps of its calls are those of `RunStore`,
and says for each delivery which event exists at which await (`Stage`), which
confirmation (`WireOK`) and what the response may say (`Truth`).
`IdsAreUnique` rests on `lastEvent`, which no deletion and no restart lowers,
`OnlyInspected` on the history `inspected` of a delivery: the pinned address is
one of them, and the confirmation goes there.
`SenderToldTruly`, `ConfirmationsOwn`, `OnlyInspected`: from it; `HookKeepsStore`
and `HookKeepsEvents` say that the composition breaks nothing of the store.

### The way of an answer

`PathAssumption` types bodies, headers and limits.

- `PathInvariance`: `PathInv` is the types, `WholeAnswers`, `Prompt`, and three
  parts that make the properties inductive. `RightTimeout`: the wait time was
  computed from what was asked as `clamp_wait_seconds` promises (`WaitClamped`,
  `WaitInTicks`), and no more of it is spent; `WaitBounded` and the end of a
  wait in `PendingWhenOver` follow. `CallsInFlight`: what is known of a callback between its await points, as that the header of a call in
  its stream was not too long. `ClientWaits`: a run was decided no longer ago than
  its sleeping client fell asleep, and a callback that was told "ok" has set the
  client's event.
- `BuffersBounded`, `AnswersWhole`, `WaitsBounded`, `DecisionsPrompt`,
  `LimitsExact`, `PendingHonest`: from it.
- `FirstUsableTextTold`: the loop over the fields has found all earlier ones of no
  use (`TextSound`). That `TextBlocks`, a recursive function, returns exactly the
  positions of the texts, in order, for a list of any length, is the lemma
  `TextBlocksRight`; its induction is a minimal counterexample (`Least`, `UpTo`).

### The rate limiter

For every window, unit, limit, set of keys and clock:

- `LimiterInvariance`: the invariant `LimiterInv` says that the deque is the part
  of the log that can still be in the window: the hits are in order, none is in
  the future, those before `head` are out of the window, and the deque is never
  longer than the limit. `WindowRespected` and `RetryExact`
  are parts of it and inductive only with the order.
- `LimiterTypes`, `WindowsRespected`, `RetriesExact`, `NeverRefusedEarly`: from it.
- `RetriesAdmitted`: who waits as told and comes first is admitted. It follows
  from `RetryExact` and is no property of a run.

### Only model-checked

The liveness properties (`StaleRunsEnd`, `DecidedRunsLeave`, `EveryCallReturns`,
`AnswerWakes`, `EveryDeliveryEnds`): TLAPS cannot reason about `ENABLED`, which
fairness is made of. What they need of safety is proved: no wakeup is lost, the
last read sees the decision, losers find a decision. The four violations are
counterexamples that TLC finds; what does hold in their place is proved
(`DeletionsJustified` for `StoreKeepCap`, the exception in `ReportsHold` for
`StoreGone`, `FirstUsableTextTold` for `AnswerPresent`).

## 5. What is not modelled

- The reading functions that change nothing, the JSON of the results, payloads.
- `created_at` that does not parse (`is_created_expired` treats it as stale);
  the program writes only valid ones.
- A wall clock that is set back: the clock of the model only advances.
- Who may call: `require_mcp_auth` is the condition `Passed` of the limiter,
  `verify_signature` that of the webhook; the parsing of header values, the path
  prefixes the keys protect and HMAC itself are left out. They are comparisons
  of strings without state.
- The parsing of URLs and addresses (`urlparse`, `ipaddress`): a URL is a record
  of the parts they return.
- Configuration other than `_int_env`: it sets the CONSTANTS once per process.
- The mounting of the MCP application, log redaction and the wording of
  `status_summary`: glue and text, no state.
- The tools and resources that only read (`bridge_status`, `list_grokbot_events`,
  `get_grokbot_event`, `healthz`).
- SQLite itself, asyncio, the MCP library, Grok Bot: external, with the
  guarantees named above.

## 6. Plan

Done: the models of section 2, their runs, and the theorems of section 4. Next:

1. The assumptions under which the documents are right where the violations of
   the store show that they are not: no deletion before the retention is over while fewer
   than `MAX_EVENTS` runs are decided; no 410 but for expired runs while no
   row is deleted.
2. The safety half of the liveness properties, as theorems: a measure of each
   call that no step of its own increases, and that every step of its own but
   a new slice of the wait decreases.
3. Consequences of the compositions: the finality of decisions and the uniqueness
   of the answer, stated for the event loop through `StoreUsedAsSpecified`.
