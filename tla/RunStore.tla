------------------------------ MODULE RunStore ------------------------------
(***************************************************************************)
(* The SQLite store of app/db.py at the granularity of its statements.     *)
(*                                                                         *)
(* Every function of db.py opens its own connection, and callers run on    *)
(* different threads (asyncio.to_thread, the event loop itself, worker     *)
(* threads of the MCP library).  A SELECT outside a transaction is one     *)
(* atomic read.  A transaction, from its first UPDATE, INSERT or DELETE to *)
(* commit, holds SQLite's write lock and is seen by other connections only *)
(* once committed: it is one step.  Between two steps of a call any other  *)
(* call may run and the clock may advance, because a statement may wait    *)
(* for the lock (timeout=10) after its arguments were computed.            *)
(***************************************************************************)
EXTENDS Integers, FiniteSets

CONSTANTS
    Run,            \* run identities (run_id, and the token that goes with it)
    Old,            \* runs whose row an earlier process left in the database
    Unnamed,        \* old rows older than the run_id column: run_id IS NULL
    Worker,         \* threads that execute a function of db.py
    Op,             \* the operations the workers perform
    Text,           \* answer texts
    NoRun, NoAnswer,\* a missing run_id in a callback; a NULL answer_json
    TTL,            \* CALLBACK_TTL_SECONDS
    RunKeep,        \* RUN_RETENTION_SECONDS, 0 disables
    EventKeep,      \* EVENT_RETENTION_SECONDS, 0 disables
    MaxEvents,      \* MAX_EVENTS: bound on events and on decided runs
    MaxTime,        \* bound of the model: last instant of the clock
    MaxInbound      \* bound of the model: inbound events ever stored

Body == [echo : Run \cup {NoRun}, text : Text]

AllOps == {"insert", "upstream", "get", "answer", "cancel", "resolve",
           "list", "prune", "event"}

ASSUME StoreAssumption ==
    /\ Unnamed \subseteq Old /\ Old \subseteq Run /\ IsFiniteSet(Old)
    /\ NoRun \notin Run /\ NoAnswer \notin Body
    /\ Op \subseteq AllOps
    /\ TTL \in Nat /\ RunKeep \in Nat /\ EventKeep \in Nat
    /\ MaxEvents \in Nat \ {0} /\ MaxTime \in Nat /\ MaxInbound \in Nat

VARIABLES
    runs,       \* [Run -> Row]: the row of each run, as it was last written
    present,    \* the runs whose row is in the table
    events,     \* rows of the events table
    lastRun,    \* AUTOINCREMENT counter of runs
    lastEvent,  \* AUTOINCREMENT counter of events
    now,        \* the wall clock
    process,    \* "down", "starting" (schema ensured, first cleanup), "serving"
    calls       \* [Worker -> Call]: the call each worker executes

vars == <<runs, present, events, lastRun, lastEvent, now, process, calls>>

Terminal == {"answered", "cancelled", "expired"}
Time == 0 .. MaxTime
NoStamp == -1                   \* answered_at IS NULL
Stamp == Time \cup {NoStamp}

Row == [status : {"unborn", "pending"} \cup Terminal, id : Nat, created : Time,
        stamped : Stamp, answer : Body \cup {NoAnswer}, upstream : BOOLEAN]

Ret == {"none", "ok", "raised", "not_found", "pending",
        "bad_echo", "mismatch"} \cup Terminal

Call == [op : AllOps \cup {"none"},
         at : {"idle", "schema", "read", "expire", "reread", "write", "done"},
         run : Run \cup {NoRun}, body : Body \cup {NoAnswer},
         began : Time,          \* when the function was entered, if it looks
         seen : Time,           \* when the row it decides on was judged
         snap : SUBSET Run,     \* the pending rows a scan returned
         ret : Ret, ans : Body \cup {NoAnswer}]

Idle == [op |-> "none", at |-> "idle", run |-> NoRun, body |-> NoAnswer,
         began |-> 0, seen |-> 0, snap |-> {}, ret |-> "none", ans |-> NoAnswer]

Event == [id : Nat, received : Time]

-----------------------------------------------------------------------------
(* Rows.                                                                   *)

Unborn == [status |-> "unborn", id |-> 0, created |-> 0, stamped |-> NoStamp,
           answer |-> NoAnswer, upstream |-> FALSE]

Addressed(b, r) == b \in Body /\ b.echo = r

AnswersFor == [r \in Run |-> {b \in Body : b.echo = r}]

(* Rows of an earlier version: they may be decided and carry no answered_at. *)
OldRows ==
    [status : {"pending"} \cup Terminal, id : 1 .. Cardinality(Old), created : {0},
     stamped : {NoStamp, 0}, answer : Body \cup {NoAnswer}, upstream : {TRUE}]

Init ==
    /\ runs \in [Run -> OldRows \cup {Unborn}]
    /\ \A r \in Run :
          /\ runs[r] = Unborn <=> r \notin Old
          /\ IF runs[r].status = "answered" THEN Addressed(runs[r].answer, r)
                                            ELSE runs[r].answer = NoAnswer
          /\ runs[r].status = "pending" => runs[r].stamped = NoStamp
    /\ \A q, r \in Old : runs[q].id = runs[r].id => q = r
    /\ present = Old
    /\ events = {} /\ lastEvent = 0 /\ lastRun = Cardinality(Old)
    /\ now = 0
    /\ process = "down"
    /\ calls = [w \in Worker |-> Idle]

(* is_created_expired: strictly older than the TTL.                        *)
StaleAtTTL(r, t) == TTL = 0 \/ t - runs[r].created >= TTL      \* mutant: >= for >

Stale(r, t) == TTL = 0 \/ t - runs[r].created > TTL

(* WHERE run_id = ? : a NULL run_id equals nothing. *)
Matches(r) == r \in present /\ r \notin Unnamed

\* Mutants: the compare-and-set without its comparison; one that also wants the
\* upstream response to be recorded.
BlindUpdate(r) == Matches(r)
PendingAndSent(r) == Matches(r) /\ runs[r].status = "pending" /\ runs[r].upstream

(* WHERE run_id = ? AND status = 'pending' *)
StillPending(r) == Matches(r) /\ runs[r].status = "pending"

(* _cap_terminal_runs, on the table f with the rows p: the decided rows    *)
(* that are not among the MaxEvents most recently created decided rows.    *)
\* Mutants: the subselect, then the DELETE, without the condition on the status.
CapCountsPending(f, p) ==
    {r \in p : /\ f[r].status \in Terminal
               /\ Cardinality({q \in p : f[q].id > f[r].id}) >= MaxEvents}
CapDropsPending(f, p) ==
    LET decided == {r \in p : f[r].status \in Terminal}
    IN  {r \in p : Cardinality({q \in decided : f[q].id > f[r].id}) >= MaxEvents}

OverCap(f, p) ==
    LET decided == {r \in p : f[r].status \in Terminal}
    IN  {r \in decided :
            Cardinality({q \in decided : f[q].id > f[r].id}) >= MaxEvents}

(* cas_expire of a row at instant t.                                       *)
Unstamped(row, t) == [row EXCEPT !.status = "expired"]  \* mutant: no answered_at

Expired(row, t) == [row EXCEPT !.status = "expired", !.stamped = t]

(* UPDATE runs SET answered_at = t WHERE answered_at IS NULL AND status ...*)
NoBackfill(f, t) == f                                   \* mutant

Backfilled(f, t) ==
    [r \in Run |-> IF /\ r \in present /\ f[r].status \in Terminal
                      /\ f[r].stamped = NoStamp
                   THEN [f[r] EXCEPT !.stamped = t] ELSE f[r]]

\* Mutants: the age of a run counted from created_at; answered runs forgotten.
OldByCreation(row, cutoff) == row.status \in Terminal /\ row.created < cutoff
OldUnlessAnswered(row, cutoff) ==
    row.status \in Terminal \ {"answered"} /\ row.stamped # NoStamp /\ row.stamped < cutoff

(* What prune_store deletes; NULL is not less than anything.               *)
Outlived(row, cutoff) ==
    row.status \in Terminal /\ row.stamped # NoStamp /\ row.stamped < cutoff

(* The rows of events that the DELETE of store_event leaves.               *)
OldestEvents(all) ==                                    \* mutant: ORDER BY id
    {e \in all : Cardinality({d \in all : d.id < e.id}) < MaxEvents}

NewestEvents(all) ==
    {e \in all : Cardinality({d \in all : d.id > e.id}) < MaxEvents}

-----------------------------------------------------------------------------
(* Control of a call.                                                      *)

Goto(w, pc) == calls' = [calls EXCEPT ![w].at = pc]

(* The call judges what it read, the pending rows snap if it is a scan.     *)
Saw(w, pc, snap) ==
    calls' = [calls EXCEPT ![w] = [@ EXCEPT !.at = pc, !.seen = now, !.snap = snap]]

(* The call c when it returned or raised: its locals are gone.             *)
Finished(c, ret, ans) ==
    [op |-> c.op, at |-> "done", run |-> c.run, body |-> NoAnswer,
     began |-> 0, seen |-> 0, snap |-> {}, ret |-> ret, ans |-> ans]

Return(w, ret, ans) == calls' = [calls EXCEPT ![w] = Finished(@, ret, ans)]

(* The status of the row, and with it the answer for those who asked.      *)
Tell(w, r) ==
    Return(w, runs[r].status,
           IF calls[w].op \in {"get", "answer"} THEN runs[r].answer ELSE NoAnswer)

At(w, ops, pc) == calls[w].op \in ops /\ calls[w].at = pc

InFlight(op, r) ==
    \E w \in Worker : calls[w].op = op /\ calls[w].run = r
                      /\ calls[w].at \notin {"idle", "done"}

(* What a caller can ask for: run_ids are fresh uuids at insert and known  *)
(* to others only afterwards; a token exists for every row, old ones too.  *)
Callable(op, r, b) ==
    CASE op = "insert"   -> runs[r].status = "unborn" /\ ~InFlight(op, r) /\ b = NoAnswer
      [] op = "upstream" -> /\ runs[r].status # "unborn" /\ ~runs[r].upstream
                            /\ ~InFlight(op, r) /\ b = NoAnswer
      [] op \in {"get", "answer", "cancel"} ->
            runs[r].status # "unborn" /\ r \notin Unnamed /\ b = NoAnswer
      [] op = "resolve"  -> runs[r].status # "unborn" /\ b \in Body

Entered(op, r, b) ==
    [op |-> op, run |-> r, body |-> b,
     at |-> IF process = "down" THEN "schema"
            ELSE IF op \in {"insert", "upstream", "event"} THEN "write" ELSE "read",
     began |-> IF op \in {"insert", "cancel", "prune", "event"} THEN now ELSE 0,
     seen |-> 0, snap |-> {}, ret |-> "none", ans |-> NoAnswer]

Enter(w, op, r, b) ==
    /\ calls[w].at \in {"idle", "done"}
    /\ calls' = [calls EXCEPT ![w] = Entered(op, r, b)]
    /\ UNCHANGED <<runs, present, events, lastRun, lastEvent, now, process>>

(* The request handlers run once the first cleanup is through.             *)
Begin(w) ==
    /\ process = "serving"
    /\ \E op \in Op :
          /\ op = "prune" => ~InFlight("prune", NoRun)  \* cleanup_loop is one task
          /\ IF op \in {"list", "prune", "event"}
             THEN Enter(w, op, NoRun, NoAnswer)
             ELSE \E r \in Run, b \in Body \cup {NoAnswer} :
                     Callable(op, r, b) /\ Enter(w, op, r, b)

(* lifespan awaits cleanup_once before the application serves.             *)
Startup(w) ==
    /\ process = "down"
    /\ \A v \in Worker : calls[v].at \in {"idle", "done"}
    /\ Enter(w, "prune", NoRun, NoAnswer)

(* The first db() of a process: ensure_schema stamps decided rows that     *)
(* carry no answered_at.                                                   *)
EnsureSchema(w) ==
    /\ At(w, {"prune"}, "schema")
    /\ \E t \in calls[w].began .. now : runs' = Backfilled(runs, t)
    /\ process' = "starting"
    /\ Goto(w, "read")
    /\ UNCHANGED <<present, events, lastRun, lastEvent, now>>

-----------------------------------------------------------------------------
(* Single-transaction operations.                                          *)

InsertRun(w) ==
    LET r == calls[w].run
    IN  /\ At(w, {"insert"}, "write")
        /\ runs' = [runs EXCEPT ![r] =
              [status |-> "pending", id |-> lastRun + 1, created |-> calls[w].began,
               stamped |-> NoStamp, answer |-> NoAnswer, upstream |-> FALSE]]
        /\ lastRun' = lastRun + 1
        /\ present' = (present \cup {r}) \ OverCap(runs', present \cup {r})
        /\ Return(w, "ok", NoAnswer)
        /\ UNCHANGED <<events, lastEvent, now, process>>

UpdateRunUpstream(w) ==
    LET r == calls[w].run
    IN  /\ At(w, {"upstream"}, "write")
        /\ runs' = IF Matches(r) THEN [runs EXCEPT ![r].upstream = TRUE] ELSE runs
        /\ Return(w, "ok", NoAnswer)
        /\ UNCHANGED <<present, events, lastRun, lastEvent, now, process>>

FreeEventId ==                                  \* mutant: no AUTOINCREMENT
    CHOOSE i \in 1 .. lastEvent + 1 :
        (\A e \in events : e.id < i) /\ (i = 1 \/ \E e \in events : e.id = i - 1)

(* INTEGER PRIMARY KEY AUTOINCREMENT *)
NextEventId == lastEvent + 1

StoreEvent(w) ==
    /\ At(w, {"event"}, "write") /\ lastEvent < MaxInbound
    /\ \E t \in calls[w].began .. now :
          events' = NewestEvents(events \cup {[id |-> NextEventId, received |-> t]})
    /\ lastEvent' = NextEventId
    /\ Return(w, "ok", NoAnswer)
    /\ UNCHANGED <<runs, present, lastRun, now, process>>

-----------------------------------------------------------------------------
(* get_run, run_answer, cancel_pending_run, resolve_callback: read the     *)
(* row, then write on the strength of what was read.                       *)

(* The first SELECT of get_run, run_answer and cancel_pending_run.         *)
ReadRun(w) ==
    LET r == calls[w].run
        row == runs[r]
    IN  /\ At(w, {"get", "answer", "cancel"}, "read")
        /\ \/ r \notin present /\ Return(w, "not_found", NoAnswer)
           \/ /\ r \in present /\ row.status = "pending" /\ Stale(r, now)
              /\ Saw(w, "expire", {})
           \/ /\ r \in present /\ row.status = "pending" /\ ~Stale(r, now)
              /\ calls[w].op = "cancel"
              /\ Saw(w, "write", {})
           \/ /\ r \in present /\ row.status = "pending" /\ ~Stale(r, now)
              /\ calls[w].op # "cancel"
              /\ Return(w, "pending", NoAnswer)
           \/ r \in present /\ row.status \in Terminal /\ Tell(w, r)
        /\ UNCHANGED <<runs, present, events, lastRun, lastEvent, now, process>>

(* hmac.compare_digest(row[1] or "", echo)                                 *)
AnyEcho(r, echo) == TRUE                                \* mutant

EchoMatches(r, echo) == r \notin Unnamed /\ echo = r

(* The checks of resolve_callback, in its order.                           *)
ReadCallback(w) ==
    LET r == calls[w].run
        row == runs[r]
        echo == calls[w].body.echo
    IN  /\ At(w, {"resolve"}, "read")
        /\ \/ echo = NoRun /\ Return(w, "bad_echo", NoAnswer)
           \/ echo # NoRun /\ r \notin present /\ Return(w, "not_found", NoAnswer)
           \/ /\ r \in present /\ echo # NoRun
              /\ ~EchoMatches(r, echo)
              /\ Return(w, "mismatch", NoAnswer)
           \/ /\ r \in present /\ echo # NoRun /\ EchoMatches(r, echo)
              /\ \/ row.status \in Terminal /\ Tell(w, r)
                 \/ /\ row.status = "pending"
                    /\ Saw(w, IF Stale(r, now) THEN "expire" ELSE "write", {})
        /\ UNCHANGED <<runs, present, events, lastRun, lastEvent, now, process>>

(* cas_expire and commit.  get_run rereads the row whatever the outcome.   *)
CasExpire(w) ==
    LET r == calls[w].run
    IN  /\ At(w, {"get", "answer", "cancel", "resolve"}, "expire")
        /\ \/ /\ StillPending(r)
              /\ \E t \in calls[w].seen .. now :
                    runs' = [runs EXCEPT ![r] = Expired(@, t)]
              /\ IF calls[w].op = "get" THEN Goto(w, "reread")
                                        ELSE Return(w, "expired", NoAnswer)
           \/ ~StillPending(r) /\ UNCHANGED runs /\ Goto(w, "reread")
        /\ UNCHANGED <<present, events, lastRun, lastEvent, now, process>>

(* What a caller learns when its row is gone by the time it is reread.     *)
MissingGone(op) == IF op = "answer" THEN "gone" ELSE "expired"   \* mutant

Missing(op) ==
    CASE op = "answer"  -> "pending"    \* the status of the first read
      [] op = "resolve" -> "expired"    \* callback_error_for_status(STATUS_EXPIRED)
      [] OTHER          -> "not_found"

(* The second SELECT, after a lost compare-and-set (always in get_run).    *)
NoReread(w) ==                                          \* mutant
    /\ At(w, {"get", "answer", "cancel", "resolve"}, "reread")
    /\ Return(w, Missing(calls[w].op), NoAnswer)
    /\ UNCHANGED <<runs, present, events, lastRun, lastEvent, now, process>>

Reread(w) ==
    LET r == calls[w].run
        op == calls[w].op
    IN  /\ At(w, {"get", "answer", "cancel", "resolve"}, "reread")
        /\ IF r \in present THEN Tell(w, r) ELSE Return(w, Missing(op), NoAnswer)
        /\ UNCHANGED <<runs, present, events, lastRun, lastEvent, now, process>>

(* UPDATE ... WHERE run_id = ? AND status = 'pending', with the instant    *)
(* cancel_pending_run was entered.                                         *)
CancelWrite(w) ==
    LET r == calls[w].run
    IN  /\ At(w, {"cancel"}, "write")
        /\ \/ /\ StillPending(r)
              /\ runs' = [runs EXCEPT ![r] = [@ EXCEPT !.status = "cancelled",
                                                       !.stamped = calls[w].began]]
              /\ Return(w, "ok", NoAnswer)
           \/ ~StillPending(r) /\ UNCHANGED runs /\ Goto(w, "reread")
        /\ UNCHANGED <<present, events, lastRun, lastEvent, now, process>>

AnswerWrite(w) ==
    LET r == calls[w].run
    IN  /\ At(w, {"resolve"}, "write")
        /\ \/ /\ StillPending(r)
              /\ \E t \in calls[w].seen .. now :
                    runs' = [runs EXCEPT ![r] = [@ EXCEPT !.status = "answered",
                                    !.answer = calls[w].body, !.stamped = t]]
              /\ Return(w, "ok", NoAnswer)
           \/ ~StillPending(r) /\ UNCHANGED runs /\ Goto(w, "reread")
        /\ UNCHANGED <<present, events, lastRun, lastEvent, now, process>>

-----------------------------------------------------------------------------
(* expire_stale_pending: a scan, then one compare-and-set per stale row in *)
(* a single transaction; list_runs and prune_store.                        *)

Scan(w) ==
    /\ At(w, {"list", "prune"}, "read")
    /\ Saw(w, "write", {r \in present : runs[r].status = "pending"})
    /\ UNCHANGED <<runs, present, events, lastRun, lastEvent, now, process>>

(* The instants at which the rows of the scan are expired: a row is judged *)
(* and stamped, in this order, between the scan and the commit.  One that  *)
(* was stale when the scan returned is judged stale.  The compare-and-set  *)
(* skips those decided since.                                              *)
LazyOnly(w) == {<< >>}                  \* mutant: rows are expired on reads only

Expiries(w) ==
    LET open(t) == {r \in calls[w].snap : StillPending(r) /\ Stale(r, t)}
    IN  UNION {{at \in [E -> calls[w].seen .. now] : \A r \in E : Stale(r, at[r])} :
                  E \in {S \in SUBSET open(now) : open(calls[w].seen) \subseteq S}}

(* The table after the runs of the domain of at were expired at at[r].     *)
Expiring(at) ==
    [r \in Run |-> IF r \in DOMAIN at THEN Expired(runs[r], at[r]) ELSE runs[r]]

ListCommit(w) ==
    /\ At(w, {"list"}, "write")
    /\ \E at \in Expiries(w) : runs' = Expiring(at)
    /\ Return(w, "ok", NoAnswer)
    /\ UNCHANGED <<present, events, lastRun, lastEvent, now, process>>

(* prune_store after the scan: expire, stamp, delete runs, delete events.  *)
PruneCommit(w) ==
    LET moment == calls[w].began
    IN  /\ At(w, {"prune"}, "write")
        /\ \E at \in Expiries(w) :
              runs' = IF RunKeep > 0 THEN Backfilled(Expiring(at), moment) ELSE Expiring(at)
        /\ present' = IF RunKeep > 0
                      THEN {r \in present : ~Outlived(runs'[r], moment - RunKeep)}
                      ELSE present
        /\ events' = {e \in events : EventKeep = 0 \/ e.received >= moment - EventKeep}
        /\ process' = "serving"
        /\ Return(w, "ok", NoAnswer)
        /\ UNCHANGED <<lastRun, lastEvent, now>>

-----------------------------------------------------------------------------
(* The environment.                                                        *)

(* "database is locked", a full disk: the statement raises, the open       *)
(* transaction is rolled back.  At startup the process ends with it.       *)
Fail(w) ==
    /\ calls[w].at \notin {"idle", "done"}
    /\ process = "serving"
    /\ Return(w, "raised", NoAnswer)
    /\ UNCHANGED <<runs, present, events, lastRun, lastEvent, now, process>>

(* The process ends, and its threads with it; committed rows stay.         *)
Crash ==
    /\ process # "down"
    /\ process' = "down"
    /\ calls' = [w \in Worker |-> Idle]
    /\ UNCHANGED <<runs, present, events, lastRun, lastEvent, now>>

Tick ==
    /\ now < MaxTime
    /\ now' = now + 1
    /\ UNCHANGED <<runs, present, events, lastRun, lastEvent, process, calls>>

ReadStep(w) == ReadRun(w) \/ ReadCallback(w) \/ Reread(w) \/ Scan(w)

WriteStep(w) ==
    \/ EnsureSchema(w) \/ InsertRun(w) \/ UpdateRunUpstream(w) \/ StoreEvent(w)
    \/ CasExpire(w) \/ CancelWrite(w) \/ AnswerWrite(w)
    \/ ListCommit(w) \/ PruneCommit(w)

Next ==
    \/ \E w \in Worker : Startup(w) \/ Begin(w) \/ ReadStep(w) \/ WriteStep(w) \/ Fail(w)
    \/ Crash
    \/ Tick

Spec == Init /\ [][Next]_vars

(* The clock advances and threads make progress.  Nothing is assumed of    *)
(* Startup: Fly stops an idle machine and starts it for a request only     *)
(* (fly.toml:14-16).  While the process stays up its cleanup loop keeps    *)
(* coming back (CLEANUP_INTERVAL_SECONDS > 0, the default), the thread     *)
(* pool takes calls in their order, and statements do not fail for ever.   *)
StaysUp == <>[](process = "serving")

Fairness ==
    /\ WF_vars(Tick)
    /\ \A w \in Worker : WF_vars(ReadStep(w)) /\ WF_vars(WriteStep(w))
    /\ StaysUp => /\ SF_vars(\E w \in Worker : Begin(w) /\ calls'[w].op = "prune")
                  /\ \A w \in Worker : SF_vars(Scan(w)) /\ SF_vars(PruneCommit(w))

FairSpec == Spec /\ Fairness
=============================================================================
