------------------------------- MODULE Bridge -------------------------------
(***************************************************************************)
(* The event loop of the bridge: the tools ask_grokbot and                 *)
(* wait_for_grokbot_answer (tasks), the requests that decide runs          *)
(* (handlers: callbacks, cancel_run, list_grokbot_runs, the cleanup), the  *)
(* registry of app/waiters.py between them, and Grok Bot.                  *)
(*                                                                         *)
(* A coroutine runs without interruption between two awaits: a step.  At   *)
(* asyncio.to_thread a function of app/db.py runs on a thread, and its     *)
(* task resumes later: two steps, with any others in between.  The store   *)
(* is RunLifecycle, which RunStore is shown to implement: one call of      *)
(* app/db.py is one step of it.                                            *)
(***************************************************************************)
EXTENDS RunLifecycle

CONSTANTS
    Task,           \* calls of ask_grokbot and wait_for_grokbot_answer
    Handler,        \* requests that may decide a run
    HandlerOp,      \* the kinds of handlers that occur
    Configured      \* whether CURSOR_WEBHOOK_URL and CURSOR_WEBHOOK_API_KEY are
                    \* set: TRUE, FALSE or, for both kinds of deployment, either

ASSUME BridgeAssumption ==
    /\ HandlerOp \subseteq {"callback", "cancel", "list", "cleanup"}
    /\ Configured \in SUBSET BOOLEAN \ {{}}
    /\ AnswersFor \in [Run -> SUBSET Answer]
    /\ NoAnswer \notin Answer

VARIABLES
    stale,          \* runs older than CALLBACK_TTL_SECONDS
    waiters,        \* _waiters: [Run -> SUBSET Task], a task holds one event
    flag,           \* [Task -> BOOLEAN]: the event of the task is set
    task,           \* [Task -> TaskState]
    handler,        \* [Handler -> HandlerState]
    sent,           \* runs whose callback URL is known outside the bridge
    unannounced     \* runs whose cancel_run was itself cancelled before it notified

store == lvars
bvars == <<outcome, answer, kept, stale, waiters, flag, task, handler, sent, unannounced>>

Ret == {"none", "ok", "absent", "raised", "pending"} \cup Decided

(* job: the function that runs on a thread for the task; got, ans: what it *)
(* returned; late: wait_seconds are over, and whether the run was decided  *)
(* by then although the task may still read it.                            *)
TaskState ==
    [pc : {"idle", "insert", "post", "record", "read", "sleep", "apply", "done", "detached"},
     kind : {"ask", "wait"}, run : Run \cup {NoAnswer},
     job : {"none", "insert_run", "update_run_upstream", "run_answer", "cas_expire"},
     late : {"no", "open", "decided"}, got : Ret, ans : Answer \cup {NoAnswer}]

(* fresh: the run was within its TTL when the request came; owes: the runs *)
(* the handler will notify when its task resumes.                          *)
HandlerState ==
    [pc : {"idle", "work", "owe"}, op : {"callback", "cancel", "list", "cleanup"},
     run : Run \cup {NoAnswer}, body : Answer \cup {NoAnswer}, fresh : BOOLEAN,
     owes : SUBSET Run]

NoTask == [pc |-> "idle", kind |-> "wait", run |-> NoAnswer, job |-> "none",
           late |-> "no", got |-> "none", ans |-> NoAnswer]
NoHandler == [pc |-> "idle", op |-> "cleanup", run |-> NoAnswer, body |-> NoAnswer,
              fresh |-> FALSE, owes |-> {}]

Init ==
    /\ LInit /\ \A r \in Run : outcome[r] = "unborn"
    /\ stale = {} /\ sent = {} /\ unannounced = {}
    /\ waiters = [r \in Run |-> {}]
    /\ flag = [w \in Task |-> FALSE]
    /\ task = [w \in Task |-> NoTask]
    /\ handler = [h \in Handler |-> NoHandler]

-----------------------------------------------------------------------------
(* app/waiters.py                                                          *)

Acquire(w, r) ==
    /\ waiters' = [waiters EXCEPT ![r] = @ \cup {w}]
    /\ flag' = [flag EXCEPT ![w] = FALSE]

Leak(w) == UNCHANGED <<waiters, flag>>                  \* mutant: no finally

Release(w) ==
    /\ waiters' = [r \in Run |-> waiters[r] \ {w}]
    /\ flag' = [flag EXCEPT ![w] = FALSE]

NotifyFirst(R) ==                                       \* mutant: one waiter only
    \E W \in {V \in SUBSET UNION {waiters[r] : r \in R} :
                 V = {} => \A r \in R : waiters[r] = {}} :
        /\ \A v, w \in W : v = w
        /\ flag' = [w \in Task |-> flag[w] \/ w \in W]

Notify(R) == flag' = [w \in Task |-> flag[w] \/ \E r \in R : w \in waiters[r]]

-----------------------------------------------------------------------------
(* Tasks.                                                                  *)

Waiting(w) == task[w].pc \in {"read", "sleep"}
Awaits(w, job) == task[w].job = job
Resumes(w, pc) == task[w].pc = pc /\ task[w].job = "none"

GoTo(w, pc, job) == task' = [task EXCEPT ![w].pc = pc, ![w].job = job]
Return(w, ret, ans) ==
    task' = [task EXCEPT ![w] = [@ EXCEPT !.pc = "done", !.job = "none", !.got = ret,
                                          !.ans = ans, !.late = "no"]]

(* ask_grokbot with a fresh uuid and token.                                *)
Ask(w, r) ==
    /\ task[w].pc \in {"idle", "done"}
    /\ outcome[r] = "unborn" /\ \A v \in Task : task[v].job = "insert_run" => task[v].run # r
    /\ task' = [task EXCEPT ![w] = [NoTask EXCEPT !.pc = "insert", !.kind = "ask",
                                                  !.run = r, !.job = "insert_run"]]
    /\ UNCHANGED <<store, stale, waiters, flag, handler, sent, unannounced>>

(* _wait_for_run: the waiter is registered before the first read.          *)
StartWait(w) ==
    /\ Acquire(w, task[w].run)
    /\ GoTo(w, "read", "run_answer")

(* wait_for_grokbot_answer                                                 *)
Wait(w, r) ==
    /\ task[w].pc \in {"idle", "done"}
    /\ outcome[r] # "unborn"
    /\ Acquire(w, r)
    /\ task' = [task EXCEPT ![w] = [NoTask EXCEPT !.pc = "read", !.run = r,
                                                  !.job = "run_answer"]]
    /\ UNCHANGED <<store, stale, handler, sent, unannounced>>

ResumeInsert(w) ==
    /\ Resumes(w, "insert")
    /\ \/ TRUE \in Configured /\ GoTo(w, "post", "none")
       \/ FALSE \in Configured /\ GoTo(w, "apply", "run_answer")
    /\ UNCHANGED <<store, stale, waiters, flag, handler, sent, unannounced>>

(* The request reaches Grok Bot, which may call back before its response.  *)
Deliver(w) ==
    /\ task[w].pc = "post"
    /\ sent' = sent \cup {task[w].run}
    /\ UNCHANGED <<store, stale, waiters, flag, task, handler, unannounced>>

(* The wait, or wait_seconds = 0: only the persisted status is read.       *)
AfterPost(w) ==
    \/ StartWait(w)
    \/ GoTo(w, "apply", "run_answer") /\ UNCHANGED <<waiters, flag>>

(* The response arrived, or the request failed (httpx.HTTPError), also     *)
(* after it was delivered.                                                 *)
PostReturns(w) ==
    /\ task[w].pc = "post"
    /\ \/ GoTo(w, "record", "update_run_upstream") /\ UNCHANGED <<waiters, flag>>
       \/ AfterPost(w)
    /\ UNCHANGED <<store, stale, handler, sent, unannounced>>

ResumeRecord(w) ==
    /\ Resumes(w, "record")
    /\ AfterPost(w)
    /\ UNCHANGED <<store, stale, handler, sent, unannounced>>

(* The loop of _wait_for_run after run_answer: a decision is returned, a   *)
(* missing row too, and "pending" once the time is over.  ask_grokbot then *)
(* reads an undecided status once more (_apply_persisted_status).          *)
ResumeRead(w) ==
    LET t == task[w]
    IN  /\ Resumes(w, "read")
        /\ \/ /\ t.got = "pending" /\ t.late = "no"
              /\ GoTo(w, "sleep", "none") /\ UNCHANGED <<waiters, flag>>
           \/ /\ \/ t.got \in Decided
                 \/ t.kind = "wait" /\ (t.got = "absent" \/ t.late # "no")
              /\ Return(w, t.got, t.ans) /\ Release(w)
           \/ /\ t.kind = "ask" /\ t.got \notin Decided
              /\ t.got = "absent" \/ t.late # "no"
              /\ GoTo(w, "apply", "run_answer") /\ Release(w)
        /\ UNCHANGED <<store, stale, handler, sent, unannounced>>

(* The event is set: it is replaced by a fresh one before the next read.   *)
Wake(w) ==
    /\ task[w].pc = "sleep" /\ flag[w]
    /\ StartWait(w)
    /\ UNCHANGED <<store, stale, handler, sent, unannounced>>

(* Mutants: waiter.wait() without a timeout; no read once the time is over.*)
NoTimeout(w) == FALSE /\ UNCHANGED bvars
GiveUp(w) ==
    /\ task[w].pc = "sleep" /\ ~flag[w]
    /\ IF task[w].late = "no"
       THEN GoTo(w, "read", "run_answer") /\ UNCHANGED <<waiters, flag>>
       ELSE Return(w, "pending", NoAnswer) /\ Release(w)
    /\ UNCHANGED <<store, stale, handler, sent, unannounced>>

(* wait_for gave up after 0.5 s or the rest of the time.                   *)
Poll(w) ==
    /\ task[w].pc = "sleep" /\ ~flag[w]
    /\ GoTo(w, "read", "run_answer")
    /\ UNCHANGED <<store, stale, waiters, flag, handler, sent, unannounced>>

(* A wait_for_grokbot_answer whose last read is already made returns it.   *)
TimeOver(w) ==
    LET t == task[w]
    IN  /\ Waiting(w) /\ t.late = "no"
        /\ task' = [task EXCEPT ![w].late =
              IF outcome[t.run] \in Decided /\ ~(t.kind = "wait" /\ Resumes(w, "read"))
              THEN "decided" ELSE "open"]
        /\ UNCHANGED <<store, stale, waiters, flag, handler, sent, unannounced>>

(* The result also tells the client the callback URL.                      *)
ResumeApply(w) ==
    LET t == task[w]
    IN  /\ Resumes(w, "apply")
        /\ IF t.got \in Decided THEN Return(w, t.got, t.ans)
                                ELSE Return(w, "pending", NoAnswer)
        /\ sent' = sent \cup {t.run}
        /\ UNCHANGED <<store, stale, waiters, flag, handler, unannounced>>

(* What the thread returns; nobody waits for it in a cancelled task.       *)
JobDone(w, ret, ans) ==
    task' = [task EXCEPT ![w] =
               IF @.pc = "detached" THEN NoTask
               ELSE [@ EXCEPT !.job = "none", !.got = ret, !.ans = ans]]

InsertJob(w) ==
    /\ Awaits(w, "insert_run")
    /\ \E D \in SUBSET Disposable : Create(task[w].run, D)
    /\ JobDone(w, "ok", NoAnswer)
    /\ UNCHANGED <<stale, waiters, flag, handler, sent, unannounced>>

RecordJob(w) ==
    /\ Awaits(w, "update_run_upstream")
    /\ JobDone(w, "ok", NoAnswer)
    /\ UNCHANGED <<store, stale, waiters, flag, handler, sent, unannounced>>

Expirable == {r \in kept : outcome[r] = "pending" /\ r \in stale}

(* The first SELECT of run_answer.                                         *)
ReadJob(w) ==
    LET r == task[w].run
    IN  /\ Awaits(w, "run_answer")
        /\ \/ /\ r \in Expirable
              /\ task' = [task EXCEPT ![w].job = "cas_expire"]
           \/ r \in kept \ Expirable /\ JobDone(w, outcome[r], answer[r])
           \/ r \notin kept /\ JobDone(w, "absent", NoAnswer)
        /\ UNCHANGED <<store, stale, waiters, flag, handler, sent, unannounced>>

(* Its expiry of a stale run, which notifies nobody.  If the run is decided *)
(* meanwhile the row is read again; if it is deleted too, the answer is    *)
(* what was read first.                                                    *)
ExpireJob(w) ==
    LET r == task[w].run
    IN  /\ Awaits(w, "cas_expire")
        /\ \/ r \in Expirable /\ Sweep({r}, {}) /\ JobDone(w, "expired", NoAnswer)
           \/ r \in kept \ Expirable /\ UNCHANGED store /\ JobDone(w, outcome[r], answer[r])
           \/ r \notin kept /\ UNCHANGED store /\ JobDone(w, "pending", NoAnswer)
        /\ UNCHANGED <<stale, waiters, flag, handler, sent, unannounced>>

(* sqlite3 raises: the tool call fails, the waiter is released.            *)
JobRaises(w) ==
    /\ task[w].job # "none"
    /\ IF task[w].pc = "detached" THEN task' = [task EXCEPT ![w] = NoTask]
                                  ELSE Return(w, "raised", NoAnswer)
    /\ Release(w)
    /\ UNCHANGED <<store, stale, handler, sent, unannounced>>

(* The client gives up: CancelledError at the await, the finally runs, a   *)
(* thread that has begun goes on.                                          *)
ClientGone(w) ==
    /\ task[w].pc \notin {"idle", "done", "detached"}
    /\ \/ task' = [task EXCEPT ![w] = NoTask]
       \/ task[w].job # "none" /\ task' = [task EXCEPT ![w].pc = "detached"]
    /\ Release(w)
    /\ UNCHANGED <<store, stale, handler, sent, unannounced>>

-----------------------------------------------------------------------------
(* Handlers.                                                               *)

Request(h, op, r, a) ==
    /\ handler[h].pc = "idle"
    /\ handler' = [handler EXCEPT ![h] = [NoHandler EXCEPT !.pc = "work", !.op = op,
                              !.run = r, !.body = a, !.fresh = r \notin stale]]
    /\ UNCHANGED <<store, stale, waiters, flag, task, sent, unannounced>>

(* Grok Bot posts an answer, or posts it again; the callback route.  One   *)
(* that does not echo the run_id is refused and changes nothing.           *)
Callback(h) ==
    \E r \in sent : \E a \in AnswersFor[r] : Request(h, "callback", r, a)

CancelRun(h) == \E r \in Run : outcome[r] # "unborn" /\ Request(h, "cancel", r, NoAnswer)

ListRuns(h) == Request(h, "list", NoAnswer, NoAnswer)

Cleanup(h) ==
    /\ \A g \in Handler : handler[g].pc = "idle" \/ handler[g].op # "cleanup"
    /\ Request(h, "cleanup", NoAnswer, NoAnswer)

Arrives(h) ==
    \/ "callback" \in HandlerOp /\ Callback(h)
    \/ "cancel" \in HandlerOp /\ CancelRun(h)
    \/ "list" \in HandlerOp /\ ListRuns(h)
    \/ "cleanup" \in HandlerOp /\ Cleanup(h)

Works(h, op) == handler[h].pc = "work" /\ handler[h].op = op

OweOwn(h, R) ==                      \* mutant: the run of the request, not R
    /\ handler' = [handler EXCEPT ![h] =
          [NoHandler EXCEPT !.pc = "owe", !.op = handler[h].op, !.owes = {handler[h].run}]]
    /\ UNCHANGED <<stale, waiters, flag, task, sent, unannounced>>

(* The handler's thread is through; its task will notify the runs R.       *)
Owe(h, R) ==
    /\ handler' = [handler EXCEPT ![h] = IF R = {} THEN NoHandler
                        ELSE [NoHandler EXCEPT !.pc = "owe", !.op = handler[h].op,
                                                 !.owes = R]]
    /\ UNCHANGED <<stale, waiters, flag, task, sent, unannounced>>

(* resolve_callback; finish_callback_result notifies of an answer only.    *)
CallbackJob(h) ==
    LET r == handler[h].run
    IN  /\ Works(h, "callback")
        /\ \/ r \in Expirable /\ Sweep({r}, {}) /\ Owe(h, {})
           \/ handler[h].fresh /\ Answered(r, handler[h].body) /\ Owe(h, {r})
           \/ /\ ~(r \in kept /\ outcome[r] = "pending")
              /\ UNCHANGED store /\ Owe(h, {})

(* cancel_pending_run; cancel_run notifies of a cancelled run, also one    *)
(* cancelled before, and of an expired one.                                *)
CancelJob(h) ==
    LET r == handler[h].run
    IN  /\ Works(h, "cancel")
        /\ \/ r \in Expirable /\ Sweep({r}, {}) /\ Owe(h, {r})
           \/ handler[h].fresh /\ Cancelled(r) /\ Owe(h, {r})
           \/ /\ ~(r \in kept /\ outcome[r] = "pending") /\ UNCHANGED store
              /\ Owe(h, IF r \in kept /\ outcome[r] \in {"cancelled", "expired"}
                        THEN {r} ELSE {})

(* list_runs expires every stale run; the tool notifies of the expired     *)
(* ones among the rows it lists.                                           *)
ListJob(h) ==
    /\ Works(h, "list")
    /\ Sweep(Expirable, {})
    /\ \E L \in SUBSET {r \in kept : outcome'[r] = "expired"} : Owe(h, L)

(* prune_store; cleanup_once notifies of the runs it expired.              *)
CleanupJob(h) ==
    /\ Works(h, "cleanup")
    /\ \E D \in SUBSET Disposable : Sweep(Expirable, D)
    /\ Owe(h, Expirable)

HandlerRaises(h) ==
    /\ handler[h].pc = "work"
    /\ handler' = [handler EXCEPT ![h] = NoHandler]
    /\ UNCHANGED <<store, stale, waiters, flag, task, sent, unannounced>>

ResumeNotify(h) ==
    /\ handler[h].pc = "owe"
    /\ Notify(handler[h].owes)
    /\ handler' = [handler EXCEPT ![h] = NoHandler]
    /\ UNCHANGED <<store, stale, waiters, task, sent, unannounced>>

(* The client of cancel_run gives up between the commit and the notify.    *)
CancelRunGone(h) ==
    /\ handler[h].pc = "owe" /\ handler[h].op = "cancel"
    /\ handler' = [handler EXCEPT ![h] = NoHandler]
    /\ unannounced' = unannounced \cup handler[h].owes
    /\ UNCHANGED <<store, stale, waiters, flag, task, sent>>

(* get_grokbot_run reads the store on the event loop and notifies at once. *)
GetRun(r) ==
    /\ r \in kept
    /\ IF r \in Expirable THEN Sweep({r}, {}) ELSE UNCHANGED store
    /\ IF outcome'[r] = "expired" THEN Notify({r}) ELSE UNCHANGED flag
    /\ UNCHANGED <<stale, waiters, task, handler, sent, unannounced>>

-----------------------------------------------------------------------------
(* The environment.                                                        *)

Age(r) ==
    /\ r \in kept \ stale
    /\ stale' = stale \cup {r}
    /\ UNCHANGED <<store, waiters, flag, task, handler, sent, unannounced>>

(* The machine stops and a new process comes up: the registry and every    *)
(* call are gone, lifespan cleans up once before it serves.                *)
Restart ==
    /\ \E D \in SUBSET Disposable : Sweep(Expirable, D)
    /\ waiters' = [r \in Run |-> {}] /\ flag' = [w \in Task |-> FALSE]
    /\ task' = [w \in Task |-> NoTask]
    /\ handler' = [h \in Handler |-> NoHandler]
    /\ UNCHANGED <<stale, sent, unannounced>>

Job(w) == InsertJob(w) \/ RecordJob(w) \/ ReadJob(w) \/ ExpireJob(w)
Resume(w) == ResumeInsert(w) \/ ResumeRecord(w) \/ ResumeRead(w) \/ ResumeApply(w)
HandlerJob(h) == CallbackJob(h) \/ CancelJob(h) \/ ListJob(h) \/ CleanupJob(h)

Next ==
    \/ \E w \in Task, r \in Run : Ask(w, r) \/ Wait(w, r)
    \/ \E w \in Task :
          \/ Deliver(w) \/ PostReturns(w) \/ Job(w) \/ Resume(w) \/ Wake(w) \/ Poll(w)
          \/ TimeOver(w) \/ JobRaises(w) \/ ClientGone(w)
    \/ \E h \in Handler :
          Arrives(h) \/ HandlerJob(h) \/ HandlerRaises(h) \/ ResumeNotify(h) \/ CancelRunGone(h)
    \/ \E r \in Run : GetRun(r) \/ Age(r)
    \/ Restart

Spec == Init /\ [][Next]_bvars
=============================================================================
