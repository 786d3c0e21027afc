---------------------------- MODULE BridgeProofs ----------------------------
(***************************************************************************)
(* Theorems about the waiting tools and their notification, for every set  *)
(* of runs, calls, handlers and answers.                                   *)
(***************************************************************************)
EXTENDS BridgeProps, TLAPS

-----------------------------------------------------------------------------
(* The inductive invariant.                                                *)

(* A row in the table is one of a run that exists, and only answered runs  *)
(* have an answer.                                                         *)
StoreOK ==
    /\ \A r \in kept : outcome[r] # "unborn"
    /\ \A r \in Run : outcome[r] # "answered" => answer[r] = NoAnswer

(* The task is in the registry under the run it waits for, and nowhere     *)
(* else.                                                                   *)
Registered(w) == \A r \in Run : w \in waiters[r] <=> Waiting(w) /\ task[w].run = r

(* The call found its run pending, and will not look again by itself       *)
(* before it slept: a decision since has to wake it.                       *)
Looked(w) ==
    LET t == task[w]
    IN  \/ t.pc = "sleep"
        \/ t.pc = "read" /\ (t.job = "cas_expire" \/ (t.job = "none" /\ t.got = "pending"))

Owed(r) == \E h \in Handler : r \in handler[h].owes

(* A decision that is announced: handlers notify of answers and cancels.   *)
Announced(r) == outcome[r] \in {"answered", "cancelled"} /\ r \notin unannounced

Woken(w) == Looked(w) /\ ~flag[w] /\ Announced(task[w].run) => Owed(task[w].run)

(* What a call was told of a decision, at whatever point it is.            *)
Agrees(w) ==
    LET t == task[w]
    IN  t.got \in Decided => outcome[t.run] = t.got /\ answer[t.run] = t.ans

(* A call whose time ended after the decision reads the decision.          *)
Timely(w) ==
    LET t == task[w]
    IN  t.late = "decided" =>
           /\ outcome[t.run] \in Decided
           /\ /\ t.job = "none" /\ t.run \in kept
              /\ t.pc = "apply" \/ (t.pc = "read" /\ t.kind = "wait")
              => t.got \in Decided

(* Each thread runs for its own await: none while the task sleeps.         *)
JobOK(w) ==
    LET t == task[w]
    IN  /\ t.job = "insert_run" => t.pc \in {"insert", "detached"}
        /\ t.job = "update_run_upstream" => t.pc \in {"record", "detached"}
        /\ t.pc = "sleep" => t.job = "none"

TaskOK(w) ==
    /\ task[w].pc # "idle" => task[w].run \in Run
    /\ task[w].pc = "idle" => task[w] = NoTask
    /\ JobOK(w) /\ Registered(w) /\ Woken(w) /\ Agrees(w) /\ Timely(w)

(* A handler owes a notification only between its thread and its return.   *)
RequestOK(m) ==
    /\ m.pc # "owe" => m.owes = {}
    /\ m.pc = "work" /\ m.op \in {"callback", "cancel"} => m.run \in Run
    /\ m.pc = "work" /\ m.op = "callback" => m.body \in AnswersFor[m.run]

BridgeInv ==
    /\ TypeOK /\ StoreOK
    /\ \A w \in Task : TaskOK(w)
    /\ \A h \in Handler : RequestOK(handler[h])

-----------------------------------------------------------------------------
(* Steps of the store.                                                     *)

StoreTyped ==
    /\ outcome \in [Run -> Outcome]
    /\ answer \in [Run -> Answer \cup {NoAnswer}]
    /\ kept \subseteq Run

(* A decision stays what it is, and a row that is gone does not come back. *)
StoreMoves ==
    /\ \A r \in Run : outcome[r] \in Decided => outcome'[r] = outcome[r] /\ answer'[r] = answer[r]
    /\ \A r \in kept' : r \in kept \/ outcome[r] = "unborn"

StoreStep == StoreTyped' /\ StoreOK' /\ StoreMoves

(* No run other than those in R is answered or cancelled by the step.      *)
AnnouncesOnly(R) ==
    \A r \in Run \ R : outcome'[r] \in {"answered", "cancelled"} => outcome'[r] = outcome[r]

LEMMA StoreStays ==
    ASSUME TypeOK, StoreOK, UNCHANGED store
    PROVE  StoreStep /\ AnnouncesOnly({})
BY DEF TypeOK, StoreOK, store, lvars, StoreStep, StoreTyped, StoreMoves, AnnouncesOnly

LEMMA CreateMoves ==
    ASSUME TypeOK, StoreOK, NEW r \in Run, NEW D, Create(r, D)
    PROVE  StoreStep /\ AnnouncesOnly({})
<1>1. /\ outcome' = [outcome EXCEPT ![r] = "pending"] /\ outcome[r] = "unborn"
      /\ kept' = (kept \cup {r}) \ D /\ answer' = answer
  BY DEF Create
<1>2. StoreTyped'
  BY <1>1 DEF TypeOK, StoreTyped, Outcome
<1>3. StoreOK'
  BY <1>1 DEF TypeOK, StoreOK
<1>4. StoreMoves
  BY <1>1 DEF TypeOK, StoreMoves, Decided
<1>5. AnnouncesOnly({})
  BY <1>1 DEF TypeOK, AnnouncesOnly
<1> QED  BY <1>2, <1>3, <1>4, <1>5 DEF StoreStep

LEMMA SweepMoves ==
    ASSUME TypeOK, StoreOK, NEW E, NEW D, Sweep(E, D)
    PROVE  StoreStep /\ AnnouncesOnly({})
<1>1. /\ outcome' = [r \in Run |-> IF r \in E THEN "expired" ELSE outcome[r]]
      /\ kept' = kept \ D /\ answer' = answer
      /\ \A r \in E : r \in kept /\ outcome[r] = "pending"
  BY DEF Sweep
<1>2. StoreTyped'
  BY <1>1 DEF TypeOK, StoreTyped, Outcome, Decided
<1>3. StoreOK'
  BY <1>1 DEF TypeOK, StoreOK
<1>4. StoreMoves
  BY <1>1 DEF TypeOK, StoreMoves, Decided
<1>5. AnnouncesOnly({})
  BY <1>1 DEF TypeOK, AnnouncesOnly
<1> QED  BY <1>2, <1>3, <1>4, <1>5 DEF StoreStep

LEMMA AnsweredMoves ==
    ASSUME TypeOK, StoreOK, NEW r \in Run, NEW a, Answered(r, a)
    PROVE  StoreStep /\ AnnouncesOnly({r})
<1>1. /\ outcome' = [outcome EXCEPT ![r] = "answered"] /\ outcome[r] = "pending"
      /\ answer' = [answer EXCEPT ![r] = a] /\ a \in AnswersFor[r] /\ kept' = kept
  BY DEF Answered
<1>2. a \in Answer
  BY <1>1, BridgeAssumption
<1>3. StoreTyped'
  BY <1>1, <1>2 DEF TypeOK, StoreTyped, Outcome, Decided
<1>4. StoreOK'
  BY <1>1 DEF TypeOK, StoreOK
<1>5. StoreMoves
  BY <1>1 DEF TypeOK, StoreMoves, Decided
<1>6. AnnouncesOnly({r})
  BY <1>1 DEF TypeOK, AnnouncesOnly
<1> QED  BY <1>3, <1>4, <1>5, <1>6 DEF StoreStep

LEMMA CancelledMoves ==
    ASSUME TypeOK, StoreOK, NEW r \in Run, Cancelled(r)
    PROVE  StoreStep /\ AnnouncesOnly({r})
<1>1. /\ outcome' = [outcome EXCEPT ![r] = "cancelled"] /\ outcome[r] = "pending"
      /\ answer' = answer /\ kept' = kept
  BY DEF Cancelled
<1>2. StoreTyped'
  BY <1>1 DEF TypeOK, StoreTyped, Outcome, Decided
<1>3. StoreOK'
  BY <1>1 DEF TypeOK, StoreOK
<1>4. StoreMoves
  BY <1>1 DEF TypeOK, StoreMoves, Decided
<1>5. AnnouncesOnly({r})
  BY <1>1 DEF TypeOK, AnnouncesOnly
<1> QED  BY <1>2, <1>3, <1>4, <1>5 DEF StoreStep

-----------------------------------------------------------------------------
(* A task that the step does not move.                                     *)

(* What the step does to the registry entries of v.                        *)
StaysRegistered(v) == \A r \in Run : v \in waiters'[r] <=> v \in waiters[r]

(* What is announced after the step is owed then, was announced and owed   *)
(* by nobody before, or has just set the event of v.                       *)
Hears(v) ==
    \A r \in Run : Announced(r)' =>
        \/ Owed(r)'
        \/ Announced(r) /\ ~Owed(r)
        \/ v \in waiters[r] => flag'[v]

LEMMA Bystander ==
    ASSUME TypeOK, StoreMoves, NEW v \in Task, TaskOK(v), task'[v] = task[v],
           StaysRegistered(v), flag[v] => flag'[v], Hears(v)
    PROVE  TaskOK(v)'
<1>1. JobOK(v)' /\ (task'[v].pc = "idle" => task'[v] = NoTask)
      /\ (task'[v].pc # "idle" => task'[v].run \in Run)
  BY DEF TaskOK, JobOK
<1>2. Registered(v)'
  BY DEF TaskOK, Registered, StaysRegistered, Waiting
<1>3. Woken(v)'
  <2> SUFFICES ASSUME Looked(v)', ~flag'[v], Announced(task[v].run)'
               PROVE  Owed(task[v].run)'
    BY DEF Woken
  <2>1. Looked(v) /\ ~flag[v]
    BY DEF Looked
  <2>2. task[v].pc \in {"sleep", "read"}
    BY <2>1 DEF Looked
  <2>3. task[v].run \in Run /\ v \in waiters[task[v].run]
    BY <2>2 DEF TaskOK, Registered, Waiting
  <2>4. Announced(task[v].run) => Owed(task[v].run)
    BY <2>1 DEF TaskOK, Woken
  <2> DEFINE r == task[v].run
  <2>5. r' = r
    OBVIOUS
  <2>6. Announced(r)' /\ ~flag'[v] /\ v \in waiters[r] /\ r \in Run
    BY <2>3
  <2> HIDE DEF r
  <2>7. Owed(r)' \/ (Announced(r) /\ ~Owed(r))
    BY <2>5, <2>6 DEF Hears, Announced, Owed
  <2> QED  BY <2>4, <2>7 DEF r
<1>4. task[v].got \in Decided => task[v].run \in Run
  BY DEF TaskOK, NoTask, Decided
<1>5. Agrees(v)'
  BY <1>4 DEF TaskOK, Agrees, StoreMoves
<1>6. task[v].late = "decided" => task[v].run \in Run
  BY DEF TaskOK, NoTask
<1>7. Timely(v)'
  <2> SUFFICES ASSUME task[v].late = "decided" PROVE Timely(v)'
    BY DEF Timely
  <2>1. outcome[task[v].run] \in Decided
    BY DEF TaskOK, Timely
  <2>2. outcome'[task[v].run] \in Decided
    BY <1>6, <2>1 DEF StoreMoves
  <2>3. task[v].run \in kept' => task[v].run \in kept
    BY <2>1 DEF StoreMoves, Decided
  <2> QED  BY <2>2, <2>3 DEF TaskOK, Timely
<1> QED  BY <1>1, <1>2, <1>3, <1>5, <1>7 DEF TaskOK

-----------------------------------------------------------------------------
(* The registry.                                                           *)

RegistryTyped == waiters \in [Run -> SUBSET Task] /\ flag \in [Task -> BOOLEAN]

(* Only entries of w change.                                               *)
RegistryStep(w) ==
    /\ RegistryTyped'
    /\ \A v \in Task \ {w} : flag'[v] = flag[v] /\ StaysRegistered(v)

LEMMA AcquireEffect ==
    ASSUME TypeOK, NEW w \in Task, NEW r \in Run, Acquire(w, r)
    PROVE  /\ RegistryStep(w)
           /\ \A q \in Run : w \in waiters'[q] <=> w \in waiters[q] \/ q = r
<1>1. /\ waiters' = [waiters EXCEPT ![r] = @ \cup {w}]
      /\ flag' = [flag EXCEPT ![w] = FALSE]
  BY DEF Acquire
<1>2. RegistryTyped'
  BY <1>1 DEF TypeOK, RegistryTyped
<1>3. \A q \in Run : waiters'[q] = IF q = r THEN waiters[q] \cup {w} ELSE waiters[q]
  BY <1>1 DEF TypeOK
<1>4. ASSUME NEW v \in Task \ {w} PROVE flag'[v] = flag[v] /\ StaysRegistered(v)
  BY <1>1, <1>3 DEF TypeOK, StaysRegistered
<1> QED  BY <1>2, <1>3, <1>4 DEF RegistryStep

LEMMA ReleaseEffect ==
    ASSUME TypeOK, NEW w \in Task, Release(w)
    PROVE  RegistryStep(w) /\ \A q \in Run : w \notin waiters'[q]
<1>1. /\ waiters' = [r \in Run |-> waiters[r] \ {w}]
      /\ flag' = [flag EXCEPT ![w] = FALSE]
  BY DEF Release
<1>2. RegistryTyped'
  BY <1>1 DEF TypeOK, RegistryTyped
<1>3. ASSUME NEW v \in Task \ {w} PROVE flag'[v] = flag[v] /\ StaysRegistered(v)
  BY <1>1 DEF TypeOK, StaysRegistered
<1> QED  BY <1>1, <1>2, <1>3 DEF RegistryStep

LEMMA RegistryStays ==
    ASSUME TypeOK, NEW w \in Task, UNCHANGED <<waiters, flag>>
    PROVE  RegistryStep(w) /\ StaysRegistered(w) /\ flag'[w] = flag[w]
BY DEF TypeOK, RegistryTyped, RegistryStep, StaysRegistered

-----------------------------------------------------------------------------
(* Updates of the state of a task.                                         *)

TaskTyped == task \in [Task -> TaskState]

(* Only the state of w changes, to s.                                      *)
Becomes(w, s) == TaskTyped' /\ task'[w] = s /\ \A v \in Task \ {w} : task'[v] = task[v]

LEMMA TaskFields ==
    ASSUME TypeOK, NEW w \in Task
    PROVE  /\ task[w].pc \in {"idle", "insert", "post", "record", "read", "sleep", "apply",
                              "done", "detached"}
           /\ task[w].kind \in {"ask", "wait"} /\ task[w].run \in Run \cup {NoAnswer}
           /\ task[w].job \in {"none", "insert_run", "update_run_upstream", "run_answer",
                               "cas_expire"}
           /\ task[w].late \in {"no", "open", "decided"} /\ task[w].got \in Ret
           /\ task[w].ans \in Answer \cup {NoAnswer}
BY DEF TypeOK, TaskState

LEMMA SetTask ==
    ASSUME TypeOK, NEW w \in Task, NEW s \in TaskState, task' = [task EXCEPT ![w] = s]
    PROVE  Becomes(w, s)
BY DEF TypeOK, TaskTyped, Becomes

LEMMA NoTaskTyped == NoTask \in TaskState
BY DEF NoTask, TaskState, Ret

(* The state t with another point of control and job.                      *)
Moved(t, pc, job) == [t EXCEPT !.pc = pc, !.job = job]

LEMMA MovedState ==
    ASSUME NEW t \in TaskState,
           NEW pc \in {"idle", "insert", "post", "record", "read", "sleep", "apply",
                       "done", "detached"},
           NEW job \in {"none", "insert_run", "update_run_upstream", "run_answer",
                        "cas_expire"}
    PROVE  /\ Moved(t, pc, job) \in TaskState
           /\ Moved(t, pc, job).pc = pc /\ Moved(t, pc, job).job = job
           /\ Moved(t, pc, job).kind = t.kind /\ Moved(t, pc, job).run = t.run
           /\ Moved(t, pc, job).late = t.late /\ Moved(t, pc, job).got = t.got
           /\ Moved(t, pc, job).ans = t.ans
BY DEF TaskState, Moved

LEMMA GoToEffect ==
    ASSUME TypeOK, NEW w \in Task,
           NEW pc \in {"idle", "insert", "post", "record", "read", "sleep", "apply",
                       "done", "detached"},
           NEW job \in {"none", "insert_run", "update_run_upstream", "run_answer",
                        "cas_expire"},
           GoTo(w, pc, job)
    PROVE  Becomes(w, Moved(task[w], pc, job))
<1>1. task' = [task EXCEPT ![w] = Moved(task[w], pc, job)]
  BY DEF GoTo, Moved, TypeOK, TaskState
<1>2. task[w] \in TaskState
  BY DEF TypeOK
<1>3. Moved(task[w], pc, job) \in TaskState
  BY <1>2, MovedState
<1> QED  BY <1>1, <1>3, SetTask

(* The state of a call that returned.                                      *)
Returned(t, ret, ans) ==
    [t EXCEPT !.pc = "done", !.job = "none", !.got = ret, !.ans = ans, !.late = "no"]

LEMMA ReturnedState ==
    ASSUME NEW t \in TaskState, NEW ret \in Ret, NEW ans \in Answer \cup {NoAnswer}
    PROVE  LET s == Returned(t, ret, ans)
           IN  /\ s \in TaskState /\ s.pc = "done" /\ s.job = "none" /\ s.late = "no"
               /\ s.run = t.run /\ s.got = ret /\ s.ans = ans
BY DEF TaskState, Returned

LEMMA ReturnEffect ==
    ASSUME TypeOK, NEW w \in Task, NEW ret \in Ret, NEW ans \in Answer \cup {NoAnswer},
           Return(w, ret, ans)
    PROVE  Becomes(w, Returned(task[w], ret, ans))
<1>1. task' = [task EXCEPT ![w] = Returned(task[w], ret, ans)]
  BY DEF Return, Returned
<1>2. task[w] \in TaskState
  BY DEF TypeOK
<1> QED  BY <1>1, <1>2, ReturnedState, SetTask

(* The state of a task whose thread is through.                            *)
Fetched(t, ret, ans) == [t EXCEPT !.job = "none", !.got = ret, !.ans = ans]

LEMMA FetchedState ==
    ASSUME NEW t \in TaskState, NEW ret \in Ret, NEW ans \in Answer \cup {NoAnswer}
    PROVE  LET s == Fetched(t, ret, ans)
           IN  /\ s \in TaskState /\ s.pc = t.pc /\ s.job = "none" /\ s.late = t.late
               /\ s.run = t.run /\ s.got = ret /\ s.ans = ans /\ s.kind = t.kind
BY DEF TaskState, Fetched

LEMMA JobDoneEffect ==
    ASSUME TypeOK, NEW w \in Task, NEW ret \in Ret, NEW ans \in Answer \cup {NoAnswer},
           JobDone(w, ret, ans)
    PROVE  \/ task[w].pc = "detached" /\ Becomes(w, NoTask)
           \/ task[w].pc # "detached" /\ Becomes(w, Fetched(task[w], ret, ans))
<1>1. task' = [task EXCEPT ![w] = IF task[w].pc = "detached" THEN NoTask
                                  ELSE Fetched(task[w], ret, ans)]
  BY DEF JobDone, Fetched
<1>2. task[w] \in TaskState
  BY DEF TypeOK
<1> QED  BY <1>1, <1>2, FetchedState, NoTaskTyped, SetTask

-----------------------------------------------------------------------------
(* A step of the task w or of its thread.                                  *)

OwnStep(w) ==
    /\ StoreStep /\ AnnouncesOnly({})
    /\ stale' \subseteq Run /\ sent' \subseteq Run /\ UNCHANGED <<handler, unannounced>>
    /\ TaskTyped' /\ \A v \in Task \ {w} : task'[v] = task[v]
    /\ RegistryStep(w)
    /\ TaskOK(w)'

LEMMA SameAnnouncements ==
    ASSUME AnnouncesOnly({}), UNCHANGED <<handler, unannounced>>, NEW r \in Run
    PROVE  (Announced(r)' => Announced(r)) /\ (Owed(r)' <=> Owed(r))
BY DEF AnnouncesOnly, Announced, Owed

LEMMA OwnStepInv == ASSUME BridgeInv, NEW w \in Task, OwnStep(w) PROVE BridgeInv'
<1>1. TypeOK'
  BY DEF BridgeInv, OwnStep, TypeOK, StoreStep, StoreTyped, TaskTyped, RegistryStep, RegistryTyped
<1>2. ASSUME NEW v \in Task PROVE TaskOK(v)'
  <2>1. CASE v = w
    BY <2>1 DEF OwnStep
  <2>2. CASE v # w
    <3>1. /\ task'[v] = task[v] /\ StaysRegistered(v) /\ (flag[v] => flag'[v])
          /\ StoreMoves /\ TypeOK /\ TaskOK(v)
      BY <2>2 DEF OwnStep, RegistryStep, StoreStep, BridgeInv
    <3>2. Hears(v)
      BY SameAnnouncements DEF OwnStep, Hears
    <3> QED  BY <3>1, <3>2, Bystander
  <2> QED  BY <2>1, <2>2
<1>3. \A h \in Handler : RequestOK(handler'[h])
  BY DEF OwnStep, BridgeInv
<1> QED  BY <1>1, <1>2, <1>3 DEF BridgeInv, OwnStep, StoreStep

(* What a call was told stays true.                                        *)
LEMMA AgreesStays ==
    ASSUME StoreStep, NEW w \in Task, TaskOK(w), task'[w].run = task[w].run,
           task'[w].got = task[w].got, task'[w].ans = task[w].ans
    PROVE  Agrees(w)'
<1>1. task[w].got \in Decided => task[w].run \in Run
  BY DEF TaskOK, NoTask, Decided
<1> QED  BY <1>1 DEF TaskOK, Agrees, StoreStep, StoreMoves

(* A call that still has to read, or that returned, misses nothing.        *)
LEMMA TimelyStays ==
    ASSUME StoreStep, NEW w \in Task, TaskOK(w), task'[w].run = task[w].run,
           task'[w].late = task[w].late,
           task'[w].job # "none" \/ task'[w].pc \notin {"read", "apply"}
    PROVE  Timely(w)'
<1>1. task[w].late = "decided" => task[w].run \in Run
  BY DEF TaskOK, NoTask
<1> QED  BY <1>1 DEF TaskOK, Timely, StoreStep, StoreMoves

LEMMA RegisteredByAcquire ==
    ASSUME TypeOK, NEW w \in Task, NEW r \in Run, TaskOK(w), Acquire(w, r),
           Waiting(w) => task[w].run = r, Waiting(w)', task'[w].run = r
    PROVE  Registered(w)'
<1>1. \A q \in Run : w \in waiters'[q] <=> w \in waiters[q] \/ q = r
  BY AcquireEffect
<1> QED  BY <1>1 DEF TaskOK, Registered

LEMMA RegisteredByRelease ==
    ASSUME TypeOK, NEW w \in Task, Release(w), ~Waiting(w)'
    PROVE  Registered(w)'
BY ReleaseEffect DEF Registered

LEMMA RegisteredStays ==
    ASSUME NEW w \in Task, TaskOK(w), UNCHANGED waiters, Waiting(w)' <=> Waiting(w),
           task'[w].run = task[w].run
    PROVE  Registered(w)'
BY DEF TaskOK, Registered

LEMMA RegisteredOutside ==
    ASSUME NEW w \in Task, TaskOK(w), UNCHANGED waiters, ~Waiting(w), ~Waiting(w)'
    PROVE  Registered(w)'
BY DEF TaskOK, Registered

(* A task at rest is fine, whatever the store holds.                       *)
LEMMA RestOK ==
    ASSUME NEW w \in Task, task'[w] = NoTask, \A r \in Run : w \notin waiters'[r]
    PROVE  TaskOK(w)'
<1>1. /\ task'[w].pc = "idle" /\ task'[w].job = "none" /\ task'[w].late = "no"
      /\ task'[w].got = "none"
  BY DEF NoTask
<1>2. Registered(w)'
  BY <1>1 DEF Registered, Waiting
<1>3. JobOK(w)' /\ Woken(w)' /\ Agrees(w)' /\ Timely(w)'
  BY <1>1 DEF JobOK, Woken, Looked, Agrees, Timely, Decided
<1> QED  BY <1>1, <1>2, <1>3 DEF TaskOK

LEMMA Quietly ==
    ASSUME BridgeInv, NEW w \in Task, NEW s, UNCHANGED <<store, stale, handler, unannounced>>,
           sent' \subseteq Run, Becomes(w, s), RegistryStep(w), TaskOK(w)'
    PROVE  OwnStep(w)
<1>1. StoreStep /\ AnnouncesOnly({})
  BY StoreStays DEF BridgeInv
<1>2. stale' \subseteq Run
  BY DEF BridgeInv, TypeOK
<1> QED  BY <1>1, <1>2 DEF OwnStep, Becomes

(* The task goes to another await without having been told anything.       *)
LEMMA GoesOn ==
    ASSUME TypeOK, StoreStep, NEW w \in Task, TaskOK(w), task[w].pc # "idle",
           NEW pc \in {"post", "record", "read", "sleep", "apply"},
           NEW job \in {"none", "update_run_upstream", "run_answer", "cas_expire"},
           GoTo(w, pc, job), job # "none" \/ pc = "post" \/ pc = "sleep",
           pc = "sleep" => job = "none",
           job = "update_run_upstream" => pc = "record"
    PROVE  /\ Becomes(w, Moved(task[w], pc, job))
           /\ task'[w].pc = pc /\ task'[w].job = job
           /\ task'[w].run = task[w].run /\ task'[w].got = task[w].got
           /\ Registered(w)' /\ Woken(w)' => TaskOK(w)'
<1>1. Becomes(w, Moved(task[w], pc, job))
  BY GoToEffect
<1>2. task'[w] = Moved(task[w], pc, job)
  BY <1>1 DEF Becomes
<1>3. task[w] \in TaskState
  BY DEF TypeOK
<1>4. /\ task'[w].pc = pc /\ task'[w].job = job /\ task'[w].run = task[w].run
      /\ task'[w].late = task[w].late /\ task'[w].got = task[w].got
      /\ task'[w].ans = task[w].ans
  BY <1>2, <1>3, MovedState
<1>5. Agrees(w)'
  BY <1>4, AgreesStays
<1>6. Timely(w)'
  BY <1>4, TimelyStays
<1>7. JobOK(w)'
  BY <1>4 DEF JobOK
<1>8. task'[w].run \in Run /\ task'[w].pc # "idle"
  BY <1>4 DEF TaskOK
<1> QED  BY <1>1, <1>4, <1>5, <1>6, <1>7, <1>8 DEF TaskOK

LEMMA StartWaitOK ==
    ASSUME TypeOK, StoreStep, NEW w \in Task, TaskOK(w), task[w].pc # "idle", StartWait(w)
    PROVE  RegistryStep(w) /\ Becomes(w, Moved(task[w], "read", "run_answer")) /\ TaskOK(w)'
<1>1. GoTo(w, "read", "run_answer") /\ Acquire(w, task[w].run) /\ task[w].run \in Run
  BY DEF StartWait, TaskOK
<1>2. /\ Becomes(w, Moved(task[w], "read", "run_answer"))
      /\ task'[w].pc = "read" /\ task'[w].job = "run_answer"
      /\ task'[w].run = task[w].run
      /\ Registered(w)' /\ Woken(w)' => TaskOK(w)'
  BY <1>1, GoesOn
<1>3. Registered(w)'
  BY <1>1, <1>2, RegisteredByAcquire DEF Waiting
<1>4. Woken(w)'
  BY <1>2 DEF Woken, Looked
<1> QED  BY <1>1, <1>2, <1>3, <1>4, AcquireEffect

(* The task goes on outside of the wait, or away from it.                  *)
LEMMA GoesOnOutside ==
    ASSUME TypeOK, StoreStep, NEW w \in Task, TaskOK(w), task[w].pc # "idle",
           NEW pc \in {"post", "record", "apply"},
           NEW job \in {"none", "update_run_upstream", "run_answer"},
           GoTo(w, pc, job), job # "none" \/ pc = "post",
           job = "update_run_upstream" => pc = "record",
           Release(w) \/ (~Waiting(w) /\ UNCHANGED <<waiters, flag>>)
    PROVE  RegistryStep(w) /\ Becomes(w, Moved(task[w], pc, job)) /\ TaskOK(w)'
<1>1. /\ Becomes(w, Moved(task[w], pc, job))
      /\ task'[w].pc = pc /\ task'[w].job = job
      /\ task'[w].run = task[w].run /\ task'[w].got = task[w].got
      /\ Registered(w)' /\ Woken(w)' => TaskOK(w)'
  BY GoesOn
<1>2. ~Waiting(w)'
  BY <1>1 DEF Waiting
<1>3. Registered(w)'
  BY <1>2, RegisteredByRelease, RegisteredOutside
<1>4. Woken(w)'
  BY <1>1 DEF Woken, Looked
<1>5. RegistryStep(w)
  BY ReleaseEffect, RegistryStays
<1> QED  BY <1>1, <1>3, <1>4, <1>5

(* The call returns what it was told, or nothing that was decided.         *)
LEMMA ReturnOK ==
    ASSUME TypeOK, StoreStep, NEW w \in Task, TaskOK(w), task[w].pc # "idle",
           NEW ret \in Ret, NEW ans \in Answer \cup {NoAnswer}, Return(w, ret, ans),
           ret \in Decided => ret = task[w].got /\ ans = task[w].ans,
           Release(w) \/ (~Waiting(w) /\ UNCHANGED <<waiters, flag>>)
    PROVE  RegistryStep(w) /\ Becomes(w, Returned(task[w], ret, ans)) /\ TaskOK(w)'
<1>1. Becomes(w, Returned(task[w], ret, ans))
  BY ReturnEffect
<1>2. task'[w] = Returned(task[w], ret, ans)
  BY <1>1 DEF Becomes
<1>3. task[w] \in TaskState
  BY DEF TypeOK
<1>4. /\ task'[w].pc = "done" /\ task'[w].job = "none" /\ task'[w].run = task[w].run
      /\ task'[w].late = "no" /\ task'[w].got = ret /\ task'[w].ans = ans
  BY <1>2, <1>3, ReturnedState
<1>5. Agrees(w)'
  <2>1. CASE ret \in Decided
    BY <1>4, <2>1, AgreesStays
  <2>2. CASE ret \notin Decided
    BY <1>4, <2>2 DEF Agrees
  <2> QED  BY <2>1, <2>2
<1>6. Timely(w)' /\ JobOK(w)' /\ Woken(w)' /\ ~Waiting(w)'
  BY <1>4 DEF Timely, JobOK, Woken, Looked, Waiting
<1>7. Registered(w)'
  BY <1>6, RegisteredByRelease, RegisteredOutside
<1>8. RegistryStep(w)
  BY ReleaseEffect, RegistryStays
<1>9. task'[w].run \in Run /\ task'[w].pc # "idle"
  BY <1>4 DEF TaskOK
<1> QED  BY <1>1, <1>5, <1>6, <1>7, <1>8, <1>9 DEF TaskOK

-----------------------------------------------------------------------------
(* The actions of the tasks.                                               *)

LEMMA AskStep ==
    ASSUME BridgeInv, NEW w \in Task, NEW r \in Run, Ask(w, r) PROVE OwnStep(w)
<1> DEFINE s == [NoTask EXCEPT !.pc = "insert", !.kind = "ask", !.run = r,
                               !.job = "insert_run"]
<1>1. s \in TaskState /\ s.pc = "insert" /\ s.run = r /\ s.job = "insert_run"
      /\ s.got = "none" /\ s.late = "no"
  BY DEF NoTask, TaskState, Ret
<1>2. task' = [task EXCEPT ![w] = s] /\ TypeOK /\ TaskOK(w) /\ ~Waiting(w)
      /\ UNCHANGED <<store, stale, waiters, flag, handler, sent, unannounced>>
  BY DEF Ask, BridgeInv, Waiting
<1> HIDE DEF s
<1>3. Becomes(w, s) /\ task'[w] = s
  BY <1>1, <1>2, SetTask DEF Becomes
<1>4. Registered(w)'
  BY <1>1, <1>2, <1>3, RegisteredOutside DEF Waiting
<1>5. JobOK(w)' /\ Woken(w)' /\ Agrees(w)' /\ Timely(w)'
  BY <1>1, <1>3 DEF JobOK, Woken, Looked, Agrees, Timely, Decided
<1>6. TaskOK(w)'
  BY <1>1, <1>3, <1>4, <1>5 DEF TaskOK
<1>7. RegistryStep(w) /\ sent' \subseteq Run
  BY <1>2, RegistryStays DEF TypeOK
<1> QED  BY <1>2, <1>3, <1>6, <1>7, Quietly

LEMMA WaitStep ==
    ASSUME BridgeInv, NEW w \in Task, NEW r \in Run, Wait(w, r) PROVE OwnStep(w)
<1> DEFINE s == [NoTask EXCEPT !.pc = "read", !.run = r, !.job = "run_answer"]
<1>1. s \in TaskState /\ s.pc = "read" /\ s.run = r /\ s.job = "run_answer"
      /\ s.got = "none" /\ s.late = "no"
  BY DEF NoTask, TaskState, Ret
<1>2. task' = [task EXCEPT ![w] = s] /\ TypeOK /\ TaskOK(w) /\ ~Waiting(w)
      /\ Acquire(w, r) /\ UNCHANGED <<store, stale, handler, sent, unannounced>>
  BY DEF Wait, BridgeInv, Waiting
<1> HIDE DEF s
<1>3. Becomes(w, s) /\ task'[w] = s
  BY <1>1, <1>2, SetTask DEF Becomes
<1>4. Registered(w)'
  BY <1>1, <1>2, <1>3, RegisteredByAcquire DEF Waiting
<1>5. JobOK(w)' /\ Woken(w)' /\ Agrees(w)' /\ Timely(w)'
  BY <1>1, <1>3 DEF JobOK, Woken, Looked, Agrees, Timely, Decided
<1>6. TaskOK(w)'
  BY <1>1, <1>3, <1>4, <1>5 DEF TaskOK
<1>7. RegistryStep(w) /\ sent' \subseteq Run
  BY <1>2, AcquireEffect DEF TypeOK
<1> QED  BY <1>2, <1>3, <1>6, <1>7, Quietly

LEMMA ResumeInsertStep ==
    ASSUME BridgeInv, NEW w \in Task, ResumeInsert(w) PROVE OwnStep(w)
<1>1. /\ TypeOK /\ StoreOK /\ TaskOK(w) /\ task[w].pc = "insert"
      /\ UNCHANGED <<store, stale, waiters, flag, handler, sent, unannounced>>
      /\ GoTo(w, "post", "none") \/ GoTo(w, "apply", "run_answer")
  BY DEF ResumeInsert, Resumes, BridgeInv
<1>2. StoreStep /\ ~Waiting(w) /\ sent' \subseteq Run
  BY <1>1, StoreStays DEF Waiting, TypeOK
<1>3. RegistryStep(w) /\ TaskOK(w)' /\ \E s : Becomes(w, s)
  BY <1>1, <1>2, GoesOnOutside
<1> QED  BY <1>1, <1>2, <1>3, Quietly

LEMMA DeliverStep ==
    ASSUME BridgeInv, NEW w \in Task, Deliver(w) PROVE OwnStep(w)
<1>1. /\ TypeOK /\ StoreOK /\ TaskOK(w) /\ task[w].pc = "post"
      /\ UNCHANGED <<store, stale, waiters, flag, task, handler, unannounced>>
      /\ sent' = sent \cup {task[w].run}
  BY DEF Deliver, BridgeInv
<1>2. sent' \subseteq Run
  BY <1>1 DEF TypeOK, TaskOK
<1>3. RegistryStep(w) /\ Becomes(w, task[w])
  BY <1>1, RegistryStays DEF TypeOK, Becomes, TaskTyped
<1>4. TaskOK(w)'
  BY <1>1 DEF TaskOK, JobOK, Registered, Waiting, Woken, Looked, Owed, Announced,
              Agrees, Timely, store, lvars
<1> QED  BY <1>1, <1>2, <1>3, <1>4, Quietly

LEMMA AfterPostOK ==
    ASSUME TypeOK, StoreStep, NEW w \in Task, TaskOK(w), task[w].pc \in {"post", "record"},
           AfterPost(w)
    PROVE  RegistryStep(w) /\ TaskOK(w)' /\ \E s : Becomes(w, s)
<1>1. CASE StartWait(w)
  BY <1>1, StartWaitOK
<1>2. CASE GoTo(w, "apply", "run_answer") /\ UNCHANGED <<waiters, flag>>
  BY <1>2, GoesOnOutside DEF Waiting
<1> QED  BY <1>1, <1>2 DEF AfterPost

LEMMA PostReturnsStep ==
    ASSUME BridgeInv, NEW w \in Task, PostReturns(w) PROVE OwnStep(w)
<1>1. /\ TypeOK /\ StoreOK /\ TaskOK(w) /\ task[w].pc = "post"
      /\ UNCHANGED <<store, stale, handler, sent, unannounced>>
      /\ \/ GoTo(w, "record", "update_run_upstream") /\ UNCHANGED <<waiters, flag>>
         \/ AfterPost(w)
  BY DEF PostReturns, BridgeInv
<1>2. StoreStep /\ ~Waiting(w) /\ sent' \subseteq Run
  BY <1>1, StoreStays DEF Waiting, TypeOK
<1>3. RegistryStep(w) /\ TaskOK(w)' /\ \E s : Becomes(w, s)
  BY <1>1, <1>2, GoesOnOutside, AfterPostOK
<1> QED  BY <1>1, <1>2, <1>3, Quietly

LEMMA ResumeRecordStep ==
    ASSUME BridgeInv, NEW w \in Task, ResumeRecord(w) PROVE OwnStep(w)
<1>1. /\ TypeOK /\ StoreOK /\ TaskOK(w) /\ task[w].pc = "record" /\ AfterPost(w)
      /\ UNCHANGED <<store, stale, handler, sent, unannounced>>
  BY DEF ResumeRecord, Resumes, BridgeInv
<1>2. StoreStep /\ sent' \subseteq Run
  BY <1>1, StoreStays DEF TypeOK
<1>3. RegistryStep(w) /\ TaskOK(w)' /\ \E s : Becomes(w, s)
  BY <1>1, <1>2, AfterPostOK
<1> QED  BY <1>1, <1>2, <1>3, Quietly

LEMMA WakeStep ==
    ASSUME BridgeInv, NEW w \in Task, Wake(w) PROVE OwnStep(w)
<1>1. /\ TypeOK /\ StoreOK /\ TaskOK(w) /\ task[w].pc = "sleep" /\ StartWait(w)
      /\ UNCHANGED <<store, stale, handler, sent, unannounced>>
  BY DEF Wake, BridgeInv
<1>2. StoreStep /\ sent' \subseteq Run
  BY <1>1, StoreStays DEF TypeOK
<1>3. RegistryStep(w) /\ TaskOK(w)' /\ \E s : Becomes(w, s)
  BY <1>1, <1>2, StartWaitOK
<1> QED  BY <1>1, <1>2, <1>3, Quietly

LEMMA PollStep ==
    ASSUME BridgeInv, NEW w \in Task, Poll(w) PROVE OwnStep(w)
<1>1. /\ TypeOK /\ StoreOK /\ TaskOK(w) /\ task[w].pc = "sleep"
      /\ GoTo(w, "read", "run_answer")
      /\ UNCHANGED <<store, stale, waiters, flag, handler, sent, unannounced>>
  BY DEF Poll, BridgeInv
<1>2. StoreStep /\ sent' \subseteq Run
  BY <1>1, StoreStays DEF TypeOK
<1>3. /\ Becomes(w, Moved(task[w], "read", "run_answer"))
      /\ task'[w].pc = "read" /\ task'[w].job = "run_answer"
      /\ task'[w].run = task[w].run
      /\ Registered(w)' /\ Woken(w)' => TaskOK(w)'
  BY <1>1, <1>2, GoesOn
<1>4. Registered(w)'
  BY <1>1, <1>3, RegisteredStays DEF Waiting
<1>5. Woken(w)'
  BY <1>3 DEF Woken, Looked
<1> QED  BY <1>1, <1>2, <1>3, <1>4, <1>5, RegistryStays, Quietly

LEMMA ResumeReadStep ==
    ASSUME BridgeInv, NEW w \in Task, ResumeRead(w) PROVE OwnStep(w)
<1> DEFINE t == task[w]
<1>1. /\ TypeOK /\ StoreOK /\ TaskOK(w) /\ t.pc = "read" /\ t.job = "none"
      /\ UNCHANGED <<store, stale, handler, sent, unannounced>>
  BY DEF ResumeRead, Resumes, BridgeInv
<1>2. StoreStep /\ AnnouncesOnly({}) /\ sent' \subseteq Run
  BY <1>1, StoreStays DEF TypeOK
<1>3. ASSUME t.got = "pending", GoTo(w, "sleep", "none"), UNCHANGED <<waiters, flag>>
      PROVE  RegistryStep(w) /\ TaskOK(w)' /\ \E s : Becomes(w, s)
  <2>1. /\ Becomes(w, Moved(t, "sleep", "none"))
        /\ task'[w].pc = "sleep" /\ task'[w].job = "none" /\ task'[w].run = t.run
        /\ Registered(w)' /\ Woken(w)' => TaskOK(w)'
    BY <1>1, <1>2, <1>3, GoesOn
  <2>2. Registered(w)'
    BY <1>1, <1>3, <2>1, RegisteredStays DEF Waiting
  <2>3. Looked(w) /\ t.run \in Run
    BY <1>1, <1>3 DEF Looked, TaskOK
  <2>4. Woken(w)'
    BY <1>1, <1>3, <2>1, <2>3 DEF TaskOK, Woken, Announced, Owed, store, lvars
  <2> QED  BY <1>1, <1>3, <2>1, <2>2, <2>4, RegistryStays
<1>4. ASSUME Return(w, t.got, t.ans), Release(w)
      PROVE  RegistryStep(w) /\ TaskOK(w)' /\ \E s : Becomes(w, s)
  <2>1. t.got \in Ret /\ t.ans \in Answer \cup {NoAnswer}
    BY <1>1, TaskFields
  <2> QED  BY <1>1, <1>2, <1>4, <2>1, ReturnOK
<1>5. ASSUME GoTo(w, "apply", "run_answer"), Release(w)
      PROVE  RegistryStep(w) /\ TaskOK(w)' /\ \E s : Becomes(w, s)
  BY <1>1, <1>2, <1>5, GoesOnOutside
<1>6. RegistryStep(w) /\ TaskOK(w)' /\ \E s : Becomes(w, s)
  BY <1>3, <1>4, <1>5 DEF ResumeRead
<1> QED  BY <1>1, <1>2, <1>6, Quietly

LEMMA ResumeApplyStep ==
    ASSUME BridgeInv, NEW w \in Task, ResumeApply(w) PROVE OwnStep(w)
<1> DEFINE t == task[w]
<1>1. /\ TypeOK /\ StoreOK /\ TaskOK(w) /\ t.pc = "apply" /\ sent' = sent \cup {t.run}
      /\ UNCHANGED <<store, stale, waiters, flag, handler, unannounced>>
      /\ IF t.got \in Decided THEN Return(w, t.got, t.ans) ELSE Return(w, "pending", NoAnswer)
  BY DEF ResumeApply, Resumes, BridgeInv
<1>2. StoreStep /\ sent' \subseteq Run /\ ~Waiting(w)
  BY <1>1, StoreStays DEF TypeOK, TaskOK, Waiting
<1>3. t.got \in Ret /\ t.ans \in Answer \cup {NoAnswer} /\ "pending" \in Ret
  BY <1>1, TaskFields DEF Ret
<1>4. RegistryStep(w) /\ TaskOK(w)' /\ \E s : Becomes(w, s)
  <2>1. CASE t.got \in Decided
    BY <1>1, <1>2, <1>3, <2>1, ReturnOK
  <2>2. CASE t.got \notin Decided
    <3>1. Return(w, "pending", NoAnswer) /\ "pending" \notin Decided
      BY <1>1, <2>2 DEF Decided
    <3> QED  BY <1>1, <1>2, <1>3, <3>1, ReturnOK
  <2> QED  BY <2>1, <2>2
<1> QED  BY <1>1, <1>2, <1>4, Quietly

LEMMA TimeOverStep ==
    ASSUME BridgeInv, NEW w \in Task, TimeOver(w) PROVE OwnStep(w)
<1> DEFINE t == task[w]
           late == IF outcome[t.run] \in Decided /\ ~(t.kind = "wait" /\ Resumes(w, "read"))
                   THEN "decided" ELSE "open"
           s == [t EXCEPT !.late = late]
<1>1. /\ TypeOK /\ StoreOK /\ TaskOK(w) /\ t.pc \in {"read", "sleep"}
      /\ task' = [task EXCEPT ![w].late = late]
      /\ UNCHANGED <<store, stale, waiters, flag, handler, sent, unannounced>>
  BY DEF TimeOver, Waiting, BridgeInv
<1>2. t \in TaskState /\ t.run \in Run
  BY <1>1 DEF TypeOK, TaskOK
<1>3. task' = [task EXCEPT ![w] = s]
  BY <1>1 DEF TypeOK, TaskState
<1>4. /\ s \in TaskState /\ s.pc = t.pc /\ s.job = t.job /\ s.run = t.run /\ s.got = t.got
      /\ s.ans = t.ans /\ s.kind = t.kind /\ s.late = late
  BY <1>2 DEF TaskState
<1>5. /\ late = "decided" => outcome[t.run] \in Decided
      /\ late = "decided" => ~(t.kind = "wait" /\ t.pc = "read" /\ t.job = "none")
  BY DEF Resumes
<1> HIDE DEF late, s
<1>6. Becomes(w, s) /\ task'[w] = s
  BY <1>1, <1>3, <1>4, SetTask DEF Becomes
<1>7. StoreStep /\ sent' \subseteq Run
  BY <1>1, StoreStays DEF TypeOK
<1>8. Registered(w)'
  BY <1>1, <1>4, <1>6, RegisteredStays DEF Waiting
<1>9. Agrees(w)'
  BY <1>1, <1>4, <1>6, <1>7, AgreesStays
<1>10. JobOK(w)' /\ Woken(w)'
  BY <1>1, <1>4, <1>6 DEF TaskOK, JobOK, Woken, Looked, Announced, Owed, store, lvars
<1>11. Timely(w)'
  BY <1>1, <1>4, <1>5, <1>6 DEF Timely, store, lvars
<1>12. TaskOK(w)'
  BY <1>1, <1>2, <1>4, <1>6, <1>8, <1>9, <1>10, <1>11 DEF TaskOK
<1> QED  BY <1>1, <1>6, <1>7, <1>12, RegistryStays, Quietly

LEMMA JobRaisesStep ==
    ASSUME BridgeInv, NEW w \in Task, JobRaises(w) PROVE OwnStep(w)
<1>1. /\ TypeOK /\ StoreOK /\ TaskOK(w) /\ task[w].job # "none" /\ Release(w)
      /\ UNCHANGED <<store, stale, handler, sent, unannounced>>
      /\ IF task[w].pc = "detached" THEN task' = [task EXCEPT ![w] = NoTask]
                                    ELSE Return(w, "raised", NoAnswer)
  BY DEF JobRaises, BridgeInv
<1>2. StoreStep /\ sent' \subseteq Run
  BY <1>1, StoreStays DEF TypeOK
<1>3. task[w].pc # "idle"
  BY <1>1 DEF TaskOK, NoTask
<1>4. RegistryStep(w) /\ TaskOK(w)' /\ \E s : Becomes(w, s)
  <2>1. CASE task[w].pc = "detached"
    <3>1. Becomes(w, NoTask)
      BY <1>1, <2>1, SetTask, NoTaskTyped
    <3>2. TaskOK(w)'
      BY <1>1, <3>1, ReleaseEffect, RestOK DEF Becomes
    <3> QED  BY <1>1, <3>1, <3>2, ReleaseEffect
  <2>2. CASE task[w].pc # "detached"
    <3>1. Return(w, "raised", NoAnswer) /\ "raised" \in Ret /\ "raised" \notin Decided
      BY <1>1, <2>2 DEF Ret, Decided
    <3> QED  BY <1>1, <1>2, <1>3, <3>1, ReturnOK
  <2> QED  BY <2>1, <2>2
<1> QED  BY <1>1, <1>2, <1>4, Quietly

LEMMA ClientGoneStep ==
    ASSUME BridgeInv, NEW w \in Task, ClientGone(w) PROVE OwnStep(w)
<1> DEFINE t == task[w]
<1>1. /\ TypeOK /\ StoreOK /\ TaskOK(w) /\ t.pc # "idle" /\ Release(w)
      /\ UNCHANGED <<store, stale, handler, sent, unannounced>>
      /\ \/ task' = [task EXCEPT ![w] = NoTask]
         \/ task' = [task EXCEPT ![w].pc = "detached"]
  BY DEF ClientGone, BridgeInv
<1>2. StoreStep /\ sent' \subseteq Run
  BY <1>1, StoreStays DEF TypeOK
<1>3. CASE task' = [task EXCEPT ![w] = NoTask]
  <2>1. Becomes(w, NoTask)
    BY <1>1, <1>3, SetTask, NoTaskTyped
  <2>2. TaskOK(w)'
    BY <1>1, <2>1, ReleaseEffect, RestOK DEF Becomes
  <2> QED  BY <1>1, <1>2, <2>1, <2>2, ReleaseEffect, Quietly
<1>4. CASE task' = [task EXCEPT ![w].pc = "detached"]
  <2> DEFINE s == Moved(t, "detached", t.job)
  <2>1. t \in TaskState
    BY <1>1 DEF TypeOK
  <2>2. task' = [task EXCEPT ![w] = s]
    BY <1>1, <1>4 DEF Moved, TypeOK, TaskState
  <2>3. t.job \in {"none", "insert_run", "update_run_upstream", "run_answer", "cas_expire"}
    BY <1>1, TaskFields
  <2>4. /\ s \in TaskState /\ s.pc = "detached" /\ s.job = t.job /\ s.run = t.run
        /\ s.late = t.late /\ s.got = t.got /\ s.ans = t.ans
    BY <2>1, <2>3, MovedState
  <2> HIDE DEF s
  <2>5. Becomes(w, s) /\ task'[w] = s
    BY <1>1, <2>2, <2>4, SetTask DEF Becomes
  <2>6. Agrees(w)' /\ Timely(w)'
    BY <1>1, <1>2, <2>4, <2>5, AgreesStays, TimelyStays
  <2>7. JobOK(w)' /\ Woken(w)' /\ ~Waiting(w)'
    BY <2>4, <2>5 DEF JobOK, Woken, Looked, Waiting
  <2>8. Registered(w)'
    BY <1>1, <2>7, RegisteredByRelease
  <2>9. TaskOK(w)'
    BY <1>1, <2>4, <2>5, <2>6, <2>7, <2>8 DEF TaskOK
  <2> QED  BY <1>1, <1>2, <2>5, <2>9, ReleaseEffect, Quietly
<1> QED  BY <1>1, <1>3, <1>4

-----------------------------------------------------------------------------
(* The threads of the tasks.                                               *)

(* The call is told what the store holds, a decision above all.            *)
LEMMA FetchOK ==
    ASSUME TypeOK, StoreStep, NEW w \in Task, TaskOK(w), task[w].job # "none",
           NEW ret \in Ret, NEW ans \in Answer \cup {NoAnswer}, JobDone(w, ret, ans),
           UNCHANGED <<waiters, flag>>, NEW r, r = task[w].run,
           ret \in Decided => outcome'[r] = ret /\ answer'[r] = ans,
           (/\ task[w].pc \in {"read", "apply"} /\ outcome[r] \in Decided
            /\ r \in kept') => ret \in Decided,
           (/\ ret = "pending" /\ task[w].pc = "read" /\ ~flag[w]
            /\ Announced(r)') => Owed(r)'
    PROVE  RegistryStep(w) /\ TaskOK(w)' /\ \E s : Becomes(w, s)
<1> DEFINE t == task[w]
<1>1. RegistryStep(w) /\ StaysRegistered(w) /\ flag'[w] = flag[w]
  BY RegistryStays
<1>2. t.pc # "idle"
  BY DEF TaskOK, NoTask
<1>3. CASE t.pc = "detached"
  <2>1. Becomes(w, NoTask)
    BY <1>3, JobDoneEffect
  <2>2. \A q \in Run : w \notin waiters'[q]
    BY <1>1, <1>3 DEF TaskOK, Registered, Waiting, StaysRegistered
  <2> QED  BY <1>1, <2>1, <2>2, RestOK DEF Becomes
<1>4. CASE t.pc # "detached"
  <2> DEFINE s == Fetched(t, ret, ans)
  <2>1. Becomes(w, s) /\ task'[w] = s
    BY <1>4, JobDoneEffect DEF Becomes
  <2>2. t \in TaskState /\ t.run \in Run
    BY <1>2 DEF TypeOK, TaskOK
  <2>3. /\ s.pc = t.pc /\ s.job = "none" /\ s.late = t.late
        /\ s.run = t.run /\ s.got = ret /\ s.ans = ans /\ s.kind = t.kind
    BY <2>2, FetchedState
  <2> HIDE DEF s
  <2>4. JobOK(w)'
    BY <2>1, <2>3 DEF JobOK
  <2>5. Registered(w)'
    BY <2>1, <2>3, RegisteredStays DEF Waiting
  <2>6. t.pc = "sleep" => Woken(w)'
    BY DEF TaskOK, JobOK
  <2>7. Woken(w)'
    BY <1>1, <2>1, <2>3, <2>6 DEF Woken, Looked
  <2>8. Agrees(w)'
    BY <2>1, <2>3 DEF Agrees
  <2>9. t.late = "decided" => outcome[t.run] \in Decided /\ outcome'[t.run] \in Decided
    BY <2>2 DEF TaskOK, Timely, StoreStep, StoreMoves
  <2>10. Timely(w)'
    BY <2>1, <2>3, <2>9 DEF Timely
  <2>11. TaskOK(w)'
    BY <1>2, <2>1, <2>2, <2>3, <2>4, <2>5, <2>7, <2>8, <2>10 DEF TaskOK
  <2> QED  BY <1>1, <2>1, <2>11
<1> QED  BY <1>3, <1>4

LEMMA InsertJobStep ==
    ASSUME BridgeInv, NEW w \in Task, InsertJob(w) PROVE OwnStep(w)
<1> PICK r : r = task[w].run
  OBVIOUS
<1>1. /\ TypeOK /\ StoreOK /\ TaskOK(w) /\ task[w].job = "insert_run"
      /\ JobDone(w, "ok", NoAnswer)
      /\ UNCHANGED <<stale, waiters, flag, handler, sent, unannounced>>
      /\ \E D \in SUBSET Disposable : Create(r, D)
  BY DEF InsertJob, Awaits, BridgeInv
<1>2. r \in Run
  BY <1>1 DEF TaskOK, NoTask
<1>3. StoreStep /\ AnnouncesOnly({})
  BY <1>1, <1>2, CreateMoves
<1>4. task[w].pc \in {"insert", "detached"} /\ "ok" \in Ret /\ "ok" \notin Decided
  BY <1>1 DEF TaskOK, JobOK, Ret, Decided
<1>5. RegistryStep(w) /\ TaskOK(w)' /\ \E s : Becomes(w, s)
  BY <1>1, <1>3, <1>4, FetchOK
<1> QED  BY <1>1, <1>3, <1>5 DEF OwnStep, Becomes, TypeOK

LEMMA RecordJobStep ==
    ASSUME BridgeInv, NEW w \in Task, RecordJob(w) PROVE OwnStep(w)
<1>1. /\ TypeOK /\ StoreOK /\ TaskOK(w) /\ task[w].job = "update_run_upstream"
      /\ JobDone(w, "ok", NoAnswer)
      /\ UNCHANGED <<store, stale, waiters, flag, handler, sent, unannounced>>
  BY DEF RecordJob, Awaits, BridgeInv
<1>2. StoreStep /\ sent' \subseteq Run
  BY <1>1, StoreStays DEF TypeOK
<1>3. task[w].pc \in {"record", "detached"} /\ "ok" \in Ret /\ "ok" \notin Decided
  BY <1>1 DEF TaskOK, JobOK, Ret, Decided
<1>4. RegistryStep(w) /\ TaskOK(w)' /\ \E s : Becomes(w, s)
  BY <1>1, <1>2, <1>3, FetchOK
<1> QED  BY <1>1, <1>2, <1>4, Quietly

(* The call is told the row as it is, without a change of the store.       *)
LEMMA TellsRow ==
    ASSUME BridgeInv, NEW w \in Task, task[w].job # "none", UNCHANGED <<store, waiters, flag>>,
           NEW r, r = task[w].run, r \in kept \ Expirable, JobDone(w, outcome[r], answer[r])
    PROVE  RegistryStep(w) /\ TaskOK(w)' /\ \E s : Becomes(w, s)
<1>1. TypeOK /\ StoreStep /\ TaskOK(w)
  BY StoreStays DEF BridgeInv
<1>2. /\ r \in Run /\ outcome[r] \in Ret /\ answer[r] \in Answer \cup {NoAnswer}
      /\ outcome' = outcome /\ answer' = answer
  BY DEF BridgeInv, TypeOK, StoreOK, Outcome, Ret, store, lvars
<1>3. outcome[r] = "pending" => ~Announced(r)'
  BY <1>2 DEF Announced
<1> QED  BY <1>1, <1>2, <1>3, FetchOK

LEMMA ReadJobStep ==
    ASSUME BridgeInv, NEW w \in Task, ReadJob(w) PROVE OwnStep(w)
<1> DEFINE t == task[w]
<1> PICK r : r = t.run
  OBVIOUS
<1>1. /\ TypeOK /\ StoreOK /\ TaskOK(w) /\ t.job = "run_answer"
      /\ UNCHANGED <<store, stale, waiters, flag, handler, sent, unannounced>>
      /\ \/ r \in Expirable /\ task' = [task EXCEPT ![w].job = "cas_expire"]
         \/ r \in kept \ Expirable /\ JobDone(w, outcome[r], answer[r])
         \/ r \notin kept /\ JobDone(w, "absent", NoAnswer)
  BY DEF ReadJob, Awaits, BridgeInv
<1>2. StoreStep /\ AnnouncesOnly({}) /\ sent' \subseteq Run
  BY <1>1, StoreStays DEF TypeOK
<1>3. CASE r \in Expirable /\ task' = [task EXCEPT ![w].job = "cas_expire"]
  <2> DEFINE s == Moved(t, t.pc, "cas_expire")
  <2>1. task' = [task EXCEPT ![w] = s]
    BY <1>1, <1>3 DEF Moved, TypeOK, TaskState
  <2>2. t \in TaskState /\ t.pc \in {"idle", "insert", "post", "record", "read", "sleep",
                                     "apply", "done", "detached"}
    BY <1>1, TaskFields DEF TypeOK
  <2>3. /\ s \in TaskState /\ s.pc = t.pc /\ s.job = "cas_expire" /\ s.run = r
        /\ s.late = t.late /\ s.got = t.got /\ s.ans = t.ans
    BY <2>2, MovedState
  <2> HIDE DEF s
  <2>4. Becomes(w, s) /\ task'[w] = s
    BY <1>1, <2>1, <2>3, SetTask DEF Becomes
  <2>5. Agrees(w)' /\ Timely(w)'
    BY <1>1, <1>2, <2>3, <2>4, AgreesStays, TimelyStays
  <2>6. Registered(w)'
    BY <1>1, <2>3, <2>4, RegisteredStays DEF Waiting
  <2>7. outcome'[r] = "pending"
    BY <1>1, <1>3 DEF Expirable, store, lvars
  <2>8. Woken(w)'
    BY <2>3, <2>4, <2>7 DEF Woken, Announced
  <2>9. JobOK(w)' /\ t.pc # "idle" /\ r \in Run
    BY <1>1, <2>3, <2>4 DEF TaskOK, JobOK, NoTask
  <2>10. TaskOK(w)'
    BY <2>3, <2>4, <2>5, <2>6, <2>8, <2>9 DEF TaskOK
  <2> QED  BY <1>1, <1>2, <2>4, <2>10, RegistryStays, Quietly
<1>4. CASE r \in kept \ Expirable /\ JobDone(w, outcome[r], answer[r])
  <2>1. RegistryStep(w) /\ TaskOK(w)' /\ \E s : Becomes(w, s)
    BY <1>1, <1>4, TellsRow
  <2> QED  BY <1>1, <1>2, <2>1, Quietly
<1>5. CASE r \notin kept /\ JobDone(w, "absent", NoAnswer)
  <2>1. "absent" \in Ret /\ "absent" \notin Decided /\ kept' = kept
    BY <1>1 DEF Ret, Decided, store, lvars
  <2>2. RegistryStep(w) /\ TaskOK(w)' /\ \E s : Becomes(w, s)
    BY <1>1, <1>2, <1>5, <2>1, FetchOK
  <2> QED  BY <1>1, <1>2, <2>2, Quietly
<1> QED  BY <1>1, <1>3, <1>4, <1>5

LEMMA ExpireJobStep ==
    ASSUME BridgeInv, NEW w \in Task, ExpireJob(w) PROVE OwnStep(w)
<1> DEFINE t == task[w]
<1> PICK r : r = t.run
  OBVIOUS
<1>1. /\ TypeOK /\ StoreOK /\ TaskOK(w) /\ t.job = "cas_expire"
      /\ UNCHANGED <<stale, waiters, flag, handler, sent, unannounced>>
      /\ \/ r \in Expirable /\ Sweep({r}, {}) /\ JobDone(w, "expired", NoAnswer)
         \/ r \in kept \ Expirable /\ UNCHANGED store /\ JobDone(w, outcome[r], answer[r])
         \/ r \notin kept /\ UNCHANGED store /\ JobDone(w, "pending", NoAnswer)
  BY DEF ExpireJob, Awaits, BridgeInv
<1>2. sent' \subseteq Run /\ r \in Run
  BY <1>1 DEF TypeOK, TaskOK, NoTask
<1>3. CASE r \in Expirable /\ Sweep({r}, {}) /\ JobDone(w, "expired", NoAnswer)
  <2>1. StoreStep /\ AnnouncesOnly({})
    BY <1>1, <1>3, SweepMoves
  <2>2. outcome'[r] = "expired" /\ answer'[r] = NoAnswer
    BY <1>1, <1>2, <1>3 DEF Sweep, Expirable, StoreOK
  <2>3. "expired" \in Ret /\ "expired" \in Decided /\ "expired" # "pending"
    BY DEF Ret, Decided
  <2>4. RegistryStep(w) /\ TaskOK(w)' /\ \E s : Becomes(w, s)
    BY <1>1, <1>3, <2>1, <2>2, <2>3, FetchOK
  <2> QED  BY <1>1, <1>2, <2>1, <2>4 DEF OwnStep, Becomes, TypeOK
<1>4. CASE r \in kept \ Expirable /\ UNCHANGED store /\ JobDone(w, outcome[r], answer[r])
  <2>1. RegistryStep(w) /\ TaskOK(w)' /\ \E s : Becomes(w, s)
    BY <1>1, <1>4, TellsRow
  <2> QED  BY <1>1, <1>2, <1>4, <2>1, Quietly
<1>5. CASE r \notin kept /\ UNCHANGED store /\ JobDone(w, "pending", NoAnswer)
  <2>1. StoreStep
    BY <1>1, <1>5, StoreStays
  <2>2. "pending" \in Ret /\ "pending" \notin Decided /\ kept' = kept
    BY <1>5 DEF Ret, Decided, store, lvars
  <2>3. t.pc = "read" => Looked(w)
    BY <1>1 DEF Looked
  <2>4. (t.pc = "read" /\ ~flag[w] /\ Announced(r)') => Owed(r)'
    BY <1>1, <1>5, <2>3 DEF TaskOK, Woken, Announced, Owed, store, lvars
  <2>5. RegistryStep(w) /\ TaskOK(w)' /\ \E s : Becomes(w, s)
    BY <1>1, <1>5, <2>1, <2>2, <2>4, FetchOK
  <2> QED  BY <1>1, <1>2, <1>5, <2>5, Quietly
<1> QED  BY <1>1, <1>3, <1>4, <1>5

-----------------------------------------------------------------------------
(* A step of a handler: what it answers or cancels it owes from now on,    *)
(* and what it no longer owes is notified or counted as unannounced.       *)

HandlerStep(h, m) ==
    /\ StoreStep /\ AnnouncesOnly(m.owes)
    /\ stale' \subseteq Run /\ sent' \subseteq Run
    /\ unannounced \subseteq unannounced' /\ unannounced' \subseteq Run
    /\ UNCHANGED <<task, waiters>>
    /\ flag' \in [Task -> BOOLEAN] /\ \A w \in Task : flag[w] => flag'[w]
    /\ handler' = [handler EXCEPT ![h] = m] /\ m \in HandlerState /\ RequestOK(m)
    /\ \A r \in handler[h].owes \ m.owes :
          r \in unannounced' \/ \A w \in Task : w \in waiters[r] => flag'[w]

LEMMA HandlerStepInv ==
    ASSUME BridgeInv, NEW h \in Handler, NEW m, HandlerStep(h, m) PROVE BridgeInv'
<1>1. /\ TypeOK /\ StoreOK /\ \A w \in Task : TaskOK(w)
      /\ \A g \in Handler : RequestOK(handler[g])
  BY DEF BridgeInv
<1>2. \A g \in Handler : handler'[g] = IF g = h THEN m ELSE handler[g]
  BY <1>1 DEF HandlerStep, TypeOK
<1>3. TypeOK'
  BY <1>1 DEF HandlerStep, TypeOK, StoreStep, StoreTyped
<1>4. \A g \in Handler : RequestOK(handler'[g])
  BY <1>1, <1>2 DEF HandlerStep
<1>5. ASSUME NEW w \in Task, NEW r \in Run, Announced(r)', ~Owed(r)',
             ~(w \in waiters[r] => flag'[w])
      PROVE  Announced(r) /\ ~Owed(r)
  <2>1. r \notin m.owes
    BY <1>2, <1>5 DEF Owed
  <2>2. Announced(r)
    BY <1>5, <2>1 DEF HandlerStep, AnnouncesOnly, Announced
  <2>3. \A g \in Handler : r \notin handler[g].owes
    BY <1>2, <1>5, <2>1 DEF HandlerStep, Owed, Announced
  <2> QED  BY <2>2, <2>3 DEF Owed
<1>6. ASSUME NEW w \in Task PROVE TaskOK(w)'
  <2>1. /\ task'[w] = task[w] /\ StaysRegistered(w) /\ (flag[w] => flag'[w])
        /\ StoreMoves /\ TypeOK /\ TaskOK(w)
    BY <1>1 DEF HandlerStep, StaysRegistered, StoreStep
  <2>2. Hears(w)
    BY <1>5 DEF Hears
  <2> QED  BY <2>1, <2>2, Bystander
<1> QED  BY <1>3, <1>4, <1>6 DEF BridgeInv, HandlerStep, StoreStep

LEMMA IdleRequest == NoHandler \in HandlerState /\ RequestOK(NoHandler) /\ NoHandler.owes = {}
BY DEF NoHandler, HandlerState, RequestOK

LEMMA RequestInv ==
    ASSUME BridgeInv, NEW h \in Handler, NEW op \in {"callback", "cancel", "list", "cleanup"},
           NEW r \in Run \cup {NoAnswer}, NEW a \in Answer \cup {NoAnswer}, Request(h, op, r, a),
           op \in {"callback", "cancel"} => r \in Run, op = "callback" => a \in AnswersFor[r]
    PROVE  BridgeInv'
<1> DEFINE m == [NoHandler EXCEPT !.pc = "work", !.op = op, !.run = r, !.body = a,
                                  !.fresh = r \notin stale]
<1>1. /\ TypeOK /\ StoreOK /\ handler' = [handler EXCEPT ![h] = m] /\ handler[h].pc = "idle"
      /\ UNCHANGED <<store, stale, waiters, flag, task, sent, unannounced>>
  BY DEF Request, BridgeInv
<1>2. handler[h].owes = {}
  BY <1>1 DEF BridgeInv, RequestOK
<1>3. m \in HandlerState /\ RequestOK(m) /\ m.owes = {}
  BY DEF NoHandler, HandlerState, RequestOK
<1> HIDE DEF m
<1>4. StoreStep /\ AnnouncesOnly(m.owes)
  BY <1>1, <1>3, StoreStays
<1>5. HandlerStep(h, m)
  BY <1>1, <1>2, <1>3, <1>4 DEF HandlerStep, TypeOK
<1> QED  BY <1>5, HandlerStepInv

LEMMA ArrivesInv == ASSUME BridgeInv, NEW h \in Handler, Arrives(h) PROVE BridgeInv'
<1>1. CASE Callback(h)
  <2>1. PICK r \in sent : \E a \in AnswersFor[r] : Request(h, "callback", r, a)
    BY <1>1 DEF Callback
  <2>2. r \in Run
    BY <2>1 DEF BridgeInv, TypeOK
  <2>3. PICK a \in AnswersFor[r] : Request(h, "callback", r, a)
    BY <2>1
  <2>4. a \in Answer
    BY <2>2, BridgeAssumption
  <2> QED  BY <2>2, <2>3, <2>4, RequestInv
<1>2. CASE CancelRun(h)
  BY <1>2, RequestInv DEF CancelRun
<1>3. CASE ListRuns(h)
  BY <1>3, RequestInv DEF ListRuns
<1>4. CASE Cleanup(h)
  BY <1>4, RequestInv DEF Cleanup
<1> QED  BY <1>1, <1>2, <1>3, <1>4 DEF Arrives

(* The thread of the handler is through.                                   *)
LEMMA OweInv ==
    ASSUME BridgeInv, NEW h \in Handler, handler[h].pc = "work", NEW R \in SUBSET Run,
           StoreStep, AnnouncesOnly(R), Owe(h, R)
    PROVE  BridgeInv'
<1> DEFINE m == IF R = {} THEN NoHandler
                ELSE [NoHandler EXCEPT !.pc = "owe", !.op = handler[h].op, !.owes = R]
<1>1. /\ TypeOK /\ handler' = [handler EXCEPT ![h] = m]
      /\ UNCHANGED <<stale, waiters, flag, task, sent, unannounced>>
  BY DEF Owe, BridgeInv
<1>2. handler[h].owes = {} /\ handler[h] \in HandlerState
  BY <1>1 DEF BridgeInv, RequestOK, TypeOK
<1>3. m \in HandlerState /\ RequestOK(m) /\ m.owes = R
  BY <1>2 DEF NoHandler, HandlerState, RequestOK
<1> HIDE DEF m
<1>4. HandlerStep(h, m)
  BY <1>1, <1>2, <1>3 DEF HandlerStep, TypeOK
<1> QED  BY <1>4, HandlerStepInv

LEMMA AnnouncesLess ==
    ASSUME NEW R, NEW S, R \subseteq S, AnnouncesOnly(R) PROVE AnnouncesOnly(S)
BY DEF AnnouncesOnly

LEMMA CallbackJobInv == ASSUME BridgeInv, NEW h \in Handler, CallbackJob(h) PROVE BridgeInv'
<1> DEFINE r == handler[h].run
           a == handler[h].body
<1>1. /\ TypeOK /\ StoreOK /\ handler[h].pc = "work" /\ handler[h].op = "callback"
      /\ r \in Run
      /\ \/ Sweep({r}, {}) /\ Owe(h, {})
         \/ Answered(r, a) /\ Owe(h, {r})
         \/ UNCHANGED store /\ Owe(h, {})
  BY DEF CallbackJob, Works, BridgeInv, RequestOK
<1> HIDE DEF r, a
<1>2. CASE Sweep({r}, {}) /\ Owe(h, {})
  BY <1>1, <1>2, SweepMoves, OweInv
<1>3. CASE Answered(r, a) /\ Owe(h, {r})
  BY <1>1, <1>3, AnsweredMoves, OweInv
<1>4. CASE UNCHANGED store /\ Owe(h, {})
  BY <1>1, <1>4, StoreStays, OweInv
<1> QED  BY <1>1, <1>2, <1>3, <1>4

LEMMA CancelJobInv == ASSUME BridgeInv, NEW h \in Handler, CancelJob(h) PROVE BridgeInv'
<1> DEFINE r == handler[h].run
<1>1. /\ TypeOK /\ StoreOK /\ handler[h].pc = "work" /\ handler[h].op = "cancel"
      /\ r \in Run
      /\ \/ Sweep({r}, {}) /\ Owe(h, {r})
         \/ Cancelled(r) /\ Owe(h, {r})
         \/ UNCHANGED store /\ \E R \in {{}, {r}} : Owe(h, R)
  BY DEF CancelJob, Works, BridgeInv, RequestOK
<1> HIDE DEF r
<1>2. CASE Sweep({r}, {}) /\ Owe(h, {r})
  BY <1>1, <1>2, SweepMoves, AnnouncesLess, OweInv
<1>3. CASE Cancelled(r) /\ Owe(h, {r})
  BY <1>1, <1>3, CancelledMoves, OweInv
<1>4. CASE UNCHANGED store /\ \E R \in {{}, {r}} : Owe(h, R)
  BY <1>1, <1>4, StoreStays, AnnouncesLess, OweInv
<1> QED  BY <1>1, <1>2, <1>3, <1>4

LEMMA ListJobInv == ASSUME BridgeInv, NEW h \in Handler, ListJob(h) PROVE BridgeInv'
<1>1. /\ TypeOK /\ StoreOK /\ handler[h].pc = "work" /\ Sweep(Expirable, {})
      /\ \E L \in SUBSET Run : Owe(h, L)
  BY DEF ListJob, Works, BridgeInv, TypeOK
<1> QED  BY <1>1, SweepMoves, AnnouncesLess, OweInv

LEMMA CleanupJobInv == ASSUME BridgeInv, NEW h \in Handler, CleanupJob(h) PROVE BridgeInv'
<1>1. /\ TypeOK /\ StoreOK /\ handler[h].pc = "work" /\ \E D : Sweep(Expirable, D)
      /\ Owe(h, Expirable) /\ Expirable \in SUBSET Run
  BY DEF CleanupJob, Works, BridgeInv, TypeOK, Expirable
<1> QED  BY <1>1, SweepMoves, AnnouncesLess, OweInv

(* The handler ends, with what it owed in R notified or unannounced.       *)
LEMMA EndsInv ==
    ASSUME BridgeInv, NEW h \in Handler, handler' = [handler EXCEPT ![h] = NoHandler],
           UNCHANGED <<store, stale, waiters, task, sent>>,
           unannounced \subseteq unannounced', unannounced' \subseteq Run,
           flag' \in [Task -> BOOLEAN], \A w \in Task : flag[w] => flag'[w],
           \A r \in handler[h].owes :
              r \in unannounced' \/ \A w \in Task : w \in waiters[r] => flag'[w]
    PROVE  BridgeInv'
<1>1. StoreStep /\ AnnouncesOnly(NoHandler.owes)
  BY StoreStays, IdleRequest DEF BridgeInv
<1>2. HandlerStep(h, NoHandler)
  BY <1>1, IdleRequest DEF HandlerStep, BridgeInv, TypeOK
<1> QED  BY <1>2, HandlerStepInv

LEMMA HandlerRaisesInv == ASSUME BridgeInv, NEW h \in Handler, HandlerRaises(h) PROVE BridgeInv'
<1>1. handler[h].owes = {}
  BY DEF HandlerRaises, BridgeInv, RequestOK
<1> QED  BY <1>1, EndsInv DEF HandlerRaises, BridgeInv, TypeOK

LEMMA ResumeNotifyInv == ASSUME BridgeInv, NEW h \in Handler, ResumeNotify(h) PROVE BridgeInv'
<1>1. /\ flag' = [w \in Task |-> flag[w] \/ \E r \in handler[h].owes : w \in waiters[r]]
      /\ handler' = [handler EXCEPT ![h] = NoHandler]
      /\ UNCHANGED <<store, stale, waiters, task, sent, unannounced>>
  BY DEF ResumeNotify, Notify
<1>2. unannounced' \subseteq Run /\ flag \in [Task -> BOOLEAN]
  BY <1>1 DEF BridgeInv, TypeOK
<1>3. flag' \in [Task -> BOOLEAN] /\ \A w \in Task : flag[w] => flag'[w]
  BY <1>1, <1>2
<1>4. \A r \in handler[h].owes : \A w \in Task : w \in waiters[r] => flag'[w]
  BY <1>1
<1> QED  BY <1>1, <1>2, <1>3, <1>4, EndsInv

LEMMA CancelRunGoneInv == ASSUME BridgeInv, NEW h \in Handler, CancelRunGone(h) PROVE BridgeInv'
<1>1. /\ unannounced' = unannounced \cup handler[h].owes
      /\ handler' = [handler EXCEPT ![h] = NoHandler]
      /\ UNCHANGED <<store, stale, waiters, flag, task, sent>>
  BY DEF CancelRunGone
<1>2. unannounced' \subseteq Run /\ flag' \in [Task -> BOOLEAN]
  BY <1>1 DEF BridgeInv, TypeOK, HandlerState
<1> QED  BY <1>1, <1>2, EndsInv

-----------------------------------------------------------------------------
(* The other steps.                                                        *)

LEMMA GetRunInv == ASSUME BridgeInv, NEW r \in Run, GetRun(r) PROVE BridgeInv'
<1>1. /\ TypeOK /\ StoreOK /\ \A w \in Task : TaskOK(w)
      /\ \A g \in Handler : RequestOK(handler[g])
      /\ UNCHANGED <<stale, waiters, task, handler, sent, unannounced>>
  BY DEF GetRun, BridgeInv
<1>2. StoreStep /\ AnnouncesOnly({})
  BY <1>1, SweepMoves, StoreStays DEF GetRun
<1>3. flag' \in [Task -> BOOLEAN] /\ \A w \in Task : flag[w] => flag'[w]
  BY <1>1 DEF GetRun, Notify, TypeOK
<1>4. TypeOK'
  BY <1>1, <1>2, <1>3 DEF TypeOK, StoreStep, StoreTyped
<1>5. ASSUME NEW w \in Task PROVE TaskOK(w)'
  <2>1. StaysRegistered(w) /\ task'[w] = task[w] /\ (flag[w] => flag'[w]) /\ StoreMoves
    BY <1>1, <1>2, <1>3 DEF StaysRegistered, StoreStep
  <2>2. Hears(w)
    BY <1>1, <1>2, SameAnnouncements DEF Hears
  <2> QED  BY <1>1, <2>1, <2>2, Bystander
<1> QED  BY <1>1, <1>2, <1>4, <1>5 DEF BridgeInv, StoreStep

LEMMA AgeInv == ASSUME BridgeInv, NEW r \in Run, Age(r) PROVE BridgeInv'
<1>1. /\ stale' = stale \cup {r}
      /\ UNCHANGED <<store, waiters, flag, task, handler, sent, unannounced>>
  BY DEF Age
<1>2. TypeOK'
  BY <1>1 DEF BridgeInv, TypeOK, store, lvars
<1>3. StoreOK' /\ \A w \in Task : TaskOK(w)'
  BY <1>1 DEF BridgeInv, StoreOK, TaskOK, JobOK, Registered, Waiting, Woken, Looked, Owed,
              Announced, Agrees, Timely, store, lvars
<1> QED  BY <1>1, <1>2, <1>3 DEF BridgeInv

LEMMA RestartInv == ASSUME BridgeInv, Restart PROVE BridgeInv'
<1>1. /\ TypeOK /\ StoreOK /\ \E D : Sweep(Expirable, D)
      /\ waiters' = [r \in Run |-> {}] /\ flag' = [w \in Task |-> FALSE]
      /\ task' = [w \in Task |-> NoTask] /\ handler' = [h \in Handler |-> NoHandler]
      /\ UNCHANGED <<stale, sent, unannounced>>
  BY DEF Restart, BridgeInv
<1>2. StoreStep
  BY <1>1, SweepMoves
<1>3. TypeOK'
  BY <1>1, <1>2, NoTaskTyped, IdleRequest DEF TypeOK, StoreStep, StoreTyped
<1>4. \A w \in Task : TaskOK(w)'
  BY <1>1, RestOK
<1>5. \A h \in Handler : RequestOK(handler'[h])
  BY <1>1, IdleRequest
<1> QED  BY <1>2, <1>3, <1>4, <1>5 DEF BridgeInv, StoreStep

LEMMA BridgeInit == Init => BridgeInv
<1> SUFFICES ASSUME Init PROVE BridgeInv
  OBVIOUS
<1>1. /\ LInit /\ \A r \in Run : outcome[r] = "unborn"
      /\ stale = {} /\ sent = {} /\ unannounced = {}
      /\ waiters = [r \in Run |-> {}] /\ flag = [w \in Task |-> FALSE]
      /\ task = [w \in Task |-> NoTask] /\ handler = [h \in Handler |-> NoHandler]
  BY DEF Init
<1>2. TypeOK
  BY <1>1, NoTaskTyped, IdleRequest DEF TypeOK, LInit
<1>3. StoreOK
  BY <1>1 DEF StoreOK, LInit
<1>4. ASSUME NEW w \in Task PROVE TaskOK(w)
  <2>1. task[w] = NoTask /\ task[w].pc = "idle" /\ task[w].late = "no" /\ task[w].got = "none"
        /\ task[w].job = "none"
    BY <1>1 DEF NoTask
  <2>2. JobOK(w) /\ Registered(w)
    BY <1>1, <2>1 DEF JobOK, Registered, Waiting
  <2>3. Woken(w) /\ Agrees(w) /\ Timely(w)
    BY <2>1 DEF Woken, Looked, Agrees, Timely, Decided
  <2> QED  BY <2>1, <2>2, <2>3 DEF TaskOK
<1>5. \A h \in Handler : RequestOK(handler[h])
  BY <1>1, IdleRequest
<1> QED  BY <1>2, <1>3, <1>4, <1>5 DEF BridgeInv

LEMMA TaskStepIsOwn ==
    ASSUME BridgeInv, NEW w \in Task,
           \/ Deliver(w) \/ PostReturns(w) \/ Job(w) \/ Resume(w) \/ Wake(w) \/ Poll(w)
           \/ TimeOver(w) \/ JobRaises(w) \/ ClientGone(w)
    PROVE  OwnStep(w)
<1>1. CASE Deliver(w) \/ PostReturns(w) \/ Wake(w) \/ Poll(w) \/ TimeOver(w)
  BY <1>1, DeliverStep, PostReturnsStep, WakeStep, PollStep, TimeOverStep
<1>2. CASE JobRaises(w) \/ ClientGone(w)
  BY <1>2, JobRaisesStep, ClientGoneStep
<1>3. CASE Job(w)
  BY <1>3, InsertJobStep, RecordJobStep, ReadJobStep, ExpireJobStep DEF Job
<1>4. CASE Resume(w)
  BY <1>4, ResumeInsertStep, ResumeRecordStep, ResumeReadStep, ResumeApplyStep DEF Resume
<1> QED  BY <1>1, <1>2, <1>3, <1>4

LEMMA HandlerStepsInv ==
    ASSUME BridgeInv, NEW h \in Handler,
           \/ Arrives(h) \/ HandlerJob(h) \/ HandlerRaises(h) \/ ResumeNotify(h)
           \/ CancelRunGone(h)
    PROVE  BridgeInv'
<1>1. CASE HandlerJob(h)
  BY <1>1, CallbackJobInv, CancelJobInv, ListJobInv, CleanupJobInv DEF HandlerJob
<1> QED  BY <1>1, ArrivesInv, HandlerRaisesInv, ResumeNotifyInv, CancelRunGoneInv

LEMMA BridgeNext == BridgeInv /\ [Next]_bvars => BridgeInv'
<1> SUFFICES ASSUME BridgeInv, [Next]_bvars PROVE BridgeInv'
  OBVIOUS
<1>1. ASSUME NEW w \in Task, NEW r \in Run, Ask(w, r) \/ Wait(w, r) PROVE BridgeInv'
  BY <1>1, AskStep, WaitStep, OwnStepInv
<1>2. ASSUME NEW r \in Run, GetRun(r) \/ Age(r) PROVE BridgeInv'
  BY <1>2, GetRunInv, AgeInv
<1>3. CASE UNCHANGED bvars
  BY <1>3 DEF bvars, BridgeInv, TypeOK, StoreOK, TaskOK, JobOK, Registered, Waiting, Woken,
              Looked, Owed, Announced, Agrees, Timely
<1> QED  BY <1>1, <1>2, <1>3, TaskStepIsOwn, OwnStepInv, HandlerStepsInv, RestartInv DEF Next

-----------------------------------------------------------------------------
(* The theorems.                                                           *)

(* The inductive invariant: every call in the loop of _wait_for_run is in  *)
(* the registry under its run, a call that found its run pending will be   *)
(* notified of an answer or a cancel since, what a call read of a decision *)
(* is the decision, and a call whose time ended after the decision will    *)
(* read it.                                                                *)
THEOREM BridgeInvariance == Spec => []BridgeInv
<1> QED  BY BridgeInit, BridgeNext, PTL DEF Spec

(* Every variable of the event loop has its type.                          *)
THEOREM BridgeTyped == Spec => []TypeOK
<1>1. BridgeInv => TypeOK
  BY DEF BridgeInv
<1> QED  BY <1>1, BridgeInvariance, PTL

(* The registry of app/waiters.py holds exactly the calls that wait: the   *)
(* finally of _wait_for_run leaves no entry behind, and no call loses its  *)
(* own to another one of the same run.                                     *)
THEOREM RegistryExact == Spec => []WaitersExact
<1>1. BridgeInv => WaitersExact
  BY DEF BridgeInv, TypeOK, WaitersExact, TaskOK, Registered
<1> QED  BY <1>1, BridgeInvariance, PTL

(* No lost wakeup: registering before the read, and clearing the event     *)
(* before the next one, leaves no moment at which a notification is lost.  *)
THEOREM NoLostWakeup == Spec => []WakeupPending
<1>1. BridgeInv => WakeupPending
  BY DEF BridgeInv, WakeupPending, TaskOK, Woken, Looked, Announced, Owed
<1> QED  BY <1>1, BridgeInvariance, PTL

(* Whatever call returns a decision, it is the recorded one, and all calls *)
(* for a run return the same, with the same answer.                        *)
THEOREM ToldTheSame == Spec => []ClientsAgree
<1>1. BridgeInv => ClientsAgree
  BY DEF BridgeInv, ClientsAgree, TaskOK, Agrees
<1> QED  BY <1>1, BridgeInvariance, PTL

-----------------------------------------------------------------------------
(* What a call says when its time is over.                                 *)

(* A step of w does not miss a decision made in time.                      *)
SaysIt(w) ==
    /\ task[w].late = "decided" /\ task[w].run \in kept
    /\ task[w].pc # "done" /\ task'[w].pc = "done"
    => task'[w].got # "pending"

LEMMA GoToSays ==
    ASSUME TypeOK, NEW w \in Task,
           NEW pc \in {"insert", "post", "record", "read", "sleep", "apply"},
           NEW job \in {"none", "insert_run", "update_run_upstream", "run_answer",
                        "cas_expire"},
           GoTo(w, pc, job)
    PROVE  SaysIt(w)
<1>1. task'[w].pc = pc
  BY DEF GoTo, TypeOK, TaskState
<1> QED  BY <1>1 DEF SaysIt

LEMMA JobDoneSays ==
    ASSUME TypeOK, NEW w \in Task, NEW ret, NEW ans, JobDone(w, ret, ans)
    PROVE  SaysIt(w)
<1>1. task'[w].pc \in {"idle", task[w].pc}
  BY DEF JobDone, NoTask, TypeOK, TaskState
<1> QED  BY <1>1 DEF SaysIt

LEMMA ReturnSays ==
    ASSUME TypeOK, NEW w \in Task, NEW ret, NEW ans, Return(w, ret, ans), ret # "pending"
    PROVE  SaysIt(w)
<1>1. task'[w].got = ret
  BY DEF Return, TypeOK, TaskState
<1> QED  BY <1>1 DEF SaysIt

LEMMA ResumeReadSays == ASSUME BridgeInv, NEW w \in Task, ResumeRead(w) PROVE SaysIt(w)
<1> DEFINE t == task[w]
<1>1. /\ TypeOK /\ TaskOK(w) /\ t.pc = "read" /\ t.job = "none"
  BY DEF ResumeRead, Resumes, BridgeInv
<1>2. ASSUME t.kind = "wait", t.late = "decided", t.run \in kept PROVE t.got \in Decided
  BY <1>1, <1>2 DEF TaskOK, Timely
<1>3. CASE GoTo(w, "sleep", "none") \/ GoTo(w, "apply", "run_answer")
  BY <1>1, <1>3, GoToSays
<1>4. CASE Return(w, t.got, t.ans) /\ (t.got \in Decided \/ t.kind = "wait")
  <2>1. SUFFICES ASSUME t.late = "decided", t.run \in kept PROVE SaysIt(w)
    BY DEF SaysIt
  <2>2. t.got \in Decided
    BY <1>2, <1>4, <2>1
  <2> QED  BY <1>1, <1>4, <2>2, ReturnSays DEF Decided
<1> QED  BY <1>3, <1>4 DEF ResumeRead

LEMMA ResumeApplySays == ASSUME BridgeInv, NEW w \in Task, ResumeApply(w) PROVE SaysIt(w)
<1> DEFINE t == task[w]
<1>1. /\ TypeOK /\ TaskOK(w) /\ t.pc = "apply" /\ t.job = "none"
      /\ IF t.got \in Decided THEN Return(w, t.got, t.ans) ELSE Return(w, "pending", NoAnswer)
  BY DEF ResumeApply, Resumes, BridgeInv
<1>2. SUFFICES ASSUME t.late = "decided", t.run \in kept PROVE SaysIt(w)
  BY DEF SaysIt
<1>3. t.got \in Decided
  BY <1>1, <1>2 DEF TaskOK, Timely
<1> QED  BY <1>1, <1>3, ReturnSays DEF Decided

LEMMA TaskStepSays ==
    ASSUME BridgeInv, NEW w \in Task,
           \/ Deliver(w) \/ PostReturns(w) \/ Job(w) \/ Resume(w) \/ Wake(w) \/ Poll(w)
           \/ TimeOver(w) \/ JobRaises(w) \/ ClientGone(w)
    PROVE  SaysIt(w)
<1>1. TypeOK
  BY DEF BridgeInv
<1>2. CASE Deliver(w) \/ TimeOver(w)
  <2>1. task'[w].pc = task[w].pc
    BY <1>1, <1>2 DEF Deliver, TimeOver, TypeOK, TaskState
  <2> QED  BY <2>1 DEF SaysIt
<1>3. CASE PostReturns(w) \/ Wake(w) \/ Poll(w) \/ ResumeInsert(w) \/ ResumeRecord(w)
  <2>1. \E pc \in {"post", "record", "read", "apply"},
           job \in {"none", "update_run_upstream", "run_answer"} : GoTo(w, pc, job)
    BY <1>3 DEF PostReturns, AfterPost, StartWait, Wake, Poll, ResumeInsert, ResumeRecord
  <2> QED  BY <1>1, <2>1, GoToSays
<1>4. CASE JobRaises(w)
  <2>1. CASE task[w].pc = "detached"
    <3>1. task'[w].pc = "idle"
      BY <1>1, <1>4, <2>1 DEF JobRaises, NoTask, TypeOK
    <3> QED  BY <3>1 DEF SaysIt
  <2>2. CASE task[w].pc # "detached"
    BY <1>1, <1>4, <2>2, ReturnSays DEF JobRaises
  <2> QED  BY <2>1, <2>2
<1>5. CASE ClientGone(w)
  <2>1. task'[w].pc \in {"idle", "detached"}
    BY <1>1, <1>5 DEF ClientGone, NoTask, TypeOK, TaskState
  <2> QED  BY <2>1 DEF SaysIt
<1>6. CASE Job(w)
  <2>1. CASE \E ret, ans : JobDone(w, ret, ans)
    BY <1>1, <2>1, JobDoneSays
  <2>2. CASE task' = [task EXCEPT ![w].job = "cas_expire"]
    <3>1. task'[w].pc = task[w].pc
      BY <1>1, <2>2 DEF TypeOK, TaskState
    <3> QED  BY <3>1 DEF SaysIt
  <2> QED  BY <1>6, <2>1, <2>2 DEF Job, InsertJob, RecordJob, ReadJob, ExpireJob
<1> QED
  BY <1>2, <1>3, <1>4, <1>5, <1>6, ResumeReadSays, ResumeApplySays DEF Resume

LEMMA NextSays == BridgeInv /\ [Next]_bvars => \A w \in Task : SaysIt(w)
<1> SUFFICES ASSUME BridgeInv, [Next]_bvars, NEW w \in Task PROVE SaysIt(w)
  OBVIOUS
<1>1. ASSUME task'[w] = task[w] PROVE SaysIt(w)
  BY <1>1 DEF SaysIt
<1>2. ASSUME NEW v \in Task,
             \/ Deliver(v) \/ PostReturns(v) \/ Job(v) \/ Resume(v) \/ Wake(v) \/ Poll(v)
             \/ TimeOver(v) \/ JobRaises(v) \/ ClientGone(v)
      PROVE  SaysIt(w)
  <2>1. CASE v = w
    BY <1>2, <2>1, TaskStepSays
  <2>2. CASE v # w
    BY <1>1, <1>2, <2>2, TaskStepIsOwn DEF OwnStep
  <2> QED  BY <2>1, <2>2
<1>3. ASSUME NEW v \in Task, NEW r \in Run, Ask(v, r) \/ Wait(v, r) PROVE SaysIt(w)
  <2>1. task'[w].pc # "done" \/ task'[w] = task[w]
    BY <1>3 DEF Ask, Wait, NoTask, BridgeInv, TypeOK
  <2> QED  BY <1>1, <2>1 DEF SaysIt
<1>4. ASSUME NEW h \in Handler,
             \/ Arrives(h) \/ HandlerJob(h) \/ HandlerRaises(h) \/ ResumeNotify(h)
             \/ CancelRunGone(h)
      PROVE  SaysIt(w)
  <2>1. UNCHANGED task
    BY <1>4 DEF Arrives, Callback, CancelRun, ListRuns, Cleanup, Request, HandlerJob,
       CallbackJob, CancelJob, ListJob, CleanupJob, Owe, HandlerRaises, ResumeNotify,
       CancelRunGone
  <2> QED  BY <1>1, <2>1
<1>5. ASSUME NEW r \in Run, GetRun(r) \/ Age(r) PROVE SaysIt(w)
  BY <1>1, <1>5 DEF GetRun, Age
<1>6. ASSUME Restart PROVE SaysIt(w)
  BY <1>6 DEF Restart, NoTask, SaysIt
<1>7. CASE UNCHANGED bvars
  BY <1>1, <1>7 DEF bvars
<1> QED  BY <1>2, <1>3, <1>4, <1>5, <1>6, <1>7 DEF Next

(* A call whose wait time ended after its run was decided returns the      *)
(* decision, never "pending", unless the row is gone: the last read of     *)
(* wait_for_grokbot_answer, and the one of ask_grokbot after its wait.     *)
THEOREM DecisionsReturned == Spec => DecisionNotMissed
<1>1. BridgeInv /\ [Next]_bvars =>
        [\A w \in Task : /\ task[w].late = "decided" /\ task[w].run \in kept
                         /\ task[w].pc # "done" /\ task'[w].pc = "done"
                         => task'[w].got # "pending"]_bvars
  BY NextSays DEF SaysIt
<1> QED  BY <1>1, BridgeInvariance, PTL DEF Spec, DecisionNotMissed

-----------------------------------------------------------------------------
(* The store.                                                              *)

LEMMA SweepIsLNext ==
    ASSUME TypeOK, NEW E, NEW D, Sweep(E, D) PROVE LNext
<1>1. E \in SUBSET Run /\ D \in SUBSET Run
  BY DEF Sweep, Disposable, TypeOK
<1> QED  BY <1>1 DEF LNext

LEMMA TaskStepOfStore ==
    ASSUME BridgeInv, NEW w \in Task,
           \/ Deliver(w) \/ PostReturns(w) \/ Job(w) \/ Resume(w) \/ Wake(w) \/ Poll(w)
           \/ TimeOver(w) \/ JobRaises(w) \/ ClientGone(w)
    PROVE  LNext \/ UNCHANGED lvars
<1>1. TypeOK /\ TaskOK(w)
  BY DEF BridgeInv
<1>2. CASE InsertJob(w)
  <2>1. task[w].run \in Run
    BY <1>1, <1>2 DEF InsertJob, Awaits, TaskOK, NoTask
  <2>2. \E D \in SUBSET Run : Create(task[w].run, D)
    BY <1>1, <1>2 DEF InsertJob, Disposable, TypeOK
  <2> QED  BY <2>1, <2>2 DEF LNext
<1>3. CASE ExpireJob(w)
  BY <1>1, <1>3, SweepIsLNext DEF ExpireJob, store
<1>4. CASE RecordJob(w) \/ ReadJob(w)
  BY <1>4 DEF RecordJob, ReadJob, store
<1>5. CASE Resume(w)
  BY <1>5 DEF Resume, ResumeInsert, ResumeRecord, ResumeRead, ResumeApply, store
<1> QED  BY <1>2, <1>3, <1>4, <1>5 DEF Job, Deliver, PostReturns, Wake, Poll, TimeOver,
              JobRaises, ClientGone, store

LEMMA HandlerStepOfStore ==
    ASSUME BridgeInv, NEW h \in Handler,
           \/ Arrives(h) \/ HandlerJob(h) \/ HandlerRaises(h) \/ ResumeNotify(h)
           \/ CancelRunGone(h)
    PROVE  LNext \/ UNCHANGED lvars
<1>1. TypeOK /\ RequestOK(handler[h])
  BY DEF BridgeInv
<1>2. CASE Arrives(h)
  BY <1>2 DEF Arrives, Callback, CancelRun, ListRuns, Cleanup, Request, store
<1>3. CASE CallbackJob(h)
  <2>1. handler[h].run \in Run
    BY <1>1, <1>3 DEF CallbackJob, Works, RequestOK
  <2>2. \A r, a : Answered(r, a) => a \in AnswersFor[r]
    BY DEF Answered
  <2> QED  BY <1>1, <1>3, <2>1, <2>2, SweepIsLNext DEF CallbackJob, LNext, store
<1>4. CASE CancelJob(h)
  <2>1. handler[h].run \in Run
    BY <1>1, <1>4 DEF CancelJob, Works, RequestOK
  <2> QED  BY <1>1, <1>4, <2>1, SweepIsLNext DEF CancelJob, LNext, store
<1>5. CASE ListJob(h) \/ CleanupJob(h)
  BY <1>1, <1>5, SweepIsLNext DEF ListJob, CleanupJob
<1> QED  BY <1>2, <1>3, <1>4, <1>5 DEF HandlerJob, HandlerRaises, ResumeNotify,
              CancelRunGone, store

(* The bridge changes the runs only as RunLifecycle allows, which RunStore *)
(* implements: the tasks and handlers use the store as it is specified.    *)
THEOREM StoreUsedAsSpecified == Spec => LSpec
<1>1. Init => LInit
  BY DEF Init
<1>2. BridgeInv /\ [Next]_bvars => [LNext]_lvars
  <2> SUFFICES ASSUME BridgeInv, [Next]_bvars PROVE LNext \/ UNCHANGED lvars
    OBVIOUS
  <2>1. ASSUME NEW w \in Task, NEW r \in Run, Ask(w, r) \/ Wait(w, r)
        PROVE  UNCHANGED lvars
    BY <2>1 DEF Ask, Wait, store
  <2>2. ASSUME NEW r \in Run, GetRun(r) \/ Age(r) PROVE LNext \/ UNCHANGED lvars
    BY <2>2, SweepIsLNext DEF GetRun, Age, store, BridgeInv
  <2>3. CASE Restart
    BY <2>3, SweepIsLNext DEF Restart, BridgeInv
  <2>4. CASE UNCHANGED bvars
    BY <2>4 DEF bvars, lvars
  <2> QED  BY <2>1, <2>2, <2>3, <2>4, TaskStepOfStore, HandlerStepOfStore DEF Next
<1> QED  BY <1>1, <1>2, BridgeInvariance, PTL DEF Spec, LSpec

=============================================================================
