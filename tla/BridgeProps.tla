---------------------------- MODULE BridgeProps ----------------------------
(***************************************************************************)
(* What the tools of app/tools.py and the registry of app/waiters.py must  *)
(* guarantee to the clients that wait for a run.                           *)
(***************************************************************************)
EXTENDS Bridge

(* Every variable has its type.                                            *)
TypeOK ==
    /\ outcome \in [Run -> Outcome]
    /\ answer \in [Run -> Answer \cup {NoAnswer}]
    /\ kept \subseteq Run /\ stale \subseteq Run /\ sent \subseteq Run
    /\ unannounced \subseteq Run
    /\ waiters \in [Run -> SUBSET Task]
    /\ flag \in [Task -> BOOLEAN]
    /\ task \in [Task -> TaskState]
    /\ handler \in [Handler -> HandlerState]

(* The registry of waiters holds the event of exactly the calls that are   *)
(* in the loop of _wait_for_run: none is left behind by a call that        *)
(* returned, raised or was cancelled, and none that still waits is missing.*)
WaitersExact ==
    \A r \in Run : waiters[r] = {w \in Task : Waiting(w) /\ task[w].run = r}

(* No lost wakeup: if a call sleeps with its event clear although its run  *)
(* was answered or cancelled, then the handler that decided the run has    *)
(* still to notify it.  The exception is a cancel_run that was itself      *)
(* cancelled between its commit and its notify.                            *)
WakeupPending ==
    \A w \in Task :
        LET r == task[w].run
        IN  /\ task[w].pc = "sleep" /\ ~flag[w]
            /\ outcome[r] \in {"answered", "cancelled"} /\ r \notin unannounced
            => \E h \in Handler : r \in handler[h].owes

(* All clients are told the same: whatever decision a call returned is the *)
(* recorded one, with the recorded answer, and so is that of every other   *)
(* call for the run.                                                       *)
ClientsAgree ==
    \A w \in Task : task[w].pc = "done" /\ task[w].got \in Decided =>
        /\ outcome[task[w].run] = task[w].got
        /\ answer[task[w].run] = task[w].ans

(* A decision made before the wait time was over is returned: such a call  *)
(* never says "pending", unless the row was deleted in between, or the     *)
(* decision fell between the last read of wait_for_grokbot_answer and its  *)
(* return.                                                                 *)
DecisionNotMissed ==
    [][\A w \in Task : /\ task[w].late = "decided" /\ task[w].run \in kept
                       /\ task[w].pc # "done" /\ task'[w].pc = "done"
                       => task'[w].got # "pending"]_bvars

-----------------------------------------------------------------------------
(* The event loop runs what is ready, threads end, the HTTP client times   *)
(* out.  Nothing is assumed of Grok Bot, of other clients or of the cleanup.*)
Responsive ==
    /\ \A w \in Task : /\ WF_bvars(PostReturns(w)) /\ WF_bvars(Job(w)) /\ WF_bvars(Resume(w))
                       /\ WF_bvars(Wake(w))
    /\ \A h \in Handler : WF_bvars(HandlerJob(h)) /\ WF_bvars(ResumeNotify(h))

EventSpec == Spec /\ Responsive

(* wait_for times out, and the wait time is over at last.                  *)
Timers == \A w \in Task : WF_bvars(Poll(w)) /\ WF_bvars(TimeOver(w))

(* Every call of the tools ends, also if nobody ever decides the run, if   *)
(* the wakeup is lost, or if the run is deleted: the timers see to it.     *)
EveryCallReturns ==
    Timers => \A w \in Task : task[w].pc # "idle" ~> task[w].pc \in {"idle", "done"}

(* Without any timer the notification alone ends the wait of every call    *)
(* for an answered run: polling is not needed to learn of an answer.       *)
AnswerWakes ==
    \A w \in Task : \A r \in Run :
        Waiting(w) /\ task[w].run = r /\ outcome[r] = "answered" ~> ~Waiting(w)
=============================================================================
