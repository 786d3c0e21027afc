--------------------------- MODULE RunStoreProps ---------------------------
(***************************************************************************)
(* What must hold of the store of app/db.py, and three promises of the     *)
(* documentation that it does not keep.                                    *)
(***************************************************************************)
EXTENDS RunStore

(* Every variable has its type.                                            *)
TypeOK ==
    /\ runs \in [Run -> Row]
    /\ present \subseteq Run
    /\ events \subseteq Event
    /\ lastRun \in Nat /\ lastEvent \in Nat
    /\ now \in Time
    /\ process \in {"down", "starting", "serving"}
    /\ calls \in [Worker -> Call]

(* A decided run carries a callback body exactly when it was answered, and *)
(* the body echoed the run_id of this very run: no interleaving of         *)
(* callbacks with cancel and expiry leaves a body on a cancelled or        *)
(* expired row, or the body of another run's callback.                     *)
AnswerBelongsToRun ==
    \A r \in Run : IF runs[r].status = "answered" THEN Addressed(runs[r].answer, r)
                                                   ELSE runs[r].answer = NoAnswer

-----------------------------------------------------------------------------
(* The inductive invariant behind the proofs.                              *)

RunOp == {"insert", "upstream", "get", "answer", "cancel", "resolve"}

InProgress(w) == calls[w].at \notin {"idle", "done"}

(* Instants a call remembers lie in the past, a scan is judged after the   *)
(* call began, and calls about a run name one that exists.                 *)
CallOK(w) ==
    LET c == calls[w]
    IN  /\ c.began <= now /\ c.seen <= now
        /\ c.op \in {"list", "prune"} /\ c.at = "write" => c.began <= c.seen
        /\ InProgress(w) /\ c.op \in RunOp => c.run \in Run
        /\ InProgress(w) /\ c.op \in RunOp \ {"insert"} => runs[c.run].status # "unborn"
        /\ InProgress(w) /\ c.op = "resolve" => c.body \in Body
        /\ c.op = "resolve" /\ c.at \in {"write", "expire"} => c.body.echo = c.run

(* The run_ids of inserts in flight are fresh and distinct.                *)
InsertsFresh ==
    \A w \in Worker : InProgress(w) /\ calls[w].op = "insert" =>
        /\ runs[calls[w].run].status = "unborn"
        /\ \A v \in Worker \ {w} : InProgress(v) /\ calls[v].op = "insert"
                                   => calls[v].run # calls[w].run

StoreInv ==
    /\ TypeOK
    /\ \A w \in Worker : CallOK(w)
    /\ InsertsFresh
    /\ \A r \in present : runs[r].status # "unborn"
    /\ AnswerBelongsToRun

-----------------------------------------------------------------------------
(* The documented lifetime of a pending run is over.                       *)
PastTTL(r, t) == TTL = 0 \/ t > runs[r].created + TTL

(* A run that this version expired carries as answered_at an instant at    *)
(* which it really was past CALLBACK_TTL_SECONDS, however long the expiring*)
(* call waited for the write lock.                                         *)
ExpiredPastTTL ==
    \A r \in Run \ Old : runs[r].status = "expired" => PastTTL(r, runs[r].stamped)

(* Once the schema is ensured, answered_at is set on exactly the decided   *)
(* rows, never before created_at and never in the future: the DELETE of    *)
(* prune_store compares it and would keep a NULL row for ever.             *)
StampsConsistent ==
    \A r \in present :
        /\ process # "down" => (runs[r].status \in Terminal <=> runs[r].stamped # NoStamp)
        /\ runs[r].stamped # NoStamp => runs[r].created <= runs[r].stamped
                                        /\ runs[r].stamped <= now

(* What get_run, run_answer, cancel_pending_run and resolve_callback told  *)
(* their callers is what the row says from then on: "already_answered" is  *)
(* not told of a cancelled run, the answer returned is the recorded one.   *)
(* The one exception is a callback whose row is gone when it is reread,    *)
(* which is told "expired".                                                *)
ReportsAgree ==
    \A w \in Worker :
        LET c == calls[w]
            told == IF c.ret # "ok" THEN c.ret
                    ELSE IF c.op = "cancel" THEN "cancelled" ELSE "answered"
        IN  c.at = "done" /\ c.op \in {"get", "answer", "cancel", "resolve"}
                          /\ told \in Terminal =>
              \/ /\ runs[c.run].status = told
                 /\ c.op \in {"get", "answer"} => c.ans = runs[c.run].answer
              \/ c.op = "resolve" /\ c.ret = "expired" /\ c.run \notin present

(* No two calls are both told that they decided the same run.              *)
OneWinner ==
    \A v, w \in Worker :
        /\ calls[v].at = "done" /\ calls[w].at = "done"
        /\ calls[v].ret = "ok" /\ calls[w].ret = "ok"
        /\ {calls[v].op, calls[w].op} \subseteq {"cancel", "resolve"}
        /\ calls[v].run = calls[w].run
        => v = w

(* A reader is told "pending" of a run past its TTL only when the row was  *)
(* deleted between run_answer's failed expiry and its second SELECT.       *)
PendingIsHonest ==
    [][\A w \in Worker :
          /\ calls[w].at # "done"
          /\ calls'[w].at = "done" /\ calls'[w].ret = "pending"
          /\ PastTTL(calls[w].run, now)
          => calls[w].op = "answer" /\ calls[w].run \notin present]_vars

(* Whoever lost a compare-and-set finds the run decided, or its row gone:  *)
(* the answers chosen for "none of these" are never given for a live run.  *)
LoserFindsDecision ==
    \A w \in Worker : calls[w].at = "reread" /\ calls[w].run \in present
                        => runs[calls[w].run].status \in Terminal

(* A decision is never revised: neither the status nor the answer of a     *)
(* decided run changes, whatever calls are still under way.                *)
DecisionIsFinal ==
    [][\A r \in Run : runs[r].status \in Terminal =>
           runs'[r].status = runs[r].status /\ runs'[r].answer = runs[r].answer]_vars

(* A row leaves the table only if it was decided before the step, and then *)
(* either RUN_RETENTION_SECONDS have passed since its answered_at or there *)
(* are MAX_EVENTS younger decided rows.                                    *)
DeletionJustified ==
    [][\A r \in present \ present' :
          /\ runs[r].status \in Terminal /\ runs[r].stamped # NoStamp
          /\ \/ RunKeep > 0 /\ now - runs[r].stamped > RunKeep
             \/ MaxEvents <= Cardinality({q \in present : /\ runs[q].status \in Terminal
                                                          /\ runs[q].id > runs[r].id})]_vars

(* An inbound event leaves the table only past EVENT_RETENTION_SECONDS or  *)
(* when MAX_EVENTS younger ones are stored, and never more are stored.  The *)
(* event whose id store_event returns is in the table.                     *)
EventsKept ==
    [][/\ Cardinality(events') <= MaxEvents
       /\ lastEvent' # lastEvent => \E e \in events' : e.id = lastEvent'
       /\ \A e \in events \ events' :
            \/ EventKeep > 0 /\ now - e.received > EventKeep
            \/ Cardinality({d \in events' : d.id > e.id}) >= MaxEvents]_vars

(* The store keeps the promise of RunLifecycle.                            *)
Lifecycle == INSTANCE RunLifecycle WITH
                Answer <- Body,
                outcome <- [r \in Run |-> runs[r].status],
                answer <- [r \in Run |-> runs[r].answer],
                kept <- present

ImplementsLifecycle == Lifecycle!LSpec

(* The process is never gone for good: it stays up, or requests start the  *)
(* stopped machine again and again.  Without it nothing runs the cleanup.  *)
ServesAgain == []<>(process = "serving")

(* As long as the process serves again and again, a run with a run_id that *)
(* outlives its TTL is decided in the end, by the cleanup of main.py even  *)
(* if nobody reads that run any more (ask_grokbot's caller may be gone).   *)
StaleRunsEnd ==
    ServesAgain =>
        \A r \in Run \ Unnamed :
            runs[r].status = "pending" /\ PastTTL(r, now) ~> runs[r].status \in Terminal

(* As long as the process serves again and again, decided rows that        *)
(* outlived the retention window leave the table, also those of an earlier *)
(* version that have no run_id.                                            *)
DecidedRunsLeave ==
    ServesAgain =>
        \A r \in Run : /\ RunKeep > 0 /\ r \in present /\ runs[r].status \in Terminal
                       /\ runs[r].stamped # NoStamp /\ now - runs[r].stamped > RunKeep
                       ~> r \notin present

-----------------------------------------------------------------------------
(* Promises of the documentation that the code does not keep.              *)

(* SPEC.md:117, "a just-expired run is kept for a full retention window".  *)
KeptForRetention ==
    [][\A r \in present \ present' :
          runs[r].status = "expired" => now - runs[r].stamped >= RunKeep]_vars

(* SPEC.md:72, 410 is the response to a callback of an expired run.        *)
GoneMeansExpired ==
    \A w \in Worker : calls[w].at = "done" /\ calls[w].op = "resolve"
                          /\ calls[w].ret = "expired"
                        => runs[calls[w].run].status = "expired"

(* SPEC.md:116, CALLBACK_TTL_SECONDS "expires pending runs": even if the   *)
(* process serves again and again, one without a run_id stays pending.     *)
EveryStaleRunEnds ==
    ServesAgain =>
        \A r \in Run :
            runs[r].status = "pending" /\ PastTTL(r, now) ~> runs[r].status \in Terminal
=============================================================================
