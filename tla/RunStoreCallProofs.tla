------------------------- MODULE RunStoreCallProofs -------------------------
(***************************************************************************)
(* Theorems about what the calls of app/db.py know and tell: a call that   *)
(* decided, lost or only looked reports what the row says, the stamps of   *)
(* decided rows are honest, and what leaves the table may leave it.        *)
(***************************************************************************)
EXTENDS RunStoreProofs, WellFoundedInduction

-----------------------------------------------------------------------------
(* The inductive invariant: what a call has learned stays true until it    *)
(* acts on it.                                                             *)

Deciding == {"get", "answer", "cancel", "resolve"}

(* Runs without a run_id are never addressed by it, and the row of a       *)
(* callback was found to match before the callback goes on.                *)
CallNamed(w) ==
    LET c == calls[w]
    IN  /\ InProgress(w) /\ c.op \in {"get", "answer", "cancel"} => c.run \notin Unnamed
        /\ c.op = "resolve" /\ c.at \in {"expire", "write", "reread"} => c.run \notin Unnamed

(* A finished call was about a run that exists.                            *)
CallKnown(w) ==
    calls[w].at = "done" /\ calls[w].op \in Deciding =>
        calls[w].run \in Run /\ runs[calls[w].run].status # "unborn"

(* A call rereads its row because the run is decided.                      *)
CallLost(w) ==
    calls[w].at = "reread" =>
        /\ calls[w].op \in Deciding
        /\ calls[w].run \in present => runs[calls[w].run].status \in Terminal

(* The decision that the result of a finished call stands for.             *)
ToldBy(c) == IF c.ret # "ok" THEN c.ret
             ELSE IF c.op = "cancel" THEN "cancelled" ELSE "answered"

CallReports(w) ==
    LET c == calls[w]
    IN  c.at = "done" /\ c.op \in Deciding /\ ToldBy(c) \in Terminal =>
          \/ /\ runs[c.run].status = ToldBy(c)
             /\ c.op \in {"get", "answer"} => c.ans = runs[c.run].answer
          \/ c.op = "resolve" /\ c.ret = "expired" /\ c.run \notin present

(* What a call remembers of the clock is not before the creation of the    *)
(* rows it will stamp, and a row that it will expire was stale.            *)
CallTimes(w) ==
    LET c == calls[w]
    IN  /\ InProgress(w) /\ c.op = "cancel" => runs[c.run].created <= c.began
        /\ c.op \in Deciding /\ c.at \in {"expire", "write"} => runs[c.run].created <= c.seen
        /\ c.op \in Deciding /\ c.at = "expire" => Stale(c.run, c.seen)
        /\ c.op \in {"list", "prune"} /\ c.at = "write" =>
              \A r \in c.snap : runs[r].status # "unborn" /\ runs[r].created <= c.seen

(* Only the first cleanup runs before the schema is ensured.               *)
CallServed(w) == InProgress(w) /\ calls[w].at # "schema" => process # "down"

Aware(w) ==
    /\ CallNamed(w) /\ CallKnown(w) /\ CallLost(w) /\ CallReports(w)
    /\ CallTimes(w) /\ CallServed(w)

(* created_at and answered_at of a row.  A decided row without answered_at *)
(* is one that an earlier process left, until the schema is ensured.       *)
RowTimes(r) ==
    LET row == runs[r]
    IN  /\ row.created <= now
        /\ row.status \notin Terminal => row.stamped = NoStamp
        /\ row.stamped # NoStamp => row.created <= row.stamped /\ row.stamped <= now
        /\ row.status \in Terminal /\ row.stamped = NoStamp =>
              r \in Old /\ row.created = 0 /\ (r \in present => process = "down")

CallInv ==
    /\ StoreInv
    /\ \A w \in Worker : Aware(w)
    /\ \A r \in Run : RowTimes(r)
    /\ ExpiredPastTTL

LEMMA InitCallInv == Init => CallInv
  <1> SUFFICES ASSUME Init PROVE CallInv
    OBVIOUS
  <1>1. StoreInv
    BY InitInv
  <1>2. \A w \in Worker : calls[w] = Idle
    BY DEF Init
  <1>3. \A w \in Worker : Aware(w)
    BY <1>2 DEF Aware, CallNamed, CallKnown, CallLost, CallReports, CallTimes, CallServed,
                InProgress, Idle, Deciding
  <1>4. ASSUME NEW r \in Run PROVE RowTimes(r)
    <2>1. CASE r \notin Old
      BY <2>1 DEF Init, RowTimes, Unborn, Terminal
    <2>2. CASE r \in Old
      <3>1. runs[r] \in OldRows
        BY <2>2 DEF Init, Unborn
      <3>2. /\ runs[r].status \in {"pending"} \cup Terminal /\ runs[r].created = 0
            /\ runs[r].stamped \in {NoStamp, 0}
        BY <3>1 DEF OldRows
      <3> QED
        BY <2>2, <3>2 DEF Init, RowTimes, Terminal, NoStamp
    <2> QED
      BY <2>1, <2>2
  <1>5. ExpiredPastTTL
    BY DEF Init, ExpiredPastTTL, Unborn
  <1> QED
    BY <1>1, <1>3, <1>4, <1>5 DEF CallInv

-----------------------------------------------------------------------------
(* What one step does to one row.                                          *)

(* An instant that may be stamped on the row r of the current table.       *)
Stampable(r, t) == t \in Nat /\ runs[r].created <= t /\ t <= now

Untouched(r) ==
    /\ runs'[r].created = runs[r].created /\ runs'[r].stamped = runs[r].stamped
    /\ runs'[r].status = runs[r].status /\ runs'[r].answer = runs[r].answer

Created(r) ==
    /\ runs[r].status = "unborn" /\ runs'[r].status = "pending"
    /\ runs'[r].stamped = NoStamp /\ runs'[r].created <= now

DecidedNow(r) ==
    /\ r \in present
    /\ runs[r].status = "pending" /\ runs'[r].status \in Terminal
    /\ runs'[r].created = runs[r].created
    /\ Stampable(r, runs'[r].stamped)
    /\ runs'[r].status = "expired" => Stale(r, runs'[r].stamped)

StampedLate(r) ==
    /\ runs[r].status \in Terminal /\ runs[r].stamped = NoStamp
    /\ runs'[r].status = runs[r].status /\ runs'[r].answer = runs[r].answer
    /\ runs'[r].created = runs[r].created /\ Stampable(r, runs'[r].stamped)

RowStep(r) == Untouched(r) \/ Created(r) \/ DecidedNow(r) \/ StampedLate(r)

LEMMA RowTyped ==
    ASSUME StoreInv, NEW r \in Run
    PROVE  /\ runs[r] \in Row /\ runs[r].created \in Nat /\ runs[r].created \in Time
           /\ runs[r].stamped \in Nat \cup {NoStamp}
           /\ now \in Nat /\ TTL \in Nat /\ 0 \in Time
  BY StoreAssumption DEF StoreInv, TypeOK, Row, Stamp, Time, StoreAssumption

(* A worker that decides a pending row at the instant t.                   *)
LEMMA DecidedRow ==
    ASSUME StoreInv, NEW r \in Run, StillPending(r), NEW row \in Row,
           row.status \in Terminal, row.created = runs[r].created,
           Stampable(r, row.stamped),
           row.status = "expired" => Stale(r, row.stamped),
           runs' = [runs EXCEPT ![r] = row]
    PROVE  \A q \in Run : RowStep(q)
  <1>1. runs'[r] = row /\ \A q \in Run \ {r} : runs'[q] = runs[q]
    BY DEF StoreInv, TypeOK
  <1>2. DecidedNow(r)
    BY <1>1, PendingRow DEF DecidedNow
  <1>3. \A q \in Run \ {r} : Untouched(q)
    BY <1>1 DEF Untouched
  <1> QED
    BY <1>2, <1>3 DEF RowStep

LEMMA SameRows == ASSUME UNCHANGED runs PROVE \A q \in Run : RowStep(q)
  BY DEF RowStep, Untouched

LEMMA CasExpireRows ==
    ASSUME CallInv, NEW w \in Worker, CasExpire(w)
    PROVE  \A q \in Run : RowStep(q)
  <1> DEFINE r == calls[w].run
  <1>1. calls[w].op \in Deciding /\ calls[w].at = "expire" /\ r \in Run
    BY DEF CasExpire, At, Deciding, CallInv, StoreInv, CallOK, InProgress, RunOp
  <1>2. CASE UNCHANGED runs
    BY <1>2, SameRows
  <1>3. CASE StillPending(r)
    <2>1. PICK t \in calls[w].seen .. now : runs' = [runs EXCEPT ![r] = Expired(@, t)]
      BY <1>3 DEF CasExpire
    <2>2. t \in Time /\ t \in Nat /\ t >= calls[w].seen /\ t <= now /\ calls[w].seen \in Nat
      BY <2>1, PastInstants DEF CallInv
    <2>3. runs[r].created <= calls[w].seen /\ Stale(r, calls[w].seen)
      BY <1>1 DEF CallInv, Aware, CallTimes
    <2>4. Stampable(r, t) /\ Stale(r, t)
      BY <1>1, <2>2, <2>3, RowTyped DEF Stampable, Stale, CallInv
    <2>5. /\ Expired(runs[r], t) \in Row /\ Expired(runs[r], t).status = "expired"
          /\ Expired(runs[r], t).stamped = t /\ Expired(runs[r], t).created = runs[r].created
      BY <1>1, <1>3, <2>2, ExpiredRow, PendingRow DEF CallInv
    <2>6. runs' = [runs EXCEPT ![r] = Expired(runs[r], t)]
      BY <2>1
    <2> QED
      BY <1>1, <1>3, <2>4, <2>5, <2>6, DecidedRow DEF CallInv, Terminal
  <1> QED
    BY <1>2, <1>3 DEF CasExpire

LEMMA CancelWriteRows ==
    ASSUME CallInv, NEW w \in Worker, CancelWrite(w)
    PROVE  \A q \in Run : RowStep(q)
  <1> DEFINE r == calls[w].run
             row == [runs[r] EXCEPT !.status = "cancelled", !.stamped = calls[w].began]
  <1>1. calls[w].op = "cancel" /\ calls[w].at = "write" /\ r \in Run /\ InProgress(w)
    BY DEF CancelWrite, At, CallInv, StoreInv, CallOK, InProgress, RunOp
  <1>2. CASE UNCHANGED runs
    BY <1>2, SameRows
  <1>3. CASE StillPending(r)
    <2>1. runs' = [runs EXCEPT ![r] = row]
      BY <1>3 DEF CancelWrite
    <2>2. calls[w].began \in Time /\ calls[w].began \in Nat
      BY PastInstants DEF CallInv
    <2>3. /\ row \in Row /\ row.status = "cancelled" /\ row.stamped = calls[w].began
          /\ row.created = runs[r].created
      BY <1>1, <2>2, RowTyped DEF CallInv, Row, Stamp, Terminal
    <2>4. Stampable(r, row.stamped)
      BY <1>1, <2>2, <2>3 DEF Stampable, CallInv, Aware, CallTimes, StoreInv, CallOK
    <2> HIDE DEF row
    <2> QED
      BY <1>1, <1>3, <2>1, <2>3, <2>4, DecidedRow DEF CallInv, Terminal
  <1> QED
    BY <1>2, <1>3 DEF CancelWrite

LEMMA AnswerWriteRows ==
    ASSUME CallInv, NEW w \in Worker, AnswerWrite(w)
    PROVE  \A q \in Run : RowStep(q)
  <1> DEFINE r == calls[w].run
  <1>1. /\ calls[w].op = "resolve" /\ calls[w].at = "write" /\ r \in Run
        /\ calls[w].body \in Body
    BY DEF AnswerWrite, At, CallInv, StoreInv, CallOK, InProgress, RunOp
  <1>2. CASE UNCHANGED runs
    BY <1>2, SameRows
  <1>3. CASE StillPending(r)
    <2>1. PICK t \in calls[w].seen .. now :
             runs' = [runs EXCEPT ![r] = [@ EXCEPT !.status = "answered",
                                    !.answer = calls[w].body, !.stamped = t]]
      BY <1>3 DEF AnswerWrite
    <2> DEFINE row == [runs[r] EXCEPT !.status = "answered",
                                      !.answer = calls[w].body, !.stamped = t]
    <2>2. runs' = [runs EXCEPT ![r] = row]
      BY <2>1
    <2>3. t \in Time /\ t \in Nat /\ t >= calls[w].seen /\ t <= now /\ calls[w].seen \in Nat
      BY <2>1, PastInstants DEF CallInv
    <2>4. /\ row \in Row /\ row.status = "answered" /\ row.stamped = t
          /\ row.created = runs[r].created
      <3>1. runs[r] \in Row
        BY <1>1, RowTyped DEF CallInv
      <3>2. t \in Stamp /\ "answered" \in {"unborn", "pending"} \cup Terminal
        BY <2>3 DEF Stamp, Terminal
      <3> QED BY <1>1, <3>1, <3>2 DEF Row
    <2>5. runs[r].created <= calls[w].seen
      BY <1>1 DEF CallInv, Aware, CallTimes, Deciding
    <2>6. Stampable(r, row.stamped)
      BY <1>1, <2>3, <2>4, <2>5, RowTyped DEF Stampable, CallInv
    <2> HIDE DEF row
    <2> QED
      BY <1>1, <1>3, <2>2, <2>4, <2>6, DecidedRow DEF CallInv, Terminal
  <1> QED
    BY <1>2, <1>3 DEF AnswerWrite

(* The rows that a sweep expires.                                          *)
LEMMA ExpiringRows ==
    ASSUME CallInv, NEW w \in Worker, calls[w].op \in {"list", "prune"},
           calls[w].at = "write", NEW at \in Expiries(w), NEW q \in Run
    PROVE  IF q \in DOMAIN at
           THEN /\ q \in present /\ runs[q].status = "pending"
                /\ Expiring(at)[q].status = "expired"
                /\ Expiring(at)[q].created = runs[q].created
                /\ Expiring(at)[q].stamped = at[q]
                /\ Stampable(q, at[q]) /\ Stale(q, at[q]) /\ at[q] >= calls[w].seen
           ELSE Expiring(at)[q] = runs[q]
  <1>1. CASE q \notin DOMAIN at
    BY <1>1, ExpiringOK DEF CallInv
  <1>2. CASE q \in DOMAIN at
    <2>1. /\ q \in calls[w].snap /\ StillPending(q) /\ at[q] \in calls[w].seen .. now
          /\ Stale(q, at[q])
      BY <1>2 DEF Expiries
    <2>2. calls[w].seen \in Nat /\ now \in Nat
      BY PastInstants DEF CallInv
    <2>3. runs[q].created <= calls[w].seen
      BY <2>1 DEF CallInv, Aware, CallTimes
    <2>4. Stampable(q, at[q]) /\ at[q] >= calls[w].seen
      BY <2>1, <2>2, <2>3, RowTyped DEF Stampable, CallInv
    <2> QED
      BY <1>2, <2>1, <2>4, ExpiringOK, PendingRow DEF CallInv
  <1> QED
    BY <1>1, <1>2

LEMMA ListCommitRows ==
    ASSUME CallInv, NEW w \in Worker, ListCommit(w)
    PROVE  \A q \in Run : RowStep(q)
  <1>1. PICK at \in Expiries(w) : runs' = Expiring(at)
    BY DEF ListCommit
  <1>2. calls[w].op \in {"list", "prune"} /\ calls[w].at = "write"
    BY DEF ListCommit, At
  <1>3. TAKE q \in Run
  <1>4. CASE q \in DOMAIN at
    BY <1>1, <1>2, <1>4, ExpiringRows DEF RowStep, DecidedNow, Terminal
  <1>5. CASE q \notin DOMAIN at
    BY <1>1, <1>2, <1>5, ExpiringRows DEF RowStep, Untouched
  <1> QED
    BY <1>4, <1>5

(* Stamping decided rows at the instant t.                                 *)
LEMMA StampedRows ==
    ASSUME CallInv, NEW q \in Run, NEW f \in [Run -> Row], NEW t \in Time, t <= now,
           f[q] = runs[q], runs'[q] = Backfilled(f, t)[q]
    PROVE  RowStep(q)
  <1>1. CASE q \in present /\ runs[q].status \in Terminal /\ runs[q].stamped = NoStamp
    <2>1. runs[q].created = 0
      BY <1>1 DEF CallInv, RowTimes
    <2>2. t \in Nat
      BY StoreAssumption DEF Time, StoreAssumption
    <2>3. Stampable(q, t)
      BY <2>1, <2>2 DEF Stampable
    <2> QED
      BY <1>1, <2>3, BackfilledOK DEF RowStep, StampedLate
  <1>2. CASE ~(q \in present /\ runs[q].status \in Terminal /\ runs[q].stamped = NoStamp)
    BY <1>2, BackfilledOK DEF RowStep, Untouched
  <1> QED
    BY <1>1, <1>2

LEMMA EnsureSchemaRows ==
    ASSUME CallInv, NEW w \in Worker, EnsureSchema(w)
    PROVE  \A q \in Run : RowStep(q)
  <1>1. PICK t \in calls[w].began .. now : runs' = Backfilled(runs, t)
    BY DEF EnsureSchema
  <1>2. t \in Time /\ t <= now
    BY <1>1, PastInstants DEF CallInv
  <1>3. runs \in [Run -> Row]
    BY DEF CallInv, StoreInv, TypeOK
  <1> QED
    BY <1>1, <1>2, <1>3, StampedRows

LEMMA PruneCommitRows ==
    ASSUME CallInv, NEW w \in Worker, PruneCommit(w)
    PROVE  \A q \in Run : RowStep(q)
  <1> DEFINE moment == calls[w].began
  <1>1. calls[w].op = "prune" /\ calls[w].at = "write"
    BY DEF PruneCommit, At
  <1>2. PICK at \in Expiries(w) :
           runs' = IF RunKeep > 0 THEN Backfilled(Expiring(at), moment) ELSE Expiring(at)
    BY DEF PruneCommit
  <1>3. /\ moment \in Time /\ moment <= now
    BY PastInstants DEF CallInv, StoreInv, CallOK
  <1>4. Expiring(at) \in [Run -> Row]
    BY ExpiringOK DEF CallInv
  <1>5. TAKE q \in Run
  <1>6. CASE q \in DOMAIN at
    <2> DEFINE f == Expiring(at)
    <2>1. /\ q \in present /\ runs[q].status = "pending"
          /\ f[q].status = "expired" /\ f[q].created = runs[q].created
          /\ f[q].stamped = at[q] /\ Stampable(q, at[q]) /\ Stale(q, at[q])
      BY <1>1, <1>6, ExpiringRows
    <2>2. f[q].stamped # NoStamp
      BY <2>1 DEF Stampable, NoStamp
    <2>3. /\ Backfilled(f, moment)[q].status = f[q].status
          /\ Backfilled(f, moment)[q].created = f[q].created
          /\ Backfilled(f, moment)[q].stamped = f[q].stamped
      BY <1>3, <1>4, <2>2, BackfilledOK
    <2>4. /\ runs'[q].status = "expired" /\ runs'[q].created = runs[q].created
          /\ runs'[q].stamped = at[q]
      BY <1>2, <2>1, <2>3
    <2> QED
      BY <2>1, <2>4 DEF RowStep, DecidedNow, Terminal
  <1>7. CASE q \notin DOMAIN at
    <2>1. Expiring(at)[q] = runs[q]
      BY <1>1, <1>7, ExpiringRows
    <2> QED
      BY <1>2, <1>3, <1>4, <2>1, StampedRows DEF RowStep, Untouched
  <1> QED
    BY <1>6, <1>7

LEMMA InsertRunRows ==
    ASSUME CallInv, NEW w \in Worker, InsertRun(w)
    PROVE  \A q \in Run : RowStep(q)
  <1> DEFINE r == calls[w].run
             row == [status |-> "pending", id |-> lastRun + 1, created |-> calls[w].began,
                     stamped |-> NoStamp, answer |-> NoAnswer, upstream |-> FALSE]
  <1>1. calls[w].op = "insert" /\ calls[w].at = "write" /\ runs' = [runs EXCEPT ![r] = row]
    BY DEF InsertRun, At
  <1>2. r \in Run /\ runs[r].status = "unborn" /\ calls[w].began <= now
    BY <1>1 DEF CallInv, StoreInv, CallOK, InProgress, RunOp, InsertsFresh
  <1>3. runs'[r] = row /\ \A q \in Run \ {r} : runs'[q] = runs[q]
    BY <1>1, <1>2 DEF CallInv, StoreInv, TypeOK
  <1>4. Created(r)
    BY <1>2, <1>3 DEF Created
  <1>5. \A q \in Run \ {r} : Untouched(q)
    BY <1>3 DEF Untouched
  <1> QED
    BY <1>4, <1>5 DEF RowStep

LEMMA UpdateRunUpstreamRows ==
    ASSUME CallInv, NEW w \in Worker, UpdateRunUpstream(w)
    PROVE  \A q \in Run : RowStep(q)
  <1> DEFINE r == calls[w].run
  <1>1. runs' = [runs EXCEPT ![r].upstream = TRUE] \/ runs' = runs
    BY DEF UpdateRunUpstream
  <1>2. \A q \in Run : Untouched(q)
    BY <1>1 DEF Untouched, CallInv, StoreInv, TypeOK, Row
  <1> QED
    BY <1>2 DEF RowStep

LEMMA EachRow ==
    ASSUME CallInv, [Next]_vars
    PROVE  \A q \in Run : RowStep(q)
  <1>1. CASE UNCHANGED runs
    BY <1>1, SameRows
  <1>2. ASSUME NEW w \in Worker, ReadStep(w) \/ Startup(w) \/ Begin(w) \/ Fail(w)
        PROVE  UNCHANGED runs
    BY <1>2 DEF ReadStep, ReadRun, ReadCallback, Reread, Scan, Startup, Begin, Enter, Fail
  <1>3. CASE Crash \/ Tick \/ UNCHANGED vars
    BY <1>1, <1>3 DEF Crash, Tick, vars
  <1>4. ASSUME NEW w \in Worker, WriteStep(w)
        PROVE  \A q \in Run : RowStep(q)
    <2>1. CASE StoreEvent(w)
      BY <1>1, <2>1 DEF StoreEvent
    <2> QED
      BY <1>4, <2>1, EnsureSchemaRows, InsertRunRows, UpdateRunUpstreamRows, CasExpireRows,
         CancelWriteRows, AnswerWriteRows, ListCommitRows, PruneCommitRows DEF WriteStep
  <1> QED
    BY <1>1, <1>2, <1>3, <1>4 DEF Next

-----------------------------------------------------------------------------
(* What every step leaves alone.                                           *)

(* A run that exists goes on to exist with the same creation time, keeps a *)
(* decision, and its row does not come back once it left the table.        *)
RunGoesOn(r) ==
    runs[r].status # "unborn" =>
        /\ runs'[r].status # "unborn" /\ runs'[r].created = runs[r].created
        /\ runs[r].status \in Terminal =>
              runs'[r].status = runs[r].status /\ runs'[r].answer = runs[r].answer
        /\ r \notin present => r \notin present'

LEMMA RunsGoOn ==
    ASSUME CallInv, [Next]_vars
    PROVE  \A r \in Run : RunGoesOn(r)
  <1> SUFFICES ASSUME NEW r \in Run, runs[r].status # "unborn" PROVE RunGoesOn(r)
    BY DEF RunGoesOn
  <1>1. ASSUME r \notin present PROVE r \notin present'
    <2>1. ASSUME NEW w \in Worker, InsertRun(w) PROVE r \notin present'
      <3>1. calls[w].run # r
        BY <2>1 DEF InsertRun, At, CallInv, StoreInv, InsertsFresh, InProgress
      <3> QED
        BY <1>1, <2>1, <3>1 DEF InsertRun
    <2>2. ASSUME NEW w \in Worker, PruneCommit(w) PROVE r \notin present'
      BY <1>1, <2>2 DEF PruneCommit
    <2>3. ASSUME NEW w \in Worker, ReadStep(w) \/ Startup(w) \/ Begin(w) \/ Fail(w)
          PROVE  UNCHANGED present
      BY <2>3 DEF ReadStep, ReadRun, ReadCallback, Reread, Scan, Startup, Begin, Enter, Fail
    <2>4. ASSUME NEW w \in Worker, WriteStep(w), ~InsertRun(w), ~PruneCommit(w)
          PROVE  UNCHANGED present
      BY <2>4 DEF WriteStep, EnsureSchema, UpdateRunUpstream, StoreEvent, CasExpire,
                  CancelWrite, AnswerWrite, ListCommit
    <2>5. CASE Crash \/ Tick \/ UNCHANGED vars
      BY <1>1, <2>5 DEF Crash, Tick, vars
    <2> QED
      BY <1>1, <2>1, <2>2, <2>3, <2>4, <2>5 DEF Next
  <1>2. RowStep(r)
    BY EachRow
  <1> QED
    BY <1>1, <1>2 DEF RunGoesOn, RowStep, Untouched, Created, DecidedNow, StampedLate, Terminal

(* Time passes, and only a crash brings the process down.                  *)
LEMMA ClockAndProcess ==
    ASSUME StoreInv, [Next]_vars
    PROVE  /\ now' \in Nat /\ now <= now'
           /\ process # "down" /\ process' = "down" => Crash
  <1>1. now \in Nat
    BY PastInstants, RowTyped, StoreAssumption DEF StoreInv, TypeOK, Time, StoreAssumption
  <1>2. CASE Tick
    BY <1>1, <1>2 DEF Tick
  <1>3. ASSUME NEW w \in Worker,
               ReadStep(w) \/ WriteStep(w) \/ Startup(w) \/ Begin(w) \/ Fail(w)
        PROVE  now' = now /\ (process' = process \/ process' # "down")
    BY <1>3 DEF ReadStep, ReadRun, ReadCallback, Reread, Scan, Startup, Begin, Enter, Fail,
                WriteStep, EnsureSchema, InsertRun, UpdateRunUpstream, StoreEvent, CasExpire,
                CancelWrite, AnswerWrite, ListCommit, PruneCommit
  <1>4. CASE Crash \/ UNCHANGED vars
    BY <1>1, <1>4 DEF Crash, vars
  <1> QED
    BY <1>1, <1>2, <1>3, <1>4 DEF Next

(* A call that the step does not move knows what it knew.                  *)
LEMMA BystanderAware ==
    ASSUME CallInv, [Next]_vars, ~Crash, NEW v \in Worker, calls'[v] = calls[v]
    PROVE  Aware(v)'
  <1> DEFINE c == calls[v]
             r == c.run
  <1>1. Aware(v) /\ CallOK(v)
    BY DEF CallInv, StoreInv
  <1>2. \A q \in Run : RunGoesOn(q)
    BY RunsGoOn
  <1>3. process # "down" => process' # "down"
    BY ClockAndProcess DEF CallInv
  <1>4. CallNamed(v)' /\ CallServed(v)'
    BY <1>1, <1>3 DEF Aware, CallNamed, CallServed, InProgress
  <1>5. CallKnown(v)'
    BY <1>1, <1>2 DEF Aware, CallKnown, RunGoesOn
  <1>6. CallLost(v)'
    <2> SUFFICES ASSUME c.at = "reread"
                 PROVE  c.op \in Deciding /\ (r \in present' => runs'[r].status \in Terminal)
      BY DEF CallLost
    <2>1. c.op \in Deciding /\ (r \in present => runs[r].status \in Terminal)
      BY <1>1 DEF Aware, CallLost
    <2>2. r \in Run /\ runs[r].status # "unborn"
      BY <1>1, <2>1 DEF CallOK, InProgress, Deciding, RunOp
    <2> QED
      BY <1>2, <2>1, <2>2 DEF RunGoesOn
  <1>7. CallReports(v)'
    <2> SUFFICES ASSUME c.at = "done", c.op \in Deciding, ToldBy(c) \in Terminal
                 PROVE  \/ /\ runs'[r].status = ToldBy(c)
                           /\ c.op \in {"get", "answer"} => c.ans = runs'[r].answer
                        \/ c.op = "resolve" /\ c.ret = "expired" /\ r \notin present'
      BY DEF CallReports, ToldBy
    <2>1. \/ /\ runs[r].status = ToldBy(c)
             /\ c.op \in {"get", "answer"} => c.ans = runs[r].answer
          \/ c.op = "resolve" /\ c.ret = "expired" /\ r \notin present
      BY <1>1 DEF Aware, CallReports
    <2>2. r \in Run /\ runs[r].status # "unborn"
      BY <1>1 DEF Aware, CallKnown
    <2> QED
      BY <1>2, <2>1, <2>2 DEF RunGoesOn
  <1>8. CallTimes(v)'
    <2>1. ASSUME InProgress(v), c.op \in RunOp \ {"insert"}
          PROVE  runs'[r].created = runs[r].created
      BY <1>1, <1>2, <2>1 DEF CallOK, RunGoesOn
    <2>2. ASSUME c.op \in {"list", "prune"}, c.at = "write", NEW q \in c.snap
          PROVE  runs'[q].status # "unborn" /\ runs'[q].created <= c.seen
      <3>1. q \in Run /\ runs[q].status # "unborn" /\ runs[q].created <= c.seen
        BY <1>1, <2>2 DEF Aware, CallTimes, CallInv, StoreInv, TypeOK, Call
      <3> QED
        BY <1>2, <3>1 DEF RunGoesOn
    <2>3. InProgress(v) /\ c.op = "cancel" => runs'[r].created <= c.began
      BY <1>1, <2>1 DEF Aware, CallTimes, RunOp
    <2>4. /\ c.op \in Deciding /\ c.at \in {"expire", "write"} => runs'[r].created <= c.seen
          /\ c.op \in Deciding /\ c.at = "expire" =>
                TTL = 0 \/ c.seen - runs'[r].created > TTL
      BY <1>1, <2>1 DEF Aware, CallTimes, RunOp, Deciding, InProgress, Stale
    <2> QED
      BY <2>2, <2>3, <2>4 DEF CallTimes, InProgress, Stale
  <1> QED
    BY <1>4, <1>5, <1>6, <1>7, <1>8 DEF Aware

-----------------------------------------------------------------------------
(* What the call that moves knows after its step.                          *)

LEMMA FinishedAware ==
    ASSUME CallInv, [Next]_vars, NEW w \in Worker, NEW ret \in Ret,
           NEW ans \in Body \cup {NoAnswer}, Return(w, ret, ans), InProgress(w),
           LET c == Finished(calls[w], ret, ans)
           IN  c.op \in Deciding /\ ToldBy(c) \in Terminal =>
                 \/ /\ runs'[c.run].status = ToldBy(c)
                    /\ c.op \in {"get", "answer"} => ans = runs'[c.run].answer
                 \/ c.op = "resolve" /\ ret = "expired" /\ c.run \notin present'
    PROVE  Aware(w)'
  <1> DEFINE c == Finished(calls[w], ret, ans)
             r == calls[w].run
  <1>1. calls'[w] = c
    BY ReturnTyped DEF CallInv, StoreInv
  <1>2. c.op = calls[w].op /\ c.at = "done" /\ c.run = r /\ c.ret = ret /\ c.ans = ans
    BY DEF Finished
  <1>3. CallReports(w)'
    BY <1>1, <1>2 DEF CallReports, ToldBy
  <1>4. CallKnown(w)'
    <2> SUFFICES ASSUME calls[w].op \in Deciding
                 PROVE  r \in Run /\ runs'[r].status # "unborn"
      BY <1>1, <1>2 DEF CallKnown
    <2>1. r \in Run /\ runs[r].status # "unborn"
      BY DEF CallInv, StoreInv, CallOK, Deciding, RunOp
    <2> QED
      BY <2>1, RunsGoOn DEF RunGoesOn
  <1>5. CallNamed(w)' /\ CallLost(w)' /\ CallServed(w)' /\ CallTimes(w)'
    BY <1>1, <1>2 DEF CallNamed, CallLost, CallServed, CallTimes, InProgress
  <1> QED
    BY <1>3, <1>4, <1>5 DEF Aware

(* Telling what a decided row says.                                        *)
LEMMA TellAware ==
    ASSUME CallInv, [Next]_vars, NEW w \in Worker, InProgress(w), calls[w].op \in Deciding,
           runs[calls[w].run].status \in Terminal,
           Tell(w, calls[w].run), UNCHANGED runs
    PROVE  Aware(w)'
  <1> DEFINE r == calls[w].run
             ans == IF calls[w].op \in {"get", "answer"} THEN runs[r].answer ELSE NoAnswer
             c == Finished(calls[w], runs[r].status, ans)
  <1>1. r \in Run
    BY DEF CallInv, StoreInv, CallOK, Deciding, RunOp
  <1>2. runs[r].status \in Ret /\ ans \in Body \cup {NoAnswer} /\ runs[r].status # "ok"
    BY <1>1, RowTyped DEF CallInv, Row, Ret, Terminal
  <1>3. c.op = calls[w].op /\ c.run = r /\ c.ret = runs[r].status
    BY DEF Finished
  <1>4. ToldBy(c) = runs[r].status
    BY <1>2, <1>3 DEF ToldBy
  <1>5. Return(w, runs[r].status, ans)
    BY DEF Tell
  <1> QED
    BY <1>2, <1>3, <1>4, <1>5, FinishedAware

(* A result that stands for no decision.                                   *)
LEMMA UndecidedAware ==
    ASSUME CallInv, [Next]_vars, NEW w \in Worker, InProgress(w), NEW ret \in Ret,
           ret \notin Terminal, ret = "ok" => calls[w].op \notin Deciding,
           Return(w, ret, NoAnswer)
    PROVE  Aware(w)'
  <1> DEFINE c == Finished(calls[w], ret, NoAnswer)
  <1>1. c.op = calls[w].op /\ c.ret = ret
    BY DEF Finished
  <1>2. ~(c.op \in Deciding /\ ToldBy(c) \in Terminal)
    BY <1>1 DEF ToldBy
  <1> QED
    BY <1>2, FinishedAware

(* A call that judged a row or scanned the table.                          *)
LEMMA SawAware ==
    ASSUME CallInv, [Next]_vars, NEW w \in Worker, InProgress(w), NEW pc \in {"expire", "write"},
           calls[w].at # "schema",
           NEW snap \in SUBSET Run, Saw(w, pc, snap), UNCHANGED <<runs, present, now, process>>,
           calls[w].op \in Deciding \cup {"list", "prune"},
           calls[w].op = "resolve" => calls[w].run \notin Unnamed,
           pc = "expire" => calls[w].op \in Deciding /\ Stale(calls[w].run, now),
           \A r \in snap : runs[r].status # "unborn"
    PROVE  Aware(w)'
  <1> DEFINE c == [calls[w] EXCEPT !.at = pc, !.seen = now, !.snap = snap]
             r == calls[w].run
  <1>1. calls[w] \in Call
    BY DEF CallInv, StoreInv, TypeOK
  <1>2. calls'[w] = c
    BY DEF Saw, CallInv, StoreInv, TypeOK
  <1>3. /\ c.op = calls[w].op /\ c.at = pc /\ c.run = r /\ c.began = calls[w].began
        /\ c.seen = now /\ c.snap = snap
    BY <1>1 DEF Call
  <1>4. Aware(w) /\ CallOK(w)
    BY DEF CallInv, StoreInv
  <1>5. CallNamed(w)' /\ CallServed(w)'
    BY <1>2, <1>3, <1>4 DEF Aware, CallNamed, CallServed, InProgress
  <1>6. CallKnown(w)' /\ CallLost(w)' /\ CallReports(w)'
    BY <1>2, <1>3 DEF CallKnown, CallLost, CallReports
  <1>7. \A q \in Run : runs[q].created <= now
    BY DEF CallInv, RowTimes
  <1>8. calls[w].op \in Deciding => r \in Run
    BY <1>4 DEF CallOK, Deciding, RunOp
  <1>9. CallTimes(w)'
    <2>1. c.op = "cancel" => runs[r].created <= c.began
      BY <1>3, <1>4 DEF Aware, CallTimes
    <2> QED
      BY <1>2, <1>3, <1>7, <1>8, <2>1 DEF CallTimes, Stale
  <1> QED
    BY <1>5, <1>6, <1>9 DEF Aware

(* A call that goes on to reread a row that was decided, or is gone.       *)
LEMMA RereadingAware ==
    ASSUME CallInv, [Next]_vars, NEW w \in Worker, InProgress(w), calls[w].op \in Deciding,
           calls[w].at # "schema", calls[w].run \notin Unnamed,
           Goto(w, "reread"), UNCHANGED <<present, process>>,
           calls[w].run \in present => runs'[calls[w].run].status \in Terminal
    PROVE  Aware(w)'
  <1> DEFINE c == [calls[w] EXCEPT !.at = "reread"]
             r == calls[w].run
  <1>1. calls[w] \in Call /\ calls'[w] = c
    BY GotoTyped DEF CallInv, StoreInv, TypeOK
  <1>2. c.op = calls[w].op /\ c.at = "reread" /\ c.run = r /\ c.began = calls[w].began
    BY <1>1 DEF Call
  <1>3. Aware(w) /\ CallOK(w)
    BY DEF CallInv, StoreInv
  <1>4. CallNamed(w)' /\ CallServed(w)' /\ CallKnown(w)' /\ CallLost(w)' /\ CallReports(w)'
    BY <1>1, <1>2, <1>3
       DEF Aware, CallNamed, CallServed, CallKnown, CallLost, CallReports, InProgress
  <1>5. runs'[r].created = runs[r].created
    BY <1>3, RunsGoOn DEF CallOK, RunGoesOn, Deciding, RunOp
  <1>6. CallTimes(w)'
    BY <1>1, <1>2, <1>3, <1>5 DEF Aware, CallTimes, InProgress
  <1> QED
    BY <1>4, <1>6 DEF Aware

-----------------------------------------------------------------------------
(* One lemma per action of a call.                                         *)

LEMMA ReadRunAware ==
    ASSUME CallInv, [Next]_vars, NEW w \in Worker, ReadRun(w) PROVE Aware(w)'
  <1> DEFINE r == calls[w].run
  <1>1. /\ calls[w].op \in {"get", "answer", "cancel"} /\ calls[w].at = "read"
        /\ UNCHANGED <<runs, present, events, lastRun, lastEvent, now, process>>
    BY DEF ReadRun, At
  <1>2. InProgress(w) /\ calls[w].op \in Deciding /\ calls[w].at # "schema"
    BY <1>1 DEF InProgress, Deciding
  <1>3. CASE Return(w, "not_found", NoAnswer) \/ Return(w, "pending", NoAnswer)
    BY <1>2, <1>3, UndecidedAware DEF Ret, Terminal
  <1>4. CASE \/ Stale(r, now) /\ Saw(w, "expire", {})
             \/ Saw(w, "write", {})
    BY <1>1, <1>2, <1>4, SawAware
  <1>5. CASE runs[r].status \in Terminal /\ Tell(w, r)
    BY <1>1, <1>2, <1>5, TellAware
  <1> QED
    BY <1>3, <1>4, <1>5 DEF ReadRun

LEMMA ReadCallbackAware ==
    ASSUME CallInv, [Next]_vars, NEW w \in Worker, ReadCallback(w) PROVE Aware(w)'
  <1> DEFINE r == calls[w].run
             pc == IF Stale(r, now) THEN "expire" ELSE "write"
  <1>1. /\ calls[w].op = "resolve" /\ calls[w].at = "read"
        /\ UNCHANGED <<runs, present, events, lastRun, lastEvent, now, process>>
    BY DEF ReadCallback, At
  <1>2. InProgress(w) /\ calls[w].op \in Deciding /\ calls[w].at # "schema"
    BY <1>1 DEF InProgress, Deciding
  <1>3. CASE \/ Return(w, "bad_echo", NoAnswer) \/ Return(w, "not_found", NoAnswer)
             \/ Return(w, "mismatch", NoAnswer)
    BY <1>2, <1>3, UndecidedAware DEF Ret, Terminal
  <1>4. CASE r \notin Unnamed /\ Saw(w, pc, {})
    <2>1. pc \in {"expire", "write"} /\ (pc = "expire" => Stale(r, now))
      OBVIOUS
    <2> HIDE DEF pc
    <2> QED
      BY <1>1, <1>2, <1>4, <2>1, SawAware
  <1>5. CASE runs[r].status \in Terminal /\ Tell(w, r)
    BY <1>1, <1>2, <1>5, TellAware
  <1> QED
    BY <1>3, <1>4, <1>5 DEF ReadCallback, EchoMatches

LEMMA RereadAware ==
    ASSUME CallInv, [Next]_vars, NEW w \in Worker, Reread(w) PROVE Aware(w)'
  <1> DEFINE r == calls[w].run
             op == calls[w].op
  <1>1. /\ op \in Deciding /\ calls[w].at = "reread"
        /\ UNCHANGED <<runs, present, events, lastRun, lastEvent, now, process>>
    BY DEF Reread, At, Deciding
  <1>2. InProgress(w)
    BY <1>1 DEF InProgress
  <1>3. CASE r \in present /\ Tell(w, r)
    <2>1. runs[r].status \in Terminal
      BY <1>1, <1>3 DEF CallInv, Aware, CallLost
    <2> QED
      BY <1>1, <1>2, <1>3, <2>1, TellAware
  <1>4. CASE r \notin present /\ Return(w, Missing(op), NoAnswer)
    <2>1. CASE op = "resolve"
      <3> DEFINE c == Finished(calls[w], "expired", NoAnswer)
      <3>1. Return(w, "expired", NoAnswer)
        BY <1>4, <2>1 DEF Missing
      <3>2. c.op = "resolve" /\ c.run = r /\ r \notin present'
        BY <1>1, <1>4, <2>1 DEF Finished
      <3> QED
        BY <1>2, <3>1, <3>2, FinishedAware DEF Ret, Terminal
    <2>2. CASE op # "resolve"
      <3>1. Missing(op) \in {"pending", "not_found"}
        BY <2>2 DEF Missing
      <3> QED
        BY <1>2, <1>4, <3>1, UndecidedAware DEF Ret, Terminal
    <2> QED
      BY <2>1, <2>2
  <1> QED
    BY <1>3, <1>4 DEF Reread

LEMMA ScanAware ==
    ASSUME CallInv, [Next]_vars, NEW w \in Worker, Scan(w) PROVE Aware(w)'
  <1> DEFINE snap == {r \in present : runs[r].status = "pending"}
  <1>1. snap \in SUBSET Run /\ \A r \in snap : runs[r].status # "unborn"
    BY DEF CallInv, StoreInv, TypeOK
  <1>2. /\ calls[w].op \in {"list", "prune"} /\ calls[w].at = "read" /\ Saw(w, "write", snap)
        /\ UNCHANGED <<runs, present, now, process>>
    BY DEF Scan, At
  <1>3. InProgress(w)
    BY <1>2 DEF InProgress
  <1> HIDE DEF snap
  <1> QED
    BY <1>1, <1>2, <1>3, SawAware

(* A loser finds its run decided: only decisions and deletions make a row  *)
(* with a run_id stop being pending.                                       *)
LEMMA LoserOK ==
    ASSUME CallInv, NEW w \in Worker, InProgress(w), calls[w].op \in Deciding,
           calls[w].run \notin Unnamed, ~StillPending(calls[w].run)
    PROVE  calls[w].run \in present => runs[calls[w].run].status \in Terminal
  <1> DEFINE r == calls[w].run
  <1>1. r \in Run /\ runs[r].status # "unborn"
    BY DEF CallInv, StoreInv, CallOK, Deciding, RunOp
  <1>2. runs[r].status \in {"unborn", "pending"} \cup Terminal
    BY <1>1, RowTyped DEF CallInv, Row
  <1> QED
    BY <1>1, <1>2 DEF StillPending, Matches

LEMMA CasExpireAware ==
    ASSUME CallInv, [Next]_vars, NEW w \in Worker, CasExpire(w) PROVE Aware(w)'
  <1> DEFINE r == calls[w].run
             op == calls[w].op
  <1>1. /\ op \in Deciding /\ calls[w].at = "expire"
        /\ UNCHANGED <<present, events, lastRun, lastEvent, now, process>>
    BY DEF CasExpire, At, Deciding
  <1>2. InProgress(w) /\ r \in Run /\ r \notin Unnamed /\ calls[w].at # "schema"
    BY <1>1 DEF InProgress, CallInv, Aware, CallNamed, StoreInv, CallOK, Deciding, RunOp
  <1>3. CASE ~StillPending(r) /\ UNCHANGED runs /\ Goto(w, "reread")
    BY <1>1, <1>2, <1>3, LoserOK, RereadingAware
  <1>4. CASE StillPending(r)
    <2>1. PICK t \in calls[w].seen .. now : runs' = [runs EXCEPT ![r] = Expired(@, t)]
      BY <1>4 DEF CasExpire
    <2>2. runs'[r] = Expired(runs[r], t)
      BY <1>2, <2>1 DEF CallInv, StoreInv, TypeOK
    <2>3. runs'[r].status = "expired" /\ runs'[r].answer = NoAnswer
      BY <1>2, <1>4, <2>1, <2>2, ExpiredRow, PendingRow, PastInstants DEF CallInv
    <2>4. CASE Goto(w, "reread")
      BY <1>1, <1>2, <2>3, <2>4, RereadingAware DEF Terminal
    <2>5. CASE op # "get" /\ Return(w, "expired", NoAnswer)
      <3> DEFINE c == Finished(calls[w], "expired", NoAnswer)
      <3>1. c.run = r /\ ToldBy(c) = "expired"
        BY DEF Finished, ToldBy
      <3> QED
        BY <1>2, <2>3, <2>5, <3>1, FinishedAware DEF Ret, Terminal
    <2> QED
      BY <1>4, <2>4, <2>5 DEF CasExpire
  <1> QED
    BY <1>3, <1>4 DEF CasExpire

LEMMA CancelWriteAware ==
    ASSUME CallInv, [Next]_vars, NEW w \in Worker, CancelWrite(w) PROVE Aware(w)'
  <1> DEFINE r == calls[w].run
  <1>1. /\ calls[w].op = "cancel" /\ calls[w].at = "write"
        /\ UNCHANGED <<present, events, lastRun, lastEvent, now, process>>
    BY DEF CancelWrite, At
  <1>2. /\ InProgress(w) /\ r \in Run /\ r \notin Unnamed /\ calls[w].at # "schema"
        /\ calls[w].op \in Deciding
    BY <1>1 DEF InProgress, CallInv, Aware, CallNamed, StoreInv, CallOK, Deciding, RunOp
  <1>3. CASE ~StillPending(r) /\ UNCHANGED runs /\ Goto(w, "reread")
    BY <1>1, <1>2, <1>3, LoserOK, RereadingAware
  <1>4. CASE StillPending(r)
    <2> DEFINE c == Finished(calls[w], "ok", NoAnswer)
    <2>1. /\ runs' = [runs EXCEPT ![r] = [@ EXCEPT !.status = "cancelled",
                                                   !.stamped = calls[w].began]]
          /\ Return(w, "ok", NoAnswer)
      BY <1>4 DEF CancelWrite
    <2>2. runs'[r].status = "cancelled"
      BY <1>2, <2>1, RowTyped DEF CallInv, StoreInv, TypeOK, Row
    <2>3. c.run = r /\ c.op = "cancel" /\ ToldBy(c) = "cancelled"
      BY <1>1 DEF Finished, ToldBy
    <2> QED
      BY <1>2, <2>1, <2>2, <2>3, FinishedAware DEF Ret
  <1> QED
    BY <1>3, <1>4 DEF CancelWrite

LEMMA AnswerWriteAware ==
    ASSUME CallInv, [Next]_vars, NEW w \in Worker, AnswerWrite(w) PROVE Aware(w)'
  <1> DEFINE r == calls[w].run
  <1>1. /\ calls[w].op = "resolve" /\ calls[w].at = "write"
        /\ UNCHANGED <<present, events, lastRun, lastEvent, now, process>>
    BY DEF AnswerWrite, At
  <1>2. /\ InProgress(w) /\ r \in Run /\ r \notin Unnamed /\ calls[w].at # "schema"
        /\ calls[w].op \in Deciding
    BY <1>1 DEF InProgress, CallInv, Aware, CallNamed, StoreInv, CallOK, Deciding, RunOp
  <1>3. CASE ~StillPending(r) /\ UNCHANGED runs /\ Goto(w, "reread")
    BY <1>1, <1>2, <1>3, LoserOK, RereadingAware
  <1>4. CASE StillPending(r)
    <2> DEFINE c == Finished(calls[w], "ok", NoAnswer)
    <2>1. PICK t \in calls[w].seen .. now :
             runs' = [runs EXCEPT ![r] = [@ EXCEPT !.status = "answered",
                                    !.answer = calls[w].body, !.stamped = t]]
      BY <1>4 DEF AnswerWrite
    <2>2. Return(w, "ok", NoAnswer)
      BY <1>4 DEF AnswerWrite
    <2>3. runs'[r].status = "answered"
      BY <1>2, <2>1, RowTyped DEF CallInv, StoreInv, TypeOK, Row
    <2>4. c.run = r /\ c.op = "resolve" /\ ToldBy(c) = "answered"
      BY <1>1 DEF Finished, ToldBy
    <2> QED
      BY <1>2, <2>2, <2>3, <2>4, FinishedAware DEF Ret
  <1> QED
    BY <1>3, <1>4 DEF AnswerWrite

(* A call that begins knows nothing yet.                                   *)
LEMMA EnterAware ==
    ASSUME CallInv, [Next]_vars, NEW w \in Worker, NEW op \in AllOps, NEW r \in Run \cup {NoRun},
           NEW b \in Body \cup {NoAnswer}, Enter(w, op, r, b),
           op \in RunOp => r \in Run /\ Callable(op, r, b)
    PROVE  Aware(w)'
  <1> DEFINE c == Entered(op, r, b)
  <1>1. /\ UNCHANGED <<runs, present, events, lastRun, lastEvent, now, process>>
        /\ calls'[w] = c
    BY DEF Enter, CallInv, StoreInv, TypeOK
  <1>2. /\ c.op = op /\ c.run = r /\ c.at \in {"schema", "read", "write"}
        /\ c.at # "schema" => process # "down"
        /\ c.at = "write" => op \in {"insert", "upstream", "event"}
        /\ op = "cancel" => c.began = now
    BY DEF Entered
  <1>3. op \in {"get", "answer", "cancel"} => r \in Run /\ r \notin Unnamed
    BY DEF Callable, RunOp
  <1>4. \A q \in Run : runs[q].created <= now
    BY DEF CallInv, RowTimes
  <1>5. CallNamed(w)' /\ CallServed(w)'
    BY <1>1, <1>2, <1>3 DEF CallNamed, CallServed, InProgress
  <1>6. CallKnown(w)' /\ CallLost(w)' /\ CallReports(w)'
    BY <1>1, <1>2 DEF CallKnown, CallLost, CallReports
  <1>7. CallTimes(w)'
    BY <1>1, <1>2, <1>3, <1>4 DEF CallTimes, Deciding
  <1> QED
    BY <1>5, <1>6, <1>7 DEF Aware

LEMMA EnsureSchemaAware ==
    ASSUME CallInv, [Next]_vars, NEW w \in Worker, EnsureSchema(w) PROVE Aware(w)'
  <1>1. /\ calls[w].op = "prune" /\ process' = "starting" /\ Goto(w, "read")
    BY DEF EnsureSchema, At
  <1>2. calls[w] \in Call /\ calls'[w] = [calls[w] EXCEPT !.at = "read"]
    BY <1>1, GotoTyped DEF CallInv, StoreInv, TypeOK
  <1>3. calls'[w].op = "prune" /\ calls'[w].at = "read"
    BY <1>1, <1>2 DEF Call
  <1> QED
    BY <1>1, <1>3 DEF Aware, CallNamed, CallKnown, CallLost, CallReports, CallTimes,
                      CallServed, Deciding

(* Only the call of w moves, and all of them end in a crash.               *)
LEMMA MovesOwnCall ==
    ASSUME TypeOK, NEW w \in Worker,
           ReadStep(w) \/ WriteStep(w) \/ Startup(w) \/ Begin(w) \/ Fail(w)
    PROVE  \A v \in Worker \ {w} : calls'[v] = calls[v]
  <1> USE DEF TypeOK
  <1>1. CASE ReadStep(w)
    BY <1>1 DEF ReadStep, ReadRun, ReadCallback, Reread, Scan, Saw, Return, Tell
  <1>2. CASE WriteStep(w)
    BY <1>2 DEF WriteStep, EnsureSchema, InsertRun, UpdateRunUpstream, StoreEvent, CasExpire,
                CancelWrite, AnswerWrite, ListCommit, PruneCommit, Return, Goto
  <1>3. CASE Startup(w) \/ Begin(w) \/ Fail(w)
    BY <1>3 DEF Startup, Begin, Enter, Fail, Return
  <1> QED
    BY <1>1, <1>2, <1>3

LEMMA NextAware ==
    ASSUME CallInv, [Next]_vars, NEW v \in Worker
    PROVE  Aware(v)'
  <1>1. CASE Crash
    <2>1. calls'[v] = Idle
      BY <1>1 DEF Crash
    <2> QED
      BY <2>1 DEF Aware, CallNamed, CallKnown, CallLost, CallReports, CallTimes, CallServed,
                  InProgress, Idle, Deciding
  <1>2. CASE ~Crash /\ (Tick \/ UNCHANGED vars)
    BY <1>2, BystanderAware DEF Tick, vars
  <1>3. ASSUME ~Crash, NEW w \in Worker,
               ReadStep(w) \/ WriteStep(w) \/ Startup(w) \/ Begin(w) \/ Fail(w)
        PROVE  Aware(v)'
    <2>1. CASE v # w
      BY <1>3, <2>1, MovesOwnCall, BystanderAware DEF CallInv, StoreInv
    <2>2. CASE v = w
      <3>1. CASE ReadStep(w)
        BY <2>2, <3>1, ReadRunAware, ReadCallbackAware, RereadAware, ScanAware DEF ReadStep
      <3>2. CASE Fail(w)
        BY <2>2, <3>2, UndecidedAware DEF Fail, InProgress, Ret, Terminal
      <3>3. CASE Startup(w)
        BY <2>2, <3>3, EnterAware DEF Startup, AllOps, RunOp
      <3>4. CASE Begin(w)
        <4>1. PICK op \in Op :
                 IF op \in {"list", "prune", "event"}
                 THEN Enter(w, op, NoRun, NoAnswer)
                 ELSE \E r \in Run, b \in Body \cup {NoAnswer} :
                         Callable(op, r, b) /\ Enter(w, op, r, b)
          BY <3>4 DEF Begin
        <4>2. op \in AllOps
          BY StoreAssumption DEF StoreAssumption
        <4>3. CASE op \in {"list", "prune", "event"}
          BY <2>2, <4>1, <4>2, <4>3, EnterAware DEF RunOp
        <4>4. CASE op \notin {"list", "prune", "event"}
          BY <2>2, <4>1, <4>2, <4>4, EnterAware
        <4> QED
          BY <4>3, <4>4
      <3>5. CASE InsertRun(w) \/ UpdateRunUpstream(w) \/ StoreEvent(w) \/ ListCommit(w)
                 \/ PruneCommit(w)
        <4>1. InProgress(w) /\ calls[w].op \notin Deciding /\ Return(w, "ok", NoAnswer)
          BY <3>5 DEF InsertRun, UpdateRunUpstream, StoreEvent, ListCommit, PruneCommit, At,
                      InProgress, Deciding
        <4> QED
          BY <2>2, <4>1, UndecidedAware DEF Ret, Terminal
      <3>6. CASE EnsureSchema(w) \/ CasExpire(w) \/ CancelWrite(w) \/ AnswerWrite(w)
        BY <2>2, <3>6, EnsureSchemaAware, CasExpireAware, CancelWriteAware, AnswerWriteAware
      <3> QED
        BY <1>3, <3>1, <3>2, <3>3, <3>4, <3>5, <3>6 DEF WriteStep
    <2> QED
      BY <2>1, <2>2
  <1> QED
    BY <1>1, <1>2, <1>3 DEF Next

-----------------------------------------------------------------------------
(* The rows.                                                               *)

(* The first cleanup of a process leaves no decided row unstamped.         *)
LEMMA SchemaStamps ==
    ASSUME CallInv, NEW w \in Worker, EnsureSchema(w), NEW r \in present,
           runs'[r].status \in Terminal
    PROVE  runs'[r].stamped # NoStamp
  <1>1. PICK t \in calls[w].began .. now : runs' = Backfilled(runs, t)
    BY DEF EnsureSchema
  <1>2. t \in Time /\ t # NoStamp /\ runs \in [Run -> Row] /\ r \in Run
    BY <1>1, PastInstants DEF CallInv, StoreInv, TypeOK, NoStamp
  <1> QED
    BY <1>1, <1>2, BackfilledOK

(* Nothing but the first cleanup takes the process out of "down".          *)
LEMMA OnlySchemaStarts ==
    ASSUME CallInv, [Next]_vars, process = "down", process' # "down"
    PROVE  \E w \in Worker : EnsureSchema(w)
  <1>1. ASSUME NEW w \in Worker, PruneCommit(w) PROVE FALSE
    BY <1>1 DEF PruneCommit, At, CallInv, Aware, CallServed, InProgress
  <1>2. ASSUME NEW w \in Worker,
               ReadStep(w) \/ Startup(w) \/ Begin(w) \/ Fail(w)
        PROVE  FALSE
    BY <1>2 DEF ReadStep, ReadRun, ReadCallback, Reread, Scan, Startup, Begin, Enter, Fail
  <1>3. ASSUME NEW w \in Worker, WriteStep(w), ~EnsureSchema(w), ~PruneCommit(w) PROVE FALSE
    BY <1>3 DEF WriteStep, InsertRun, UpdateRunUpstream, StoreEvent, CasExpire, CancelWrite,
                AnswerWrite, ListCommit
  <1>4. ~Crash /\ ~Tick /\ ~UNCHANGED vars
    BY DEF Crash, Tick, vars
  <1> QED
    BY <1>1, <1>2, <1>3, <1>4 DEF Next

LEMMA NextRowTimes ==
    ASSUME CallInv, [Next]_vars, NEW r \in Run
    PROVE  RowTimes(r)'
  <1>1. RowStep(r) /\ RowTimes(r) /\ RunGoesOn(r)
    BY EachRow, RunsGoOn DEF CallInv
  <1>2. now \in Nat /\ now' \in Nat /\ now <= now'
    BY ClockAndProcess, RowTyped DEF CallInv
  <1>3. StoreInv'
    BY NextInv DEF CallInv
  <1>4. /\ runs[r].created \in Nat /\ runs'[r].created \in Nat
        /\ runs[r].stamped \in Nat \cup {NoStamp} /\ runs'[r].stamped \in Nat \cup {NoStamp}
    BY <1>3, RowTyped, StoreAssumption
       DEF CallInv, StoreInv, TypeOK, Row, Stamp, Time, StoreAssumption
  <1>5. runs'[r].created <= now'
    BY <1>1, <1>2, <1>4
       DEF RowStep, RowTimes, Untouched, Created, DecidedNow, StampedLate
  <1>6. runs'[r].status \notin Terminal => runs'[r].stamped = NoStamp
    BY <1>1 DEF RowStep, RowTimes, Untouched, Created, DecidedNow, StampedLate
  <1>7. runs'[r].stamped # NoStamp =>
           runs'[r].created <= runs'[r].stamped /\ runs'[r].stamped <= now'
    BY <1>1, <1>2, <1>4
       DEF RowStep, RowTimes, Untouched, Created, DecidedNow, StampedLate, Stampable
  <1>8. ASSUME runs'[r].status \in Terminal, runs'[r].stamped = NoStamp
        PROVE  r \in Old /\ runs'[r].created = 0 /\ (r \in present' => process' = "down")
    <2>1. Untouched(r)
      BY <1>1, <1>8 DEF RowStep, Created, DecidedNow, StampedLate, Stampable, NoStamp, Terminal
    <2>2. r \in Old /\ runs[r].created = 0 /\ (r \in present => process = "down")
      BY <1>1, <1>8, <2>1 DEF RowTimes, Untouched
    <2>3. r \in present' => r \in present
      BY <1>1, <1>8, <2>1 DEF RunGoesOn, Untouched, Terminal
    <2>4. ASSUME r \in present', process' # "down" PROVE FALSE
      BY <1>8, <2>2, <2>3, <2>4, OnlySchemaStarts, SchemaStamps
    <2> QED
      BY <2>1, <2>2, <2>4 DEF Untouched
  <1> QED
    BY <1>5, <1>6, <1>7, <1>8 DEF RowTimes

(* The two readings of "older than the TTL".                               *)
LEMMA StaleIsPast ==
    ASSUME StoreInv, NEW r \in Run, NEW t \in Nat
    PROVE  Stale(r, t) <=> PastTTL(r, t)
  BY RowTyped DEF Stale, PastTTL

LEMMA NextExpired ==
    ASSUME CallInv, [Next]_vars
    PROVE  ExpiredPastTTL'
  <1> SUFFICES ASSUME NEW r \in Run \ Old, runs'[r].status = "expired"
               PROVE  TTL = 0 \/ runs'[r].stamped > runs'[r].created + TTL
    BY DEF ExpiredPastTTL, PastTTL
  <1>1. RowStep(r) /\ RowTimes(r)
    BY EachRow DEF CallInv
  <1>2. CASE Untouched(r)
    BY <1>2 DEF Untouched, CallInv, ExpiredPastTTL, PastTTL
  <1>3. CASE DecidedNow(r)
    <2>1. Stale(r, runs'[r].stamped) /\ runs'[r].stamped \in Nat
          /\ runs'[r].created = runs[r].created
      BY <1>3 DEF DecidedNow, Stampable
    <2> QED
      BY <2>1, StaleIsPast DEF PastTTL, CallInv
  <1>4. ~Created(r) /\ ~StampedLate(r)
    BY <1>1 DEF Created, StampedLate, RowTimes
  <1> QED
    BY <1>1, <1>2, <1>3, <1>4 DEF RowStep

LEMMA NextCallInv == CallInv /\ [Next]_vars => CallInv'
  <1> SUFFICES ASSUME CallInv, [Next]_vars PROVE CallInv'
    OBVIOUS
  <1>1. StoreInv'
    BY NextInv DEF CallInv
  <1>2. \A w \in Worker : Aware(w)'
    BY NextAware
  <1>3. \A r \in Run : RowTimes(r)'
    BY NextRowTimes
  <1> QED
    BY <1>1, <1>2, <1>3, NextExpired DEF CallInv

(* Every reachable state satisfies the invariant of calls and rows.        *)
THEOREM CallInvariance == Spec => []CallInv
  BY InitCallInv, NextCallInv, PTL DEF Spec

(* What this version expired was past its TTL at its answered_at, however  *)
(* long the expiring statement waited for the lock.                        *)
THEOREM ExpiriesHonest == Spec => []ExpiredPastTTL
  <1>1. CallInv => ExpiredPastTTL
    BY DEF CallInv
  <1> QED
    BY <1>1, CallInvariance, PTL

(* answered_at is set on exactly the decided rows once the schema is       *)
(* ensured, between created_at and now.                                    *)
THEOREM StampsAgree == Spec => []StampsConsistent
  <1>1. CallInv => StampsConsistent
    BY DEF CallInv, RowTimes, StampsConsistent, StoreInv, TypeOK
  <1> QED
    BY <1>1, CallInvariance, PTL

(* Every result of get_run, run_answer, cancel_pending_run and             *)
(* resolve_callback that names a decision names the one the row holds, at  *)
(* the time it is told and ever after.                                     *)
THEOREM ReportsHold == Spec => []ReportsAgree
  <1>1. CallInv => ReportsAgree
    BY DEF CallInv, Aware, CallReports, ReportsAgree, ToldBy, Deciding
  <1> QED
    BY <1>1, CallInvariance, PTL

(* Whoever lost a compare-and-set, or expired the row itself, finds it     *)
(* decided or gone.                                                        *)
THEOREM LosersLearn == Spec => []LoserFindsDecision
  <1>1. CallInv => LoserFindsDecision
    BY DEF CallInv, Aware, CallLost, LoserFindsDecision
  <1> QED
    BY <1>1, CallInvariance, PTL

(* The call of w after its step, by how the step ends.                     *)
LEMMA AfterStep ==
    ASSUME TypeOK, NEW w \in Worker
    PROVE  /\ \A ret, ans : Return(w, ret, ans) =>
                 /\ calls'[w].op = calls[w].op /\ calls'[w].run = calls[w].run
                 /\ calls'[w].at = "done" /\ calls'[w].ret = ret /\ calls'[w].ans = ans
           /\ \A pc : Goto(w, pc) => calls'[w].at = pc
           /\ \A pc, snap : Saw(w, pc, snap) => calls'[w].at = pc
  <1>1. calls[w] \in Call /\ calls \in [Worker -> Call]
    BY DEF TypeOK
  <1>2. ASSUME NEW ret, NEW ans, Return(w, ret, ans)
        PROVE  /\ calls'[w].op = calls[w].op /\ calls'[w].run = calls[w].run
               /\ calls'[w].at = "done" /\ calls'[w].ret = ret /\ calls'[w].ans = ans
    <2>1. calls'[w] = Finished(calls[w], ret, ans)
      BY <1>1, <1>2 DEF Return
    <2> QED
      BY <2>1 DEF Finished
  <1>3. ASSUME NEW pc, Goto(w, pc) PROVE calls'[w].at = pc
    BY <1>1, <1>3 DEF Goto, Call
  <1>4. ASSUME NEW pc, NEW snap, Saw(w, pc, snap) PROVE calls'[w].at = pc
    BY <1>1, <1>4 DEF Saw, Call
  <1> QED
    BY <1>2, <1>3, <1>4

(* Only a successful compare-and-set tells its caller "ok" about a run.    *)
LEMMA WinnerFoundPending ==
    ASSUME CallInv, NEW w \in Worker,
           ReadStep(w) \/ WriteStep(w) \/ Startup(w) \/ Begin(w) \/ Fail(w),
           calls'[w].at = "done", calls'[w].ret = "ok", calls'[w].op \in {"cancel", "resolve"}
    PROVE  StillPending(calls[w].run) /\ calls'[w].run = calls[w].run
  <1>0. TypeOK
    BY DEF CallInv, StoreInv
  <1>1. ~(Startup(w) \/ Begin(w))
    <2>1. \A op, r, b : Entered(op, r, b).at # "done"
      BY DEF Entered
    <2>2. \A op, r, b : ~Enter(w, op, r, b)
      BY <1>0, <2>1 DEF Enter, TypeOK
    <2> QED
      BY <2>2 DEF Startup, Begin
  <1>2. ~Fail(w)
    BY <1>0, AfterStep DEF Fail
  <1>3. \A q \in Run : ~Tell(w, q)
    <2>1. \A q \in Run : runs[q].status # "ok"
      BY RowTyped DEF CallInv, Row, Terminal
    <2> QED
      BY <1>0, <2>1, AfterStep DEF Tell
  <1>4. \A r \in {"not_found", "pending", "bad_echo", "mismatch", "expired"} :
           ~Return(w, r, NoAnswer)
    BY <1>0, AfterStep
  <1>5. calls[w].op \in RunOp /\ InProgress(w) => calls[w].run \in Run
    BY DEF CallInv, StoreInv, CallOK
  <1>6. (\A pc \in {"read", "reread"} : ~Goto(w, pc))
        /\ \A pc \in {"expire", "write"} : \A snap : ~Saw(w, pc, snap)
    BY <1>0, AfterStep
  <1>7. ~ReadRun(w)
    BY <1>3, <1>4, <1>5, <1>6 DEF ReadRun, At, RunOp, InProgress
  <1>8. ~ReadCallback(w)
    <2>1. \A c : (IF c THEN "expire" ELSE "write") \in {"expire", "write"}
      OBVIOUS
    <2>2. ASSUME ReadCallback(w) PROVE FALSE
      <3>1. calls[w].run \in Run
        BY <1>5, <2>2 DEF ReadCallback, At, RunOp, InProgress
      <3> QED
        BY <1>3, <1>4, <1>6, <2>2, <3>1 DEF ReadCallback
    <2> QED
      BY <2>2
  <1>9. ~Reread(w)
    <2>1. \A op : Missing(op) \in {"not_found", "pending", "expired"}
      BY DEF Missing
    <2> QED
      BY <1>3, <1>4, <1>5, <2>1 DEF Reread, At, RunOp, InProgress
  <1>10. ~Scan(w) /\ ~EnsureSchema(w)
    BY <1>6 DEF Scan, EnsureSchema
  <1>11. ~(InsertRun(w) \/ UpdateRunUpstream(w) \/ StoreEvent(w) \/ ListCommit(w)
           \/ PruneCommit(w))
    BY <1>0, AfterStep DEF InsertRun, UpdateRunUpstream, StoreEvent, ListCommit, PruneCommit, At
  <1>12. ~CasExpire(w)
    BY <1>4, <1>6 DEF CasExpire
  <1>13. CASE CancelWrite(w)
    BY <1>0, <1>6, <1>13, AfterStep DEF CancelWrite
  <1>14. CASE AnswerWrite(w)
    BY <1>0, <1>6, <1>14, AfterStep DEF AnswerWrite
  <1> QED
    BY <1>1, <1>2, <1>7, <1>8, <1>9, <1>10, <1>11, <1>12, <1>13, <1>14
       DEF ReadStep, WriteStep

(* A second winner would have found the run pending after the first one    *)
(* was told that it is decided.                                            *)
LEMMA NextOneWinner == CallInv /\ OneWinner /\ [Next]_vars => OneWinner'
  <1> SUFFICES ASSUME CallInv, OneWinner, [Next]_vars, NEW v \in Worker, NEW w \in Worker,
                      calls'[v].at = "done", calls'[w].at = "done",
                      calls'[v].ret = "ok", calls'[w].ret = "ok",
                      {calls'[v].op, calls'[w].op} \subseteq {"cancel", "resolve"},
                      calls'[v].run = calls'[w].run,
                      v # w
               PROVE  FALSE
    BY DEF OneWinner
  <1>1. ~Crash
    BY DEF Crash, Idle
  <1>2. ~(calls'[v] = calls[v] /\ calls'[w] = calls[w])
    BY DEF OneWinner
  <1>3. ASSUME NEW a \in {v, w}, NEW b \in {v, w}, a # b, calls'[a] # calls[a]
        PROVE  FALSE
    <2>1. calls'[b] = calls[b]
      BY <1>1, <1>3, MovesOwnCall DEF CallInv, StoreInv, Next, Tick, vars
    <2>2. PICK r \in Run : r = calls'[b].run /\ runs[r].status \in Terminal
      BY <2>1 DEF CallInv, Aware, CallReports, CallKnown, ToldBy, Deciding, Terminal
    <2>3. ReadStep(a) \/ WriteStep(a) \/ Startup(a) \/ Begin(a) \/ Fail(a)
      BY <1>1, <1>3, MovesOwnCall DEF CallInv, StoreInv, Next, Tick, vars
    <2>4. StillPending(calls[a].run) /\ calls'[a].run = calls[a].run
      BY <2>3, WinnerFoundPending
    <2> QED
      BY <2>2, <2>4 DEF StillPending, Terminal
  <1> QED
    BY <1>2, <1>3

(* Of all calls that compete for one run at most one is told that it       *)
(* decided it.                                                             *)
THEOREM AtMostOneWinner == Spec => []OneWinner
  <1>1. Init => OneWinner
    BY DEF Init, OneWinner, Idle
  <1> QED
    BY <1>1, NextOneWinner, CallInvariance, PTL DEF Spec

-----------------------------------------------------------------------------
(* What a step may do.                                                     *)

(* A reader is told "pending" of a run within its TTL, or of one whose row *)
(* is gone.                                                                *)
LEMMA PendingTold ==
    ASSUME CallInv, NEW w \in Worker, calls[w].at # "done",
           ReadStep(w) \/ WriteStep(w) \/ Startup(w) \/ Begin(w) \/ Fail(w),
           calls'[w].at = "done", calls'[w].ret = "pending"
    PROVE  \/ calls[w].run \in Run /\ ~Stale(calls[w].run, now)
           \/ calls[w].op = "answer" /\ calls[w].run \notin present
  <1>0. TypeOK
    BY DEF CallInv, StoreInv
  <1>1. ~(Startup(w) \/ Begin(w))
    <2>1. \A op, r, b : Entered(op, r, b).at # "done"
      BY DEF Entered
    <2>2. \A op, r, b : ~Enter(w, op, r, b)
      BY <1>0, <2>1 DEF Enter, TypeOK
    <2> QED
      BY <2>2 DEF Startup, Begin
  <1>2. \A q \in Run : runs[q].status \in Terminal => ~Tell(w, q)
    BY <1>0, AfterStep DEF Tell, Terminal
  <1>3. \A r \in {"ok", "raised", "not_found", "bad_echo", "mismatch", "expired"} :
           ~Return(w, r, NoAnswer)
    BY <1>0, AfterStep
  <1>4. /\ \A pc \in {"read", "reread"} : ~Goto(w, pc)
        /\ \A pc \in {"expire", "write"} : \A snap : ~Saw(w, pc, snap)
    BY <1>0, AfterStep
  <1>5. calls[w].op \in RunOp /\ InProgress(w) => calls[w].run \in Run
    BY DEF CallInv, StoreInv, CallOK
  <1>6. CASE ReadRun(w)
    BY <1>2, <1>3, <1>4, <1>5, <1>6 DEF ReadRun, At, RunOp, InProgress
  <1>7. ~ReadCallback(w)
    <2>1. \A c : (IF c THEN "expire" ELSE "write") \in {"expire", "write"}
      OBVIOUS
    <2>2. ASSUME ReadCallback(w) PROVE FALSE
      <3>1. calls[w].run \in Run
        BY <1>5, <2>2 DEF ReadCallback, At, RunOp, InProgress
      <3> QED
        BY <1>2, <1>3, <1>4, <2>2, <3>1 DEF ReadCallback
    <2> QED
      BY <2>2
  <1>8. CASE Reread(w)
    <2> DEFINE r == calls[w].run
    <2>1. /\ calls[w].at = "reread" /\ calls[w].op \in {"get", "answer", "cancel", "resolve"}
          /\ r \in Run
      BY <1>5, <1>8 DEF Reread, At, RunOp, InProgress
    <2>2. r \notin present
      BY <1>2, <1>8, <2>1 DEF Reread, CallInv, Aware, CallLost
    <2>3. Return(w, Missing(calls[w].op), NoAnswer)
      BY <1>8, <2>2 DEF Reread
    <2>4. calls[w].op # "answer" => Missing(calls[w].op) \in {"expired", "not_found"}
      BY DEF Missing
    <2> QED
      BY <1>3, <2>2, <2>3, <2>4
  <1>9. ~Scan(w) /\ ~EnsureSchema(w) /\ ~Fail(w)
    BY <1>3, <1>4 DEF Scan, EnsureSchema, Fail
  <1>10. ~(InsertRun(w) \/ UpdateRunUpstream(w) \/ StoreEvent(w) \/ ListCommit(w)
           \/ PruneCommit(w))
    BY <1>3 DEF InsertRun, UpdateRunUpstream, StoreEvent, ListCommit, PruneCommit
  <1>11. ~CasExpire(w) /\ ~CancelWrite(w) /\ ~AnswerWrite(w)
    BY <1>3, <1>4 DEF CasExpire, CancelWrite, AnswerWrite
  <1> QED
    BY <1>1, <1>6, <1>7, <1>8, <1>9, <1>10, <1>11 DEF ReadStep, WriteStep

(* No reader is told "pending" of a stale run that is still in the table.  *)
THEOREM PendingToldHonestly == Spec => PendingIsHonest
  <1> DEFINE Honest == \A w \in Worker :
                /\ calls[w].at # "done"
                /\ calls'[w].at = "done" /\ calls'[w].ret = "pending"
                /\ PastTTL(calls[w].run, now)
                => calls[w].op = "answer" /\ calls[w].run \notin present
  <1>1. ASSUME CallInv, [Next]_vars PROVE Honest
    <2> SUFFICES ASSUME NEW w \in Worker, calls[w].at # "done", calls'[w].at = "done",
                        calls'[w].ret = "pending", PastTTL(calls[w].run, now)
                 PROVE  calls[w].op = "answer" /\ calls[w].run \notin present
      OBVIOUS
    <2>1. ~Crash
      BY DEF Crash, Idle
    <2>2. ReadStep(w) \/ WriteStep(w) \/ Startup(w) \/ Begin(w) \/ Fail(w)
      BY <1>1, <2>1, MovesOwnCall DEF CallInv, StoreInv, Next, Tick, vars
    <2>3. ~(calls[w].run \in Run /\ ~Stale(calls[w].run, now))
      BY <1>1, StaleIsPast, RowTyped DEF CallInv
    <2> QED
      BY <1>1, <2>2, <2>3, PendingTold
  <1> QED
    BY <1>1, CallInvariance, PTL DEF Spec, PendingIsHonest

(* The cap removes only runs with MAX_EVENTS younger decided ones: the new *)
(* row does not count, it is pending.                                      *)
LEMMA InsertDeletes ==
    ASSUME CallInv, NEW w \in Worker, InsertRun(w), NEW r \in present \ present'
    PROVE  /\ runs[r].status \in Terminal /\ runs[r].stamped # NoStamp
           /\ MaxEvents <= Cardinality({q \in present : /\ runs[q].status \in Terminal
                                                        /\ runs[q].id > runs[r].id})
  <1> DEFINE n == calls[w].run
             p == present \cup {n}
             decided == {q \in p : runs'[q].status \in Terminal}
  <1>1. /\ calls[w].op = "insert" /\ calls[w].at = "write"
        /\ present' = p \ OverCap(runs', p)
    BY DEF InsertRun, At
  <1>2. n \in Run /\ runs[n].status = "unborn" /\ present \subseteq Run /\ n \notin present
    BY <1>1 DEF CallInv, StoreInv, TypeOK, CallOK, InProgress, RunOp, InsertsFresh
  <1>3. runs'[n].status = "pending" /\ \A q \in Run \ {n} : runs'[q] = runs[q]
    BY <1>2 DEF InsertRun, CallInv, StoreInv, TypeOK
  <1>4. r \in OverCap(runs', p) /\ r \in Run /\ r # n
    BY <1>1, <1>2
  <1>5. /\ r \in decided
        /\ Cardinality({q \in decided : runs'[q].id > runs'[r].id}) >= MaxEvents
    BY <1>4 DEF OverCap
  <1>6. {q \in decided : runs'[q].id > runs'[r].id}
           = {q \in present : runs[q].status \in Terminal /\ runs[q].id > runs[r].id}
    BY <1>2, <1>3, <1>4 DEF Terminal
  <1>7. MaxEvents <= Cardinality({q \in decided : runs'[q].id > runs'[r].id})
    <2>1. MaxEvents \in Nat
      BY StoreAssumption DEF StoreAssumption
    <2>2. \A k : k >= MaxEvents <=> MaxEvents <= k
      OBVIOUS
    <2> QED
      BY <1>5, <2>2
  <1>8. runs[r].status \in Terminal
    BY <1>3, <1>4, <1>5
  <1>9. runs[r].stamped # NoStamp
    <2>1. process # "down"
      BY <1>1 DEF CallInv, Aware, CallServed, InProgress
    <2> QED
      BY <1>4, <1>8, <2>1 DEF CallInv, RowTimes
  <1> QED
    BY <1>6, <1>7, <1>8, <1>9

(* The retention removes only runs decided longer ago than it lasts.       *)
LEMMA PruneDeletes ==
    ASSUME CallInv, NEW w \in Worker, PruneCommit(w), NEW r \in present \ present'
    PROVE  /\ runs[r].status \in Terminal /\ runs[r].stamped # NoStamp
           /\ RunKeep > 0 /\ now - runs[r].stamped > RunKeep
  <1> DEFINE moment == calls[w].began
  <1>1. calls[w].op = "prune" /\ calls[w].at = "write" /\ r \in Run
    BY DEF PruneCommit, At, CallInv, StoreInv, TypeOK
  <1>2. RunKeep > 0 /\ Outlived(runs'[r], moment - RunKeep)
    BY DEF PruneCommit
  <1>3. moment \in Nat /\ now \in Nat /\ moment <= now /\ RunKeep \in Nat
    BY PastInstants, StoreAssumption DEF CallInv, StoreInv, CallOK, StoreAssumption
  <1>4. runs'[r].status = runs[r].status
    BY <1>1, PrunedTable DEF CallInv
  <1>5. runs[r].status \in Terminal
    BY <1>2, <1>4 DEF Outlived
  <1>6. runs[r].stamped # NoStamp
    <2>1. process # "down"
      BY <1>1 DEF CallInv, Aware, CallServed, InProgress
    <2> QED
      BY <1>1, <1>5, <2>1 DEF CallInv, RowTimes
  <1>7. runs'[r].stamped = runs[r].stamped
    BY <1>1, <1>5, <1>6, PruneCommitRows
       DEF RowStep, Untouched, Created, DecidedNow, StampedLate, Terminal
  <1>8. runs[r].stamped \in Nat /\ runs[r].stamped < moment - RunKeep
    BY <1>1, <1>2, <1>6, <1>7, RowTyped DEF Outlived, CallInv
  <1> QED
    BY <1>2, <1>3, <1>5, <1>6, <1>8

(* A row leaves the table only when it was decided before the step and its *)
(* retention is over or MAX_EVENTS younger decided runs are there.         *)
THEOREM DeletionsJustified == Spec => DeletionJustified
  <1> DEFINE Justified == \A r \in present \ present' :
          /\ runs[r].status \in Terminal /\ runs[r].stamped # NoStamp
          /\ \/ RunKeep > 0 /\ now - runs[r].stamped > RunKeep
             \/ MaxEvents <= Cardinality({q \in present : /\ runs[q].status \in Terminal
                                                          /\ runs[q].id > runs[r].id})
  <1>1. ASSUME CallInv, [Next]_vars PROVE Justified
    <2>1. CASE present' = present
      BY <2>1
    <2>2. ASSUME NEW w \in Worker, InsertRun(w) PROVE Justified
      BY <1>1, <2>2, InsertDeletes
    <2>3. ASSUME NEW w \in Worker, PruneCommit(w) PROVE Justified
      BY <1>1, <2>3, PruneDeletes
    <2>4. ASSUME NEW w \in Worker, ReadStep(w) \/ Startup(w) \/ Begin(w) \/ Fail(w)
          PROVE  UNCHANGED present
      BY <2>4 DEF ReadStep, ReadRun, ReadCallback, Reread, Scan, Startup, Begin, Enter, Fail
    <2>5. ASSUME NEW w \in Worker, WriteStep(w), ~InsertRun(w), ~PruneCommit(w)
          PROVE  UNCHANGED present
      BY <2>5 DEF WriteStep, EnsureSchema, UpdateRunUpstream, StoreEvent, CasExpire,
                  CancelWrite, AnswerWrite, ListCommit
    <2>6. Crash \/ Tick \/ UNCHANGED vars => present' = present
      BY DEF Crash, Tick, vars
    <2> HIDE DEF Justified
    <2> QED
      BY <1>1, <2>1, <2>2, <2>3, <2>4, <2>5, <2>6 DEF Next
  <1> QED
    BY <1>1, CallInvariance, PTL DEF Spec, DeletionJustified

-----------------------------------------------------------------------------
(* The events table.                                                       *)

(* A nonempty set of natural numbers has a least element.                  *)
LEMMA Least ==
    ASSUME NEW S \in SUBSET Nat, S # {}
    PROVE  \E m \in S : \A n \in S : m <= n
  <1>1. IsWellFoundedOn(OpToRel(<, Nat), Nat)
    BY NatLessThanWellFounded
  <1>2. PICK m \in S : \A n \in S : <<n, m>> \notin OpToRel(<, Nat)
    BY <1>1, WFMin
  <1>3. \A n \in S : ~(n < m)
    BY <1>2 DEF OpToRel
  <1> QED
    BY <1>3

(* The events are few, and each has an id of its own that was given out.   *)
EventsInv ==
    /\ IsFiniteSet(events) /\ Cardinality(events) <= MaxEvents
    /\ \A e \in events : e.id <= lastEvent
    /\ \A d, e \in events : d.id = e.id => d = e

(* What the DELETE of store_event leaves of a table that is at most one    *)
(* row over the cap: the newest row, and MAX_EVENTS rows younger than any  *)
(* that went.                                                              *)
LEMMA NewestStay ==
    ASSUME NEW all \in SUBSET Event, IsFiniteSet(all), Cardinality(all) <= MaxEvents + 1,
           \A d, e \in all : d.id = e.id => d = e,
           NEW top \in all, \A e \in all : e.id <= top.id
    PROVE  /\ NewestEvents(all) \subseteq all
           /\ top \in NewestEvents(all)
           /\ Cardinality(NewestEvents(all)) <= MaxEvents
           /\ \A e \in all \ NewestEvents(all) :
                 Cardinality({d \in NewestEvents(all) : d.id > e.id}) >= MaxEvents
  <1> DEFINE Above(e) == {d \in all : d.id > e.id}
             left == NewestEvents(all)
  <1>1. MaxEvents \in Nat /\ MaxEvents > 0 /\ Cardinality(all) \in Nat
    BY StoreAssumption, FS_CardinalityType DEF StoreAssumption
  <1>2. \A e \in all : e.id \in Nat
    BY DEF Event
  <1>3. left = {e \in all : Cardinality(Above(e)) < MaxEvents}
    BY DEF NewestEvents
  <1>4. left \subseteq all
    BY <1>3
  <1>5. \A e \in all : IsFiniteSet(Above(e)) /\ Cardinality(Above(e)) \in Nat
    <2>1. TAKE e \in all
    <2>2. Above(e) \in SUBSET all
      OBVIOUS
    <2>3. IsFiniteSet(Above(e))
      BY <2>2, FS_Subset
    <2> QED
      BY <2>3, FS_CardinalityType
  <1>6. top \in left
    <2>1. Above(top) = {}
      BY <1>2
    <2>2. Cardinality(Above(top)) = 0
      BY <2>1, FS_EmptySet
    <2> QED
      BY <1>1, <1>3, <2>2
  <1>7. ASSUME NEW e \in all \ left
        PROVE  Cardinality({d \in left : d.id > e.id}) >= MaxEvents
    <2>1. Cardinality(Above(e)) >= MaxEvents
      <3>1. ~(Cardinality(Above(e)) < MaxEvents) /\ Cardinality(Above(e)) \in Nat
        BY <1>3, <1>5
      <3> HIDE DEF Above
      <3> QED
        BY <1>1, <3>1
    <2>2. ASSUME NEW d \in Above(e) PROVE d \in left
      <3>1. d \in all /\ d # e /\ Above(d) \in SUBSET ((all \ {d}) \ {e})
        BY <1>2
      <3>2. /\ IsFiniteSet(all \ {d}) /\ Cardinality(all \ {d}) = Cardinality(all) - 1
        BY <3>1, FS_RemoveElement
      <3>3. /\ IsFiniteSet((all \ {d}) \ {e})
            /\ Cardinality((all \ {d}) \ {e}) = Cardinality(all) - 2
        <4>1. e \in all \ {d}
          BY <3>1
        <4>2. /\ IsFiniteSet((all \ {d}) \ {e})
              /\ Cardinality((all \ {d}) \ {e}) = Cardinality(all \ {d}) - 1
          BY <3>2, <4>1, FS_RemoveElement
        <4> QED
          BY <1>1, <3>2, <4>2
      <3>4. Cardinality(Above(d)) <= Cardinality((all \ {d}) \ {e})
        BY <3>1, <3>3, FS_Subset
      <3>5. Cardinality(Above(d)) < MaxEvents
        <4> HIDE DEF Above
        <4> QED
          BY <1>1, <1>5, <3>1, <3>3, <3>4
      <3> QED
        BY <1>3, <3>1, <3>5
    <2>3. {d \in left : d.id > e.id} = Above(e)
      BY <1>4, <2>2
    <2> QED
      BY <2>1, <2>3
  <1>8. Cardinality(left) <= MaxEvents
    <2>1. CASE Cardinality(all) <= MaxEvents
      <3>1. Cardinality(left) <= Cardinality(all) /\ IsFiniteSet(left)
        BY <1>4, FS_Subset
      <3>2. Cardinality(left) \in Nat
        BY <3>1, FS_CardinalityType
      <3> QED
        BY <1>1, <2>1, <3>1, <3>2
    <2>2. CASE Cardinality(all) = MaxEvents + 1
      <3> DEFINE ids == {e.id : e \in all}
      <3>1. ids \in SUBSET Nat /\ ids # {}
        BY <1>2
      <3>2. PICK m \in ids : \A n \in ids : m <= n
        BY <3>1, Least
      <3>3. PICK e \in all : e.id = m
        OBVIOUS
      <3>4. \A d \in all : e.id <= d.id
        BY <3>2, <3>3
      <3>5. Above(e) = all \ {e}
        <4>1. \A d \in all \ {e} : d.id # e.id
          OBVIOUS
        <4> QED
          BY <1>2, <3>4, <4>1
      <3>6. IsFiniteSet(all \ {e}) /\ Cardinality(all \ {e}) = MaxEvents
        <4>1. IsFiniteSet(all \ {e}) /\ Cardinality(all \ {e}) = Cardinality(all) - 1
          BY FS_RemoveElement
        <4> QED
          BY <1>1, <2>2, <4>1
      <3>7. e \notin left
        BY <1>1, <1>3, <3>5, <3>6
      <3>8. left \in SUBSET (all \ {e})
        BY <1>4, <3>7
      <3> QED
        BY <3>6, <3>8, FS_Subset
    <2> QED
      BY <1>1, <2>1, <2>2
  <1> QED
    BY <1>4, <1>6, <1>7, <1>8

(* What one step does to the events.                                       *)
EventsStep ==
    /\ Cardinality(events') <= MaxEvents
    /\ lastEvent' # lastEvent => \E e \in events' : e.id = lastEvent'
    /\ \A e \in events \ events' :
         \/ EventKeep > 0 /\ now - e.received > EventKeep
         \/ Cardinality({d \in events' : d.id > e.id}) >= MaxEvents

LEMMA StoreEventKeeps ==
    ASSUME StoreInv, EventsInv, NEW w \in Worker, StoreEvent(w)
    PROVE  EventsInv' /\ EventsStep
  <1>1. lastEvent' = lastEvent + 1 /\ lastEvent \in Nat /\ events \subseteq Event
    BY DEF StoreEvent, NextEventId, StoreInv, TypeOK
  <1>2. PICK t \in calls[w].began .. now :
           events' = NewestEvents(events \cup {[id |-> lastEvent + 1, received |-> t]})
    BY DEF StoreEvent, NextEventId
  <1> DEFINE top == [id |-> lastEvent + 1, received |-> t]
             all == events \cup {top}
  <1>3. top \in Event /\ top.id = lastEvent + 1
    BY <1>1, <1>2, PastInstants DEF Event
  <1>4. \A e \in events : e.id \in Nat /\ e.id <= lastEvent
    BY <1>1 DEF EventsInv, Event
  <1>5. top \notin events
    BY <1>1, <1>3, <1>4
  <1> HIDE DEF top
  <1>6. /\ IsFiniteSet(all) /\ Cardinality(all) <= MaxEvents + 1
        /\ all \in SUBSET Event /\ top \in all
    <2>1. IsFiniteSet(all) /\ Cardinality(all) = Cardinality(events) + 1
      BY <1>5, FS_AddElement DEF EventsInv
    <2>2. Cardinality(events) <= MaxEvents /\ Cardinality(events) \in Nat /\ MaxEvents \in Nat
      BY FS_CardinalityType, StoreAssumption DEF EventsInv, StoreAssumption
    <2> QED
      BY <1>1, <1>3, <2>1, <2>2
  <1>7. /\ \A e \in all : e.id <= top.id
        /\ \A d, e \in all : d.id = e.id => d = e
    BY <1>1, <1>3, <1>4 DEF EventsInv
  <1> HIDE DEF all
  <1>8. /\ events' \subseteq all /\ top \in events' /\ Cardinality(events') <= MaxEvents
        /\ \A e \in all \ events' : Cardinality({d \in events' : d.id > e.id}) >= MaxEvents
    BY <1>2, <1>6, <1>7, NewestStay DEF all, top
  <1>9. IsFiniteSet(events')
    BY <1>6, <1>8, FS_Subset
  <1>10. EventsInv'
    BY <1>1, <1>3, <1>7, <1>8, <1>9 DEF EventsInv
  <1>11. EventsStep
    BY <1>1, <1>3, <1>8 DEF EventsStep, all
  <1> QED
    BY <1>10, <1>11

LEMMA PruneKeepsEvents ==
    ASSUME StoreInv, EventsInv, NEW w \in Worker, PruneCommit(w)
    PROVE  EventsInv' /\ EventsStep
  <1> DEFINE moment == calls[w].began
  <1>1. /\ events' = {e \in events : EventKeep = 0 \/ e.received >= moment - EventKeep}
        /\ lastEvent' = lastEvent
    BY DEF PruneCommit
  <1>2. moment \in Nat /\ now \in Nat /\ moment <= now /\ EventKeep \in Nat
    BY PastInstants, StoreAssumption DEF StoreInv, CallOK, StoreAssumption
  <1>3. \A e \in events : e.received \in Nat
    BY StoreAssumption DEF StoreInv, TypeOK, Event, Time, StoreAssumption
  <1>4. \A e \in events \ events' : EventKeep > 0 /\ now - e.received > EventKeep
    BY <1>1, <1>2, <1>3
  <1>5. events' \in SUBSET events /\ IsFiniteSet(events)
    BY <1>1 DEF EventsInv
  <1>6. IsFiniteSet(events') /\ Cardinality(events') <= Cardinality(events)
    BY <1>5, FS_Subset
  <1>7. Cardinality(events') <= MaxEvents
    BY <1>5, <1>6, FS_CardinalityType, StoreAssumption DEF EventsInv, StoreAssumption
  <1>8. EventsInv'
    BY <1>1, <1>5, <1>6, <1>7 DEF EventsInv
  <1>9. EventsStep
    BY <1>1, <1>4, <1>7 DEF EventsStep
  <1> QED
    BY <1>8, <1>9

LEMMA NextEvents == StoreInv /\ EventsInv /\ [Next]_vars => EventsInv' /\ EventsStep
  <1> SUFFICES ASSUME StoreInv, EventsInv, [Next]_vars PROVE EventsInv' /\ EventsStep
    OBVIOUS
  <1>1. CASE UNCHANGED <<events, lastEvent>>
    BY <1>1 DEF EventsInv, EventsStep
  <1>2. ASSUME NEW w \in Worker, ReadStep(w) \/ Startup(w) \/ Begin(w) \/ Fail(w)
        PROVE  UNCHANGED <<events, lastEvent>>
    BY <1>2 DEF ReadStep, ReadRun, ReadCallback, Reread, Scan, Startup, Begin, Enter, Fail
  <1>3. ASSUME NEW w \in Worker, WriteStep(w), ~StoreEvent(w), ~PruneCommit(w)
        PROVE  UNCHANGED <<events, lastEvent>>
    BY <1>3 DEF WriteStep, EnsureSchema, InsertRun, UpdateRunUpstream, CasExpire,
                CancelWrite, AnswerWrite, ListCommit
  <1>4. Crash \/ Tick \/ UNCHANGED vars => UNCHANGED <<events, lastEvent>>
    BY DEF Crash, Tick, vars
  <1> QED
    BY <1>1, <1>2, <1>3, <1>4, StoreEventKeeps, PruneKeepsEvents DEF Next

LEMMA InitEvents == Init => EventsInv
  <1> SUFFICES ASSUME Init PROVE EventsInv
    OBVIOUS
  <1>1. Cardinality({}) = 0 /\ IsFiniteSet({}) /\ MaxEvents \in Nat
    BY FS_EmptySet, StoreAssumption DEF StoreAssumption
  <1> QED
    BY <1>1 DEF Init, EventsInv

(* MAX_EVENTS is never exceeded, the event just stored is there, and no    *)
(* event goes but for its age or for MAX_EVENTS younger ones.              *)
THEOREM EventsAreKept == Spec => EventsKept
  <1>1. Init => EventsInv
    BY InitEvents
  <1>2. StoreInv /\ EventsInv /\ [Next]_vars => EventsInv' /\ EventsStep
    BY NextEvents
  <1>3. EventsStep => (/\ Cardinality(events') <= MaxEvents
                       /\ lastEvent' # lastEvent => \E e \in events' : e.id = lastEvent'
                       /\ \A e \in events \ events' :
                            \/ EventKeep > 0 /\ now - e.received > EventKeep
                            \/ Cardinality({d \in events' : d.id > e.id}) >= MaxEvents)
    BY DEF EventsStep
  <1> QED
    BY <1>1, <1>2, <1>3, StoreInvariance, PTL DEF Spec, EventsKept

=============================================================================
