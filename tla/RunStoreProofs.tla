--------------------------- MODULE RunStoreProofs ---------------------------
(***************************************************************************)
(* Theorems about the store, for every set of runs, workers and texts and  *)
(* every TTL, retention and cap.                                           *)
(***************************************************************************)
EXTENDS RunStoreProps, FiniteSetTheorems, TLAPS

(* A finished call is a call, and the other calls are as before.           *)
LEMMA ReturnTyped ==
    ASSUME TypeOK, NEW w \in Worker, NEW ret \in Ret, NEW ans \in Body \cup {NoAnswer},
           Return(w, ret, ans)
    PROVE  /\ calls' \in [Worker -> Call]
           /\ calls'[w] = Finished(calls[w], ret, ans)
           /\ \A v \in Worker \ {w} : calls'[v] = calls[v]
  <1>1. calls[w] \in Call
    BY DEF TypeOK
  <1>2. 0 \in Time
    BY StoreAssumption DEF StoreAssumption, Time
  <1>3. Finished(calls[w], ret, ans) \in Call
    BY <1>1, <1>2 DEF Call, Finished
  <1> QED
    BY <1>3 DEF TypeOK, Return

(* So is a call that goes on to another statement.                         *)
LEMMA GotoTyped ==
    ASSUME TypeOK, NEW w \in Worker,
           NEW pc \in {"read", "expire", "reread", "write"},
           Goto(w, pc)
    PROVE  /\ calls' \in [Worker -> Call]
           /\ calls'[w] = [calls[w] EXCEPT !.at = pc]
           /\ \A v \in Worker \ {w} : calls'[v] = calls[v]
  <1>1. calls[w] \in Call
    BY DEF TypeOK
  <1>2. [calls[w] EXCEPT !.at = pc] \in Call
    BY <1>1 DEF Call
  <1> QED
    BY <1>2 DEF TypeOK, Goto

-----------------------------------------------------------------------------
(* The inductive invariant.                                                *)

LEMMA InitInv == Init => StoreInv
  <1> SUFFICES ASSUME Init PROVE StoreInv
    OBVIOUS
  <1>1. Cardinality(Old) \in Nat /\ 0 \in Time /\ Old \subseteq Run
    BY StoreAssumption, FS_CardinalityType DEF StoreAssumption, Time
  <1>2. \A row \in OldRows \cup {Unborn} : row \in Row
    <2>1. 1 .. Cardinality(Old) \subseteq Nat
      BY <1>1
    <2>2. OldRows \subseteq Row
      BY <1>1, <2>1 DEF OldRows, Row, Stamp
    <2>3. Unborn \in Row
      BY <1>1 DEF Unborn, Row, Stamp
    <2> QED
      BY <2>2, <2>3
  <1>3. runs \in [Run -> Row]
    BY <1>2 DEF Init
  <1>4. calls \in [Worker -> Call] /\ \A w \in Worker : calls[w] = Idle
    BY <1>1 DEF Init, Call, Idle, Ret
  <1>5. TypeOK
    BY <1>1, <1>3, <1>4 DEF Init, TypeOK
  <1>6. \A w \in Worker : CallOK(w) /\ ~InProgress(w)
    BY <1>4 DEF CallOK, Idle, InProgress, Init, RunOp
  <1>7. \A r \in present : runs[r].status # "unborn"
    <2>1. \A row \in OldRows : row.status # "unborn"
      BY DEF OldRows, Terminal
    <2>2. \A r \in present : runs[r] \in OldRows
      BY <1>1 DEF Init
    <2> QED
      BY <2>1, <2>2
  <1>8. AnswerBelongsToRun
    BY DEF Init, AnswerBelongsToRun
  <1> QED
    BY <1>5, <1>6, <1>7, <1>8 DEF StoreInv, InsertsFresh

(* What a step of worker w has to show when it brings no run to life.      *)
LEMMA Frame ==
    ASSUME StoreInv, NEW w \in Worker,
           now' = now,
           runs' \in [Run -> Row],
           \A r \in Run : runs'[r].status = "unborn" <=> runs[r].status = "unborn",
           present' \subseteq present,
           AnswerBelongsToRun',
           events' \subseteq Event,
           lastRun' = lastRun, lastEvent' \in Nat,
           process' \in {"down", "starting", "serving"},
           calls' \in [Worker -> Call],
           \A v \in Worker \ {w} : calls'[v] = calls[v],
           CallOK(w)',
           InProgress(w)' => calls'[w].op # "insert"
    PROVE  StoreInv'
  <1>1. TypeOK'
    BY DEF StoreInv, TypeOK
  <1>2. ASSUME NEW v \in Worker PROVE CallOK(v)'
    <2>1. CASE v = w
      BY <2>1
    <2>2. CASE v # w
      BY <2>2 DEF StoreInv, CallOK, InProgress, RunOp
    <2> QED
      BY <2>1, <2>2
  <1>3. InsertsFresh'
    BY DEF StoreInv, InsertsFresh, InProgress, CallOK, RunOp
  <1>4. \A r \in present' : runs'[r].status # "unborn"
    BY DEF StoreInv, TypeOK
  <1> QED
    BY <1>1, <1>2, <1>3, <1>4 DEF StoreInv

(* The part of a step of w that finishes its call.                         *)
LEMMA FinishedOK ==
    ASSUME StoreInv, NEW w \in Worker, NEW ret \in Ret, NEW ans \in Body \cup {NoAnswer},
           Return(w, ret, ans), now' = now
    PROVE  /\ calls' \in [Worker -> Call]
           /\ \A v \in Worker \ {w} : calls'[v] = calls[v]
           /\ CallOK(w)'
           /\ ~InProgress(w)'
  <1>1. /\ calls' \in [Worker -> Call]
        /\ calls'[w] = Finished(calls[w], ret, ans)
        /\ \A v \in Worker \ {w} : calls'[v] = calls[v]
    BY ReturnTyped DEF StoreInv
  <1>2. now \in Nat
    BY StoreAssumption DEF StoreInv, TypeOK, Time, StoreAssumption
  <1> QED
    BY <1>1, <1>2 DEF Finished, CallOK, InProgress

(* A step of w that only moves its own call.                               *)
LEMMA Quiet ==
    ASSUME StoreInv, NEW w \in Worker,
           UNCHANGED <<runs, present, events, lastRun, lastEvent, now, process>>,
           calls' \in [Worker -> Call],
           \A v \in Worker \ {w} : calls'[v] = calls[v],
           CallOK(w)',
           InProgress(w)' => calls'[w].op # "insert"
    PROVE  StoreInv'
  <1>1. AnswerBelongsToRun'
    BY DEF StoreInv, AnswerBelongsToRun
  <1> QED
    BY <1>1, Frame DEF StoreInv, TypeOK

LEMMA QuietReturn ==
    ASSUME StoreInv, NEW w \in Worker, NEW ret \in Ret, NEW ans \in Body \cup {NoAnswer},
           Return(w, ret, ans),
           UNCHANGED <<runs, present, events, lastRun, lastEvent, now, process>>
    PROVE  StoreInv'
  BY FinishedOK, Quiet

(* A call that judges a row or scans the table, and goes on.               *)
LEMMA SeenTyped ==
    ASSUME StoreInv, NEW w \in Worker, NEW pc \in {"expire", "write"}, NEW snap \in SUBSET Run,
           calls[w].op \in {"get", "answer", "cancel", "resolve", "list", "prune"},
           calls[w].op = "resolve" => calls[w].body.echo = calls[w].run,
           InProgress(w),
           Saw(w, pc, snap),
           UNCHANGED <<runs, present, events, lastRun, lastEvent, now, process>>
    PROVE  StoreInv'
  <1>1. calls[w] \in Call /\ now \in Time
    BY DEF StoreInv, TypeOK
  <1> DEFINE c == [calls[w] EXCEPT !.at = pc, !.seen = now, !.snap = snap]
  <1>2. c \in Call
    BY <1>1 DEF Call
  <1>3. calls' = [calls EXCEPT ![w] = c]
    BY DEF Saw
  <1>4. /\ calls' \in [Worker -> Call]
        /\ calls'[w] = c
        /\ \A v \in Worker \ {w} : calls'[v] = calls[v]
    BY <1>2, <1>3 DEF StoreInv, TypeOK
  <1>5. /\ c.op = calls[w].op /\ c.at = pc /\ c.run = calls[w].run /\ c.body = calls[w].body
        /\ c.began = calls[w].began /\ c.seen = now
    BY <1>1 DEF Call
  <1>6. CallOK(w) /\ now \in Nat /\ calls[w].began \in Nat
    BY <1>1, StoreAssumption DEF StoreInv, StoreAssumption, Time, Call
  <1>7. CallOK(w)'
    BY <1>4, <1>5, <1>6 DEF CallOK, InProgress, RunOp
  <1> QED
    BY <1>4, <1>5, <1>7, Quiet

-----------------------------------------------------------------------------
(* One lemma per action: the invariant is preserved.                       *)

LEMMA ReadRunInv == ASSUME StoreInv, NEW w \in Worker, ReadRun(w) PROVE StoreInv'
  <1> DEFINE r == calls[w].run
  <1>1. /\ calls[w].op \in {"get", "answer", "cancel"} /\ calls[w].at = "read"
        /\ UNCHANGED <<runs, present, events, lastRun, lastEvent, now, process>>
    BY DEF ReadRun, At
  <1>2. InProgress(w) /\ r \in Run
    BY <1>1 DEF StoreInv, CallOK, InProgress, RunOp
  <1>3. CASE Return(w, "not_found", NoAnswer) \/ Return(w, "pending", NoAnswer)
    BY <1>1, <1>3, QuietReturn DEF Ret
  <1>4. CASE Saw(w, "expire", {}) \/ Saw(w, "write", {})
    BY <1>1, <1>2, <1>4, SeenTyped
  <1>5. CASE runs[r].status \in Terminal /\ Tell(w, r)
    <2>1. runs[r].status \in Ret /\ runs[r].answer \in Body \cup {NoAnswer}
      BY <1>2, <1>5 DEF StoreInv, TypeOK, Row, Ret
    <2> QED
      BY <1>1, <1>5, <2>1, QuietReturn DEF Tell
  <1> QED
    BY <1>3, <1>4, <1>5 DEF ReadRun

LEMMA ReadCallbackInv == ASSUME StoreInv, NEW w \in Worker, ReadCallback(w) PROVE StoreInv'
  <1> DEFINE r == calls[w].run
             pc == IF Stale(r, now) THEN "expire" ELSE "write"
  <1>1. /\ calls[w].op = "resolve" /\ calls[w].at = "read"
        /\ UNCHANGED <<runs, present, events, lastRun, lastEvent, now, process>>
    BY DEF ReadCallback, At
  <1>2. InProgress(w) /\ r \in Run
    BY <1>1 DEF StoreInv, CallOK, InProgress, RunOp
  <1>3. CASE \/ Return(w, "bad_echo", NoAnswer) \/ Return(w, "not_found", NoAnswer)
             \/ Return(w, "mismatch", NoAnswer)
    BY <1>1, <1>3, QuietReturn DEF Ret
  <1>4. CASE calls[w].body.echo = r /\ Saw(w, pc, {})
    <2>1. pc \in {"expire", "write"}
      OBVIOUS
    <2> QED
      BY <1>1, <1>2, <1>4, <2>1, SeenTyped
  <1>5. CASE runs[r].status \in Terminal /\ Tell(w, r)
    <2>1. runs[r].status \in Ret /\ runs[r].answer \in Body \cup {NoAnswer}
      BY <1>2, <1>5 DEF StoreInv, TypeOK, Row, Ret
    <2> QED
      BY <1>1, <1>5, <2>1, QuietReturn DEF Tell
  <1> QED
    BY <1>3, <1>4, <1>5 DEF ReadCallback, EchoMatches

LEMMA RereadInv == ASSUME StoreInv, NEW w \in Worker, Reread(w) PROVE StoreInv'
  <1> DEFINE r == calls[w].run
  <1>1. /\ calls[w].op \in {"get", "answer", "cancel", "resolve"} /\ calls[w].at = "reread"
        /\ UNCHANGED <<runs, present, events, lastRun, lastEvent, now, process>>
    BY DEF Reread, At
  <1>2. r \in Run
    BY <1>1 DEF StoreInv, CallOK, InProgress, RunOp
  <1>3. CASE r \in present /\ Tell(w, r)
    <2>1. runs[r].status \in Ret /\ runs[r].answer \in Body \cup {NoAnswer}
      BY <1>2, <1>3 DEF StoreInv, TypeOK, Row, Ret
    <2> QED
      BY <1>1, <1>3, <2>1, QuietReturn DEF Tell
  <1>4. CASE Return(w, Missing(calls[w].op), NoAnswer)
    <2>1. Missing(calls[w].op) \in Ret
      BY DEF Missing, Ret, Terminal
    <2> QED
      BY <1>1, <1>4, <2>1, QuietReturn
  <1> QED
    BY <1>3, <1>4 DEF Reread

LEMMA ScanInv == ASSUME StoreInv, NEW w \in Worker, Scan(w) PROVE StoreInv'
  <1> DEFINE snap == {r \in present : runs[r].status = "pending"}
  <1>1. snap \in SUBSET Run
    BY DEF StoreInv, TypeOK
  <1>2. InProgress(w)
    BY DEF Scan, At, InProgress
  <1> QED
    BY <1>1, <1>2, SeenTyped DEF Scan, At

LEMMA FailInv == ASSUME StoreInv, NEW w \in Worker, Fail(w) PROVE StoreInv'
  BY QuietReturn DEF Fail, Ret

(* A call that goes on to reread its row.                                  *)
LEMMA GotoOK ==
    ASSUME StoreInv, NEW w \in Worker, Goto(w, "reread"), now' = now,
           calls[w].op \in RunOp \ {"insert"}, InProgress(w),
           \A r \in Run : runs'[r].status = "unborn" <=> runs[r].status = "unborn"
    PROVE  /\ calls' \in [Worker -> Call]
           /\ \A v \in Worker \ {w} : calls'[v] = calls[v]
           /\ CallOK(w)'
           /\ calls'[w].op # "insert"
  <1>1. /\ calls' \in [Worker -> Call]
        /\ calls'[w] = [calls[w] EXCEPT !.at = "reread"]
        /\ \A v \in Worker \ {w} : calls'[v] = calls[v]
    BY GotoTyped DEF StoreInv
  <1>2. calls[w] \in Call
    BY DEF StoreInv, TypeOK
  <1>3. /\ calls'[w].op = calls[w].op /\ calls'[w].at = "reread"
        /\ calls'[w].run = calls[w].run /\ calls'[w].body = calls[w].body
        /\ calls'[w].began = calls[w].began /\ calls'[w].seen = calls[w].seen
    BY <1>1, <1>2 DEF Call
  <1>4. CallOK(w)
    BY DEF StoreInv
  <1>5. CallOK(w)'
    BY <1>3, <1>4 DEF CallOK, InProgress, RunOp
  <1> QED
    BY <1>1, <1>3, <1>5 DEF RunOp

(* Writing one row of an existing run.                                     *)
LEMMA RowWrite ==
    ASSUME StoreInv, NEW r \in Run, NEW row \in Row,
           runs[r].status # "unborn", row.status # "unborn",
           IF row.status = "answered" THEN Addressed(row.answer, r) ELSE row.answer = NoAnswer,
           runs' = [runs EXCEPT ![r] = row]
    PROVE  /\ runs' \in [Run -> Row]
           /\ \A q \in Run : runs'[q].status = "unborn" <=> runs[q].status = "unborn"
           /\ AnswerBelongsToRun'
  BY DEF StoreInv, TypeOK, AnswerBelongsToRun, Addressed

LEMMA PendingRow ==
    ASSUME StoreInv, NEW r \in Run, StillPending(r)
    PROVE  /\ runs[r] \in Row /\ runs[r].status = "pending" /\ runs[r].answer = NoAnswer
           /\ r \in present
  BY DEF StoreInv, TypeOK, StillPending, Matches, AnswerBelongsToRun

LEMMA ExpiredRow ==
    ASSUME StoreInv, NEW r \in Run, runs[r].status = "pending", NEW t \in Time
    PROVE  /\ Expired(runs[r], t) \in Row
           /\ Expired(runs[r], t).status = "expired"
           /\ Expired(runs[r], t).answer = NoAnswer
           /\ Expired(runs[r], t).stamped = t
           /\ Expired(runs[r], t).created = runs[r].created
  <1>1. runs[r] \in Row /\ runs[r].answer = NoAnswer
    BY DEF StoreInv, TypeOK, AnswerBelongsToRun
  <1> QED
    BY <1>1 DEF Row, Expired, Terminal, Stamp

(* Instants between a remembered one and now are instants of the clock.    *)
LEMMA PastInstants ==
    ASSUME StoreInv, NEW w \in Worker
    PROVE  /\ now \in Time /\ now \in Nat
           /\ calls[w].began \in Time /\ calls[w].began \in Nat
           /\ calls[w].seen \in Time /\ calls[w].seen \in Nat
           /\ calls[w].began .. now \subseteq Time
           /\ calls[w].seen .. now \subseteq Time
  BY StoreAssumption DEF StoreInv, TypeOK, Call, Time, StoreAssumption

LEMMA CasExpireInv == ASSUME StoreInv, NEW w \in Worker, CasExpire(w) PROVE StoreInv'
  <1> DEFINE r == calls[w].run
  <1>1. /\ calls[w].op \in {"get", "answer", "cancel", "resolve"} /\ calls[w].at = "expire"
        /\ UNCHANGED <<present, events, lastRun, lastEvent, now, process>>
    BY DEF CasExpire, At
  <1>2. r \in Run /\ runs[r].status # "unborn" /\ InProgress(w)
    BY <1>1 DEF StoreInv, CallOK, InProgress, RunOp
  <1>3. CASE ~StillPending(r) /\ UNCHANGED runs /\ Goto(w, "reread")
    BY <1>1, <1>2, <1>3, GotoOK, Quiet DEF RunOp
  <1>4. CASE StillPending(r)
    <2>1. PICK t \in calls[w].seen .. now : runs' = [runs EXCEPT ![r] = Expired(@, t)]
      BY <1>4 DEF CasExpire
    <2>2. /\ runs' \in [Run -> Row] /\ AnswerBelongsToRun'
          /\ \A q \in Run : runs'[q].status = "unborn" <=> runs[q].status = "unborn"
      <3>1. t \in Time /\ runs[r].status = "pending"
        BY <1>2, <1>4, <2>1, PastInstants, PendingRow
      <3>2. /\ Expired(runs[r], t) \in Row /\ Expired(runs[r], t).status = "expired"
            /\ Expired(runs[r], t).answer = NoAnswer
        BY <1>2, <3>1, ExpiredRow
      <3>3. runs' = [runs EXCEPT ![r] = Expired(runs[r], t)]
        BY <2>1
      <3> QED
        BY <1>2, <3>2, <3>3, RowWrite
    <2>3. CASE Goto(w, "reread")
      BY <1>1, <1>2, <2>2, <2>3, GotoOK, Frame DEF RunOp, StoreInv, TypeOK
    <2>4. CASE Return(w, "expired", NoAnswer)
      BY <1>1, <2>2, <2>4, FinishedOK, Frame DEF Ret, Terminal, StoreInv, TypeOK
    <2> QED
      BY <1>4, <2>3, <2>4 DEF CasExpire
  <1> QED
    BY <1>3, <1>4 DEF CasExpire

LEMMA CancelWriteInv == ASSUME StoreInv, NEW w \in Worker, CancelWrite(w) PROVE StoreInv'
  <1> DEFINE r == calls[w].run
  <1>1. /\ calls[w].op = "cancel" /\ calls[w].at = "write"
        /\ UNCHANGED <<present, events, lastRun, lastEvent, now, process>>
    BY DEF CancelWrite, At
  <1>2. r \in Run /\ runs[r].status # "unborn" /\ InProgress(w)
    BY <1>1 DEF StoreInv, CallOK, InProgress, RunOp
  <1>3. CASE ~StillPending(r) /\ UNCHANGED runs /\ Goto(w, "reread")
    BY <1>1, <1>2, <1>3, GotoOK, Quiet DEF RunOp
  <1>4. CASE StillPending(r)
    <2> DEFINE row == [runs[r] EXCEPT !.status = "cancelled", !.stamped = calls[w].began]
    <2>1. runs' = [runs EXCEPT ![r] = row] /\ Return(w, "ok", NoAnswer)
      BY <1>4 DEF CancelWrite
    <2>2. row \in Row /\ row.status = "cancelled" /\ row.answer = NoAnswer
      BY <1>2, <1>4, PastInstants, PendingRow DEF Row, Stamp, Terminal
    <2>3. /\ runs' \in [Run -> Row] /\ AnswerBelongsToRun'
          /\ \A q \in Run : runs'[q].status = "unborn" <=> runs[q].status = "unborn"
      BY <1>2, <2>1, <2>2, RowWrite
    <2> QED
      BY <1>1, <2>1, <2>3, FinishedOK, Frame DEF Ret, StoreInv, TypeOK
  <1> QED
    BY <1>3, <1>4 DEF CancelWrite

LEMMA AnswerWriteInv == ASSUME StoreInv, NEW w \in Worker, AnswerWrite(w) PROVE StoreInv'
  <1> DEFINE r == calls[w].run
  <1>1. /\ calls[w].op = "resolve" /\ calls[w].at = "write"
        /\ UNCHANGED <<present, events, lastRun, lastEvent, now, process>>
    BY DEF AnswerWrite, At
  <1>2. /\ r \in Run /\ runs[r].status # "unborn" /\ InProgress(w)
        /\ Addressed(calls[w].body, r)
    BY <1>1 DEF StoreInv, CallOK, InProgress, RunOp, Addressed
  <1>3. CASE ~StillPending(r) /\ UNCHANGED runs /\ Goto(w, "reread")
    BY <1>1, <1>2, <1>3, GotoOK, Quiet DEF RunOp
  <1>4. CASE StillPending(r)
    <2>1. PICK t \in calls[w].seen .. now :
             runs' = [runs EXCEPT ![r] = [@ EXCEPT !.status = "answered",
                                    !.answer = calls[w].body, !.stamped = t]]
      BY <1>4 DEF AnswerWrite
    <2> DEFINE row == [runs[r] EXCEPT !.status = "answered",
                                      !.answer = calls[w].body, !.stamped = t]
    <2>2. runs' = [runs EXCEPT ![r] = row] /\ Return(w, "ok", NoAnswer)
      BY <1>4, <2>1 DEF AnswerWrite
    <2>3. row \in Row /\ row.status = "answered" /\ row.answer = calls[w].body
      BY <1>2, <1>4, <2>1, PastInstants, PendingRow DEF Row, Stamp, Terminal, Addressed
    <2>4. /\ runs' \in [Run -> Row] /\ AnswerBelongsToRun'
          /\ \A q \in Run : runs'[q].status = "unborn" <=> runs[q].status = "unborn"
      BY <1>2, <2>2, <2>3, RowWrite
    <2> QED
      BY <1>1, <2>2, <2>4, FinishedOK, Frame DEF Ret, StoreInv, TypeOK
  <1> QED
    BY <1>3, <1>4 DEF AnswerWrite

(* The rows a sweep expires are pending, and stamped after the scan.       *)
LEMMA ExpiriesArePending ==
    ASSUME StoreInv, NEW w \in Worker, NEW at \in Expiries(w), NEW r \in DOMAIN at
    PROVE  /\ r \in Run /\ StillPending(r)
           /\ at[r] \in calls[w].seen .. now
  <1>1. r \in calls[w].snap /\ StillPending(r) /\ at[r] \in calls[w].seen .. now
    BY DEF Expiries
  <1>2. calls[w].snap \subseteq Run
    BY DEF StoreInv, TypeOK, Call
  <1> QED
    BY <1>1, <1>2

LEMMA ExpiringOK ==
    ASSUME StoreInv, NEW w \in Worker, NEW at \in Expiries(w)
    PROVE  /\ Expiring(at) \in [Run -> Row]
           /\ \A r \in Run :
                 IF r \in DOMAIN at
                 THEN /\ runs[r].status = "pending" /\ Expiring(at)[r].status = "expired"
                      /\ Expiring(at)[r].answer = runs[r].answer
                      /\ Expiring(at)[r].stamped = at[r]
                      /\ Expiring(at)[r].created = runs[r].created
                 ELSE Expiring(at)[r] = runs[r]
  <1>1. ASSUME NEW r \in Run, r \in DOMAIN at
        PROVE  /\ Expired(runs[r], at[r]) \in Row
               /\ Expired(runs[r], at[r]).status = "expired"
               /\ Expired(runs[r], at[r]).answer = runs[r].answer
               /\ Expired(runs[r], at[r]).stamped = at[r]
               /\ Expired(runs[r], at[r]).created = runs[r].created
               /\ runs[r].status = "pending"
    <2>1. StillPending(r) /\ at[r] \in Time
      BY <1>1, ExpiriesArePending, PastInstants
    <2> QED
      BY <2>1, ExpiredRow, PendingRow
  <1>2. \A r \in Run : runs[r] \in Row
    BY DEF StoreInv, TypeOK
  <1>3. Expiring(at) = [r \in Run |-> IF r \in DOMAIN at THEN Expired(runs[r], at[r])
                                                       ELSE runs[r]]
    BY DEF Expiring
  <1> HIDE DEF Expiring
  <1> QED
    BY <1>1, <1>2, <1>3

(* Stamping decided rows leaves everything but answered_at as it is.       *)
LEMMA BackfilledOK ==
    ASSUME NEW f \in [Run -> Row], NEW t \in Time
    PROVE  /\ Backfilled(f, t) \in [Run -> Row]
           /\ \A r \in Run : /\ Backfilled(f, t)[r].status = f[r].status
                             /\ Backfilled(f, t)[r].answer = f[r].answer
                             /\ Backfilled(f, t)[r].created = f[r].created
                             /\ IF /\ r \in present /\ f[r].status \in Terminal
                                   /\ f[r].stamped = NoStamp
                                THEN Backfilled(f, t)[r].stamped = t
                                ELSE Backfilled(f, t)[r].stamped = f[r].stamped
  <1>1. ASSUME NEW r \in Run
        PROVE  /\ [f[r] EXCEPT !.stamped = t] \in Row
               /\ [f[r] EXCEPT !.stamped = t].status = f[r].status
               /\ [f[r] EXCEPT !.stamped = t].answer = f[r].answer
               /\ [f[r] EXCEPT !.stamped = t].created = f[r].created
               /\ [f[r] EXCEPT !.stamped = t].stamped = t
    BY DEF Row, Stamp
  <1> QED
    BY <1>1 DEF Backfilled

(* A new table whose rows differ by expiries and stamps only.              *)
LEMMA TableWrite ==
    ASSUME StoreInv, runs' \in [Run -> Row],
           \A r \in Run : /\ runs'[r].answer = runs[r].answer
                         /\ \/ runs'[r].status = runs[r].status
                            \/ runs[r].status = "pending" /\ runs'[r].status = "expired"
    PROVE  /\ AnswerBelongsToRun'
           /\ \A r \in Run : runs'[r].status = "unborn" <=> runs[r].status = "unborn"
  BY DEF StoreInv, AnswerBelongsToRun, Addressed

LEMMA ListCommitInv == ASSUME StoreInv, NEW w \in Worker, ListCommit(w) PROVE StoreInv'
  <1>1. /\ UNCHANGED <<present, events, lastRun, lastEvent, now, process>>
        /\ Return(w, "ok", NoAnswer)
    BY DEF ListCommit
  <1>2. PICK at \in Expiries(w) : runs' = Expiring(at)
    BY DEF ListCommit
  <1>3. /\ runs' \in [Run -> Row] /\ AnswerBelongsToRun'
        /\ \A r \in Run : runs'[r].status = "unborn" <=> runs[r].status = "unborn"
    BY <1>2, ExpiringOK, TableWrite
  <1> QED
    BY <1>1, <1>3, FinishedOK, Frame DEF Ret, StoreInv, TypeOK

(* What prune_store does to the run table.                                 *)
LEMMA PrunedTable ==
    ASSUME StoreInv, NEW w \in Worker, PruneCommit(w)
    PROVE  /\ runs' \in [Run -> Row]
           /\ present' \subseteq present
           /\ \A r \in Run :
                 /\ runs'[r].answer = runs[r].answer
                 /\ \/ runs'[r].status = runs[r].status
                    \/ /\ runs[r].status = "pending" /\ runs'[r].status = "expired"
                       /\ r \in present' /\ r \in present
  <1> DEFINE moment == calls[w].began
  <1>1. At(w, {"prune"}, "write")
    BY DEF PruneCommit
  <1>2. /\ moment \in Nat /\ calls[w].seen \in Nat /\ moment <= calls[w].seen
        /\ moment \in Time /\ RunKeep \in Nat /\ now \in Nat
    BY <1>1, PastInstants, StoreAssumption DEF At, StoreInv, CallOK, StoreAssumption
  <1>3. PICK at \in Expiries(w) :
           runs' = IF RunKeep > 0 THEN Backfilled(Expiring(at), moment) ELSE Expiring(at)
    BY DEF PruneCommit
  <1>4. present' = IF RunKeep > 0
                   THEN {r \in present : ~Outlived(runs'[r], moment - RunKeep)} ELSE present
    BY DEF PruneCommit
  <1>5. /\ runs' \in [Run -> Row]
        /\ \A r \in Run : /\ runs'[r].status = Expiring(at)[r].status
                          /\ runs'[r].answer = Expiring(at)[r].answer
                          /\ \/ runs'[r].stamped = Expiring(at)[r].stamped
                             \/ Expiring(at)[r].stamped = NoStamp
    BY <1>2, <1>3, ExpiringOK, BackfilledOK
  <1>6. ASSUME NEW r \in Run, r \in DOMAIN at
        PROVE  r \in present /\ r \in present'
    <2>1. at[r] \in calls[w].seen .. now /\ StillPending(r)
      BY <1>6, ExpiriesArePending
    <2>2. Expiring(at)[r].stamped = at[r] /\ at[r] \in Nat /\ at[r] # NoStamp
      BY <1>2, <1>6, <2>1, ExpiringOK DEF NoStamp
    <2>3. runs'[r].stamped = at[r]
      BY <1>5, <2>2
    <2>4. RunKeep > 0 => ~(runs'[r].stamped < moment - RunKeep)
      BY <1>2, <2>1, <2>2, <2>3
    <2> QED
      BY <1>4, <2>1, <2>4 DEF Outlived, StillPending, Matches
  <1> QED
    BY <1>4, <1>5, <1>6, ExpiringOK

LEMMA PruneCommitInv == ASSUME StoreInv, NEW w \in Worker, PruneCommit(w) PROVE StoreInv'
  <1>1. /\ UNCHANGED <<lastRun, lastEvent, now>> /\ process' = "serving"
        /\ events' \subseteq events
        /\ Return(w, "ok", NoAnswer)
    BY DEF PruneCommit
  <1>2. /\ runs' \in [Run -> Row] /\ AnswerBelongsToRun' /\ present' \subseteq present
        /\ \A r \in Run : runs'[r].status = "unborn" <=> runs[r].status = "unborn"
    BY PrunedTable, TableWrite
  <1> QED
    BY <1>1, <1>2, FinishedOK, Frame DEF Ret, StoreInv, TypeOK

LEMMA UpdateRunUpstreamInv ==
    ASSUME StoreInv, NEW w \in Worker, UpdateRunUpstream(w) PROVE StoreInv'
  <1> DEFINE r == calls[w].run
  <1>1. /\ calls[w].op = "upstream" /\ calls[w].at = "write"
        /\ UNCHANGED <<present, events, lastRun, lastEvent, now, process>>
        /\ Return(w, "ok", NoAnswer)
    BY DEF UpdateRunUpstream, At
  <1>2. r \in Run
    BY <1>1 DEF StoreInv, CallOK, InProgress, RunOp
  <1>3. /\ runs' \in [Run -> Row] /\ AnswerBelongsToRun'
        /\ \A q \in Run : runs'[q].status = "unborn" <=> runs[q].status = "unborn"
    <2>1. CASE UNCHANGED runs
      BY <2>1 DEF StoreInv, TypeOK, AnswerBelongsToRun
    <2>2. CASE runs' = [runs EXCEPT ![r].upstream = TRUE]
      <3> DEFINE row == [runs[r] EXCEPT !.upstream = TRUE]
      <3>1. /\ row \in Row /\ row.status = runs[r].status /\ row.answer = runs[r].answer
        BY <1>2 DEF StoreInv, TypeOK, Row
      <3>2. runs' = [runs EXCEPT ![r] = row]
        BY <2>2
      <3> QED
        BY <1>2, <3>1, <3>2, TableWrite DEF StoreInv, TypeOK
    <2> QED
      BY <2>1, <2>2 DEF UpdateRunUpstream
  <1> QED
    BY <1>1, <1>3, FinishedOK, Frame DEF Ret, StoreInv, TypeOK

LEMMA StoreEventInv == ASSUME StoreInv, NEW w \in Worker, StoreEvent(w) PROVE StoreInv'
  <1>1. /\ UNCHANGED <<runs, present, lastRun, now, process>> /\ lastEvent' = lastEvent + 1
        /\ Return(w, "ok", NoAnswer)
    BY DEF StoreEvent, NextEventId
  <1>2. PICK t \in calls[w].began .. now :
           events' = NewestEvents(events \cup {[id |-> lastEvent + 1, received |-> t]})
    BY DEF StoreEvent, NextEventId
  <1>3. lastEvent' \in Nat /\ t \in Time
    BY <1>1, PastInstants DEF StoreInv, TypeOK
  <1>4. events' \subseteq Event
    BY <1>1, <1>2, <1>3 DEF NewestEvents, Event, StoreInv, TypeOK
  <1>5. AnswerBelongsToRun'
    BY <1>1 DEF StoreInv, AnswerBelongsToRun
  <1> QED
    BY <1>1, <1>3, <1>4, <1>5, FinishedOK, Frame DEF Ret, StoreInv, TypeOK

LEMMA EnsureSchemaInv == ASSUME StoreInv, NEW w \in Worker, EnsureSchema(w) PROVE StoreInv'
  <1>1. /\ calls[w].op = "prune" /\ calls[w].at = "schema"
        /\ UNCHANGED <<present, events, lastRun, lastEvent, now>> /\ process' = "starting"
        /\ Goto(w, "read")
    BY DEF EnsureSchema, At
  <1>2. PICK t \in calls[w].began .. now : runs' = Backfilled(runs, t)
    BY DEF EnsureSchema
  <1>3. t \in Time
    BY PastInstants
  <1>4. /\ runs' \in [Run -> Row] /\ AnswerBelongsToRun'
        /\ \A q \in Run : runs'[q].status = "unborn" <=> runs[q].status = "unborn"
    BY <1>2, <1>3, BackfilledOK, TableWrite DEF StoreInv, TypeOK
  <1>5. /\ calls' \in [Worker -> Call]
        /\ calls'[w] = [calls[w] EXCEPT !.at = "read"]
        /\ \A v \in Worker \ {w} : calls'[v] = calls[v]
    BY <1>1, GotoTyped DEF StoreInv
  <1>6. /\ calls'[w].op = "prune" /\ calls'[w].at = "read"
        /\ calls'[w].began = calls[w].began /\ calls'[w].seen = calls[w].seen
    BY <1>1, <1>5 DEF StoreInv, TypeOK, Call
  <1>7. CallOK(w)'
    BY <1>1, <1>6 DEF StoreInv, CallOK, InProgress, RunOp
  <1> QED
    BY <1>1, <1>4, <1>5, <1>6, <1>7, Frame DEF StoreInv, TypeOK

(* A new run: the row is fresh, and so stays the run_id of every other     *)
(* insert in flight.                                                       *)
LEMMA InsertRunInv == ASSUME StoreInv, NEW w \in Worker, InsertRun(w) PROVE StoreInv'
  <1> DEFINE r == calls[w].run
             row == [status |-> "pending", id |-> lastRun + 1, created |-> calls[w].began,
                     stamped |-> NoStamp, answer |-> NoAnswer, upstream |-> FALSE]
  <1>1. /\ calls[w].op = "insert" /\ calls[w].at = "write" /\ lastRun' = lastRun + 1
        /\ UNCHANGED <<events, lastEvent, now, process>>
        /\ Return(w, "ok", NoAnswer)
        /\ runs' = [runs EXCEPT ![r] = row]
        /\ present' \subseteq present \cup {r}
    BY DEF InsertRun, At
  <1>2. r \in Run /\ runs[r].status = "unborn" /\ InProgress(w)
    BY <1>1 DEF StoreInv, CallOK, InProgress, RunOp, InsertsFresh
  <1>3. row \in Row
    BY PastInstants DEF StoreInv, TypeOK, Row, Stamp
  <1>4. /\ calls' \in [Worker -> Call] /\ CallOK(w)' /\ ~InProgress(w)'
        /\ \A v \in Worker \ {w} : calls'[v] = calls[v]
    BY <1>1, FinishedOK DEF Ret
  <1>5. runs' \in [Run -> Row] /\ runs'[r] = row /\ \A q \in Run \ {r} : runs'[q] = runs[q]
    BY <1>1, <1>2, <1>3 DEF StoreInv, TypeOK
  <1>6. TypeOK'
    BY <1>1, <1>2, <1>4, <1>5 DEF StoreInv, TypeOK
  <1>7. ASSUME NEW v \in Worker PROVE CallOK(v)'
    <2>1. CASE v = w
      BY <1>4, <2>1
    <2>2. CASE v # w
      <3>1. CallOK(v) /\ calls'[v] = calls[v] /\ InProgress(v)' = InProgress(v)
        BY <1>4, <2>2 DEF StoreInv, InProgress
      <3>2. runs'[r].status # "unborn"
        BY <1>5
      <3> QED
        BY <1>1, <1>5, <3>1, <3>2 DEF CallOK, RunOp
    <2> QED
      BY <2>1, <2>2
  <1>8. InsertsFresh'
    <2> SUFFICES ASSUME NEW v \in Worker, InProgress(v)', calls'[v].op = "insert"
                 PROVE  /\ runs'[calls'[v].run].status = "unborn"
                        /\ \A u \in Worker \ {v} : InProgress(u)' /\ calls'[u].op = "insert"
                                                   => calls'[u].run # calls'[v].run
      BY DEF InsertsFresh, InProgress
    <2>1. v # w /\ calls'[v] = calls[v] /\ InProgress(v)
      BY <1>4 DEF InProgress
    <2>2. calls[v].run # r /\ calls[v].run \in Run /\ runs[calls[v].run].status = "unborn"
      BY <1>1, <1>2, <2>1 DEF StoreInv, InsertsFresh, CallOK, RunOp
    <2>3. runs'[calls'[v].run].status = "unborn"
      BY <1>5, <2>1, <2>2
    <2>4. ASSUME NEW u \in Worker \ {v}, InProgress(u)', calls'[u].op = "insert"
          PROVE  calls'[u].run # calls'[v].run
      <3>1. u # w /\ calls'[u] = calls[u] /\ InProgress(u)
        BY <1>4, <2>4 DEF InProgress
      <3> QED
        BY <2>1, <2>4, <3>1 DEF StoreInv, InsertsFresh
    <2> QED
      BY <2>3, <2>4
  <1>9. \A q \in present' : runs'[q].status # "unborn"
    BY <1>1, <1>5 DEF StoreInv, TypeOK
  <1>10. AnswerBelongsToRun'
    BY <1>5 DEF StoreInv, AnswerBelongsToRun, Addressed
  <1> QED
    BY <1>6, <1>7, <1>8, <1>9, <1>10 DEF StoreInv

(* A call that begins as Callable allows.                                  *)
LEMMA EnterInv ==
    ASSUME StoreInv, NEW w \in Worker, NEW op \in AllOps, NEW r \in Run \cup {NoRun},
           NEW b \in Body \cup {NoAnswer}, Enter(w, op, r, b),
           op \in RunOp => r \in Run /\ Callable(op, r, b)
    PROVE  StoreInv'
  <1> DEFINE c == Entered(op, r, b)
  <1>1. /\ UNCHANGED <<runs, present, events, lastRun, lastEvent, now, process>>
        /\ calls' = [calls EXCEPT ![w] = c] /\ ~InProgress(w)
    BY DEF Enter, InProgress
  <1>2. now \in Time /\ now \in Nat /\ 0 \in Time
    BY PastInstants, StoreAssumption DEF Time, StoreAssumption
  <1>3. c \in Call
    BY <1>2 DEF Entered, Call, Ret
  <1>4. /\ calls' \in [Worker -> Call] /\ calls'[w] = c
        /\ \A v \in Worker \ {w} : calls'[v] = calls[v]
    BY <1>1, <1>3 DEF StoreInv, TypeOK
  <1>5. /\ c.op = op /\ c.run = r /\ c.body = b /\ c.seen = 0 /\ c.began <= now
        /\ c.at \in {"schema", "read", "write"}
        /\ c.at = "write" => op \in {"insert", "upstream", "event"}
    BY <1>2 DEF Entered
  <1>6. /\ op \in RunOp \ {"insert"} => runs[r].status # "unborn"
        /\ op = "resolve" => b \in Body
        /\ op = "insert" => runs[r].status = "unborn" /\ ~InFlight("insert", r)
    BY DEF Callable, RunOp
  <1>7. CallOK(w)'
    BY <1>1, <1>2, <1>4, <1>5, <1>6 DEF CallOK, InProgress, RunOp
  <1>8. CASE op # "insert"
    BY <1>1, <1>4, <1>5, <1>7, <1>8, Quiet
  <1>9. CASE op = "insert"
    <2>1. TypeOK' /\ AnswerBelongsToRun'
      BY <1>1, <1>4 DEF StoreInv, TypeOK, AnswerBelongsToRun
    <2>2. ASSUME NEW v \in Worker PROVE CallOK(v)'
      BY <1>1, <1>4, <1>7 DEF StoreInv, CallOK, InProgress
    <2>3. r \in Run /\ \A v \in Worker : InProgress(v) /\ calls[v].op = "insert"
                                        => calls[v].run # r
      BY <1>6, <1>9 DEF InFlight, InProgress, RunOp
    <2>4. InsertsFresh'
      BY <1>1, <1>4, <1>5, <1>6, <1>9, <2>3 DEF StoreInv, InsertsFresh, InProgress
    <2>5. \A q \in present' : runs'[q].status # "unborn"
      BY <1>1 DEF StoreInv
    <2> QED
      BY <2>1, <2>2, <2>4, <2>5 DEF StoreInv
  <1> QED
    BY <1>8, <1>9

LEMMA BeginInv == ASSUME StoreInv, NEW w \in Worker, Begin(w) PROVE StoreInv'
  <1>1. PICK op \in Op :
           IF op \in {"list", "prune", "event"}
           THEN Enter(w, op, NoRun, NoAnswer)
           ELSE \E r \in Run, b \in Body \cup {NoAnswer} :
                   Callable(op, r, b) /\ Enter(w, op, r, b)
    BY DEF Begin
  <1>2. op \in AllOps
    BY StoreAssumption DEF StoreAssumption
  <1>3. CASE op \in {"list", "prune", "event"}
    BY <1>1, <1>2, <1>3, EnterInv DEF RunOp
  <1>4. CASE op \notin {"list", "prune", "event"}
    BY <1>1, <1>2, <1>4, EnterInv
  <1> QED
    BY <1>3, <1>4

LEMMA StartupInv == ASSUME StoreInv, NEW w \in Worker, Startup(w) PROVE StoreInv'
  BY EnterInv DEF Startup, AllOps, RunOp

LEMMA CrashInv == ASSUME StoreInv, Crash PROVE StoreInv'
  <1>1. /\ UNCHANGED <<runs, present, events, lastRun, lastEvent, now>> /\ process' = "down"
        /\ calls' = [w \in Worker |-> Idle]
    BY DEF Crash
  <1>2. 0 \in Time /\ now \in Nat
    BY StoreAssumption DEF Time, StoreAssumption, StoreInv, TypeOK
  <1>3. Idle \in Call
    BY <1>2 DEF Idle, Call, Ret
  <1>4. TypeOK' /\ AnswerBelongsToRun'
    BY <1>1, <1>3 DEF StoreInv, TypeOK, AnswerBelongsToRun
  <1>5. \A w \in Worker : CallOK(w)' /\ ~InProgress(w)'
    BY <1>1, <1>2 DEF CallOK, InProgress, Idle, RunOp
  <1> QED
    BY <1>1, <1>4, <1>5 DEF StoreInv, InsertsFresh

LEMMA TickInv == ASSUME StoreInv, Tick PROVE StoreInv'
  <1>1. /\ UNCHANGED <<runs, present, events, lastRun, lastEvent, process, calls>>
        /\ now' = now + 1 /\ now < MaxTime
    BY DEF Tick
  <1>2. now \in Nat /\ now' \in Time
    BY <1>1, StoreAssumption DEF Time, StoreAssumption, StoreInv, TypeOK
  <1>3. TypeOK' /\ AnswerBelongsToRun'
    BY <1>1, <1>2 DEF StoreInv, TypeOK, AnswerBelongsToRun
  <1>4. ASSUME NEW w \in Worker PROVE CallOK(w)' /\ (InProgress(w)' <=> InProgress(w))
    <2>1. CallOK(w) /\ calls[w].began \in Nat /\ calls[w].seen \in Nat
      BY PastInstants DEF StoreInv
    <2> QED
      BY <1>1, <1>2, <2>1 DEF CallOK, InProgress
  <1>5. InsertsFresh'
    BY <1>1, <1>4 DEF StoreInv, InsertsFresh
  <1> QED
    BY <1>1, <1>3, <1>4, <1>5 DEF StoreInv

LEMMA NextInv == StoreInv /\ [Next]_vars => StoreInv'
  <1> SUFFICES ASSUME StoreInv, [Next]_vars PROVE StoreInv'
    OBVIOUS
  <1>1. ASSUME NEW w \in Worker, ReadStep(w) PROVE StoreInv'
    BY <1>1, ReadRunInv, ReadCallbackInv, RereadInv, ScanInv DEF ReadStep
  <1>2. ASSUME NEW w \in Worker, WriteStep(w) PROVE StoreInv'
    BY <1>2, EnsureSchemaInv, InsertRunInv, UpdateRunUpstreamInv, StoreEventInv,
       CasExpireInv, CancelWriteInv, AnswerWriteInv, ListCommitInv, PruneCommitInv
       DEF WriteStep
  <1>3. ASSUME NEW w \in Worker, Startup(w) \/ Begin(w) \/ Fail(w) PROVE StoreInv'
    BY <1>3, StartupInv, BeginInv, FailInv
  <1>4. CASE UNCHANGED vars
    BY <1>4 DEF vars, StoreInv, TypeOK, CallOK, InProgress, InsertsFresh, AnswerBelongsToRun
  <1> QED
    BY <1>1, <1>2, <1>3, <1>4, CrashInv, TickInv DEF Next

(* Every reachable state of the store satisfies the inductive invariant.   *)
THEOREM StoreInvariance == Spec => []StoreInv
  BY InitInv, NextInv, PTL DEF Spec

(* The types of the store's state hold for every size of the instance.     *)
THEOREM TypeCorrect == Spec => []TypeOK
  <1>1. StoreInv => TypeOK
    BY DEF StoreInv
  <1> QED
    BY <1>1, StoreInvariance, PTL

(* A body is recorded on answered runs only, and echoed their run_id,      *)
(* however many callbacks, cancels and expiries race.                      *)
THEOREM AnswersBelong == Spec => []AnswerBelongsToRun
  <1>1. StoreInv => AnswerBelongsToRun
    BY DEF StoreInv
  <1> QED
    BY <1>1, StoreInvariance, PTL

-----------------------------------------------------------------------------
(* The store implements RunLifecycle.                                      *)

outcomeBar == [r \in Run |-> runs[r].status]
answerBar == [r \in Run |-> runs[r].answer]

LEMMA InitRefines == Init => Lifecycle!LInit
  <1> SUFFICES ASSUME Init PROVE Lifecycle!LInit
    OBVIOUS
  <1>1. StoreInv
    BY InitInv
  <1>2. \A row \in OldRows : row.status # "unborn"
    BY DEF OldRows, Terminal
  <1>3. present = {r \in Run : runs[r].status # "unborn"}
    <2>1. \A r \in Run : IF r \in Old THEN runs[r] \in OldRows ELSE runs[r].status = "unborn"
      BY DEF Init, Unborn
    <2> QED
      BY <1>2, <2>1, StoreAssumption DEF Init, StoreAssumption
  <1>4. /\ outcomeBar \in [Run -> Lifecycle!Outcome]
        /\ answerBar \in [Run -> Body \cup {NoAnswer}]
    BY <1>1 DEF StoreInv, TypeOK, Row, outcomeBar, answerBar,
                Lifecycle!Outcome, Lifecycle!Decided, Terminal
  <1>5. \A r \in Run : IF runs[r].status = "answered" THEN runs[r].answer \in AnswersFor[r]
                                                      ELSE runs[r].answer = NoAnswer
    BY <1>1 DEF StoreInv, AnswerBelongsToRun, Addressed, AnswersFor
  <1> QED
    BY <1>3, <1>4, <1>5 DEF Lifecycle!LInit, outcomeBar, answerBar

(* A step that changes neither status nor answer nor presence stutters.    *)
LEMMA Stutters ==
    ASSUME \A r \in Run : runs'[r].status = runs[r].status /\ runs'[r].answer = runs[r].answer,
           present' = present
    PROVE  UNCHANGED Lifecycle!lvars
  BY DEF Lifecycle!lvars

(* A sweep of the store is a sweep of the abstract table.                  *)
LEMMA SweepRefines ==
    ASSUME StoreInv, present' \subseteq present,
           \A r \in Run :
              /\ runs'[r].answer = runs[r].answer
              /\ \/ runs'[r].status = runs[r].status
                 \/ /\ runs[r].status = "pending" /\ runs'[r].status = "expired"
                    /\ r \in present /\ r \in present',
           \A r \in present \ present' : runs'[r].status \in Terminal
    PROVE  Lifecycle!LNext
  <1> DEFINE E == {r \in Run : runs'[r].status # runs[r].status}
             D == present \ present'
  <1>0. present \subseteq Run
    BY DEF StoreInv, TypeOK
  <1>1. E \subseteq {r \in present : outcomeBar[r] = "pending"}
    BY DEF outcomeBar
  <1>2. D \subseteq {r \in present : outcomeBar[r] \in Lifecycle!Decided}
    BY <1>0 DEF outcomeBar, Lifecycle!Decided, Terminal
  <1>3. outcomeBar' = [r \in Run |-> IF r \in E THEN "expired" ELSE outcomeBar[r]]
    BY DEF outcomeBar
  <1>4. answerBar' = answerBar /\ present' = present \ D
    BY DEF answerBar
  <1>5. Lifecycle!Sweep(E, D)
    BY <1>1, <1>2, <1>3, <1>4
       DEF Lifecycle!Sweep, Lifecycle!Disposable, outcomeBar, answerBar
  <1> QED
    BY <1>0, <1>5 DEF Lifecycle!LNext, Lifecycle!Sweep

LEMMA InsertRunRefines ==
    ASSUME StoreInv, NEW w \in Worker, InsertRun(w) PROVE Lifecycle!LNext
  <1> DEFINE r == calls[w].run
             D == OverCap(runs', present \cup {r})
  <1>1. /\ r \in Run /\ runs[r].status = "unborn" /\ present \subseteq Run
    BY DEF InsertRun, At, StoreInv, TypeOK, CallOK, InProgress, RunOp, InsertsFresh
  <1>2. /\ runs'[r].status = "pending" /\ runs'[r].answer = NoAnswer
        /\ \A q \in Run \ {r} : runs'[q] = runs[q]
        /\ present' = (present \cup {r}) \ D
    BY <1>1 DEF InsertRun, StoreInv, TypeOK
  <1>3. D \subseteq {q \in present \cup {r} : runs'[q].status \in Terminal}
    BY DEF OverCap
  <1>4. D \subseteq {q \in present : outcomeBar[q] \in Lifecycle!Decided}
    BY <1>1, <1>2, <1>3 DEF outcomeBar, Lifecycle!Decided, Terminal
  <1>5. runs[r].answer = NoAnswer
    BY <1>1 DEF StoreInv, AnswerBelongsToRun
  <1>6. /\ outcomeBar[r] = "unborn"
        /\ outcomeBar' = [outcomeBar EXCEPT ![r] = "pending"]
        /\ answerBar' = answerBar
    BY <1>1, <1>2, <1>5 DEF outcomeBar, answerBar
  <1>7. Lifecycle!Create(r, D)
    BY <1>2, <1>4, <1>6 DEF Lifecycle!Create, Lifecycle!Disposable, outcomeBar, answerBar
  <1> QED
    BY <1>1, <1>4, <1>7 DEF Lifecycle!LNext, Lifecycle!Create

LEMMA CasExpireRefines ==
    ASSUME StoreInv, NEW w \in Worker, CasExpire(w)
    PROVE  Lifecycle!LNext \/ UNCHANGED Lifecycle!lvars
  <1> DEFINE r == calls[w].run
  <1>1. r \in Run /\ present' = present
    BY DEF CasExpire, At, StoreInv, CallOK, InProgress, RunOp
  <1>2. CASE UNCHANGED runs
    BY <1>1, <1>2, Stutters
  <1>3. CASE StillPending(r)
    <2>1. PICK t \in calls[w].seen .. now : runs' = [runs EXCEPT ![r] = Expired(@, t)]
      BY <1>3 DEF CasExpire
    <2>2. /\ runs[r].status = "pending" /\ runs[r].answer = NoAnswer /\ t \in Time
          /\ r \in present
      BY <1>1, <1>3, PendingRow, PastInstants
    <2>3. /\ Expired(runs[r], t).status = "expired" /\ Expired(runs[r], t).answer = NoAnswer
      BY <1>1, <2>2, ExpiredRow
    <2>4. /\ runs'[r].status = "expired" /\ runs'[r].answer = runs[r].answer
          /\ \A q \in Run \ {r} : runs'[q] = runs[q]
      BY <1>1, <2>1, <2>2, <2>3 DEF StoreInv, TypeOK
    <2> QED
      BY <1>1, <2>2, <2>4, SweepRefines
  <1> QED
    BY <1>2, <1>3 DEF CasExpire

LEMMA CancelWriteRefines ==
    ASSUME StoreInv, NEW w \in Worker, CancelWrite(w)
    PROVE  Lifecycle!LNext \/ UNCHANGED Lifecycle!lvars
  <1> DEFINE r == calls[w].run
  <1>1. r \in Run /\ present' = present
    BY DEF CancelWrite, At, StoreInv, CallOK, InProgress, RunOp
  <1>2. CASE UNCHANGED runs
    BY <1>1, <1>2, Stutters
  <1>3. CASE StillPending(r)
    <2>1. runs' = [runs EXCEPT ![r] = [@ EXCEPT !.status = "cancelled",
                                                !.stamped = calls[w].began]]
      BY <1>3 DEF CancelWrite
    <2>2. r \in present /\ runs[r].status = "pending" /\ runs[r] \in Row
      BY <1>1, <1>3, PendingRow
    <2>3. /\ runs'[r].status = "cancelled" /\ runs'[r].answer = runs[r].answer
          /\ \A q \in Run \ {r} : runs'[q] = runs[q]
      BY <1>1, <2>1, <2>2 DEF StoreInv, TypeOK, Row
    <2>4. /\ outcomeBar' = [outcomeBar EXCEPT ![r] = "cancelled"] /\ answerBar' = answerBar
          /\ outcomeBar[r] = "pending"
      BY <1>1, <2>2, <2>3 DEF outcomeBar, answerBar
    <2>5. Lifecycle!Cancelled(r)
      BY <1>1, <2>2, <2>4 DEF Lifecycle!Cancelled, outcomeBar, answerBar
    <2> QED
      BY <1>1, <2>5 DEF Lifecycle!LNext, Lifecycle!Cancelled
  <1> QED
    BY <1>2, <1>3 DEF CancelWrite

LEMMA AnswerWriteRefines ==
    ASSUME StoreInv, NEW w \in Worker, AnswerWrite(w)
    PROVE  Lifecycle!LNext \/ UNCHANGED Lifecycle!lvars
  <1> DEFINE r == calls[w].run
             b == calls[w].body
  <1>1. r \in Run /\ present' = present /\ b \in AnswersFor[r]
    BY DEF AnswerWrite, At, StoreInv, CallOK, InProgress, RunOp, AnswersFor
  <1>2. CASE UNCHANGED runs
    BY <1>1, <1>2, Stutters
  <1>3. CASE StillPending(r)
    <2>1. PICK t \in calls[w].seen .. now :
             runs' = [runs EXCEPT ![r] = [@ EXCEPT !.status = "answered",
                                    !.answer = calls[w].body, !.stamped = t]]
      BY <1>3 DEF AnswerWrite
    <2>2. r \in present /\ runs[r].status = "pending" /\ runs[r] \in Row
      BY <1>1, <1>3, PendingRow
    <2>3. /\ runs'[r].status = "answered" /\ runs'[r].answer = b
          /\ \A q \in Run \ {r} : runs'[q] = runs[q]
      BY <1>1, <2>1, <2>2 DEF StoreInv, TypeOK, Row
    <2>4. /\ outcomeBar' = [outcomeBar EXCEPT ![r] = "answered"]
          /\ answerBar' = [answerBar EXCEPT ![r] = b]
          /\ outcomeBar[r] = "pending"
      BY <1>1, <2>2, <2>3 DEF outcomeBar, answerBar
    <2>5. Lifecycle!Answered(r, b)
      BY <1>1, <2>2, <2>4 DEF Lifecycle!Answered, outcomeBar, answerBar
    <2> QED
      BY <1>1, <2>5 DEF Lifecycle!LNext, Lifecycle!Answered
  <1> QED
    BY <1>2, <1>3 DEF AnswerWrite

LEMMA ListCommitRefines ==
    ASSUME StoreInv, NEW w \in Worker, ListCommit(w) PROVE Lifecycle!LNext
  <1>1. PICK at \in Expiries(w) : runs' = Expiring(at)
    BY DEF ListCommit
  <1>2. present' = present
    BY DEF ListCommit
  <1>3. \A r \in DOMAIN at : r \in present
    BY ExpiriesArePending DEF StillPending, Matches
  <1>4. \A r \in Run :
           /\ runs'[r].answer = runs[r].answer
           /\ \/ runs'[r].status = runs[r].status
              \/ /\ runs[r].status = "pending" /\ runs'[r].status = "expired"
                 /\ r \in present /\ r \in present'
    BY <1>1, <1>2, <1>3, ExpiringOK
  <1> QED
    BY <1>2, <1>4, SweepRefines

LEMMA PruneCommitRefines ==
    ASSUME StoreInv, NEW w \in Worker, PruneCommit(w) PROVE Lifecycle!LNext
  <1>1. \A r \in present \ present' : runs'[r].status \in Terminal
    BY DEF PruneCommit, Outlived
  <1> QED
    BY <1>1, PrunedTable, SweepRefines

(* Every step of the store is a step of RunLifecycle or stutters there.    *)
LEMMA NextRefines ==
    StoreInv /\ [Next]_vars => Lifecycle!LNext \/ UNCHANGED Lifecycle!lvars
  <1> SUFFICES ASSUME StoreInv, [Next]_vars
               PROVE  Lifecycle!LNext \/ UNCHANGED Lifecycle!lvars
    OBVIOUS
  <1>1. CASE UNCHANGED <<runs, present>>
    BY <1>1, Stutters
  <1>2. ASSUME NEW w \in Worker, ReadStep(w) \/ Startup(w) \/ Begin(w) \/ Fail(w)
        PROVE  UNCHANGED <<runs, present>>
    BY <1>2 DEF ReadStep, ReadRun, ReadCallback, Reread, Scan, Startup, Begin, Enter, Fail
  <1>3. CASE Crash \/ Tick \/ UNCHANGED vars
    BY <1>1, <1>3 DEF Crash, Tick, vars
  <1>4. ASSUME NEW w \in Worker, EnsureSchema(w) PROVE UNCHANGED Lifecycle!lvars
    <2>1. PICK t \in calls[w].began .. now : runs' = Backfilled(runs, t)
      BY <1>4 DEF EnsureSchema
    <2> QED
      BY <1>4, <2>1, BackfilledOK, PastInstants, Stutters DEF EnsureSchema, StoreInv, TypeOK
  <1>5. ASSUME NEW w \in Worker, UpdateRunUpstream(w) PROVE UNCHANGED Lifecycle!lvars
    <2> DEFINE r == calls[w].run
    <2>1. runs' = [runs EXCEPT ![r].upstream = TRUE] \/ runs' = runs
      BY <1>5 DEF UpdateRunUpstream
    <2>2. \A q \in Run : runs'[q].status = runs[q].status /\ runs'[q].answer = runs[q].answer
      BY <2>1 DEF StoreInv, TypeOK, Row
    <2> QED
      BY <1>5, <2>2, Stutters DEF UpdateRunUpstream
  <1>6. ASSUME NEW w \in Worker, StoreEvent(w) PROVE UNCHANGED <<runs, present>>
    BY <1>6 DEF StoreEvent
  <1>7. ASSUME NEW w \in Worker, WriteStep(w)
        PROVE  Lifecycle!LNext \/ UNCHANGED Lifecycle!lvars
    BY <1>1, <1>4, <1>5, <1>6, <1>7, InsertRunRefines, CasExpireRefines, CancelWriteRefines,
       AnswerWriteRefines, ListCommitRefines, PruneCommitRefines DEF WriteStep
  <1> QED
    BY <1>1, <1>2, <1>3, <1>7 DEF Next

(* The statement-level store implements RunLifecycle: one decision per run,*)
(* never revised, and no row deleted by the step that decides it.          *)
THEOREM StoreImplementsLifecycle == Spec => ImplementsLifecycle
  <1>1. Init => Lifecycle!LInit
    BY InitRefines
  <1>2. StoreInv /\ [Next]_vars => [Lifecycle!LNext]_(Lifecycle!lvars)
    BY NextRefines
  <1> QED
    BY <1>1, <1>2, StoreInvariance, PTL DEF Spec, ImplementsLifecycle, Lifecycle!LSpec

(* A decided run keeps its status and its answer, whatever is in flight.   *)
THEOREM DecisionsFinal == Spec => DecisionIsFinal
  <1> DEFINE Final == \A r \in Run : runs[r].status \in Terminal =>
                 runs'[r].status = runs[r].status /\ runs'[r].answer = runs[r].answer
  <1>1. ASSUME StoreInv, [Next]_vars PROVE Final
    <2>1. CASE UNCHANGED Lifecycle!lvars
      BY <2>1 DEF Lifecycle!lvars
    <2>2. CASE Lifecycle!LNext
      <3>1. \A r \in Run : outcomeBar[r] \in Terminal =>
               outcomeBar'[r] = outcomeBar[r] /\ answerBar'[r] = answerBar[r]
        BY <2>2 DEF Lifecycle!LNext, Lifecycle!Create, Lifecycle!Answered, Lifecycle!Cancelled,
                    Lifecycle!Sweep, outcomeBar, answerBar, Terminal
      <3> QED
        BY <3>1 DEF outcomeBar, answerBar
    <2> QED
      BY <1>1, <2>1, <2>2, NextRefines
  <1> QED
    BY <1>1, StoreInvariance, PTL DEF Spec, DecisionIsFinal

=============================================================================
