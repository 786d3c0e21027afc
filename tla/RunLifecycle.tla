---------------------------- MODULE RunLifecycle ----------------------------
(***************************************************************************)
(* What the run table of app/db.py promises, independently of SQL, clocks  *)
(* and threads.  A run is created pending, is decided at most once, and    *)
(* the decision is never revised.  A run leaves the table only after it    *)
(* was decided by an earlier step, so a reader always has the chance to    *)
(* see the decision.  An answer is recorded for exactly the answered runs  *)
(* and is one that was addressed to the run.                               *)
(***************************************************************************)
CONSTANTS
    Run,            \* runs, identified by their run_id
    Answer,         \* callback bodies
    NoAnswer,       \* the NULL answer_json
    AnswersFor      \* [Run -> SUBSET Answer], the bodies that echo the run_id

VARIABLES
    outcome,        \* [Run -> Outcome], the last status the run had
    answer,         \* [Run -> Answer \cup {NoAnswer}]
    kept            \* the runs whose row is still in the table

lvars == <<outcome, answer, kept>>

Decided == {"answered", "cancelled", "expired"}
Outcome == {"unborn", "pending"} \cup Decided

(* The table may hold rows of an earlier process. *)
LInit ==
    /\ outcome \in [Run -> Outcome]
    /\ answer \in [Run -> Answer \cup {NoAnswer}]
    /\ kept = {r \in Run : outcome[r] # "unborn"}
    /\ \A r \in Run : IF outcome[r] = "answered" THEN answer[r] \in AnswersFor[r]
                                                 ELSE answer[r] = NoAnswer

(* Rows that may go: decided before this step. *)
Disposable == {r \in kept : outcome[r] \in Decided}

Create(r, D) ==
    /\ outcome[r] = "unborn"
    /\ D \subseteq Disposable
    /\ outcome' = [outcome EXCEPT ![r] = "pending"]
    /\ kept' = (kept \cup {r}) \ D
    /\ UNCHANGED answer

AnsweredBlind(r, a) ==              \* mutant: without AND status = 'pending'
    /\ r \in kept /\ a \in AnswersFor[r]
    /\ outcome' = [outcome EXCEPT ![r] = "answered"]
    /\ answer' = [answer EXCEPT ![r] = a]
    /\ UNCHANGED kept

Answered(r, a) ==
    /\ r \in kept /\ outcome[r] = "pending"
    /\ a \in AnswersFor[r]
    /\ outcome' = [outcome EXCEPT ![r] = "answered"]
    /\ answer' = [answer EXCEPT ![r] = a]
    /\ UNCHANGED kept

Cancelled(r) ==
    /\ r \in kept /\ outcome[r] = "pending"
    /\ outcome' = [outcome EXCEPT ![r] = "cancelled"]
    /\ UNCHANGED <<answer, kept>>

(* Expiry of the runs E, and removal of the runs D.  A run expired here is *)
(* not removed here.                                                       *)
Sweep(E, D) ==
    /\ E \subseteq {r \in kept : outcome[r] = "pending"}
    /\ D \subseteq Disposable
    /\ outcome' = [r \in Run |-> IF r \in E THEN "expired" ELSE outcome[r]]
    /\ kept' = kept \ D
    /\ UNCHANGED answer

LNext ==
    \/ \E r \in Run, D \in SUBSET Run : Create(r, D)
    \/ \E r \in Run : \E a \in AnswersFor[r] : Answered(r, a)
    \/ \E r \in Run : Cancelled(r)
    \/ \E E, D \in SUBSET Run : Sweep(E, D)

LSpec == LInit /\ [][LNext]_lvars
=============================================================================
