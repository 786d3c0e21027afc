-------------------------- MODULE RateLimiterProps --------------------------
(***************************************************************************)
(* What clients of ask_grokbot and cancel_run may rely on: the limit of    *)
(* SPEC.md section 7 per window, no refusal below it, and a wait after     *)
(* which a refused call is admitted.                                       *)
(***************************************************************************)
EXTENDS RateLimiter

(* Every variable has its type.                                            *)
TypeOK ==
    /\ log \in [Bucket -> Seq(Nat)]
    /\ head \in [Bucket -> Nat]
    /\ limit \in Nat /\ apiKey \in Key \cup {NoKey}
    /\ told \in [Bucket -> Told]
    /\ clock \in Nat

(* The deque of a bucket is the tail of its log and at most limit long:    *)
(* hits are in order, none lies in the future, and those that were popped  *)
(* are out of the window.  A refusal lies in the past too.                 *)
InOrder(k) ==
    /\ head[k] \in 1 .. Len(log[k]) + 1
    /\ Len(log[k]) + 1 - head[k] <= limit
    /\ told[k].at <= clock /\ told[k].admitted <= Len(log[k])
    /\ \A i \in 1 .. Len(log[k]) : log[k][i] <= clock
    /\ \A i, j \in 1 .. Len(log[k]) : i <= j => log[k][i] <= log[k][j]
    /\ \A i \in 1 .. head[k] - 1 : log[k][i] < clock - Span

Ordered == \A k \in Bucket : InOrder(k)

(* No closed window of WINDOW_SECONDS, wherever it begins, holds more      *)
(* admitted calls of a bucket than the limit: of limit + 1 calls in a row  *)
(* the last came more than a window after the first.                       *)
WindowRespected ==
    \A k \in Bucket : \A i \in 1 .. Len(log[k]) :
        i + limit <= Len(log[k]) => log[k][i + limit] - log[k][i] > Span

(* The first n calls of a bucket fill the window that ends at t: as many as *)
(* the limit lie in it.                                                    *)
Full(k, n, t) == limit > 0 /\ n >= limit /\ log[k][n - limit + 1] >= t - Span

(* A call is refused only if as many calls as the limit were admitted in   *)
(* the window that ends now, whatever the deque still holds.               *)
RefusedAtLimit ==
    [][\A k \in Bucket : told'[k] # told[k] /\ told'[k] # NotTold
                           => Full(k, Len(log[k]), clock)]_rvars

(* retry_after_seconds is exact to the second: the window is full at every *)
(* whole second before it is over and not when it is over, unless others   *)
(* of the bucket were admitted in between.                                 *)
RetryExact ==
    \A k \in Bucket : told[k] # NotTold =>
        /\ told[k].retry \in 1 .. Window + 1
        /\ \A s \in 0 .. Window + 1 :
              Full(k, told[k].admitted, told[k].at + s * Unit) <=> s < told[k].retry

(* The inductive invariant of the proofs.                                  *)
LimiterInv == TypeOK /\ Ordered /\ WindowRespected /\ RetryExact

(* A refused call that comes again after the wait it was told, before any  *)
(* other call of its bucket was admitted, is not refused again.            *)
RetryAdmitted ==
    [][\A k \in Bucket :
          /\ told[k] # NotTold /\ told'[k] # told[k] /\ told'[k] # NotTold
          /\ told[k].admitted = Len(log[k])
          => clock < told[k].at + told[k].retry * Unit]_rvars
=============================================================================
