---------------------------- MODULE RateLimiter ----------------------------
(***************************************************************************)
(* The sliding window of app/rate_limit.py that ask_grokbot and cancel_run *)
(* pass before anything else, the key it counts under (require_mcp_auth),  *)
(* and its limit (_int_env).                                               *)
(*                                                                         *)
(* Both tools are coroutines and call check_write_limit before their first *)
(* await, so a call of allow is one step of the event loop.  Its clock,    *)
(* time.monotonic, is counted in ticks, Unit of them to a second.          *)
(***************************************************************************)
EXTENDS Integers, Sequences

CONSTANTS
    Key,            \* keys that clients present
    Local,          \* LOCAL_KEY: the bucket of calls without a request
    NoKey,          \* MCP_API_KEY is not set
    Window,         \* WINDOW_SECONDS
    Unit,           \* ticks of the clock in a second
    DefaultLimit,   \* DEFAULT_RATE_LIMIT_PER_MINUTE
    Unset, Garbled, \* environment values that are empty, or no integer
    RawLimit,       \* values of RATE_LIMIT_PER_MINUTE in the environment
    MaxTime         \* bound of the model: last tick of the clock

ASSUME RateAssumption ==
    /\ Window \in Nat \ {0} /\ Unit \in Nat \ {0} /\ MaxTime \in Nat
    /\ DefaultLimit \in Nat /\ RawLimit \subseteq Int \cup {Unset, Garbled}
    /\ Unset \notin Int /\ Garbled \notin Int
    /\ Local \notin Key /\ NoKey \notin Key

VARIABLES
    log,        \* [Bucket -> Seq(Nat)]: when the calls of a bucket were admitted
    head,       \* the deque _hits[k] holds log[k] from head[k] on
    limit,      \* RATE_LIMIT_PER_MINUTE of this process
    apiKey,     \* MCP_API_KEY of this process
    told,       \* [Bucket -> Told]: the last refusal
    clock

rvars == <<log, head, limit, apiKey, told, clock>>

Bucket == Key \cup {Local}
Span == Window * Unit

(* A refusal: when it was given, the wait it told, and how many calls of   *)
(* the bucket had been admitted.                                           *)
Told == [at : Nat, retry : Nat, admitted : Nat]
NotTold == [at |-> 0, retry |-> 0, admitted |-> 0]

(* _int_env(name, default, minimum=0)                                      *)
Unclamped(raw, default) == IF raw \in {Unset, Garbled} THEN default ELSE raw \* mutant

IntEnv(raw, default) ==
    IF raw \in {Unset, Garbled} THEN default ELSE IF raw < 0 THEN 0 ELSE raw

Configure ==
    /\ \E raw \in RawLimit : limit' = IntEnv(raw, DefaultLimit)
    /\ apiKey' \in Key \cup {NoKey}

Init ==
    /\ log = [k \in Bucket |-> << >>] /\ head = [k \in Bucket |-> 1]
    /\ told = [k \in Bucket |-> NotTold]
    /\ clock = 0
    /\ \E raw \in RawLimit : limit = IntEnv(raw, DefaultLimit)
    /\ apiKey \in Key \cup {NoKey}

-----------------------------------------------------------------------------
(* The request passed require_mcp_auth, which answers 503 or 401 to any    *)
(* other, or the call did not come over HTTP.                              *)
Passed(k) == k = Local \/ (k \in Key /\ apiKey # NoKey /\ k = apiKey)

(* h: the first hit that the while loop leaves.  A hit at the very edge of *)
(* the window stays.                                                       *)
\* Mutants: it is popped; no hit is.
PrunedAtEdge(k, h) ==
    /\ h \in head[k] .. Len(log[k]) + 1
    /\ \A i \in head[k] .. h - 1 : log[k][i] <= clock - Span
    /\ h <= Len(log[k]) => log[k][h] > clock - Span
NeverPruned(k, h) == h = head[k]

Pruned(k, h) ==
    /\ h \in head[k] .. Len(log[k]) + 1
    /\ \A i \in head[k] .. h - 1 : log[k][i] < clock - Span
    /\ h <= Len(log[k]) => log[k][h] >= clock - Span

RoundedDown(oldest) ==                                  \* mutant
    LET retry == (oldest + Span - clock) \div Unit
    IN  IF retry > 1 THEN retry ELSE 1

(* retry_after_seconds; int truncates and its argument is not negative.    *)
RetryAfter(oldest) ==
    LET retry == (oldest + Span - clock) \div Unit + 1
    IN  IF retry > 1 THEN retry ELSE 1

(* allow with a limit <= 0 returns before it looks at the bucket.          *)
Unlimited(k) == Passed(k) /\ limit = 0 /\ UNCHANGED rvars

Admit(k) ==
    /\ Passed(k) /\ limit > 0
    /\ \E h \in 1 .. Len(log[k]) + 1 :
          /\ Pruned(k, h) /\ Len(log[k]) + 1 - h < limit
          /\ head' = [head EXCEPT ![k] = h]
    /\ log' = [log EXCEPT ![k] = Append(@, clock)]
    /\ UNCHANGED <<limit, apiKey, told, clock>>

Refuse(k) ==
    /\ Passed(k) /\ limit > 0
    /\ \E h \in 1 .. Len(log[k]) + 1 :
          /\ Pruned(k, h) /\ Len(log[k]) + 1 - h >= limit
          /\ head' = [head EXCEPT ![k] = h]
          /\ told' = [told EXCEPT ![k] = [at |-> clock, retry |-> RetryAfter(log[k][h]),
                                          admitted |-> Len(log[k])]]
    /\ UNCHANGED <<log, limit, apiKey, clock>>

(* The hits are in memory: a new process, perhaps with other settings,     *)
(* starts with none.                                                       *)
Restart ==
    /\ log' = [k \in Bucket |-> << >>] /\ head' = [k \in Bucket |-> 1]
    /\ told' = [k \in Bucket |-> NotTold]
    /\ Configure
    /\ UNCHANGED clock

Tick == clock < MaxTime /\ clock' = clock + 1 /\ UNCHANGED <<log, head, limit, apiKey, told>>

Next ==
    \/ \E k \in Bucket : Unlimited(k) \/ Admit(k) \/ Refuse(k)
    \/ Restart
    \/ Tick

Spec == Init /\ [][Next]_rvars
=============================================================================
