---------------------------- MODULE InboundHook ----------------------------
(***************************************************************************)
(* POST /hooks/grokbot of app/routes.py on top of the event store: verify  *)
(* the delivery, store the event on a thread, inspect the callback URL on  *)
(* a thread (app/ssrf.py), confirm to the address that was inspected.      *)
(*                                                                         *)
(* Each request q is one delivery; the thread that works for it is worker  *)
(* q of RunStore, the cleanup is worker Cleaner.  What happens between two *)
(* awaits of the handler is one step.  DNS and the receiver of the         *)
(* confirmation are external: each lookup may return something else.       *)
(***************************************************************************)
EXTENDS RunStore, Sequences

CONSTANTS
    Req, Cleaner,   \* deliveries; Worker is Req and the thread of the cleanup
    Message,        \* deliveries that occur: credentials and body
    SecretSet,      \* INBOUND_WEBHOOK_SECRET is set
    Tolerance,      \* INBOUND_TIMESTAMP_TOLERANCE
    BadStamp,       \* an x-webhook-timestamp that is no integer
    AllowHttp,      \* CALLBACK_ALLOW_HTTP
    AllowedHosts,   \* hosts that CALLBACK_ALLOWED_HOSTS covers
    OwnHosts,       \* hosts that ALLOWED_HOSTS covers, and local names
    NoHost,         \* a URL without a host
    Global,         \* addresses that are public
    Lookups,        \* results of getaddrinfo: sequences of addresses, << >> an error
    Literal,        \* [hosts that are IP literals -> their address]
    Nil             \* no message, URL or address

(* sig: what was signed with the secret; stamp: the timestamp header;      *)
(* json: an object, anything else, or a text that json.loads refuses with  *)
(* another exception (nesting, huge integers); urls: callback_url,         *)
(* reply_url, response_url, Nil if no non-blank string.                    *)
ASSUME HookAssumption ==
    /\ Worker = Req \cup {Cleaner} /\ Cleaner \notin Req
    /\ SecretSet \in BOOLEAN /\ AllowHttp \in BOOLEAN /\ Tolerance \in Nat
    /\ \A a \in Lookups : a \in Seq({a[i] : i \in DOMAIN a})
    /\ \A m \in Message :
          /\ m.sig \in {"none", "body", "stamped"} /\ m.bearer \in BOOLEAN
          /\ m.stamp = BadStamp \/ m.stamp \in Time \cup {NoStamp}
          /\ m.json \in {"object", "other", "raises"} /\ Len(m.urls) = 3

VARIABLES
    req,        \* [Req -> Request]
    stored,     \* history: the events that were committed
    wire        \* the confirmations that a receiver got

hook == <<req, stored, wire>>
hvars == <<vars, hook>>

(* at: the await the handler has come to; event: what store_event returned; *)
(* inspected: history, the addresses that inspect_callback_url let pass    *)
(* for this delivery; pinned: addresses[0]; told: the response, "lost" if  *)
(* the process ended.                                                      *)
Unsent == [at |-> "unsent", msg |-> Nil, event |-> 0, url |-> Nil, inspected |-> {},
           pinned |-> Nil, told |-> "nothing"]

HInit == Init /\ req = [q \in Req |-> Unsent] /\ stored = {} /\ wire = {}

Told(r, what) == [r EXCEPT !.at = "done", !.told = what, !.msg = Nil, !.url = Nil,
                           !.pinned = Nil]
Respond(q, what) == req' = [req EXCEPT ![q] = Told(@, what)]

-----------------------------------------------------------------------------
(* Reading and authentication.                                             *)

Arrive(q, m) ==
    /\ process = "serving" /\ req[q].at = "unsent"
    /\ req' = [req EXCEPT ![q] = [@ EXCEPT !.at = "body", !.msg = m]]
    /\ UNCHANGED <<vars, stored, wire>>

(* verify_signature: a timestamp that is sent must be near, and signed.    *)
VerifySignature(m) ==
    \/ m.stamp = NoStamp /\ m.sig = "body"
    \/ m.stamp \in Time /\ now - m.stamp \in -Tolerance .. Tolerance /\ m.sig = "stamped"

(* 503 without a secret, 413 or 400 of read_limited_body, or 401.          *)
Refuse(q) ==
    /\ req[q].at = "body"
    /\ Respond(q, "refused")
    /\ UNCHANGED <<vars, stored, wire>>

Accept(q) ==
    LET m == req[q].msg
    IN  /\ req[q].at = "body" /\ SecretSet
        /\ VerifySignature(m) \/ m.bearer
        /\ Enter(q, "event", NoRun, NoAnswer)
        /\ req' = [req EXCEPT ![q].at = "store"]
        /\ UNCHANGED <<stored, wire>>

(* A thread of RunStore moves.  store_event returns the lastrowid of its   *)
(* own cursor.                                                             *)
StoreStep(w) ==
    /\ ReadStep(w) \/ WriteStep(w) \/ Fail(w)
    /\ IF At(w, {"event"}, "write") /\ calls'[w].ret = "ok"
       THEN /\ req' = [req EXCEPT ![w].event = lastEvent']
            /\ stored' = stored \cup {[id |-> lastEvent', req |-> w]}
       ELSE UNCHANGED <<req, stored>>
    /\ UNCHANGED wire

-----------------------------------------------------------------------------
(* The callback URL.                                                       *)

LatestId(q) == lastEvent                \* mutant: SELECT max(id) after the commit
EventId(q) == req[q].event

FirstUrl(m) ==
    IF m.json # "object" \/ \A i \in 1 .. 3 : m.urls[i] = Nil THEN Nil
    ELSE m.urls[CHOOSE i \in 1 .. 3 : m.urls[i] # Nil /\ \A j \in 1 .. i - 1 : m.urls[j] = Nil]

(* The handler resumes after store_event, or after its exception.  The     *)
(* second json.loads may raise although the event is stored.               *)
AfterStore(q) ==
    LET m == req[q].msg
    IN  /\ req[q].at = "store" /\ calls[q].at = "done"
        /\ \/ calls[q].ret = "raised" /\ Respond(q, "error")
           \/ calls[q].ret = "ok" /\ m.json = "raises" /\ Respond(q, "error")
           \/ /\ calls[q].ret = "ok" /\ m.json # "raises"
              /\ req' = [req EXCEPT ![q] =
                    IF FirstUrl(m) = Nil THEN Told([@ EXCEPT !.event = EventId(q)], "none")
                    ELSE [@ EXCEPT !.at = "inspect", !.event = EventId(q),
                                   !.url = FirstUrl(m), !.msg = Nil]]
        /\ UNCHANGED <<vars, stored, wire>>

(* inspect_callback_url before it looks the host up.                       *)
Allowed(u) ==
    /\ u.parses
    /\ u.scheme = "https" \/ (AllowHttp /\ u.scheme = "http")
    /\ u.host # NoHost /\ ~u.userinfo /\ u.port \in {"none", "80", "443"}
    /\ u.host \in AllowedHosts /\ u.host \notin OwnHosts

(* A literal address is not looked up.                                     *)
Resolutions(u) == IF u.host \in DOMAIN Literal THEN {<<Literal[u.host]>>} ELSE Lookups

AllPublic(addresses) == addresses # << >> /\ \A i \in DOMAIN addresses : addresses[i] \in Global

Inspect(q) ==
    LET u == req[q].url
    IN  /\ req[q].at = "inspect"
        /\ \/ ~Allowed(u) /\ Respond(q, "rejected")
           \/ /\ Allowed(u)
              /\ \E addresses \in Resolutions(u) :
                    IF AllPublic(addresses)
                    THEN req' = [req EXCEPT ![q] =
                           [@ EXCEPT !.at = "post", !.pinned = addresses[1],
                                     !.inspected = {addresses[i] : i \in DOMAIN addresses}]]
                    ELSE Respond(q, "rejected")
        /\ UNCHANGED <<vars, stored, wire>>

-----------------------------------------------------------------------------
(* The confirmation.                                                       *)

ByName(q, to) ==        \* mutant: resolved and checked again, connected to by name
    \E addresses \in Resolutions(req[q].url) : AllPublic(addresses) /\ to = addresses[1]
Target(q, to) == to = req[q].pinned

(* What the client cannot send (httpx.InvalidURL, a Host header that is    *)
(* not ASCII) is no httpx.HTTPError: the request ends in a 500.            *)
PostRaises(q) ==
    /\ req[q].at = "post" /\ ~req[q].url.sendable
    /\ Respond(q, "error")
    /\ UNCHANGED <<vars, stored, wire>>

(* The receiver gets the confirmation and answers, with a 2xx or not.      *)
Deliver(q) ==
    /\ req[q].at = "post" /\ req[q].url.sendable
    /\ \E to \in Global \cup UNION {{a[i] : i \in DOMAIN a} : a \in Lookups}, ok \in BOOLEAN :
          /\ Target(q, to)
          /\ wire' = wire \cup {[req |-> q, event |-> req[q].event, to |-> to, ok |-> ok]}
    /\ req' = [req EXCEPT ![q].at = "sent"]
    /\ UNCHANGED <<vars, stored>>

AnyStatus(q) == "delivered"                             \* mutant
Result(q) == IF \E c \in wire : c.req = q /\ c.ok THEN "delivered" ELSE "failed"

PostReturns(q) ==
    /\ req[q].at = "sent"
    /\ Respond(q, Result(q))
    /\ UNCHANGED <<vars, stored, wire>>

NoTimeout(q) == FALSE /\ UNCHANGED hvars                \* mutant: timeout=None

(* httpx.HTTPError: no connection, or none in time; also after the         *)
(* receiver got it.                                                        *)
PostFails(q) ==
    /\ req[q].at = "sent" \/ (req[q].at = "post" /\ req[q].url.sendable)
    /\ Respond(q, "failed")
    /\ UNCHANGED <<vars, stored, wire>>

-----------------------------------------------------------------------------
HCrash ==
    /\ Crash
    /\ req' = [q \in Req |-> IF req[q].at \in {"unsent", "done"} THEN req[q]
                             ELSE Told(req[q], "lost")]
    /\ UNCHANGED <<stored, wire>>

HNext ==
    \/ \E q \in Req :
          \/ \E m \in Message : Arrive(q, m)
          \/ Refuse(q) \/ Accept(q) \/ AfterStore(q) \/ Inspect(q)
          \/ PostRaises(q) \/ Deliver(q) \/ PostReturns(q) \/ PostFails(q)
    \/ \E w \in Worker : StoreStep(w)
    \/ (Startup(Cleaner) \/ Begin(Cleaner) \/ Tick) /\ UNCHANGED hook
    \/ HCrash

HSpec == HInit /\ [][HNext]_hvars

(* Threads end: a lookup returns, a statement waits 10 s at most, and the  *)
(* POST has a timeout.  Nothing is assumed of the receiver.                *)
HFairness ==
    \A q \in Req :
        /\ WF_hvars(StoreStep(q)) /\ WF_hvars(AfterStore(q)) /\ WF_hvars(Inspect(q))
        /\ WF_hvars(PostRaises(q)) /\ WF_hvars(PostFails(q))

HFairSpec == HSpec /\ HFairness
=============================================================================
