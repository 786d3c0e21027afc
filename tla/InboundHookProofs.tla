-------------------------- MODULE InboundHookProofs --------------------------
(***************************************************************************)
(* Theorems about the inbound webhook, for every set of deliveries,        *)
(* lookups and addresses, every cap and every retention of events.         *)
(***************************************************************************)
EXTENDS InboundHookProps, RunStoreCallProofs

-----------------------------------------------------------------------------
(* The inductive invariant.                                                *)

Url == {Nil} \cup UNION {{m.urls[i] : i \in 1 .. 3} : m \in Message}

Request ==
    [at : {"unsent", "body", "store", "inspect", "post", "sent", "done"},
     msg : Message \cup {Nil}, event : Nat, url : Url, inspected : SUBSET Global,
     pinned : Global \cup {Nil},
     told : {"nothing", "refused", "error", "none", "rejected", "delivered", "failed",
             "lost"}]

HookTypeOK ==
    /\ req \in [Req -> Request]
    /\ stored \subseteq [id : Nat, req : Worker]
    /\ wire \subseteq [req : Req, event : Nat, to : Global, ok : BOOLEAN]

(* The ids of the events ever stored.                                      *)
IdsGiven == EventIdsUnique /\ \A e \in stored : e.id <= lastEvent

HasEvent(q) == Own(q) = {[id |-> req[q].event, req |-> q]}

(* What exists of the delivery q at each await of its handler.             *)
Stage(q) ==
    LET at == req[q].at
        c == calls[q]
    IN  /\ at # "store" => ~InProgress(q)
        /\ at \notin {"unsent", "done"} => process # "down"
        /\ at # "done" => req[q].told = "nothing"
        /\ at \in {"body", "store"} => req[q].msg \in Message
        /\ at \in {"unsent", "body"} => Own(q) = {}
        /\ at = "store" => /\ c.op = "event" /\ c.at \in {"write", "done"}
                           /\ IF c.at = "done" /\ c.ret = "ok" THEN HasEvent(q)
                                                              ELSE Own(q) = {}
        /\ at \in {"inspect", "post", "sent"} => HasEvent(q)
        /\ at = "post" => req[q].pinned \in req[q].inspected
        /\ at \notin {"sent", "done"} => Confirmed(q) = {}

(* The confirmations of q: one at most, of the event of q, to an address   *)
(* that was inspected.                                                     *)
WireOK(q) ==
    /\ \A c \in Confirmed(q) : c.event = req[q].event /\ HasEvent(q)
                                /\ c.to \in req[q].inspected
    /\ \A c, d \in Confirmed(q) : c = d

(* The response of the delivery q.                                         *)
Truth(q) ==
    LET told == req[q].told
    IN  /\ told = "refused" => Own(q) = {} /\ Confirmed(q) = {}
        /\ told \in {"none", "rejected", "delivered", "failed"} => HasEvent(q)
        /\ told \in {"none", "rejected", "error"} => Confirmed(q) = {}
        /\ told = "delivered" => \E c \in Confirmed(q) : c.ok

DeliveryOK(q) == Stage(q) /\ WireOK(q) /\ Truth(q)

HookInv ==
    /\ StoreInv /\ EventsInv
    /\ HookTypeOK /\ IdsGiven
    /\ \A q \in Req : DeliveryOK(q)

-----------------------------------------------------------------------------
(* Deliveries that a step does not move.                                   *)

LEMMA DeliveryStays ==
    ASSUME NEW q \in Req, DeliveryOK(q), req'[q] = req[q], calls'[q] = calls[q],
           Own(q)' = Own(q), Confirmed(q)' = Confirmed(q),
           process # "down" => process' # "down"
    PROVE  DeliveryOK(q)'
<1>1. Stage(q)'
  BY DEF DeliveryOK, Stage, HasEvent, InProgress
<1>2. WireOK(q)'
  BY DEF DeliveryOK, WireOK, HasEvent
<1>3. Truth(q)'
  BY DEF DeliveryOK, Truth, HasEvent
<1> QED  BY <1>1, <1>2, <1>3 DEF DeliveryOK

LEMMA StoreStays ==
    ASSUME StoreInv, EventsInv, UNCHANGED vars PROVE StoreInv' /\ EventsInv'
BY NextInv, NextEvents

(* A step of the handler of q between two awaits.                          *)
LEMMA RequestStep ==
    ASSUME HookInv, NEW q \in Req, NEW s \in Request, UNCHANGED <<vars, stored>>,
           req' = [req EXCEPT ![q] = s],
           wire' \subseteq [req : Req, event : Nat, to : Global, ok : BOOLEAN],
           \A p \in Req \ {q} : Confirmed(p)' = Confirmed(p),
           DeliveryOK(q)'
    PROVE  HookInv'
<1>1. HookTypeOK'
  BY DEF HookInv, HookTypeOK
<1>2. IdsGiven'
  BY DEF HookInv, IdsGiven, EventIdsUnique, vars
<1>3. ASSUME NEW p \in Req PROVE DeliveryOK(p)'
  <2>1. CASE p = q
    BY <2>1
  <2>2. CASE p # q
    <3>1. req'[p] = req[p]
      BY <2>2 DEF HookInv, HookTypeOK
    <3>2. Own(p)' = Own(p)
      BY DEF Own
    <3> QED  BY <2>2, <3>1, <3>2, DeliveryStays DEF HookInv, vars
  <2> QED  BY <2>1, <2>2
<1> QED  BY <1>1, <1>2, <1>3, StoreStays DEF HookInv

(* The request fields after an update, and what stays of the delivery.     *)
LEMMA RequestFields ==
    ASSUME HookInv, NEW q \in Req
    PROVE  /\ req[q] \in Request
           /\ req[q].at \in {"unsent", "body", "store", "inspect", "post", "sent", "done"}
           /\ req[q].event \in Nat /\ DeliveryOK(q)
BY DEF HookInv, HookTypeOK, Request

LEMMA ToldState ==
    ASSUME NEW r \in Request,
           NEW what \in {"nothing", "refused", "error", "none", "rejected", "delivered",
                         "failed", "lost"}
    PROVE  /\ Told(r, what) \in Request
           /\ Told(r, what).at = "done" /\ Told(r, what).told = what
           /\ Told(r, what).event = r.event /\ Told(r, what).inspected = r.inspected
BY DEF Told, Request, Url

(* The handler of q responds.                                              *)
LEMMA RespondStep ==
    ASSUME HookInv, NEW q \in Req, UNCHANGED <<vars, stored, wire>>,
           NEW what \in {"refused", "error", "none", "rejected", "delivered", "failed"},
           Respond(q, what), ~InProgress(q),
           what = "refused" => Own(q) = {} /\ Confirmed(q) = {},
           what \in {"none", "rejected", "delivered", "failed"} => HasEvent(q),
           what \in {"none", "rejected", "error"} => Confirmed(q) = {},
           what = "delivered" => \E c \in Confirmed(q) : c.ok
    PROVE  HookInv'
<1> DEFINE s == Told(req[q], what)
<1>1. req[q] \in Request /\ DeliveryOK(q)
  BY RequestFields
<1>2. /\ s \in Request /\ s.at = "done" /\ s.told = what
      /\ s.event = req[q].event /\ s.inspected = req[q].inspected
  BY <1>1, ToldState
<1>3. req' = [req EXCEPT ![q] = s]
  BY DEF Respond
<1> HIDE DEF s
<1>4. req'[q] = s
  BY <1>3 DEF HookInv, HookTypeOK
<1>5. /\ Own(q)' = Own(q) /\ \A p \in Req : Confirmed(p)' = Confirmed(p)
      /\ HasEvent(q)' = HasEvent(q)
  BY <1>2, <1>4 DEF Own, Confirmed, HasEvent
<1>6. Stage(q)'
  BY <1>2, <1>4 DEF Stage, InProgress, vars
<1>7. WireOK(q)'
  BY <1>1, <1>2, <1>4, <1>5 DEF DeliveryOK, WireOK
<1>8. Truth(q)'
  BY <1>2, <1>4, <1>5 DEF Truth
<1>9. wire' \subseteq [req : Req, event : Nat, to : Global, ok : BOOLEAN]
  BY DEF HookInv, HookTypeOK
<1> QED  BY <1>2, <1>3, <1>5, <1>6, <1>7, <1>8, <1>9, RequestStep DEF DeliveryOK

LEMMA ArriveInv ==
    ASSUME HookInv, NEW q \in Req, NEW m \in Message, Arrive(q, m) PROVE HookInv'
<1> DEFINE s == [req[q] EXCEPT !.at = "body", !.msg = m]
<1>1. /\ process = "serving" /\ req[q].at = "unsent" /\ req' = [req EXCEPT ![q] = s]
      /\ UNCHANGED <<vars, stored, wire>>
  BY DEF Arrive
<1>2. req[q] \in Request /\ DeliveryOK(q)
  BY RequestFields
<1>3. s \in Request /\ s.at = "body" /\ s.told = req[q].told /\ s.msg = m
  BY <1>2 DEF Request
<1> HIDE DEF s
<1>4. req'[q] = s
  BY <1>1 DEF HookInv, HookTypeOK
<1>5. Own(q)' = Own(q) /\ \A p \in Req : Confirmed(p)' = Confirmed(p)
  BY <1>1 DEF Own, Confirmed
<1>6. Own(q) = {} /\ Confirmed(q) = {} /\ req[q].told = "nothing" /\ ~InProgress(q)
  BY <1>1, <1>2 DEF DeliveryOK, Stage
<1>7. Stage(q)'
  BY <1>1, <1>3, <1>4, <1>5, <1>6 DEF Stage, InProgress, vars
<1>8. WireOK(q)' /\ Truth(q)'
  BY <1>3, <1>4, <1>5, <1>6 DEF WireOK, Truth
<1>9. wire' \subseteq [req : Req, event : Nat, to : Global, ok : BOOLEAN]
  BY <1>1 DEF HookInv, HookTypeOK
<1> QED  BY <1>1, <1>3, <1>5, <1>7, <1>8, <1>9, RequestStep DEF DeliveryOK

LEMMA RefuseInv == ASSUME HookInv, NEW q \in Req, Refuse(q) PROVE HookInv'
<1>1. /\ req[q].at = "body" /\ Respond(q, "refused") /\ UNCHANGED <<vars, stored, wire>>
  BY DEF Refuse
<1>2. Own(q) = {} /\ Confirmed(q) = {} /\ ~InProgress(q)
  BY <1>1, RequestFields DEF DeliveryOK, Stage
<1> QED  BY <1>1, <1>2, RespondStep

(* callback_url, reply_url or response_url: the first that is a text.      *)
LEMMA FirstUrlTyped == ASSUME NEW m \in Message PROVE FirstUrl(m) \in Url
<1>1. CASE m.json # "object" \/ \A i \in 1 .. 3 : m.urls[i] = Nil
  BY <1>1 DEF FirstUrl, Url
<1>2. CASE ~(m.json # "object" \/ \A i \in 1 .. 3 : m.urls[i] = Nil)
  <2> DEFINE Usable(i) == m.urls[i] # Nil /\ \A j \in 1 .. i - 1 : m.urls[j] = Nil
             first == CHOOSE i \in 1 .. 3 : Usable(i)
  <2>1. \E i \in 1 .. 3 : Usable(i)
    <3>1. 1 .. 3 = {1, 2, 3} /\ 1 .. 1 - 1 = {} /\ 1 .. 2 - 1 = {1} /\ 1 .. 3 - 1 = {1, 2}
      OBVIOUS
    <3>2. CASE m.urls[1] # Nil
      <4>1. Usable(1)
        BY <3>1, <3>2
      <4> QED  BY <3>1, <4>1
    <3>3. CASE m.urls[1] = Nil /\ m.urls[2] # Nil
      <4>1. Usable(2)
        BY <3>1, <3>3
      <4> QED  BY <3>1, <4>1
    <3>4. CASE m.urls[1] = Nil /\ m.urls[2] = Nil
      <4>1. Usable(3)
        BY <1>2, <3>1, <3>4
      <4> QED  BY <3>1, <4>1
    <3> QED  BY <3>2, <3>3, <3>4
  <2>2. first \in 1 .. 3
    BY <2>1
  <2>3. FirstUrl(m) = m.urls[first]
    BY <1>2 DEF FirstUrl
  <2> HIDE DEF first
  <2> QED  BY <2>2, <2>3 DEF Url
<1> QED  BY <1>1, <1>2

(* The handler goes on to the inspection or to the confirmation.           *)
LEMMA AdvanceStep ==
    ASSUME HookInv, NEW q \in Req, NEW s \in Request, UNCHANGED <<vars, stored, wire>>,
           req' = [req EXCEPT ![q] = s], s.at \in {"inspect", "post"}, s.told = "nothing",
           s.event = req[q].event, s.at = "post" => s.pinned \in s.inspected,
           HasEvent(q), Confirmed(q) = {}, ~InProgress(q), process # "down"
    PROVE  HookInv'
<1>1. req'[q] = s
  BY DEF HookInv, HookTypeOK
<1>2. /\ Own(q)' = Own(q) /\ \A p \in Req : Confirmed(p)' = Confirmed(p)
      /\ HasEvent(q)'
  BY <1>1 DEF Own, Confirmed, HasEvent
<1>3. Stage(q)'
  BY <1>1, <1>2 DEF Stage, InProgress, vars
<1>4. WireOK(q)' /\ Truth(q)'
  BY <1>1, <1>2 DEF WireOK, Truth
<1>5. wire' \subseteq [req : Req, event : Nat, to : Global, ok : BOOLEAN]
  BY DEF HookInv, HookTypeOK
<1> QED  BY <1>2, <1>3, <1>4, <1>5, RequestStep DEF DeliveryOK

LEMMA AfterStoreInv == ASSUME HookInv, NEW q \in Req, AfterStore(q) PROVE HookInv'
<1> DEFINE r == req[q]
           m == r.msg
<1>1. /\ r.at = "store" /\ calls[q].at = "done" /\ UNCHANGED <<vars, stored, wire>>
      /\ \/ Respond(q, "error")
         \/ /\ calls[q].ret = "ok"
            /\ req' = [req EXCEPT ![q] =
                 IF FirstUrl(m) = Nil THEN Told([r EXCEPT !.event = r.event], "none")
                 ELSE [r EXCEPT !.at = "inspect", !.event = r.event,
                                !.url = FirstUrl(m), !.msg = Nil]]
  BY DEF AfterStore, EventId
<1>2. r \in Request /\ DeliveryOK(q)
  BY RequestFields
<1>3. /\ m \in Message /\ Confirmed(q) = {} /\ process # "down" /\ r.told = "nothing"
      /\ calls[q].ret = "ok" => HasEvent(q)
      /\ ~InProgress(q)
  BY <1>1, <1>2 DEF DeliveryOK, Stage, InProgress
<1>4. CASE Respond(q, "error")
  BY <1>1, <1>3, <1>4, RespondStep
<1>5. ASSUME calls[q].ret = "ok", FirstUrl(m) = Nil,
             req' = [req EXCEPT ![q] = Told([r EXCEPT !.event = r.event], "none")]
      PROVE  HookInv'
  <2>1. [r EXCEPT !.event = r.event] = r
    BY <1>2 DEF Request
  <2>2. Respond(q, "none")
    BY <1>5, <2>1 DEF Respond
  <2> QED  BY <1>1, <1>3, <1>5, <2>2, RespondStep
<1>6. ASSUME calls[q].ret = "ok",
             req' = [req EXCEPT ![q] = [r EXCEPT !.at = "inspect", !.event = r.event,
                                                 !.url = FirstUrl(m), !.msg = Nil]]
      PROVE  HookInv'
  <2> DEFINE s == [r EXCEPT !.at = "inspect", !.event = r.event, !.url = FirstUrl(m),
                            !.msg = Nil]
  <2>1. FirstUrl(m) \in Url
    BY <1>3, FirstUrlTyped
  <2>2. /\ s \in Request /\ s.at = "inspect" /\ s.told = "nothing" /\ s.event = r.event
    BY <1>2, <1>3, <2>1 DEF Request
  <2>3. req' = [req EXCEPT ![q] = s]
    BY <1>6
  <2> HIDE DEF s
  <2> QED  BY <1>1, <1>3, <1>6, <2>2, <2>3, AdvanceStep
<1> QED  BY <1>1, <1>4, <1>5, <1>6

LEMMA FirstAddress ==
    ASSUME NEW u, NEW addresses \in Resolutions(u), AllPublic(addresses)
    PROVE  /\ addresses[1] \in {addresses[i] : i \in DOMAIN addresses}
           /\ {addresses[i] : i \in DOMAIN addresses} \subseteq Global
<1>1. CASE addresses \in Lookups
  <2>1. addresses \in Seq({addresses[i] : i \in DOMAIN addresses})
    BY <1>1, HookAssumption DEF HookAssumption
  <2>2. 1 \in DOMAIN addresses
    BY <2>1 DEF AllPublic
  <2> QED  BY <2>2 DEF AllPublic
<1>2. CASE addresses = <<Literal[u.host]>>
  <2>1. 1 \in DOMAIN addresses
    BY <1>2
  <2> QED  BY <2>1 DEF AllPublic
<1> QED  BY <1>1, <1>2 DEF Resolutions

LEMMA InspectInv == ASSUME HookInv, NEW q \in Req, Inspect(q) PROVE HookInv'
<1> DEFINE r == req[q]
<1>1. /\ r.at = "inspect" /\ UNCHANGED <<vars, stored, wire>>
      /\ \/ Respond(q, "rejected")
         \/ \E addresses \in Resolutions(r.url) :
               /\ AllPublic(addresses)
               /\ req' = [req EXCEPT ![q] =
                    [r EXCEPT !.at = "post", !.pinned = addresses[1],
                              !.inspected = {addresses[i] : i \in DOMAIN addresses}]]
  BY DEF Inspect
<1>2. r \in Request /\ DeliveryOK(q)
  BY RequestFields
<1>3. /\ HasEvent(q) /\ Confirmed(q) = {} /\ process # "down" /\ r.told = "nothing"
      /\ ~InProgress(q)
  BY <1>1, <1>2 DEF DeliveryOK, Stage
<1>4. CASE Respond(q, "rejected")
  BY <1>1, <1>3, <1>4, RespondStep
<1>5. ASSUME NEW addresses \in Resolutions(r.url), AllPublic(addresses),
             req' = [req EXCEPT ![q] =
                [r EXCEPT !.at = "post", !.pinned = addresses[1],
                          !.inspected = {addresses[i] : i \in DOMAIN addresses}]]
      PROVE  HookInv'
  <2> DEFINE found == {addresses[i] : i \in DOMAIN addresses}
             s == [r EXCEPT !.at = "post", !.pinned = addresses[1], !.inspected = found]
  <2>1. addresses[1] \in found /\ found \subseteq Global
    BY <1>5, FirstAddress
  <2> HIDE DEF found
  <2>2. /\ s \in Request /\ s.at = "post" /\ s.told = "nothing" /\ s.event = r.event
        /\ s.pinned \in s.inspected
    BY <1>2, <1>3, <2>1 DEF Request
  <2>3. req' = [req EXCEPT ![q] = s]
    BY <1>5 DEF found
  <2> HIDE DEF s
  <2> QED  BY <1>1, <1>3, <2>2, <2>3, AdvanceStep
<1> QED  BY <1>1, <1>4, <1>5

LEMMA PostEndsInv ==
    ASSUME HookInv, NEW q \in Req, PostRaises(q) \/ PostReturns(q) \/ PostFails(q)
    PROVE  HookInv'
<1>1. DeliveryOK(q) /\ UNCHANGED <<vars, stored, wire>> /\ req[q].at \in {"post", "sent"}
  BY RequestFields DEF PostRaises, PostReturns, PostFails
<1>2. HasEvent(q) /\ ~InProgress(q) /\ (req[q].at = "post" => Confirmed(q) = {})
  BY <1>1 DEF DeliveryOK, Stage
<1>3. CASE PostRaises(q)
  BY <1>1, <1>2, <1>3, RespondStep DEF PostRaises
<1>4. CASE PostFails(q)
  BY <1>1, <1>2, <1>4, RespondStep DEF PostFails
<1>5. CASE PostReturns(q)
  <2>1. Result(q) \in {"delivered", "failed"}
        /\ (Result(q) = "delivered" => \E c \in Confirmed(q) : c.ok)
    BY DEF Result, Confirmed
  <2>2. Respond(q, Result(q))
    BY <1>5 DEF PostReturns
  <2> QED  BY <1>1, <1>2, <2>1, <2>2, RespondStep
<1> QED  BY <1>3, <1>4, <1>5

(* The confirmation names the event of q and goes to the pinned address.   *)
LEMMA DeliverInv == ASSUME HookInv, NEW q \in Req, Deliver(q) PROVE HookInv'
<1> DEFINE s == [req[q] EXCEPT !.at = "sent"]
           to == req[q].pinned
<1>1. PICK ok \in BOOLEAN :
         wire' = wire \cup {[req |-> q, event |-> req[q].event, to |-> to, ok |-> ok]}
  BY DEF Deliver, Target
<1> DEFINE c == [req |-> q, event |-> req[q].event, to |-> to, ok |-> ok]
<1>2. req[q].at = "post" /\ req' = [req EXCEPT ![q] = s] /\ UNCHANGED <<vars, stored>>
  BY DEF Deliver, HookInv, HookTypeOK, Request
<1>3. req[q] \in Request /\ DeliveryOK(q)
  BY RequestFields
<1>4. /\ HasEvent(q) /\ Confirmed(q) = {} /\ process # "down" /\ req[q].told = "nothing"
      /\ ~InProgress(q) /\ to \in req[q].inspected /\ to \in Global
  BY <1>1, <1>2, <1>3 DEF DeliveryOK, Stage, Request
<1>5. /\ s \in Request /\ s.at = "sent" /\ s.told = "nothing"
      /\ s.event = req[q].event /\ s.inspected = req[q].inspected
  BY <1>3, <1>4 DEF Request
<1>6. /\ c \in [req : Req, event : Nat, to : Global, ok : BOOLEAN]
      /\ c.req = q /\ c.event = req[q].event /\ c.to \in req[q].inspected
  BY <1>4, RequestFields
<1>7. wire' = wire \cup {c}
  BY <1>1
<1> HIDE DEF s, c
<1>8. req'[q] = s
  BY <1>2 DEF HookInv, HookTypeOK
<1>9. Confirmed(q)' = {c} /\ \A p \in Req \ {q} : Confirmed(p)' = Confirmed(p)
  BY <1>4, <1>6, <1>7 DEF Confirmed
<1>10. Own(q)' = Own(q) /\ HasEvent(q)'
  BY <1>2, <1>4, <1>5, <1>8 DEF Own, HasEvent
<1>11. Stage(q)'
  BY <1>2, <1>4, <1>5, <1>8, <1>10 DEF Stage, InProgress, vars
<1>12. WireOK(q)'
  BY <1>5, <1>6, <1>8, <1>9, <1>10 DEF WireOK
<1>13. Truth(q)'
  BY <1>5, <1>8 DEF Truth
<1>14. wire' \subseteq [req : Req, event : Nat, to : Global, ok : BOOLEAN]
  BY <1>6, <1>7 DEF HookInv, HookTypeOK
<1> QED  BY <1>2, <1>5, <1>9, <1>11, <1>12, <1>13, <1>14, RequestStep DEF DeliveryOK

-----------------------------------------------------------------------------
(* Steps of the store.                                                     *)

LEMMA WorkerOf == Req \subseteq Worker /\ Worker = Req \cup {Cleaner} /\ Cleaner \notin Req
BY HookAssumption DEF HookAssumption

(* store_event is called by the handler of a verified delivery.            *)
LEMMA AcceptInv == ASSUME HookInv, NEW q \in Req, Accept(q) PROVE HookInv'
<1> DEFINE s == [req[q] EXCEPT !.at = "store"]
           c == Entered("event", NoRun, NoAnswer)
<1>1. /\ req[q].at = "body" /\ req' = [req EXCEPT ![q] = s] /\ UNCHANGED <<stored, wire>>
      /\ Enter(q, "event", NoRun, NoAnswer) /\ q \in Worker
  BY WorkerOf DEF Accept, HookInv, HookTypeOK, Request
<1>2. req[q] \in Request /\ DeliveryOK(q)
  BY RequestFields
<1>3. /\ Own(q) = {} /\ Confirmed(q) = {} /\ process # "down" /\ req[q].told = "nothing"
      /\ req[q].msg \in Message
  BY <1>1, <1>2 DEF DeliveryOK, Stage
<1>4. s \in Request /\ s.at = "store" /\ s.told = "nothing" /\ s.msg = req[q].msg
  BY <1>2, <1>3 DEF Request
<1>5. /\ UNCHANGED <<runs, present, events, lastRun, lastEvent, now, process>>
      /\ calls' = [calls EXCEPT ![q] = c]
  BY <1>1 DEF Enter
<1>6. c.op = "event" /\ c.at = "write"
  BY <1>3 DEF Entered
<1> HIDE DEF s, c
<1>7. StoreInv' /\ EventsInv'
  <2>1. StoreInv'
    BY <1>1, EnterInv DEF HookInv, AllOps, RunOp
  <2> QED  BY <1>5, <2>1 DEF HookInv, EventsInv
<1>8. HookTypeOK' /\ IdsGiven'
  BY <1>1, <1>4, <1>5 DEF HookInv, HookTypeOK, IdsGiven, EventIdsUnique
<1>9. calls'[q] = c /\ req'[q] = s
  BY <1>1, <1>5 DEF HookInv, HookTypeOK, StoreInv, TypeOK
<1>10. \A p \in Req : Own(p)' = Own(p) /\ Confirmed(p)' = Confirmed(p)
  BY <1>1 DEF Own, Confirmed
<1>11. DeliveryOK(q)'
  <2>1. Stage(q)'
    BY <1>3, <1>4, <1>5, <1>6, <1>9, <1>10 DEF Stage
  <2>2. WireOK(q)' /\ Truth(q)'
    BY <1>3, <1>4, <1>9, <1>10 DEF WireOK, Truth
  <2> QED  BY <2>1, <2>2 DEF DeliveryOK
<1>12. ASSUME NEW p \in Req, p # q PROVE DeliveryOK(p)'
  <2>1. req'[p] = req[p] /\ calls'[p] = calls[p]
    BY <1>1, <1>5, <1>12, WorkerOf DEF HookInv, HookTypeOK, StoreInv, TypeOK
  <2> QED  BY <1>5, <1>10, <2>1, DeliveryStays DEF HookInv
<1> QED  BY <1>7, <1>8, <1>11, <1>12 DEF HookInv

(* The steps of a call of store_event.                                     *)
LEMMA OnlyStoreEvent ==
    ASSUME NEW w \in Worker, ReadStep(w) \/ WriteStep(w) \/ Fail(w), calls[w].op = "event",
           calls[w].at = "write"
    PROVE  StoreEvent(w) \/ Fail(w)
BY DEF ReadStep, ReadRun, ReadCallback, Reread, Scan, WriteStep, EnsureSchema, InsertRun,
       UpdateRunUpstream, CasExpire, CancelWrite, AnswerWrite, ListCommit, PruneCommit, At

LEMMA OnlyInProgress ==
    ASSUME NEW w \in Worker, ReadStep(w) \/ WriteStep(w) \/ Fail(w)
    PROVE  InProgress(w)
BY DEF ReadStep, ReadRun, ReadCallback, Reread, Scan, WriteStep, EnsureSchema, InsertRun,
       UpdateRunUpstream, StoreEvent, CasExpire, CancelWrite, AnswerWrite, ListCommit,
       PruneCommit, At, Fail, InProgress

LEMMA StoreStepUp ==
    ASSUME NEW w \in Worker, ReadStep(w) \/ WriteStep(w) \/ Fail(w), process # "down"
    PROVE  process' # "down"
BY DEF ReadStep, ReadRun, ReadCallback, Reread, Scan, WriteStep, EnsureSchema, InsertRun,
       UpdateRunUpstream, StoreEvent, CasExpire, CancelWrite, AnswerWrite, ListCommit,
       PruneCommit, Fail

(* No other step of the store gives out an id of an event.                 *)
LEMMA IdsStay ==
    ASSUME NEW w \in Worker, ReadStep(w) \/ WriteStep(w) \/ Fail(w), ~StoreEvent(w)
    PROVE  lastEvent' = lastEvent
BY DEF ReadStep, ReadRun, ReadCallback, Reread, Scan, WriteStep, EnsureSchema, InsertRun,
       UpdateRunUpstream, CasExpire, CancelWrite, AnswerWrite, ListCommit, PruneCommit, Fail

(* Where the store does not finish a store_event, the deliveries stay.     *)
LEMMA OtherStoreStep ==
    ASSUME HookInv, HookTypeOK', StoreInv', EventsInv',
           NEW w \in Worker, \A v \in Worker \ {w} : calls'[v] = calls[v],
           process # "down" => process' # "down",
           lastEvent <= lastEvent', IdsGiven',
           \A q \in Req \ {w} : req'[q] = req[q] /\ Own(q)' = Own(q),
           wire' = wire, w \in Req => DeliveryOK(w)'
    PROVE  HookInv'
<1>1. ASSUME NEW q \in Req PROVE DeliveryOK(q)'
  <2>1. CASE q = w
    BY <2>1
  <2>2. CASE q # w
    <3>1. Confirmed(q)' = Confirmed(q) /\ q \in Worker
      BY WorkerOf DEF Confirmed
    <3> QED  BY <2>2, <3>1, DeliveryStays DEF HookInv
  <2> QED  BY <2>1, <2>2
<1> QED  BY <1>1 DEF HookInv

(* store_event returns: its event is the delivery's, under a new id.       *)
LEMMA StoredInv ==
    ASSUME HookInv, NEW w \in Worker, StoreStep(w), StoreEvent(w) PROVE HookInv'
<1> DEFINE e == [id |-> lastEvent', req |-> w]
<1>1. /\ calls[w].op = "event" /\ calls[w].at = "write" /\ Return(w, "ok", NoAnswer)
      /\ lastEvent' = lastEvent + 1 /\ lastEvent \in Nat /\ process' = process /\ wire' = wire
  BY DEF StoreEvent, At, NextEventId, StoreStep, HookInv, StoreInv, TypeOK
<1>2. StoreInv' /\ EventsInv' /\ \A v \in Worker \ {w} : calls'[v] = calls[v]
  <2>1. [Next]_vars /\ WriteStep(w)
    BY DEF Next, WriteStep
  <2> QED  BY <2>1, NextInv, NextEvents, MovesOwnCall DEF HookInv, StoreInv
<1>3. /\ calls'[w].op = "event" /\ calls'[w].at = "done" /\ calls'[w].ret = "ok"
  BY <1>1, AfterStep DEF HookInv, StoreInv
<1>4. req' = [req EXCEPT ![w].event = lastEvent'] /\ stored' = stored \cup {e}
  BY <1>1, <1>3 DEF StoreStep, At
<1>5. e \in [id : Nat, req : Worker] /\ e.id = lastEvent + 1 /\ e.req = w
  BY <1>1
<1> HIDE DEF e
<1>6. \A d \in stored : d.id \in Nat /\ d.id <= lastEvent
  BY DEF HookInv, HookTypeOK, IdsGiven
<1>7. IdsGiven'
  <2>1. \A d \in stored' : d.id <= lastEvent'
    BY <1>1, <1>4, <1>5, <1>6
  <2>2. ASSUME NEW c \in stored', NEW d \in stored', c.id = d.id PROVE c = d
    <3>1. CASE c \in stored /\ d \in stored
      BY <2>2, <3>1 DEF HookInv, IdsGiven, EventIdsUnique
    <3>2. CASE c = e \/ d = e
      BY <1>1, <1>4, <1>5, <1>6, <2>2, <3>2
    <3> QED  BY <1>4, <3>1, <3>2
  <2> QED  BY <2>1, <2>2 DEF IdsGiven, EventIdsUnique
<1>8. \A q \in Req \ {w} : req'[q] = req[q] /\ Own(q)' = Own(q)
  BY <1>4, <1>5 DEF HookInv, HookTypeOK, Own
<1>9. w \in Req => /\ req'[w] = [req[w] EXCEPT !.event = lastEvent + 1]
                   /\ req'[w] \in Request
                   /\ req'[w].at = req[w].at /\ req'[w].told = req[w].told
                   /\ req'[w].msg = req[w].msg /\ req'[w].event = lastEvent + 1
  <2> SUFFICES ASSUME w \in Req
               PROVE  /\ req'[w] = [req[w] EXCEPT !.event = lastEvent + 1]
                      /\ req'[w] \in Request
                      /\ req'[w].at = req[w].at /\ req'[w].told = req[w].told
                      /\ req'[w].msg = req[w].msg /\ req'[w].event = lastEvent + 1
    OBVIOUS
  <2>1. req[w] \in Request /\ lastEvent + 1 \in Nat
    BY <1>1, RequestFields
  <2>2. req'[w] = [req[w] EXCEPT !.event = lastEvent + 1]
    BY <1>1, <1>4 DEF HookInv, HookTypeOK
  <2> QED  BY <2>1, <2>2 DEF Request
<1>10. HookTypeOK'
  <2>1. req' \in [Req -> Request]
    BY <1>4, <1>8, <1>9 DEF HookInv, HookTypeOK
  <2> QED  BY <1>1, <1>4, <1>5, <2>1 DEF HookInv, HookTypeOK
<1>11. ASSUME w \in Req PROVE DeliveryOK(w)'
  <2>1. DeliveryOK(w)
    BY <1>11 DEF HookInv
  <2>2. req[w].at = "store" /\ Own(w) = {} /\ Confirmed(w) = {} /\ process # "down"
        /\ req[w].told = "nothing" /\ req[w].msg \in Message
    BY <1>1, <2>1 DEF DeliveryOK, Stage, InProgress
  <2>3. HasEvent(w)' /\ Confirmed(w)' = {}
    BY <1>1, <1>4, <1>5, <1>9, <1>11, <2>2 DEF HasEvent, Own, Confirmed, e
  <2>4. Stage(w)'
    BY <1>1, <1>3, <1>9, <1>11, <2>2, <2>3 DEF Stage, InProgress
  <2>5. WireOK(w)' /\ Truth(w)'
    BY <1>9, <1>11, <2>2, <2>3 DEF WireOK, Truth
  <2> QED  BY <2>4, <2>5 DEF DeliveryOK
<1> QED  BY <1>1, <1>2, <1>7, <1>8, <1>10, <1>11, OtherStoreStep

(* Any other statement, of the cleanup above all, or a failing one.        *)
LEMMA NotStoredInv ==
    ASSUME HookInv, NEW w \in Worker, StoreStep(w), ~StoreEvent(w) PROVE HookInv'
<1>1. ReadStep(w) \/ WriteStep(w) \/ Fail(w)
  BY DEF StoreStep
<1>2. StoreInv' /\ EventsInv' /\ \A v \in Worker \ {w} : calls'[v] = calls[v]
  <2>1. [Next]_vars
    BY <1>1 DEF Next
  <2> QED  BY <1>1, <2>1, NextInv, NextEvents, MovesOwnCall DEF HookInv, StoreInv
<1>3. /\ process # "down" => process' # "down"
      /\ lastEvent' = lastEvent /\ lastEvent \in Nat
  BY <1>1, StoreStepUp, IdsStay DEF HookInv, StoreInv, TypeOK
<1>4. ASSUME calls[w].op = "event", calls[w].at = "write"
      PROVE  Return(w, "raised", NoAnswer) /\ process' = process
  BY <1>1, <1>4, OnlyStoreEvent DEF Fail
<1>5. UNCHANGED <<req, stored, wire>>
  <2>1. ~(At(w, {"event"}, "write") /\ calls'[w].ret = "ok")
    BY <1>4, AfterStep DEF At, HookInv, StoreInv
  <2> QED  BY <2>1 DEF StoreStep
<1>6. HookTypeOK' /\ IdsGiven'
  BY <1>3, <1>5 DEF HookInv, HookTypeOK, IdsGiven, EventIdsUnique
<1>7. \A q \in Req : req'[q] = req[q] /\ Own(q)' = Own(q) /\ Confirmed(q)' = Confirmed(q)
  BY <1>5 DEF Own, Confirmed
<1>8. ASSUME w \in Req PROVE DeliveryOK(w)'
  <2>1. DeliveryOK(w) /\ InProgress(w)
    BY <1>1, <1>8, OnlyInProgress DEF HookInv
  <2>2. /\ req[w].at = "store" /\ calls[w].op = "event" /\ calls[w].at = "write"
        /\ Own(w) = {} /\ Confirmed(w) = {} /\ process # "down"
        /\ req[w].told = "nothing" /\ req[w].msg \in Message
    BY <2>1 DEF DeliveryOK, Stage, InProgress
  <2>3. /\ calls'[w].op = "event" /\ calls'[w].at = "done" /\ calls'[w].ret = "raised"
    BY <1>4, <2>2, AfterStep DEF HookInv, StoreInv
  <2>4. Stage(w)'
    BY <1>3, <1>7, <1>8, <2>2, <2>3 DEF Stage, InProgress
  <2>5. WireOK(w)' /\ Truth(w)'
    BY <1>7, <1>8, <2>2 DEF WireOK, Truth
  <2> QED  BY <2>4, <2>5 DEF DeliveryOK
<1> QED  BY <1>2, <1>3, <1>5, <1>6, <1>7, <1>8, OtherStoreStep

-----------------------------------------------------------------------------
(* The other steps.                                                        *)

LEMMA CleanerInv ==
    ASSUME HookInv, Startup(Cleaner) \/ Begin(Cleaner) \/ Tick, UNCHANGED hook PROVE HookInv'
<1>1. Cleaner \in Worker /\ [Next]_vars /\ UNCHANGED <<req, stored, wire>>
  BY WorkerOf DEF Next, hook
<1>2. StoreInv' /\ EventsInv'
  BY <1>1, NextInv, NextEvents DEF HookInv
<1>3. \A q \in Req : calls'[q] = calls[q]
  BY <1>1, WorkerOf, MovesOwnCall DEF HookInv, StoreInv, Tick
<1>4. /\ process # "down" => process' # "down"
      /\ lastEvent' = lastEvent
  BY DEF Startup, Begin, Enter, Tick
<1>5. HookTypeOK' /\ IdsGiven'
  BY <1>1, <1>4 DEF HookInv, HookTypeOK, IdsGiven, EventIdsUnique
<1>6. ASSUME NEW q \in Req PROVE DeliveryOK(q)'
  <2>1. Own(q)' = Own(q) /\ Confirmed(q)' = Confirmed(q)
    BY <1>1 DEF Own, Confirmed
  <2> QED  BY <1>1, <1>3, <1>4, <2>1, DeliveryStays DEF HookInv
<1> QED  BY <1>2, <1>5, <1>6 DEF HookInv

(* The deliveries that were under way are lost; what they stored stays.    *)
LEMMA HCrashInv == ASSUME HookInv, HCrash PROVE HookInv'
<1>1. /\ Crash /\ UNCHANGED <<stored, wire>>
      /\ req' = [q \in Req |-> IF req[q].at \in {"unsent", "done"} THEN req[q]
                               ELSE Told(req[q], "lost")]
  BY DEF HCrash
<1>2. StoreInv' /\ EventsInv' /\ lastEvent' = lastEvent
  BY <1>1, NextInv, NextEvents DEF Next, HookInv, Crash
<1>3. \A q \in Req : calls'[q] = Idle
  BY <1>1, WorkerOf DEF Crash
<1>4. ASSUME NEW q \in Req PROVE req'[q] \in Request /\ DeliveryOK(q)'
  <2>1. req[q] \in Request /\ DeliveryOK(q)
    BY <1>4, RequestFields
  <2>2. /\ Own(q)' = Own(q) /\ Confirmed(q)' = Confirmed(q)
        /\ ~InProgress(q)'
    BY <1>1, <1>3 DEF Own, Confirmed, InProgress, Idle
  <2>3. CASE req[q].at \in {"unsent", "done"}
    <3>1. req'[q] = req[q]
      BY <1>1, <2>3
    <3>2. Stage(q)' /\ WireOK(q)' /\ Truth(q)'
      BY <2>1, <2>2, <2>3, <3>1 DEF DeliveryOK, Stage, WireOK, Truth, HasEvent
    <3> QED  BY <2>1, <3>1, <3>2 DEF DeliveryOK
  <2>4. CASE req[q].at \notin {"unsent", "done"}
    <3>1. req'[q] = Told(req[q], "lost")
      BY <1>1, <2>4
    <3>2. /\ req'[q] \in Request /\ req'[q].at = "done" /\ req'[q].told = "lost"
          /\ req'[q].event = req[q].event /\ req'[q].inspected = req[q].inspected
      BY <2>1, <3>1, ToldState
    <3>3. Stage(q)' /\ WireOK(q)' /\ Truth(q)'
      BY <2>1, <2>2, <3>2 DEF DeliveryOK, Stage, WireOK, Truth, HasEvent
    <3> QED  BY <3>2, <3>3 DEF DeliveryOK
  <2> QED  BY <2>3, <2>4
<1>5. HookTypeOK' /\ IdsGiven'
  BY <1>1, <1>2, <1>4 DEF HookInv, HookTypeOK, IdsGiven, EventIdsUnique
<1> QED  BY <1>2, <1>4, <1>5 DEF HookInv

LEMMA HookInit == HInit => HookInv
<1> SUFFICES ASSUME HInit PROVE HookInv
  OBVIOUS
<1>1. /\ Init /\ req = [q \in Req |-> Unsent] /\ stored = {} /\ wire = {}
  BY DEF HInit
<1>2. StoreInv /\ EventsInv
  BY <1>1, InitInv, InitEvents
<1>3. Unsent \in Request /\ Unsent.at = "unsent" /\ Unsent.told = "nothing"
  BY DEF Unsent, Request, Url
<1>4. HookTypeOK /\ IdsGiven
  BY <1>1, <1>3 DEF HookTypeOK, IdsGiven, EventIdsUnique
<1>5. ASSUME NEW q \in Req PROVE DeliveryOK(q)
  <2>1. req[q] = Unsent /\ Own(q) = {} /\ Confirmed(q) = {} /\ calls[q] = Idle
    BY <1>1, WorkerOf DEF Own, Confirmed, Init
  <2>2. ~InProgress(q)
    BY <2>1 DEF InProgress, Idle
  <2> QED  BY <1>3, <2>1, <2>2 DEF DeliveryOK, Stage, WireOK, Truth
<1> QED  BY <1>2, <1>4, <1>5 DEF HookInv

LEMMA HookNext == HookInv /\ [HNext]_hvars => HookInv'
<1> SUFFICES ASSUME HookInv, [HNext]_hvars PROVE HookInv'
  OBVIOUS
<1>1. ASSUME NEW q \in Req,
             \/ \E m \in Message : Arrive(q, m)
             \/ Refuse(q) \/ Accept(q) \/ AfterStore(q) \/ Inspect(q)
             \/ PostRaises(q) \/ Deliver(q) \/ PostReturns(q) \/ PostFails(q)
      PROVE  HookInv'
  BY <1>1, ArriveInv, RefuseInv, AcceptInv, AfterStoreInv, InspectInv, PostEndsInv, DeliverInv
<1>2. ASSUME NEW w \in Worker, StoreStep(w) PROVE HookInv'
  BY <1>2, StoredInv, NotStoredInv
<1>3. CASE UNCHANGED hvars
  <2>1. /\ UNCHANGED <<req, stored, wire, process, lastEvent, calls>>
        /\ StoreInv' /\ EventsInv'
    BY <1>3, StoreStays DEF hvars, hook, vars, HookInv
  <2>2. HookTypeOK' /\ IdsGiven'
    BY <2>1 DEF HookInv, HookTypeOK, IdsGiven, EventIdsUnique
  <2>3. \A q \in Req : DeliveryOK(q)'
    BY <2>1, DeliveryStays DEF HookInv, Own, Confirmed
  <2> QED  BY <2>1, <2>2, <2>3 DEF HookInv
<1> QED  BY <1>1, <1>2, <1>3, CleanerInv, HCrashInv DEF HNext

-----------------------------------------------------------------------------
(* The theorems.                                                           *)

(* The inductive invariant: at each await of the handler, which event and  *)
(* which confirmation of the delivery exist.                               *)
THEOREM HookInvariance == HSpec => []HookInv
<1> QED  BY HookInit, HookNext, PTL DEF HSpec

(* The store keeps its own invariant when the webhook calls it.            *)
THEOREM HookKeepsStore == HSpec => []StoreInv
<1>1. HookInv => StoreInv
  BY DEF HookInv
<1> QED  BY <1>1, HookInvariance, PTL

(* AUTOINCREMENT: the id of an event is never given again, through any     *)
(* number of prunes, trims and restarts.                                   *)
THEOREM IdsAreUnique == HSpec => []EventIdsUnique
<1>1. HookInv => EventIdsUnique
  BY DEF HookInv, IdsGiven
<1> QED  BY <1>1, HookInvariance, PTL

(* The response to a delivery says what became of its event and of its     *)
(* confirmation, at whatever await the handler failed.                     *)
THEOREM SenderToldTruly == HSpec => []ToldTruthfully
<1>1. HookInv => ToldTruthfully
  BY DEF HookInv, ToldTruthfully, DeliveryOK, Truth, HasEvent
<1> QED  BY <1>1, HookInvariance, PTL

(* A confirmation is sent once at most, and names the committed event of   *)
(* its own delivery.                                                       *)
THEOREM ConfirmationsOwn == HSpec => []ConfirmsOwnEvent
<1>1. HookInv => ConfirmsOwnEvent
  <2> SUFFICES ASSUME HookInv PROVE ConfirmsOwnEvent
    OBVIOUS
  <2>1. \A c \in wire : c.req \in Req /\ c \in Confirmed(c.req)
    BY DEF HookInv, HookTypeOK, Confirmed
  <2>2. \A q \in Req : \A c \in Confirmed(q) : [id |-> c.event, req |-> q] \in stored
    BY DEF HookInv, DeliveryOK, WireOK, HasEvent, Own
  <2>3. \A c \in wire : [id |-> c.event, req |-> c.req] \in stored
    BY <2>1, <2>2
  <2>4. ASSUME NEW c \in wire, NEW d \in wire, c.event = d.event PROVE c = d
    <3>1. [id |-> c.event, req |-> c.req] = [id |-> d.event, req |-> d.req]
      BY <2>3, <2>4 DEF HookInv, IdsGiven, EventIdsUnique
    <3>2. c.req = d.req
      BY <3>1
    <3> QED  BY <2>1, <3>2 DEF HookInv, DeliveryOK, WireOK
  <2> QED  BY <2>3, <2>4 DEF ConfirmsOwnEvent
<1> QED  BY <1>1, HookInvariance, PTL

(* A confirmation goes to an address that was inspected for its delivery   *)
(* and is public, also when the name resolves to another one by then.      *)
THEOREM OnlyInspected == HSpec => []ConnectsInspected
<1>1. HookInv => ConnectsInspected
  <2> SUFFICES ASSUME HookInv PROVE ConnectsInspected
    OBVIOUS
  <2>1. ASSUME NEW c \in wire PROVE c.to \in req[c.req].inspected
    <3>1. c.req \in Req /\ c \in Confirmed(c.req)
      BY DEF HookInv, HookTypeOK, Confirmed
    <3> QED  BY <3>1 DEF HookInv, DeliveryOK, WireOK
  <2>2. \A q \in Req : req[q].inspected \subseteq Global
    BY RequestFields DEF Request
  <2> QED  BY <2>1, <2>2 DEF ConnectsInspected
<1> QED  BY <1>1, HookInvariance, PTL

(* The webhook keeps the promise of the event table.                       *)
THEOREM HookKeepsEvents == HSpec => EventsKept
<1>1. HookInv /\ [HNext]_hvars => [EventsStep]_vars
  <2> SUFFICES ASSUME HookInv, HNext PROVE EventsStep \/ UNCHANGED vars
    BY DEF hvars
  <2>1. CASE [Next]_vars
    BY <2>1, NextEvents DEF HookInv
  <2>2. ASSUME NEW q \in Req, Accept(q) PROVE EventsStep
    <3>1. UNCHANGED <<events, lastEvent>>
      BY <2>2 DEF Accept, Enter
    <3> QED  BY <3>1 DEF HookInv, EventsInv, EventsStep
  <2>3. ASSUME NEW w \in Worker, StoreStep(w) PROVE [Next]_vars
    BY <2>3 DEF StoreStep, Next
  <2>4. Startup(Cleaner) \/ Begin(Cleaner) \/ Tick \/ HCrash => [Next]_vars
    BY WorkerOf DEF Next, HCrash
  <2>5. ASSUME NEW q \in Req,
               \/ \E m \in Message : Arrive(q, m)
               \/ Refuse(q) \/ AfterStore(q) \/ Inspect(q)
               \/ PostRaises(q) \/ Deliver(q) \/ PostReturns(q) \/ PostFails(q)
        PROVE  UNCHANGED vars
    BY <2>5 DEF Arrive, Refuse, AfterStore, Inspect, PostRaises, Deliver, PostReturns, PostFails
  <2> QED  BY <2>1, <2>2, <2>3, <2>4, <2>5 DEF HNext
<1> QED  BY <1>1, HookInvariance, PTL DEF HSpec, EventsKept, EventsStep

=============================================================================
