-------------------------- MODULE InboundHookProps --------------------------
(***************************************************************************)
(* What the sender of an inbound event, the receiver of its confirmation   *)
(* and the reader of the events may rely on.                               *)
(***************************************************************************)
EXTENDS InboundHook, RunStoreProps

Own(q) == {e \in stored : e.req = q}
Confirmed(q) == {c \in wire : c.req = q}

(* No event id is given twice, also if the event was pruned or trimmed and *)
(* the process restarted: get_grokbot_event(id) never shows another event  *)
(* than the one that was confirmed under this id.                          *)
EventIdsUnique == \A d, e \in stored : d.id = e.id => d = e

(* The response tells the sender what happened.  A refused request left no *)
(* event; an accepted one is stored, under the id it was told; "delivered" *)
(* means that the receiver accepted the confirmation, "none" and           *)
(* "rejected" that nobody got one.  After a 500 the event may be stored,   *)
(* but nobody got a confirmation of it; after "failed" it is stored and    *)
(* the receiver may have got the confirmation.                             *)
ToldTruthfully ==
    \A q \in Req :
        LET r == req[q]
        IN  /\ r.told = "refused" => Own(q) = {} /\ Confirmed(q) = {}
            /\ r.told \in {"none", "rejected", "delivered", "failed"}
                  => Own(q) = {[id |-> r.event, req |-> q]}
            /\ r.told \in {"none", "rejected", "error"} => Confirmed(q) = {}
            /\ r.told = "delivered" => \E c \in Confirmed(q) : c.ok

(* A confirmation names the event of its own delivery, which is committed  *)
(* by then, and nobody gets a second one.                                  *)
ConfirmsOwnEvent ==
    /\ \A c \in wire : [id |-> c.event, req |-> c.req] \in stored
    /\ \A c, d \in wire : c.event = d.event => c = d

(* A confirmation goes to an address that inspect_callback_url let pass    *)
(* for this very delivery, whatever DNS says by then (another address,     *)
(* public as well, would not do), and every address let pass was public.   *)
ConnectsInspected ==
    /\ \A c \in wire : c.to \in req[c.req].inspected
    /\ \A q \in Req : req[q].inspected \subseteq Global

(* A delivery that was accepted is answered or dies with the process,      *)
(* whatever the receiver of the confirmation does.                         *)
EveryDeliveryEnds ==
    \A q \in Req : req[q].at \in {"store", "inspect", "post", "sent"} ~> req[q].at = "done"
=============================================================================
