-------------------------- MODULE AnswerPathProps --------------------------
(***************************************************************************)
(* What Grok Bot may rely on when its callback is answered, and a client   *)
(* when it waits (SPEC.md sections 4, 5 and 7).                            *)
(***************************************************************************)
EXTENDS AnswerPath

(* Every variable has its type; a buffer never outgrows MAX_CALLBACK_BODY. *)
CallState ==
    [at : {"idle", "headers", "stream", "resolve", "notify", "done"}, length : Length \cup {NoLength},
     size : Size \cup {0}, got : 0 .. MaxBody, body : Body \cup {None},
     reply : {"none", "ok", "invalid_content_length", "too_large", "json_object_required",
              "raised", "client_disconnected", "run_id_required", "run_id_mismatch",
              "expired", "already_answered"}]

PathTypeOK ==
    /\ call \in [Call -> CallState]
    /\ run \in [outcome : {"pending", "answered", "expired"}, by : Call \cup {None},
                answer : Body \cup {None}]
    /\ maxWait \in 1 .. AbsoluteMaxWait
    /\ reader \in [at : {"idle", "read", "sleep", "apply", "text", "done"},
                   kind : {"ask", "wait"}, asked : Int, timeout : Nat, spent : Nat,
                   slept : Nat, flag : BOOLEAN]
    /\ told \in {"none", "pending", "answered", "expired"}
    /\ since \in [decided : Nat, notified : Nat]

(* An answer is the body of one callback, which arrived to its last byte,  *)
(* as an object that echoes the run.  This callback, and no other, is told *)
(* "ok" once it has notified.                                              *)
WholeAnswers ==
    /\ run.outcome = "answered" <=> run.by # None
    /\ run.outcome = "answered" => run.answer.json = "object" /\ Echo(run.answer) = "own"
    /\ \A c \in Call :
          /\ run.by = c <=> call[c].at = "notify" \/ call[c].reply = "ok"
          /\ call[c].at \in {"resolve", "notify"} => call[c].got = call[c].size
          /\ call[c].at = "notify" => call[c].body = run.answer

(* The limit is exact, and the same for the declared and the real length:  *)
(* a callback is refused as too large only if one of them exceeds it, and  *)
(* none of which one does gets past the reading of its body.               *)
LimitExact ==
    [][\A c \in Call :
          LET large == call[c].size > MaxBody \/ TooLong(call[c].length)
              reply == call'[c].reply
          IN  call[c].at # "done" =>
                 /\ reply = "too_large" => large
                 /\ large => /\ call'[c].at # "resolve"
                             /\ reply \in {"none", "too_large", "client_disconnected",
                                           "invalid_content_length"}]_pvars

(* The text is that of the first usable field, in the order of SPEC.md:61: *)
(* fields before it that are missing, blank or of another type are skipped *)
(* (FirstPresentTold is the rule that SPEC.md states).  Of content that is *)
(* a list, all the texts in their order.  A client is told an answer       *)
(* without a text only if no field is usable.                              *)
HasText(b, key) ==
    \/ b.value[key].kind = "text"
    \/ /\ key = "content" /\ b.value[key].kind = "list"
       /\ \E i \in DOMAIN b.value[key].blocks : b.value[key].blocks[i] = "text"

Before(key) ==
    CASE key = "answer" -> {}
      [] key = "message" -> {"answer"}
      [] key = "content" -> {"answer", "message"}
      [] key = "text" -> {"answer", "message", "content"}
      [] key = "output" -> {"answer", "message", "content", "text"}
      [] key = "result" -> {"answer", "message", "content", "text", "output"}

TextFirstUsable ==
    told = "answered" =>
        LET b == run.answer
            usable == {key \in DOMAIN b.value : HasText(b, key)}
            blocks == b.value["content"].blocks
            s == text.blocks
        IN  /\ text.field = None <=> usable = {}
            /\ usable # {} => text.field \in usable /\ Before(text.field) \cap usable = {}
            /\ text.field = "content" =>
                  /\ {s[i] : i \in DOMAIN s} = {i \in DOMAIN blocks : blocks[i] = "text"}
                  /\ \A i, j \in DOMAIN s : i < j => s[i] < s[j]

(* No wait outlasts MAX_WAIT_SECONDS, nor this the hard cap, whatever the  *)
(* environment says; nor what the client asked for, with the one exception *)
(* of wait_for_grokbot_answer, which waits a second for less than 1        *)
(* (answers.py:52).                                                        *)
WaitBounded ==
    /\ reader.spent <= maxWait * Unit /\ maxWait <= AbsoluteMaxWait
    /\ reader.spent > 0 =>
          \/ reader.spent <= reader.asked * Unit
          \/ reader.kind = "wait" /\ reader.asked < 1 /\ reader.spent <= Unit

(* A client waits no longer than one poll for a run that is decided, even  *)
(* if nobody notified it, and not at all after the notification.           *)
Prompt == since.decided <= PollTicks /\ since.notified = 0

(* "pending" is said only when the run is undecided in that very moment    *)
(* and the client has waited as long as it asked, or MAX_WAIT_SECONDS.     *)
PendingWhenOver ==
    [][told' = "pending" /\ told # "pending"
         => /\ run.outcome = "pending"
            /\ reader.asked * Unit <= reader.spent \/ reader.spent = maxWait * Unit]_pvars

-----------------------------------------------------------------------------
(* SPEC.md:61, "The answer is extracted from the first present field in    *)
(* the order": a text comes from the first key that the body has.  The     *)
(* code does not keep this: it goes on to the next key if the value is     *)
(* blank or of another type.                                               *)
FirstPresentTold ==
    told = "answered" =>
        LET present == {key \in DOMAIN run.answer.value :
                           run.answer.value[key].kind # "missing"}
        IN  text.field # None =>
               text.field \in present /\ Before(text.field) \cap present = {}
=============================================================================
