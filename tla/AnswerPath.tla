----------------------------- MODULE AnswerPath -----------------------------
(***************************************************************************)
(* The way of an answer: the callbacks of one run, chunk by chunk, to the  *)
(* row of the run, and from there to the text a waiting client is told,    *)
(* with the time that takes.                                               *)
(*                                                                         *)
(* Bodies arrive through read_limited_body of app/routes.py; the client    *)
(* waits in _wait_for_run of app/tools.py with the limits of app/config.py *)
(* and gets what extract_answer_text of app/answers.py makes of the body.  *)
(* Only waiting takes time here: steps of the event loop and reads of the  *)
(* row take none (Bridge has their interleavings and failures, RunStore    *)
(* those of resolve_callback).                                             *)
(***************************************************************************)
EXTENDS Integers, Sequences

CONSTANTS
    Call,           \* callbacks to the token of the run
    Body,           \* contents of bodies that occur
    Size,           \* their sizes
    Length,         \* content-length headers that occur
    NoLength, BadLength,                    \* no header; one that is no integer
    MaxBody,        \* MAX_CALLBACK_BODY
    RawMaxWait,     \* values of MAX_WAIT_SECONDS in the environment
    Unset, Garbled, \* values that are empty, or no integer
    DefaultMaxWait, AbsoluteMaxWait,        \* of app/config.py
    Asked,          \* wait_seconds, timeout_seconds of clients
    Unit,           \* ticks of the clock in a second
    PollTicks,      \* the 0.5 s of _wait_for_run
    None

KeyOrder == <<"answer", "message", "content", "text", "output", "result">>

(* The kind of a field's value: a string that is not blank, a blank one, a *)
(* list of blocks, any other JSON value, or none because the key is        *)
(* missing (answer.get returns None for it as for a null).                 *)
Value == [kind : {"text", "blank", "list", "other", "missing"},
          blocks : Seq({"text", "other"})]

(* json: as in InboundHook.  run_id, request_id: null, empty and the like; *)
(* the run_id of this run; another string; a value that is no string.      *)
Echoes == {"falsy", "own", "foreign", "odd"}

ASSUME PathAssumption ==
    /\ \A b \in Body :
          /\ b.json \in {"object", "other", "raises"}
          /\ b.run_id \in Echoes /\ b.request_id \in Echoes
          /\ b.value \in [{KeyOrder[i] : i \in 1 .. 6} -> Value]
    /\ None \notin Body /\ None \notin Call /\ None \notin {KeyOrder[i] : i \in 1 .. 6}
    /\ Size \subseteq Nat
    /\ Length \subseteq Int \cup {NoLength, BadLength}
    /\ NoLength \notin Int /\ BadLength \notin Int /\ NoLength # BadLength
    /\ MaxBody \in Nat /\ Unit \in Nat \ {0} /\ PollTicks \in Nat \ {0}
    /\ Unset \notin Int /\ Garbled \notin Int
    /\ RawMaxWait \subseteq Int \cup {Unset, Garbled} /\ Asked \subseteq Int
    /\ AbsoluteMaxWait \in Nat \ {0} /\ DefaultMaxWait \in 1 .. AbsoluteMaxWait

VARIABLES
    call,       \* [Call -> CallState]
    run,        \* its outcome, the callback that answered it, answer_json
    reader,     \* the call of ask_grokbot or wait_for_grokbot_answer
    told,       \* what its result says of the run
    text,       \* answer_text of the result, and the loop that finds it
    maxWait,    \* MAX_WAIT_SECONDS of this process
    since       \* history: ticks the reader waited for a run that is decided,
                \* and for one whose notification was sent

pvars == <<call, run, reader, told, text, maxWait, since>>
client == <<reader, told, text>>

(* got: size of the buffer; body: what the bytes are, None before they are *)
(* parsed; reply: the error or "ok".                                       *)
Idle == [at |-> "idle", length |-> NoLength, size |-> 0, got |-> 0, body |-> None,
         reply |-> "none"]

(* asked: history, the seconds the client asked for; slept: of the         *)
(* wait_for it is in; flag: its event is set.                              *)
NoReader == [at |-> "idle", kind |-> "wait", asked |-> 0, timeout |-> 0, spent |-> 0,
             slept |-> 0, flag |-> FALSE]

(* key: the one the loop looks at; field, blocks: where the text was found.*)
NoText == [key |-> 1, field |-> None, blocks |-> << >>]

(* _int_env(name, default, minimum=1, maximum=300)                         *)
MaxWaitSeconds(raw) ==
    IF raw \in {Unset, Garbled} THEN DefaultMaxWait
    ELSE IF raw < 1 THEN 1 ELSE IF raw > AbsoluteMaxWait THEN AbsoluteMaxWait ELSE raw

PInit ==
    /\ call = [c \in Call |-> Idle]
    /\ run = [outcome |-> "pending", by |-> None, answer |-> None]
    /\ reader = NoReader /\ told = "none" /\ text = NoText
    /\ \E raw \in RawMaxWait : maxWait = MaxWaitSeconds(raw)
    /\ since = [decided |-> 0, notified |-> 0]

-----------------------------------------------------------------------------
(* read_limited_body                                                       *)

Reply(c, what) == call' = [call EXCEPT ![c] = [Idle EXCEPT !.at = "done", !.reply = what]]

TooLong(length) == length \in Int /\ length > MaxBody

Post(c, size, length) ==
    /\ call[c].at = "idle"
    /\ call' = [call EXCEPT ![c] = [@ EXCEPT !.at = "headers", !.size = size,
                                            !.length = length]]
    /\ UNCHANGED <<run, client, maxWait, since>>

CheckLength(c) ==
    /\ call[c].at = "headers"
    /\ \/ call[c].length = BadLength /\ Reply(c, "invalid_content_length")
       \/ TooLong(call[c].length) /\ Reply(c, "too_large")
       \/ /\ call[c].length # BadLength /\ ~TooLong(call[c].length)
          /\ call' = [call EXCEPT ![c].at = "stream"]
    /\ UNCHANGED <<run, client, maxWait, since>>

\* Mutants: only the chunk is compared; a full buffer is refused.
ChunkFits(c, n) == n <= MaxBody
FitsBelow(c, n) == call[c].got + n < MaxBody
Fits(c, n) == call[c].got + n <= MaxBody

Chunk(c) ==
    /\ call[c].at = "stream"
    /\ \E n \in 1 .. call[c].size - call[c].got :
          IF Fits(c, n) THEN call' = [call EXCEPT ![c].got = @ + n]
                        ELSE Reply(c, "too_large")
    /\ UNCHANGED <<run, client, maxWait, since>>

(* read_callback_body: nothing is no JSON, and json.loads may raise what it *)
(* does not catch.  The header is of no use any more and is forgotten.     *)
Parsed(c) ==
    \E b \in {d \in Body : call[c].size = 0 => d.json = "other"} :
       CASE b.json = "object" -> call' = [call EXCEPT ![c] = [@ EXCEPT !.at = "resolve",
                                             !.body = b, !.length = NoLength]]
         [] b.json = "other"  -> Reply(c, "json_object_required")
         [] b.json = "raises" -> Reply(c, "raised")

EndOfStream(c) ==
    /\ call[c].at = "stream" /\ call[c].got = call[c].size
    /\ Parsed(c)
    /\ UNCHANGED <<run, client, maxWait, since>>

TakenAsEnd(c) ==                                        \* mutant
    call[c].at = "stream" /\ Parsed(c) /\ UNCHANGED <<run, client, maxWait, since>>

Disconnect(c) ==
    /\ call[c].at = "stream"
    /\ Reply(c, "client_disconnected")
    /\ UNCHANGED <<run, client, maxWait, since>>

-----------------------------------------------------------------------------
(* resolve_callback, then finish_callback_result                           *)

Echo(b) == IF b.run_id # "falsy" THEN b.run_id ELSE b.request_id

Resolve(c) ==
    LET echo == Echo(call[c].body)
    IN  /\ call[c].at = "resolve"
        /\ \/ echo \in {"falsy", "odd"} /\ Reply(c, "run_id_required") /\ UNCHANGED run
           \/ echo = "foreign" /\ Reply(c, "run_id_mismatch") /\ UNCHANGED run
           \/ /\ echo = "own" /\ run.outcome # "pending"
              /\ Reply(c, IF run.outcome = "expired" THEN "expired" ELSE "already_answered")
              /\ UNCHANGED run
           \/ /\ echo = "own" /\ run.outcome = "pending"
              /\ run' = [outcome |-> "answered", by |-> c, answer |-> call[c].body]
              /\ call' = [call EXCEPT ![c].at = "notify"]
        /\ UNCHANGED <<client, maxWait, since>>

Notify(c) ==
    /\ call[c].at = "notify"
    /\ Reply(c, "ok")
    /\ reader' = [reader EXCEPT !.flag = @ \/ reader.at = "sleep"]
    /\ UNCHANGED <<run, told, text, maxWait, since>>

(* Another reader, or a callback that is refused, expires the run: nobody  *)
(* is notified.                                                            *)
Expire ==
    /\ run.outcome = "pending"
    /\ run' = [outcome |-> "expired", by |-> None, answer |-> None]
    /\ UNCHANGED <<call, client, maxWait, since>>

-----------------------------------------------------------------------------
(* The client.                                                             *)

Uncapped(w, allowZero) ==                               \* mutant
    IF w < 1 THEN IF allowZero THEN 0 ELSE 1 ELSE w

ClampWaitSeconds(w, allowZero) ==
    LET low == IF allowZero THEN 0 ELSE 1
        value == IF w < maxWait THEN w ELSE maxWait
    IN  IF value < low THEN low ELSE value

(* ask_grokbot after its POST, and wait_for_grokbot_answer.                *)
StartWait(kind, w) ==
    LET timeout == ClampWaitSeconds(w, kind = "ask") * Unit
    IN  /\ reader.at = "idle"
        /\ reader' = [NoReader EXCEPT !.at = IF timeout = 0 THEN "apply" ELSE "read",
                                      !.kind = kind, !.asked = w, !.timeout = timeout]
        /\ UNCHANGED <<call, run, told, text, maxWait, since>>

(* run_answer, and what _wait_for_run makes of it; ask_grokbot reads an     *)
(* undecided status once more (_apply_persisted_status).                   *)
Read ==
    /\ reader.at \in {"read", "apply"}
    /\ \/ /\ run.outcome # "pending"
          /\ reader' = [reader EXCEPT !.at = "text"]
          /\ UNCHANGED told
       \/ /\ run.outcome = "pending" /\ reader.at = "read" /\ reader.spent < reader.timeout
          /\ reader' = [reader EXCEPT !.at = "sleep", !.slept = 0]
          /\ UNCHANGED told
       \/ /\ run.outcome = "pending" /\ reader.at = "read" /\ reader.spent >= reader.timeout
          /\ reader.kind = "ask"
          /\ reader' = [reader EXCEPT !.at = "apply"]
          /\ UNCHANGED told
       \/ /\ run.outcome = "pending"
          /\ reader.at = "apply" \/ (reader.kind = "wait" /\ reader.spent >= reader.timeout)
          /\ reader' = [reader EXCEPT !.at = "done"] /\ told' = "pending"
    /\ UNCHANGED <<call, run, text, maxWait, since>>

(* min(0.5, remaining), computed when the wait_for began.                  *)
RemainingOnly == reader.timeout - (reader.spent - reader.slept) \* mutant: no poll
Slice ==
    LET remaining == reader.timeout - (reader.spent - reader.slept)
    IN  IF PollTicks < remaining THEN PollTicks ELSE remaining

Elapse ==
    /\ reader.at = "sleep" /\ ~reader.flag /\ reader.slept < Slice
    /\ reader' = [reader EXCEPT !.slept = @ + 1, !.spent = @ + 1]
    /\ since' = [decided |-> since.decided + IF run.outcome # "pending" THEN 1 ELSE 0,
                 notified |-> since.notified +
                                 IF \E c \in Call : call[c].reply = "ok" THEN 1 ELSE 0]
    /\ UNCHANGED <<call, run, told, text, maxWait>>

GiveUp ==                                               \* mutant: no last read
    /\ reader.at = "sleep" /\ (reader.flag \/ reader.slept >= Slice)
    /\ IF reader.spent < reader.timeout
       THEN reader' = [reader EXCEPT !.at = "read", !.flag = FALSE] /\ UNCHANGED told
       ELSE reader' = [reader EXCEPT !.at = "done"] /\ told' = "pending"
    /\ UNCHANGED <<call, run, text, maxWait, since>>

Wake ==
    /\ reader.at = "sleep" /\ (reader.flag \/ reader.slept >= Slice)
    /\ reader' = [reader EXCEPT !.at = "read", !.flag = FALSE]
    /\ UNCHANGED <<call, run, told, text, maxWait, since>>

-----------------------------------------------------------------------------
(* extract_answer_text, key by key.                                        *)

ByContent == <<"content", "answer", "message", "text", "output", "result">> \* mutant
Keys == KeyOrder

TextBlocks(v) ==
    LET upto[n \in 0 .. Len(v.blocks)] ==
            IF n = 0 THEN << >>
            ELSE IF v.blocks[n] = "text" THEN Append(upto[n - 1], n) ELSE upto[n - 1]
    IN  upto[Len(v.blocks)]

(* One turn of the loop; an expired run has no answer to look at.          *)
Usable(key, v) ==
    v.kind = "text" \/ (key = "content" /\ v.kind = "list" /\ TextBlocks(v) # << >>)

Tell == reader' = [reader EXCEPT !.at = "done"] /\ told' = run.outcome

Extract ==
    /\ reader.at = "text"
    /\ \/ (run.answer = None \/ text.key > Len(Keys)) /\ Tell /\ UNCHANGED text
       \/ /\ run.answer # None /\ text.key <= Len(Keys)
          /\ LET key == Keys[text.key]
                 v == run.answer.value[key]
             IN  \/ /\ Usable(key, v) /\ Tell
                    /\ text' = [text EXCEPT !.field = key, !.blocks = TextBlocks(v)]
                 \/ /\ ~Usable(key, v)
                    /\ text' = [text EXCEPT !.key = @ + 1]
                    /\ UNCHANGED <<reader, told>>
    /\ UNCHANGED <<call, run, maxWait, since>>

PNext ==
    \/ \E c \in Call :
          \/ \E size \in Size, length \in Length : Post(c, size, length)
          \/ CheckLength(c) \/ Chunk(c) \/ EndOfStream(c) \/ Disconnect(c)
          \/ Resolve(c) \/ Notify(c)
    \/ Expire
    \/ \E kind \in {"ask", "wait"}, w \in Asked : StartWait(kind, w)
    \/ Read \/ Elapse \/ Wake \/ Extract

PSpec == PInit /\ [][PNext]_pvars
=============================================================================
