-------------------------- MODULE AnswerPathProofs --------------------------
(***************************************************************************)
(* The promises to callbacks and waiting clients, for every size limit,    *)
(* number of callbacks, body, wait time, cap and length of a poll.         *)
(***************************************************************************)
EXTENDS AnswerPathProps, TLAPS, WellFoundedInduction

(* What a callback in flight knows: it has no reply before it is done, its *)
(* declared length was looked at before its stream, and what it resolves   *)
(* is an object.                                                           *)
CallsInFlight ==
    \A c \in Call :
        /\ call[c].at # "done" => call[c].reply = "none"
        /\ call[c].at \in {"stream", "resolve", "notify"} => ~TooLong(call[c].length)
        /\ call[c].at \in {"resolve", "notify"} =>
              call[c].body \in Body /\ call[c].body.json = "object"

(* What a waiting client knows: it sleeps one poll at most, it began to    *)
(* sleep on an undecided run, and a notification has set its event.        *)
ClientWaits ==
    /\ run.outcome = "pending" => since.decided = 0
    /\ reader.at = "sleep" =>
          /\ reader.slept <= PollTicks /\ since.decided <= reader.slept
          /\ (\E c \in Call : call[c].reply = "ok") => reader.flag
    /\ reader.at = "apply" => reader.spent = reader.timeout
    /\ reader.at = "text" => run.outcome # "pending"

(* The wait time that was computed from what the client asked for: what    *)
(* clamp_wait_seconds promises, in ticks.                                  *)
RightTimeout(r) ==
    /\ r.spent <= r.timeout /\ r.timeout <= maxWait * Unit
    /\ \/ r.timeout = 0 \/ r.timeout <= r.asked * Unit
       \/ r.kind = "wait" /\ r.asked < 1 /\ r.timeout <= Unit
    /\ r.asked * Unit <= r.timeout \/ r.timeout = maxWait * Unit

PathInv ==
    /\ PathTypeOK /\ WholeAnswers /\ RightTimeout(reader) /\ Prompt
    /\ CallsInFlight /\ ClientWaits

-----------------------------------------------------------------------------
(* The limits.                                                             *)

LEMMA CapRespected ==
    ASSUME NEW raw \in RawMaxWait PROVE MaxWaitSeconds(raw) \in 1 .. AbsoluteMaxWait
  BY PathAssumption DEF MaxWaitSeconds

(* What clamp_wait_seconds returns, of what was asked for and the cap.     *)
LEMMA WaitClamped ==
    ASSUME maxWait \in 1 .. AbsoluteMaxWait, NEW w \in Asked, NEW kind \in {"ask", "wait"},
           NEW s, s = ClampWaitSeconds(w, kind = "ask")
    PROVE  /\ s \in Nat /\ s <= maxWait
           /\ s = 0 \/ s <= w \/ (kind = "wait" /\ w < 1 /\ s <= 1)
           /\ w <= s \/ s = maxWait
  <1>1. w \in Int
    BY PathAssumption
  <1>2. CASE kind = "ask"
    BY <1>1, <1>2, PathAssumption DEF ClampWaitSeconds
  <1>3. CASE kind = "wait"
    BY <1>1, <1>3, PathAssumption DEF ClampWaitSeconds
  <1> QED BY <1>2, <1>3

LEMMA Ticks == ASSUME NEW a \in Int, NEW b \in Int, a <= b PROVE a * Unit <= b * Unit
  <1>1. Unit \in Nat
    BY PathAssumption
  <1>2. PICK d \in Nat : b = a + d
    <2>1. b - a \in Nat /\ b = a + (b - a)
      OBVIOUS
    <2> QED BY <2>1
  <1>3. b * Unit = a * Unit + d * Unit /\ a * Unit \in Int /\ d * Unit \in Nat
    BY <1>1, <1>2, SMTT(30)
  <1> QED BY <1>3

(* The same bounds in ticks.                                               *)
LEMMA WaitInTicks ==
    ASSUME maxWait \in 1 .. AbsoluteMaxWait, NEW w \in Asked, NEW kind \in {"ask", "wait"},
           NEW r, r.spent = 0, r.asked = w, r.kind = kind,
           r.timeout = ClampWaitSeconds(w, kind = "ask") * Unit
    PROVE  r.timeout \in Nat /\ RightTimeout(r)
  <1>1. PICK s : s = ClampWaitSeconds(w, kind = "ask")
    OBVIOUS
  <1>2. /\ s \in Nat /\ s <= maxWait
        /\ s = 0 \/ s <= w \/ (kind = "wait" /\ w < 1 /\ s <= 1)
        /\ w <= s \/ s = maxWait
    BY <1>1, WaitClamped
  <1>3. /\ w \in Int /\ maxWait \in Int /\ Unit \in Nat /\ 1 \in Int /\ s \in Int
        /\ r.timeout = s * Unit /\ 1 * Unit = Unit
    BY <1>1, <1>2, PathAssumption
  <1>4. s * Unit \in Nat
    BY <1>2, <1>3, SMTT(30)
  <1>5. s * Unit <= maxWait * Unit
    BY <1>2, <1>3, Ticks
  <1>6. \/ s * Unit = 0 \/ s * Unit <= w * Unit
        \/ kind = "wait" /\ w < 1 /\ s * Unit <= Unit
    <2>1. CASE s = 0
      BY <1>3, <2>1
    <2>2. CASE s <= w
      BY <1>3, <2>2, Ticks
    <2>3. CASE kind = "wait" /\ w < 1 /\ s <= 1
      <3>1. s * Unit <= 1 * Unit
        BY <1>3, <2>3, Ticks
      <3> QED BY <1>3, <2>3, <3>1
    <2> QED BY <1>2, <2>1, <2>2, <2>3
  <1>7. w * Unit <= s * Unit \/ s * Unit = maxWait * Unit
    BY <1>2, <1>3, Ticks
  <1> QED BY <1>3, <1>4, <1>5, <1>6, <1>7 DEF RightTimeout

-----------------------------------------------------------------------------
(* A callback moves on, without a decision about the run.                  *)
LEMMA CallMoves ==
    ASSUME PathInv, NEW c \in Call, NEW k \in CallState,
           call' = [call EXCEPT ![c] = k], UNCHANGED <<run, client, maxWait, since>>,
           run.by # c, k.at # "notify", k.reply # "ok",
           k.at # "done" => k.reply = "none",
           k.at = "resolve" => /\ k.got = k.size
                               /\ k.body \in Body /\ k.body.json = "object",
           k.at \in {"stream", "resolve"} => ~TooLong(k.length)
    PROVE  PathInv'
  <1>1. /\ call'[c] = k
        /\ \A d \in Call : d # c => call'[d] = call[d]
    BY DEF PathInv, PathTypeOK
  <1>2. PathTypeOK'
    BY DEF PathInv, PathTypeOK, client
  <1>3. WholeAnswers'
    BY <1>1 DEF PathInv, WholeAnswers, client
  <1>4. RightTimeout(reader)' /\ Prompt'
    BY DEF PathInv, RightTimeout, Prompt, client
  <1>5. CallsInFlight'
    BY <1>1 DEF PathInv, CallsInFlight
  <1>6. ClientWaits'
    BY <1>1 DEF PathInv, ClientWaits, client
  <1> QED BY <1>2, <1>3, <1>4, <1>5, <1>6 DEF PathInv

(* A callback that has not decided the run is refused.                     *)
LEMMA Refused ==
    ASSUME PathInv, NEW c \in Call,
           NEW what \in {"invalid_content_length", "too_large", "json_object_required",
                         "raised", "client_disconnected", "run_id_required",
                         "run_id_mismatch", "expired", "already_answered"},
           Reply(c, what), UNCHANGED <<run, client, maxWait, since>>,
           call[c].at \in {"headers", "stream", "resolve"}
    PROVE  PathInv'
  <1> DEFINE k == [Idle EXCEPT !.at = "done", !.reply = what]
  <1>1. k \in CallState /\ k.at = "done" /\ k.reply = what
    <2>1. Idle \in CallState
      BY PathAssumption DEF Idle, CallState
    <2> QED BY <2>1 DEF CallState
  <1>2. run.by # c
    BY DEF PathInv, WholeAnswers, CallsInFlight
  <1>3. call' = [call EXCEPT ![c] = k]
    BY DEF Reply
  <1> HIDE DEF k
  <1> QED BY <1>1, <1>2, <1>3, CallMoves

LEMMA NotYet ==
    ASSUME PathInv, NEW c \in Call, call[c].at \in {"idle", "headers", "stream", "resolve"}
    PROVE  run.by # c /\ call[c].reply = "none" /\ call[c] \in CallState
  BY DEF PathInv, PathTypeOK, WholeAnswers, CallsInFlight

LEMMA PostInv ==
    ASSUME PathInv, NEW c \in Call, NEW size \in Size, NEW length \in Length,
           Post(c, size, length)
    PROVE  PathInv'
  <1> DEFINE k == [call[c] EXCEPT !.at = "headers", !.size = size, !.length = length]
  <1>1. call[c].at = "idle" /\ call' = [call EXCEPT ![c] = k]
    BY DEF Post
  <1>2. run.by # c /\ call[c].reply = "none" /\ call[c] \in CallState
    BY <1>1, NotYet
  <1>3. k \in CallState /\ k.at = "headers" /\ k.reply = "none"
    BY <1>2 DEF CallState
  <1>4. UNCHANGED <<run, client, maxWait, since>>
    BY DEF Post
  <1> HIDE DEF k
  <1> QED BY <1>1, <1>2, <1>3, <1>4, CallMoves

LEMMA CheckLengthInv == ASSUME PathInv, NEW c \in Call, CheckLength(c) PROVE PathInv'
  <1>1. UNCHANGED <<run, client, maxWait, since>> /\ call[c].at = "headers"
    BY DEF CheckLength
  <1>2. CASE Reply(c, "invalid_content_length")
    BY <1>1, <1>2, Refused
  <1>3. CASE Reply(c, "too_large")
    BY <1>1, <1>3, Refused
  <1>4. CASE ~TooLong(call[c].length) /\ call' = [call EXCEPT ![c].at = "stream"]
    <2> DEFINE k == [call[c] EXCEPT !.at = "stream"]
    <2>1. run.by # c /\ call[c].reply = "none" /\ call[c] \in CallState
      BY <1>1, NotYet
    <2>2. k \in CallState /\ k.at = "stream" /\ k.reply = "none" /\ k.length = call[c].length
      BY <2>1 DEF CallState
    <2>3. call' = [call EXCEPT ![c] = k]
      BY <1>4
    <2> HIDE DEF k
    <2> QED BY <1>1, <1>4, <2>1, <2>2, <2>3, CallMoves
  <1> QED BY <1>2, <1>3, <1>4 DEF CheckLength

LEMMA ChunkInv == ASSUME PathInv, NEW c \in Call, Chunk(c) PROVE PathInv'
  <1>1. UNCHANGED <<run, client, maxWait, since>> /\ call[c].at = "stream"
    BY DEF Chunk
  <1>2. CASE Reply(c, "too_large")
    BY <1>1, <1>2, Refused
  <1>3. ASSUME NEW n \in 1 .. call[c].size - call[c].got, Fits(c, n),
               call' = [call EXCEPT ![c].got = @ + n]
        PROVE  PathInv'
    <2> DEFINE k == [call[c] EXCEPT !.got = @ + n]
    <2>1. run.by # c /\ call[c].reply = "none" /\ call[c] \in CallState
      BY <1>1, NotYet
    <2>2. call[c].got \in 0 .. MaxBody /\ call[c].size \in Size \cup {0}
      BY <2>1 DEF CallState
    <2>9. MaxBody \in Nat /\ Size \subseteq Nat
      BY PathAssumption
    <2>3. n \in Nat /\ call[c].got + n \in 0 .. MaxBody
      BY <1>3, <2>2, <2>9 DEF Fits
    <2>4. k \in CallState /\ k.at = "stream" /\ k.reply = "none" /\ k.length = call[c].length
      BY <1>1, <2>1, <2>3 DEF CallState
    <2>5. call' = [call EXCEPT ![c] = k]
      BY <1>3
    <2>6. ~TooLong(k.length)
      BY <1>1, <2>4 DEF PathInv, CallsInFlight
    <2> HIDE DEF k
    <2> QED BY <1>1, <2>1, <2>4, <2>5, <2>6, CallMoves
  <1> QED BY <1>2, <1>3 DEF Chunk

LEMMA EndOfStreamInv == ASSUME PathInv, NEW c \in Call, EndOfStream(c) PROVE PathInv'
  <1>1. /\ UNCHANGED <<run, client, maxWait, since>>
        /\ call[c].at = "stream" /\ call[c].got = call[c].size
    BY DEF EndOfStream
  <1>2. PICK b \in Body :
           \/ b.json = "object" /\ call' = [call EXCEPT ![c] = [@ EXCEPT !.at = "resolve",
                                              !.body = b, !.length = NoLength]]
           \/ Reply(c, "json_object_required")
           \/ Reply(c, "raised")
    BY PathAssumption DEF EndOfStream, Parsed
  <1>3. CASE Reply(c, "json_object_required")
    BY <1>1, <1>3, Refused
  <1>4. CASE Reply(c, "raised")
    BY <1>1, <1>4, Refused
  <1>5. CASE /\ call' = [call EXCEPT ![c] = [@ EXCEPT !.at = "resolve",
                                              !.body = b, !.length = NoLength]]
             /\ b.json = "object"
    <2> DEFINE k == [call[c] EXCEPT !.at = "resolve", !.body = b, !.length = NoLength]
    <2>1. run.by # c /\ call[c].reply = "none" /\ call[c] \in CallState
      BY <1>1, NotYet
    <2>2. /\ k \in CallState /\ k.at = "resolve" /\ k.reply = "none"
          /\ k.length = NoLength /\ k.got = k.size /\ k.body = b
      BY <1>1, <2>1 DEF CallState
    <2>3. call' = [call EXCEPT ![c] = k]
      BY <1>5
    <2>4. ~TooLong(NoLength)
      BY PathAssumption DEF TooLong
    <2> HIDE DEF k
    <2> QED BY <1>1, <1>5, <2>1, <2>2, <2>3, <2>4, CallMoves
  <1> QED BY <1>2, <1>3, <1>4, <1>5

LEMMA DisconnectInv == ASSUME PathInv, NEW c \in Call, Disconnect(c) PROVE PathInv'
  BY Refused DEF Disconnect

-----------------------------------------------------------------------------
(* The run is decided.                                                     *)

(* While it is pending, nobody was told that it was answered.              *)
LEMMA PendingUnannounced ==
    ASSUME PathInv, run.outcome = "pending"
    PROVE  \A c \in Call : run.by # c /\ call[c].at # "notify" /\ call[c].reply # "ok"
  <1>1. run.by = None /\ None \notin Call
    BY PathAssumption DEF PathInv, WholeAnswers
  <1>2. \A c \in Call : run.by = c <=> call[c].at = "notify" \/ call[c].reply = "ok"
    BY DEF PathInv, WholeAnswers
  <1> QED BY <1>1, <1>2

LEMMA ResolveInv == ASSUME PathInv, NEW c \in Call, Resolve(c) PROVE PathInv'
  <1>1. UNCHANGED <<client, maxWait, since>> /\ call[c].at = "resolve"
    BY DEF Resolve
  <1>2. CASE Reply(c, "run_id_required") /\ UNCHANGED run
    BY <1>1, <1>2, Refused
  <1>3. CASE Reply(c, "run_id_mismatch") /\ UNCHANGED run
    BY <1>1, <1>3, Refused
  <1>4. CASE /\ Reply(c, IF run.outcome = "expired" THEN "expired" ELSE "already_answered")
             /\ UNCHANGED run
    BY <1>1, <1>4, Refused
  <1>5. CASE /\ Echo(call[c].body) = "own" /\ run.outcome = "pending"
             /\ run' = [outcome |-> "answered", by |-> c, answer |-> call[c].body]
             /\ call' = [call EXCEPT ![c].at = "notify"]
    <2> DEFINE k == [call[c] EXCEPT !.at = "notify"]
    <2>1. run.by # c /\ call[c].reply = "none" /\ call[c] \in CallState
      BY <1>1, NotYet
    <2>2. /\ k \in CallState /\ k.at = "notify" /\ k.reply = "none"
          /\ k.length = call[c].length /\ k.got = call[c].got /\ k.size = call[c].size
          /\ k.body = call[c].body
      BY <2>1 DEF CallState
    <2>3. /\ call' = [call EXCEPT ![c] = k] /\ call'[c] = k
          /\ \A d \in Call : d # c => call'[d] = call[d]
      BY <1>5 DEF PathInv, PathTypeOK
    <2> HIDE DEF k
    <2>4. call[c].body \in Body /\ call[c].body.json = "object"
      BY <1>1 DEF PathInv, CallsInFlight
    <2>5. run'.outcome = "answered" /\ run'.by = c /\ run'.answer = call[c].body
      BY <1>5
    <2>6. PathTypeOK'
      BY <1>1, <1>5, <2>2, <2>3, <2>4 DEF PathInv, PathTypeOK, client
    <2>7. \A d \in Call : run.by # d /\ call[d].at # "notify" /\ call[d].reply # "ok"
      BY <1>5, PendingUnannounced
    <2>8. WholeAnswers'
      BY <1>1, <1>5, <2>2, <2>3, <2>4, <2>5, <2>7, PathAssumption DEF PathInv, WholeAnswers
    <2>9. RightTimeout(reader)' /\ Prompt'
      BY <1>1 DEF PathInv, RightTimeout, Prompt, client
    <2>10. CallsInFlight'
      BY <1>1, <2>1, <2>2, <2>3, <2>4 DEF PathInv, CallsInFlight
    <2>11. ClientWaits'
      BY <1>1, <2>2, <2>3, <2>5 DEF PathInv, ClientWaits, client
    <2> QED BY <2>6, <2>8, <2>9, <2>10, <2>11 DEF PathInv
  <1> QED BY <1>2, <1>3, <1>4, <1>5 DEF Resolve

LEMMA NotifyInv == ASSUME PathInv, NEW c \in Call, Notify(c) PROVE PathInv'
  <1> DEFINE k == [Idle EXCEPT !.at = "done", !.reply = "ok"]
  <1> DEFINE r == [reader EXCEPT !.flag = @ \/ reader.at = "sleep"]
  <1>1. /\ call[c].at = "notify" /\ call' = [call EXCEPT ![c] = k] /\ reader' = r
        /\ UNCHANGED <<run, told, text, maxWait, since>>
    BY DEF Notify, Reply
  <1>2. k \in CallState /\ k.at = "done" /\ k.reply = "ok"
    <2>1. Idle \in CallState
      BY PathAssumption DEF Idle, CallState
    <2> QED BY <2>1 DEF CallState
  <1> HIDE DEF k
  <1>3. /\ call'[c] = k
        /\ \A d \in Call : d # c => call'[d] = call[d]
    BY <1>1 DEF PathInv, PathTypeOK
  <1>4. /\ r.at = reader.at /\ r.kind = reader.kind /\ r.timeout = reader.timeout
        /\ r.asked = reader.asked
        /\ r.spent = reader.spent /\ r.slept = reader.slept
        /\ reader.at = "sleep" => r.flag
    BY DEF PathInv, PathTypeOK
  <1>5. r \in [at : {"idle", "read", "sleep", "apply", "text", "done"},
               kind : {"ask", "wait"}, asked : Int, timeout : Nat, spent : Nat, slept : Nat,
               flag : BOOLEAN]
    BY DEF PathInv, PathTypeOK
  <1> HIDE DEF r
  <1>6. PathTypeOK'
    BY <1>1, <1>2, <1>5 DEF PathInv, PathTypeOK
  <1>7. WholeAnswers'
    BY <1>1, <1>2, <1>3 DEF PathInv, WholeAnswers
  <1>8. RightTimeout(reader)' /\ Prompt'
    BY <1>1, <1>4 DEF PathInv, RightTimeout, Prompt
  <1>9. CallsInFlight'
    BY <1>2, <1>3 DEF PathInv, CallsInFlight
  <1>10. ClientWaits'
    BY <1>1, <1>4 DEF PathInv, ClientWaits
  <1> QED BY <1>6, <1>7, <1>8, <1>9, <1>10 DEF PathInv

LEMMA ExpireInv == ASSUME PathInv, Expire PROVE PathInv'
  <1>1. /\ run.outcome = "pending"
        /\ run' = [outcome |-> "expired", by |-> None, answer |-> None]
        /\ UNCHANGED <<call, client, maxWait, since>>
    BY DEF Expire
  <1>2. run'.outcome = "expired" /\ run'.by = None /\ None \notin Call
    BY <1>1, PathAssumption
  <1>3. \A c \in Call : call[c].at # "notify" /\ call[c].reply # "ok"
    BY <1>1, PendingUnannounced
  <1>4. PathTypeOK'
    BY <1>1 DEF PathInv, PathTypeOK, client
  <1>5. WholeAnswers'
    BY <1>1, <1>2, <1>3 DEF PathInv, WholeAnswers
  <1>6. RightTimeout(reader)' /\ Prompt' /\ CallsInFlight'
    BY <1>1 DEF PathInv, RightTimeout, Prompt, CallsInFlight, client
  <1>7. ClientWaits'
    BY <1>1, <1>2 DEF PathInv, ClientWaits, client
  <1> QED BY <1>4, <1>5, <1>6, <1>7 DEF PathInv

-----------------------------------------------------------------------------
(* The client moves; callbacks and the run do not.                         *)

Readers == [at : {"idle", "read", "sleep", "apply", "text", "done"},
            kind : {"ask", "wait"}, asked : Int, timeout : Nat, spent : Nat, slept : Nat,
            flag : BOOLEAN]

LEMMA ClientMoves ==
    ASSUME PathInv, NEW r \in Readers, reader' = r, UNCHANGED <<call, run, maxWait, since>>,
           told' \in {"none", "pending", "answered", "expired"},
           RightTimeout(r),
           r.at = "sleep" => /\ r.slept <= PollTicks /\ since.decided <= r.slept
                             /\ (\E c \in Call : call[c].reply = "ok") => r.flag,
           r.at = "apply" => r.spent = r.timeout,
           r.at = "text" => run.outcome # "pending"
    PROVE  PathInv'
  <1>1. PathTypeOK'
    BY DEF PathInv, PathTypeOK, Readers
  <1>2. WholeAnswers' /\ CallsInFlight'
    BY DEF PathInv, WholeAnswers, CallsInFlight
  <1>3. RightTimeout(reader)' /\ Prompt'
    BY DEF PathInv, RightTimeout, Prompt
  <1>4. ClientWaits'
    BY DEF PathInv, ClientWaits
  <1> QED BY <1>1, <1>2, <1>3, <1>4 DEF PathInv

(* A step of the client that leaves its clock and its limits.              *)
LEMMA SameTimes ==
    ASSUME PathInv, NEW r, r.spent = reader.spent, r.timeout = reader.timeout,
           r.asked = reader.asked, r.kind = reader.kind
    PROVE  RightTimeout(r)
BY DEF PathInv, RightTimeout

LEMMA StartWaitInv ==
    ASSUME PathInv, NEW kind \in {"ask", "wait"}, NEW w \in Asked, StartWait(kind, w)
    PROVE  PathInv'
  <1> DEFINE ticks == ClampWaitSeconds(w, kind = "ask") * Unit
             at == IF ticks = 0 THEN "apply" ELSE "read"
             r == [NoReader EXCEPT !.at = at, !.kind = kind, !.asked = w, !.timeout = ticks]
  <1>1. reader' = r /\ UNCHANGED <<call, run, told, text, maxWait, since>>
    BY DEF StartWait
  <1>2. maxWait \in 1 .. AbsoluteMaxWait
    BY DEF PathInv, PathTypeOK
  <1>3. /\ r.at = at /\ r.kind = kind /\ r.asked = w /\ r.timeout = ticks
        /\ r.spent = 0
    BY DEF NoReader
  <1>4. ticks \in Nat /\ RightTimeout(r)
    <2> HIDE DEF r
    <2> QED BY <1>2, <1>3, WaitInTicks
  <1>5. at \in {"read", "apply"} /\ (at = "apply" => ticks = 0)
    OBVIOUS
  <1>6. told \in {"none", "pending", "answered", "expired"}
    BY DEF PathInv, PathTypeOK
  <1>7. w \in Int
    BY PathAssumption
  <1> HIDE DEF ticks, at
  <1>8. r \in Readers
    <2>1. NoReader \in Readers
      BY DEF NoReader, Readers
    <2> QED BY <1>4, <1>5, <1>7, <2>1 DEF Readers
  <1> HIDE DEF r
  <1> QED BY <1>1, <1>3, <1>4, <1>5, <1>6, <1>8, ClientMoves

LEMMA ReadInv == ASSUME PathInv, Read PROVE PathInv'
  <1>1. /\ reader \in Readers /\ told \in {"none", "pending", "answered", "expired"}
        /\ reader.spent <= reader.timeout
    BY DEF PathInv, PathTypeOK, RightTimeout, Readers
  <1>2. reader.at \in {"read", "apply"} /\ UNCHANGED <<call, run, text, maxWait, since>>
    BY DEF Read
  <1>3. CASE /\ run.outcome # "pending" /\ reader' = [reader EXCEPT !.at = "text"]
             /\ UNCHANGED told
    <2> DEFINE r == [reader EXCEPT !.at = "text"]
    <2>1. /\ r \in Readers /\ r.at = "text" /\ r.spent = reader.spent
          /\ r.timeout = reader.timeout /\ r.kind = reader.kind /\ r.asked = reader.asked
      BY <1>1 DEF Readers
    <2>2. reader' = r
      BY <1>3
    <2> HIDE DEF r
    <2> QED BY <1>1, <1>2, <1>3, <2>1, <2>2, ClientMoves, SameTimes
  <1>4. CASE /\ run.outcome = "pending" /\ reader' = [reader EXCEPT !.at = "sleep", !.slept = 0]
             /\ UNCHANGED told
    <2> DEFINE r == [reader EXCEPT !.at = "sleep", !.slept = 0]
    <2>1. /\ r \in Readers /\ r.at = "sleep" /\ r.spent = reader.spent /\ r.slept = 0
          /\ r.timeout = reader.timeout /\ r.kind = reader.kind /\ r.asked = reader.asked
      BY <1>1 DEF Readers
    <2>2. reader' = r
      BY <1>4
    <2>3. since.decided = 0 /\ ~\E c \in Call : call[c].reply = "ok"
      BY <1>4, PendingUnannounced DEF PathInv, ClientWaits
    <2>4. 0 <= PollTicks
      BY PathAssumption
    <2> HIDE DEF r
    <2> QED BY <1>1, <1>2, <1>4, <2>1, <2>2, <2>3, <2>4, ClientMoves, SameTimes
  <1>5. CASE /\ reader.spent >= reader.timeout
             /\ reader' = [reader EXCEPT !.at = "apply"] /\ UNCHANGED told
    <2> DEFINE r == [reader EXCEPT !.at = "apply"]
    <2>1. /\ r \in Readers /\ r.at = "apply" /\ r.spent = reader.spent
          /\ r.timeout = reader.timeout /\ r.kind = reader.kind /\ r.asked = reader.asked
      BY <1>1 DEF Readers
    <2>2. reader' = r
      BY <1>5
    <2>3. reader.spent = reader.timeout
      BY <1>1, <1>5 DEF Readers
    <2> HIDE DEF r
    <2> QED BY <1>1, <1>2, <1>5, <2>1, <2>2, <2>3, ClientMoves, SameTimes
  <1>6. CASE reader' = [reader EXCEPT !.at = "done"] /\ told' = "pending"
    <2> DEFINE r == [reader EXCEPT !.at = "done"]
    <2>1. /\ r \in Readers /\ r.at = "done" /\ r.spent = reader.spent
          /\ r.timeout = reader.timeout /\ r.kind = reader.kind /\ r.asked = reader.asked
      BY <1>1 DEF Readers
    <2>2. reader' = r
      BY <1>6
    <2> HIDE DEF r
    <2> QED BY <1>1, <1>2, <1>6, <2>1, <2>2, ClientMoves, SameTimes
  <1> QED BY <1>3, <1>4, <1>5, <1>6 DEF Read

LEMMA WakeInv == ASSUME PathInv, Wake PROVE PathInv'
  <1> DEFINE r == [reader EXCEPT !.at = "read", !.flag = FALSE]
  <1>1. /\ reader \in Readers /\ told \in {"none", "pending", "answered", "expired"}
        /\ reader.spent <= reader.timeout
    BY DEF PathInv, PathTypeOK, RightTimeout, Readers
  <1>2. /\ reader' = r /\ reader.at = "sleep"
        /\ UNCHANGED <<call, run, told, text, maxWait, since>>
    BY DEF Wake
  <1>3. /\ r \in Readers /\ r.at = "read" /\ r.spent = reader.spent
        /\ r.timeout = reader.timeout /\ r.kind = reader.kind /\ r.asked = reader.asked
    BY <1>1 DEF Readers
  <1> HIDE DEF r
  <1> QED BY <1>1, <1>2, <1>3, ClientMoves, SameTimes

LEMMA ExtractInv == ASSUME PathInv, Extract PROVE PathInv'
  <1> DEFINE r == [reader EXCEPT !.at = "done"]
  <1>1. /\ reader \in Readers /\ told \in {"none", "pending", "answered", "expired"}
        /\ reader.spent <= reader.timeout
        /\ run.outcome \in {"pending", "answered", "expired"}
    BY DEF PathInv, PathTypeOK, RightTimeout, Readers
  <1>2. UNCHANGED <<call, run, maxWait, since>> /\ reader.at = "text"
    BY DEF Extract
  <1>3. CASE reader' = r /\ told' = run.outcome
    <2>1. /\ r \in Readers /\ r.at = "done" /\ r.spent = reader.spent
          /\ r.timeout = reader.timeout /\ r.kind = reader.kind /\ r.asked = reader.asked
      BY <1>1 DEF Readers
    <2> HIDE DEF r
    <2> QED BY <1>1, <1>2, <1>3, <2>1, ClientMoves, SameTimes
  <1>4. CASE UNCHANGED <<reader, told>>
    <2>1. run.outcome # "pending"
      BY <1>2 DEF PathInv, ClientWaits
    <2> QED BY <1>1, <1>2, <1>4, <2>1, ClientMoves, SameTimes
  <1> QED BY <1>3, <1>4 DEF Extract, Tell

(* Time passes: within the slice, and not after a notification.            *)
LEMMA ElapseInv == ASSUME PathInv, Elapse PROVE PathInv'
  <1> DEFINE r == [reader EXCEPT !.slept = @ + 1, !.spent = @ + 1]
  <1>1. /\ reader \in Readers /\ since \in [decided : Nat, notified : Nat]
        /\ reader.spent <= reader.timeout
    BY DEF PathInv, PathTypeOK, RightTimeout, Readers
  <1>2. /\ reader.at = "sleep" /\ ~reader.flag /\ reader.slept < Slice /\ reader' = r
        /\ UNCHANGED <<call, run, told, text, maxWait>>
        /\ since' = [decided |-> since.decided + IF run.outcome # "pending" THEN 1 ELSE 0,
                     notified |-> since.notified +
                                     IF \E c \in Call : call[c].reply = "ok" THEN 1 ELSE 0]
    BY DEF Elapse
  <1>3. /\ r \in Readers /\ r.at = "sleep" /\ r.spent = reader.spent + 1
        /\ r.slept = reader.slept + 1 /\ r.flag = reader.flag
        /\ r.timeout = reader.timeout /\ r.kind = reader.kind /\ r.asked = reader.asked
    <2>1. reader.spent \in Nat /\ reader.slept \in Nat
      BY <1>1 DEF Readers
    <2>2. reader.spent + 1 \in Nat /\ reader.slept + 1 \in Nat
      BY <2>1
    <2> QED BY <1>1, <1>2, <2>2 DEF Readers
  <1>4. /\ reader.spent \in Nat /\ reader.slept \in Nat /\ reader.timeout \in Nat
        /\ since.decided \in Nat /\ since.notified \in Nat /\ PollTicks \in Nat
    BY <1>1, PathAssumption DEF Readers
  <1> HIDE DEF r
  <1>5. /\ reader.slept + 1 <= PollTicks /\ reader.spent + 1 <= reader.timeout
    BY <1>2, <1>4 DEF Slice
  <1>6. /\ since.decided <= reader.slept
        /\ run.outcome = "pending" => since.decided = 0
        /\ ~\E c \in Call : call[c].reply = "ok"
    BY <1>2 DEF PathInv, ClientWaits
  <1>7. /\ since'.notified = since.notified /\ since'.decided \in Nat
        /\ since'.decided <= reader.slept + 1
        /\ run.outcome = "pending" => since'.decided = 0
        /\ since' \in [decided : Nat, notified : Nat]
    <2> DEFINE d == since.decided + (IF run.outcome # "pending" THEN 1 ELSE 0)
    <2>1. d \in Nat /\ d <= reader.slept + 1 /\ (run.outcome = "pending" => d = 0)
      <3>1. CASE run.outcome = "pending"
        <4>1. d = since.decided + 0
          BY <3>1
        <4> HIDE DEF d
        <4> QED BY <1>4, <1>6, <3>1, <4>1
      <3>2. CASE run.outcome # "pending"
        <4>1. d = since.decided + 1
          BY <3>2
        <4> HIDE DEF d
        <4> QED BY <1>4, <1>6, <3>2, <4>1
      <3> QED BY <3>1, <3>2
    <2>2. since' = [decided |-> d, notified |-> since.notified + 0]
      BY <1>2, <1>6
    <2> HIDE DEF d
    <2> QED BY <1>4, <2>1, <2>2
  <1>8. PathTypeOK'
    BY <1>2, <1>3, <1>7 DEF PathInv, PathTypeOK, Readers
  <1>9. WholeAnswers' /\ CallsInFlight'
    BY <1>2 DEF PathInv, WholeAnswers, CallsInFlight
  <1>10. RightTimeout(reader)'
    BY <1>2, <1>3, <1>5 DEF PathInv, RightTimeout
  <1>11. Prompt'
    BY <1>4, <1>5, <1>7 DEF PathInv, Prompt
  <1>12. ClientWaits'
    BY <1>2, <1>3, <1>5, <1>6, <1>7 DEF ClientWaits
  <1> QED BY <1>8, <1>9, <1>10, <1>11, <1>12 DEF PathInv

-----------------------------------------------------------------------------
LEMMA PInitInv == PInit => PathInv
  <1> SUFFICES ASSUME PInit PROVE PathInv
    OBVIOUS
  <1>1. Idle \in CallState /\ Idle.at = "idle" /\ Idle.reply = "none"
    BY PathAssumption DEF Idle, CallState
  <1>2. \A c \in Call : call[c] = Idle
    BY DEF PInit
  <1>3. NoReader \in Readers /\ NoReader.at = "idle" /\ NoReader.spent = 0
        /\ NoReader.timeout = 0 /\ NoReader.asked = 0
    BY DEF NoReader, Readers
  <1>4. maxWait \in 1 .. AbsoluteMaxWait
    BY CapRespected DEF PInit
  <1>5. /\ run.outcome = "pending" /\ run.by = None /\ None \notin Call
        /\ since.decided = 0 /\ since.notified = 0
    BY PathAssumption DEF PInit
  <1>6. PathTypeOK
    BY <1>1, <1>3, <1>4 DEF PInit, PathTypeOK, Readers
  <1>7. WholeAnswers /\ CallsInFlight
    BY <1>1, <1>2, <1>5 DEF WholeAnswers, CallsInFlight
  <1>8. PollTicks >= 0 /\ 0 * Unit = 0 /\ 0 <= maxWait * Unit
    <2>1. Unit \in Nat /\ maxWait \in Int /\ 0 <= maxWait /\ 0 * Unit = 0
      BY <1>4, PathAssumption
    <2>2. 0 * Unit <= maxWait * Unit
      BY <2>1, Ticks
    <2> QED BY <2>1, <2>2, PathAssumption
  <1>9. RightTimeout(reader) /\ Prompt /\ ClientWaits
    BY <1>3, <1>5, <1>8 DEF PInit, RightTimeout, Prompt, ClientWaits
  <1> QED BY <1>6, <1>7, <1>9 DEF PathInv

LEMMA StutterInv == ASSUME PathInv, UNCHANGED pvars PROVE PathInv'
  BY DEF PathInv, PathTypeOK, WholeAnswers, RightTimeout, Prompt, CallsInFlight, ClientWaits,
         pvars

(* The invariant of the way of an answer holds in every reachable state.   *)
THEOREM PathInvariance == PSpec => []PathInv
  <1>1. ASSUME PathInv, [PNext]_pvars PROVE PathInv'
    <2>1. ASSUME NEW c \in Call, NEW size \in Size, NEW length \in Length,
                 Post(c, size, length)
          PROVE  PathInv'
      BY <1>1, <2>1, PostInv
    <2>2. ASSUME NEW c \in Call, CheckLength(c) PROVE PathInv'
      BY <1>1, <2>2, CheckLengthInv
    <2>3. ASSUME NEW c \in Call, Chunk(c) PROVE PathInv'
      BY <1>1, <2>3, ChunkInv
    <2>4. ASSUME NEW c \in Call, EndOfStream(c) PROVE PathInv'
      BY <1>1, <2>4, EndOfStreamInv
    <2>5. ASSUME NEW c \in Call, Disconnect(c) PROVE PathInv'
      BY <1>1, <2>5, DisconnectInv
    <2>6. ASSUME NEW c \in Call, Resolve(c) PROVE PathInv'
      BY <1>1, <2>6, ResolveInv
    <2>7. ASSUME NEW c \in Call, Notify(c) PROVE PathInv'
      BY <1>1, <2>7, NotifyInv
    <2>8. ASSUME NEW kind \in {"ask", "wait"}, NEW w \in Asked, StartWait(kind, w)
          PROVE  PathInv'
      BY <1>1, <2>8, StartWaitInv
    <2>9. CASE Expire \/ Read \/ Elapse \/ Wake \/ Extract
      BY <1>1, <2>9, ExpireInv, ReadInv, ElapseInv, WakeInv, ExtractInv
    <2>10. CASE UNCHANGED pvars
      BY <1>1, <2>10, StutterInv
    <2> QED BY <1>1, <2>1, <2>2, <2>3, <2>4, <2>5, <2>6, <2>7, <2>8, <2>9, <2>10 DEF PNext
  <1> QED BY <1>1, PInitInv, PTL DEF PSpec

(* Types are kept; in particular no buffer outgrows MAX_CALLBACK_BODY.     *)
THEOREM BuffersBounded == PSpec => []PathTypeOK
  BY PathInvariance, PTL DEF PathInv

(* Only a whole body becomes an answer, and only its sender is told "ok".  *)
THEOREM AnswersWhole == PSpec => []WholeAnswers
  BY PathInvariance, PTL DEF PathInv

(* A client waits no longer than MAX_WAIT_SECONDS, which respects the hard *)
(* cap, and no longer than it asked, except for the second of              *)
(* wait_for_grokbot_answer.                                                *)
THEOREM WaitsBounded == PSpec => []WaitBounded
  <1>1. PathInv => WaitBounded
    <2> SUFFICES ASSUME PathInv PROVE WaitBounded
      OBVIOUS
    <2>1. /\ maxWait \in 1 .. AbsoluteMaxWait /\ Unit \in Nat
          /\ reader.spent \in Nat /\ reader.timeout \in Nat /\ reader.asked \in Int
          /\ RightTimeout(reader)
      BY PathAssumption DEF PathInv, PathTypeOK
    <2>2. maxWait <= AbsoluteMaxWait
      BY <2>1, PathAssumption
    <2>3. PICK cap, most : /\ cap = maxWait * Unit /\ cap \in Int
                           /\ most = reader.asked * Unit /\ most \in Int
      BY <2>1, PathAssumption, SMTT(30)
    <2> QED BY <2>1, <2>2, <2>3 DEF RightTimeout, WaitBounded
  <1> QED BY <1>1, PathInvariance, PTL

(* A decision is noticed within one poll, or at once if it was notified.   *)
THEOREM DecisionsPrompt == PSpec => []Prompt
  BY PathInvariance, PTL DEF PathInv

(* The size limit is exact for declared and real lengths.                  *)
THEOREM LimitsExact == PSpec => LimitExact
  <1> DEFINE Large(c) == call[c].size > MaxBody \/ TooLong(call[c].length)
             Kept(c) == /\ call'[c].reply = "none"
                        /\ call'[c].at = "resolve" => ~Large(c)
             Exact(c) == /\ call'[c].reply = "too_large" => Large(c)
                         /\ Large(c) =>
                               /\ call'[c].at # "resolve"
                               /\ call'[c].reply \in {"none", "too_large",
                                        "client_disconnected", "invalid_content_length"}
             Step == \A c \in Call : call[c].at # "done" => Exact(c)
  <1>1. ASSUME PathInv, [PNext]_pvars PROVE Step
    <2> SUFFICES ASSUME NEW c \in Call, call[c].at # "done" PROVE Exact(c)
      OBVIOUS
    <2>1. /\ call[c] \in CallState /\ call[c].reply = "none"
          /\ DOMAIN call = Call
          /\ call[c].at \in {"resolve", "notify"} => call[c].got = call[c].size
          /\ call[c].at \in {"stream", "resolve", "notify"} => ~TooLong(call[c].length)
      BY <1>1 DEF PathInv, PathTypeOK, WholeAnswers, CallsInFlight
    <2>2. call[c].got <= MaxBody
      BY <2>1, PathAssumption DEF CallState
    <2>0. call[c].at \in {"resolve", "notify"} => ~Large(c)
      BY <2>1, <2>2, PathAssumption DEF CallState
    <2>4. CASE call'[c] = call[c]
      BY <2>0, <2>1, <2>4
    <2>3. ASSUME NEW d \in Call, d # c, NEW k, call' = [call EXCEPT ![d] = k]
          PROVE  Exact(c)
      BY <2>1, <2>3, <2>4
    <2>5. ASSUME NEW what, Reply(c, what)
          PROVE  call'[c].reply = what /\ call'[c].at = "done"
      <3>1. call'[c] = [Idle EXCEPT !.at = "done", !.reply = what]
        BY <2>1, <2>5 DEF Reply
      <3> QED BY <3>1 DEF Idle
    <2>6. ASSUME NEW d \in Call, NEW size \in Size, NEW length \in Length,
                 Post(d, size, length)
          PROVE  Exact(c)
      <3>1. CASE d # c
        BY <2>3, <2>6, <3>1 DEF Post
      <3>2. CASE d = c
        <4>1. call'[c] = [call[c] EXCEPT !.at = "headers", !.size = size, !.length = length]
          BY <2>1, <2>6, <3>2 DEF Post
        <4>2. call'[c].reply = "none" /\ call'[c].at = "headers"
          BY <2>1, <4>1 DEF CallState
        <4> QED BY <4>2
      <3> QED BY <3>1, <3>2
    <2>7. ASSUME NEW d \in Call, CheckLength(d) PROVE Exact(c)
      <3>1. CASE d # c
        BY <2>3, <2>7, <3>1 DEF CheckLength, Reply
      <3>2. CASE d = c /\ Reply(c, "invalid_content_length")
        BY <2>5, <3>2
      <3>3. CASE d = c /\ Reply(c, "too_large") /\ TooLong(call[c].length)
        BY <2>5, <3>3
      <3>4. CASE d = c /\ call' = [call EXCEPT ![c].at = "stream"]
        <4>1. call'[c] = [call[c] EXCEPT !.at = "stream"]
          BY <2>1, <3>4
        <4>2. call'[c].reply = "none" /\ call'[c].at = "stream"
          BY <2>1, <4>1 DEF CallState
        <4> QED BY <4>2
      <3> QED BY <2>7, <3>1, <3>2, <3>3, <3>4 DEF CheckLength
    <2>8. ASSUME NEW d \in Call, Chunk(d) PROVE Exact(c)
      <3>1. CASE d # c
        BY <2>3, <2>8, <3>1 DEF Chunk, Reply
      <3>2. ASSUME d = c, NEW n \in 1 .. call[c].size - call[c].got,
                   ~Fits(c, n), Reply(c, "too_large")
            PROVE  Exact(c)
        <4>1. call[c].got \in 0 .. MaxBody
          BY <2>1 DEF CallState
        <4>2. MaxBody \in Nat /\ Size \subseteq Nat
          BY PathAssumption
        <4>3. call[c].got \in Nat /\ call[c].size \in Nat /\ n \in Nat
          <5>1. call[c].got \in Nat
            BY <4>1, <4>2
          <5>2. call[c].size \in Size \cup {0}
            BY <2>1 DEF CallState
          <5>3. call[c].size \in Nat
            <6>1. \A s \in Size : s \in Nat
              BY <4>2
            <6> QED BY <5>2, <6>1
          <5> QED BY <3>2, <5>1, <5>3
        <4>4. n <= call[c].size - call[c].got /\ call[c].got + n > MaxBody
          BY <3>2, <4>2, <4>3 DEF Fits
        <4>5. Large(c)
          BY <4>2, <4>3, <4>4
        <4> QED BY <2>5, <3>2, <4>5
      <3>3. ASSUME d = c, NEW n \in 1 .. call[c].size - call[c].got,
                   call' = [call EXCEPT ![c].got = @ + n]
            PROVE  Exact(c)
        <4>1. call'[c] = [call[c] EXCEPT !.got = @ + n]
          BY <2>1, <3>3
        <4>2. call'[c].reply = "none" /\ call'[c].at = call[c].at
          BY <2>1, <4>1 DEF CallState
        <4>3. call[c].at = "stream"
          BY <2>8, <3>3 DEF Chunk
        <4> QED BY <4>2, <4>3
      <3> QED BY <2>8, <3>1, <3>2, <3>3 DEF Chunk
    <2>9. ASSUME NEW d \in Call, EndOfStream(d) PROVE Exact(c)
      <3>1. CASE d # c
        BY <2>3, <2>9, <3>1, PathAssumption DEF EndOfStream, Parsed, Reply
      <3>2. CASE d = c
        <4>1. ~Large(c)
          <5>1. call[c].at = "stream" /\ call[c].got = call[c].size
            BY <2>9, <3>2 DEF EndOfStream
          <5>2. ~(call[c].size > MaxBody)
            BY <2>1, <2>2, <5>1, PathAssumption DEF CallState
          <5> QED BY <2>1, <5>1, <5>2
        <4>2. CASE Reply(c, "json_object_required") \/ Reply(c, "raised")
          BY <2>5, <4>1, <4>2
        <4>3. ASSUME NEW b \in Body,
                     call' = [call EXCEPT ![c] = [@ EXCEPT !.at = "resolve", !.body = b,
                                                           !.length = NoLength]]
              PROVE  Exact(c)
          <5>1. call'[c] = [call[c] EXCEPT !.at = "resolve", !.body = b, !.length = NoLength]
            BY <2>1, <4>3
          <5>2. call'[c].reply = "none"
            BY <2>1, <5>1 DEF CallState
          <5> QED BY <4>1, <5>2
        <4> QED BY <2>9, <3>2, <4>2, <4>3, PathAssumption DEF EndOfStream, Parsed
      <3> QED BY <3>1, <3>2
    <2>10. ASSUME NEW d \in Call, Disconnect(d) PROVE Exact(c)
      <3>1. CASE d # c
        BY <2>3, <2>10, <3>1 DEF Disconnect, Reply
      <3>2. CASE d = c
        BY <2>5, <2>10, <3>2 DEF Disconnect
      <3> QED BY <3>1, <3>2
    <2>12. ASSUME NEW d \in Call, Resolve(d) PROVE Exact(c)
      <3>1. CASE d # c
        BY <2>3, <2>12, <3>1 DEF Resolve, Reply
      <3>2. CASE d = c
        <4>1. ~Large(c)
          BY <2>0, <2>12, <3>2 DEF Resolve
        <4>2. CASE \E what \in {"run_id_required", "run_id_mismatch", "expired",
                                "already_answered"} : Reply(c, what)
          BY <2>5, <4>1, <4>2
        <4>3. CASE call' = [call EXCEPT ![c].at = "notify"]
          <5>1. call'[c] = [call[c] EXCEPT !.at = "notify"]
            BY <2>1, <4>3
          <5>2. call'[c].reply = "none"
            BY <2>1, <5>1 DEF CallState
          <5> QED BY <4>1, <5>2
        <4> QED BY <2>12, <3>2, <4>2, <4>3 DEF Resolve
      <3> QED BY <3>1, <3>2
    <2>13. ASSUME NEW d \in Call, Notify(d) PROVE Exact(c)
      <3>1. CASE d # c
        BY <2>3, <2>13, <3>1 DEF Notify, Reply
      <3>2. CASE d = c
        BY <2>0, <2>5, <2>13, <3>2 DEF Notify
      <3> QED BY <3>1, <3>2
    <2>14. CASE \/ Expire \/ Read \/ Elapse \/ Wake \/ Extract \/ UNCHANGED pvars
                \/ \E kind \in {"ask", "wait"}, w \in Asked : StartWait(kind, w)
      <3>1. call' = call
        BY <2>14 DEF Expire, Read, Elapse, Wake, Extract, StartWait, pvars
      <3> QED BY <2>4, <3>1
    <2> QED BY <1>1, <2>6, <2>7, <2>8, <2>9, <2>10, <2>12, <2>13, <2>14 DEF PNext
  <1> QED BY <1>1, PathInvariance, PTL DEF PSpec, LimitExact

(* "pending" is told only of an undecided run, when the client has waited  *)
(* as long as it asked or MAX_WAIT_SECONDS.                                *)
THEOREM PendingHonest == PSpec => PendingWhenOver
  <1>1. ASSUME PathInv, [PNext]_pvars
        PROVE  told' = "pending" /\ told # "pending"
                 => /\ run.outcome = "pending"
                    /\ reader.asked * Unit <= reader.spent \/ reader.spent = maxWait * Unit
    <2> SUFFICES ASSUME told' = "pending", told # "pending"
                 PROVE  /\ run.outcome = "pending"
                        /\ \/ reader.asked * Unit <= reader.spent
                           \/ reader.spent = maxWait * Unit
      OBVIOUS
    <2>1. ASSUME told' # told PROVE Read \/ Extract
      BY <1>1, <2>1 DEF PNext, Post, CheckLength, Chunk, EndOfStream, Disconnect, Resolve,
                        Notify, Expire, StartWait, Elapse, Wake, pvars, client
    <2>2. CASE Read
      <3>1. /\ run.outcome = "pending"
            /\ reader.at = "apply" \/ reader.spent >= reader.timeout
        BY <2>2 DEF Read
      <3>2. /\ reader.spent <= reader.timeout
            /\ reader.at = "apply" => reader.spent = reader.timeout
            /\ reader.spent \in Nat /\ reader.timeout \in Nat
        BY <1>1 DEF PathInv, PathTypeOK, RightTimeout, ClientWaits
      <3>3. reader.spent = reader.timeout
        BY <3>1, <3>2
      <3> QED BY <1>1, <3>1, <3>3 DEF PathInv, RightTimeout
    <2>3. CASE Extract
      <3>1. reader.at = "text"
        BY <2>3 DEF Extract
      <3>2. run.outcome # "pending"
        BY <1>1, <3>1 DEF PathInv, ClientWaits
      <3>3. told' \in {told, run.outcome}
        BY <2>3 DEF Extract, Tell
      <3> QED BY <3>2, <3>3
    <2> QED BY <2>1, <2>2, <2>3
  <1> QED BY <1>1, PathInvariance, PTL DEF PSpec, PendingWhenOver

-----------------------------------------------------------------------------
(* The texts of a list of blocks.                                          *)

(* Every nonempty set of naturals has a least element.                     *)
LEMMA Least ==
    ASSUME NEW S \in SUBSET Nat, S # {}
    PROVE  \E m \in S : \A n \in S : m <= n
  <1>1. IsWellFoundedOn(OpToRel(<, Nat), Nat)
    BY NatLessThanWellFounded
  <1>2. PICK m \in S : \A n \in S : <<n, m>> \notin OpToRel(<, Nat)
    BY <1>1, WFMin
  <1>3. \A n \in S : ~(n < m)
    BY <1>2 DEF OpToRel
  <1> QED BY <1>3

(* A set of naturals with 0 and every successor below a bound has them all. *)
LEMMA UpTo ==
    ASSUME NEW N \in Nat, NEW S, 0 \in S,
           \A n \in 1 .. N : n - 1 \in S => n \in S
    PROVE  \A n \in 0 .. N : n \in S
  <1> SUFFICES ASSUME NEW k \in 0 .. N, k \notin S PROVE FALSE
    OBVIOUS
  <1> DEFINE T == {n \in 0 .. N : n \notin S}
  <1>1. T \in SUBSET Nat /\ T # {}
    OBVIOUS
  <1>2. PICK m \in T : \A n \in T : m <= n
    BY <1>1, Least
  <1>3. m \in 1 .. N /\ m \notin S
    OBVIOUS
  <1>4. m - 1 \in 0 .. N /\ ~(m <= m - 1)
    BY <1>3
  <1>5. m - 1 \in S
    BY <1>2, <1>4
  <1> QED BY <1>3, <1>5

(* What the loop over the blocks has collected after each of them.         *)
Collected(blocks, f, n) ==
    IF n = 0 THEN << >>
    ELSE IF blocks[n] = "text" THEN Append(f[n - 1], n) ELSE f[n - 1]

(* The positions of the texts among the first n blocks, in their order.    *)
TextsBelow(blocks, n, s) ==
    /\ s \in Seq(Nat)
    /\ \A i \in 1 .. Len(s) : s[i] \in 1 .. n /\ blocks[s[i]] = "text"
    /\ \A j \in 1 .. n : blocks[j] = "text" => \E i \in 1 .. Len(s) : s[i] = j
    /\ \A i, j \in 1 .. Len(s) : i < j => s[i] < s[j]

LEMMA OneMore ==
    ASSUME NEW blocks, NEW n \in Nat, n > 0, NEW s, TextsBelow(blocks, n - 1, s)
    PROVE  /\ blocks[n] = "text" => TextsBelow(blocks, n, Append(s, n))
           /\ blocks[n] # "text" => TextsBelow(blocks, n, s)
  <1>1. /\ s \in Seq(Nat) /\ Len(s) \in Nat
        /\ \A i \in 1 .. Len(s) : s[i] \in 1 .. n - 1 /\ blocks[s[i]] = "text"
        /\ \A j \in 1 .. n - 1 : blocks[j] = "text" => \E i \in 1 .. Len(s) : s[i] = j
        /\ \A i, j \in 1 .. Len(s) : i < j => s[i] < s[j]
    BY DEF TextsBelow
  <1>2. \A j \in 1 .. n : j \in 1 .. n - 1 \/ j = n
    OBVIOUS
  <1>3. \A j \in 1 .. n - 1 : j \in 1 .. n /\ j < n
    OBVIOUS
  <1>4. ASSUME blocks[n] # "text" PROVE TextsBelow(blocks, n, s)
    BY <1>1, <1>2, <1>3, <1>4 DEF TextsBelow
  <1>5. ASSUME blocks[n] = "text" PROVE TextsBelow(blocks, n, Append(s, n))
    <2> DEFINE t == Append(s, n)
    <2>1. /\ t \in Seq(Nat) /\ Len(t) = Len(s) + 1 /\ t[Len(s) + 1] = n
          /\ \A i \in 1 .. Len(s) : t[i] = s[i]
      BY <1>1
    <2> HIDE DEF t
    <2>2. \A i \in 1 .. Len(t) : i \in 1 .. Len(s) \/ i = Len(s) + 1
      BY <1>1, <2>1
    <2>3. \A i \in 1 .. Len(s) + 1 : i \in 1 .. Len(t)
      BY <2>1
    <2>4. \A i \in 1 .. Len(t) : t[i] \in 1 .. n /\ blocks[t[i]] = "text"
      BY <1>1, <1>3, <1>5, <2>1, <2>2
    <2>5. ASSUME NEW j \in 1 .. n, blocks[j] = "text"
          PROVE  \E i \in 1 .. Len(t) : t[i] = j
      <3>1. CASE j = n
        BY <1>1, <2>1, <2>3, <3>1
      <3>2. CASE j \in 1 .. n - 1
        <4>1. PICK i \in 1 .. Len(s) : s[i] = j
          BY <1>1, <2>5, <3>2
        <4>2. i \in 1 .. Len(t) /\ t[i] = j
          BY <1>1, <2>1, <4>1
        <4> QED BY <4>2
      <3> QED BY <1>2, <3>1, <3>2
    <2>6. ASSUME NEW i \in 1 .. Len(t), NEW j \in 1 .. Len(t), i < j PROVE t[i] < t[j]
      <3>1. i \in 1 .. Len(s)
        BY <1>1, <2>1, <2>6
      <3>2. CASE j \in 1 .. Len(s)
        BY <1>1, <2>1, <2>6, <3>1, <3>2
      <3>3. CASE j = Len(s) + 1
        BY <1>1, <1>3, <2>1, <3>1, <3>3
      <3> QED BY <2>2, <3>2, <3>3
    <2>7. TextsBelow(blocks, n, t)
      BY <2>1, <2>4, <2>5, <2>6 DEF TextsBelow
    <2> QED BY <2>7 DEF t
  <1> QED BY <1>4, <1>5
(* The function that TextBlocks means exists.                              *)
LEMMA CollectedExists ==
    ASSUME NEW blocks, NEW N \in Nat
    PROVE  \E f : f = [n \in 0 .. N |-> Collected(blocks, f, n)]
  <1> DEFINE Is(f, m) == f = [n \in 0 .. m |-> Collected(blocks, f, n)]
             S == {m \in 0 .. N : \E f : Is(f, m)}
  <1>1. 0 \in S
    <2>1. Is([n \in 0 .. 0 |-> << >>], 0)
      BY DEF Collected
    <2> QED BY <2>1
  <1>2. ASSUME NEW m \in 1 .. N, m - 1 \in S PROVE m \in S
    <2>1. PICK f : Is(f, m - 1)
      BY <1>2
    <2> DEFINE g == [n \in 0 .. m |-> IF n = m THEN Collected(blocks, f, m) ELSE f[n]]
    <2>2. \A n \in 0 .. m : n # m => n \in 0 .. m - 1
      OBVIOUS
    <2>3. \A n \in 0 .. m - 1 : f[n] = Collected(blocks, f, n) /\ n \in 0 .. m /\ n # m
      BY <2>1
    <2>4. \A n \in 0 .. m - 1 : g[n] = f[n]
      BY <2>3
    <2>5. \A n \in 0 .. m : n # 0 => n - 1 \in 0 .. m - 1
      OBVIOUS
    <2>6. \A n \in 0 .. m : Collected(blocks, g, n) = Collected(blocks, f, n)
      <3> HIDE DEF g
      <3> QED BY <2>4, <2>5 DEF Collected
    <2>7. \A n \in 0 .. m : g[n] = Collected(blocks, f, n)
      BY <2>2, <2>3
    <2>8. g = [n \in 0 .. m |-> g[n]]
      OBVIOUS
    <2> HIDE DEF g
    <2>9. Is(g, m)
      BY <2>6, <2>7, <2>8
    <2> QED BY <2>9
  <1> HIDE DEF S
  <1>3. \A n \in 0 .. N : n \in S
    BY <1>1, <1>2, UpTo
  <1>4. N \in S
    BY <1>3
  <1> QED BY <1>4 DEF S

(* TextBlocks returns the positions of the texts, in their order.          *)
LEMMA TextBlocksRight ==
    ASSUME NEW v \in Value
    PROVE  TextsBelow(v.blocks, Len(v.blocks), TextBlocks(v))
  <1> DEFINE b == v.blocks
             N == Len(b)
             upto == CHOOSE f : f = [n \in 0 .. N |-> Collected(b, f, n)]
  <1>1. N \in Nat
    BY DEF Value
  <1>2. TextBlocks(v) = upto[N]
    BY DEF TextBlocks, Collected
  <1> HIDE DEF b, N
  <1>3. upto = [n \in 0 .. N |-> Collected(b, upto, n)]
    <2>1. \E f : f = [n \in 0 .. N |-> Collected(b, f, n)]
      BY <1>1, CollectedExists
    <2> QED BY <2>1
  <1> HIDE DEF upto
  <1>4. \A n \in 0 .. N : upto[n] = Collected(b, upto, n)
    BY <1>3
  <1> DEFINE S == {n \in 0 .. N : TextsBelow(b, n, upto[n])}
  <1>5. 0 \in S
    <2>1. upto[0] = << >>
      BY <1>1, <1>4 DEF Collected
    <2>2. TextsBelow(b, 0, << >>)
      BY DEF TextsBelow
    <2> QED BY <1>1, <2>1, <2>2
  <1>6. ASSUME NEW n \in 1 .. N, n - 1 \in S PROVE n \in S
    <2>1. TextsBelow(b, n - 1, upto[n - 1])
      BY <1>6
    <2>2. upto[n] = IF b[n] = "text" THEN Append(upto[n - 1], n) ELSE upto[n - 1]
      BY <1>1, <1>4 DEF Collected
    <2>3. TextsBelow(b, n, upto[n])
      BY <1>1, <2>1, <2>2, OneMore
    <2> QED BY <1>1, <2>3
  <1> HIDE DEF S
  <1>7. N \in S
    BY <1>1, <1>5, <1>6, UpTo
  <1> QED BY <1>2, <1>7 DEF S, b, N

-----------------------------------------------------------------------------
(* The text that is told.                                                  *)

Names == {KeyOrder[i] : i \in 1 .. 6}

(* The loop: the fields before the one it looks at are of no use, and it   *)
(* ends with what it was to find.                                          *)
TextSound ==
    /\ reader.at # "done" => told = "none" /\ text.field = None
    /\ text.key \in 1 .. 7
    /\ text \in [key : Nat, field : Names \cup {None}, blocks : Seq(Nat)]
    /\ run.outcome = "pending" => text.key = 1
    /\ run.outcome = "answered" => run.answer \in Body
    /\ run.outcome # "answered" => run.answer = None
    /\ told = "answered" => run.outcome = "answered"
    /\ run.answer # None => \A i \in 1 .. text.key - 1 : ~HasText(run.answer, KeyOrder[i])
    /\ TextFirstUsable

LEMMA BodyTyped ==
    ASSUME NEW b \in Body
    PROVE  /\ b.value \in [Names -> Value] /\ DOMAIN b.value = Names
           /\ \A key \in Names : b.value[key] \in Value
           /\ "content" \in Names /\ b # None
  <1>1. b.value \in [Names -> Value] /\ b # None
    BY PathAssumption DEF Names
  <1>2. KeyOrder[3] \in Names
    BY DEF Names
  <1>3. "content" \in Names
    BY <1>2 DEF KeyOrder
  <1> QED BY <1>1, <1>3

(* A field is usable for the code exactly if it has a text.                *)
LEMMA UsableHasText ==
    ASSUME NEW b \in Body, NEW key \in Names
    PROVE  Usable(key, b.value[key]) <=> HasText(b, key)
  <1> DEFINE v == b.value[key]
             s == TextBlocks(v)
  <1>1. v \in Value
    BY BodyTyped
  <1> HIDE DEF v
  <1>2. TextsBelow(v.blocks, Len(v.blocks), s)
    BY <1>1, TextBlocksRight
  <1> HIDE DEF s
  <1>3. v.blocks \in Seq({"text", "other"}) /\ DOMAIN v.blocks = 1 .. Len(v.blocks)
    BY <1>1 DEF Value
  <1>4. s # << >> <=> \E i \in DOMAIN v.blocks : v.blocks[i] = "text"
    <2>1. s \in Seq(Nat) /\ Len(s) \in Nat /\ (s # << >> <=> Len(s) > 0)
      BY <1>2 DEF TextsBelow
    <2>2. ASSUME s # << >> PROVE \E i \in DOMAIN v.blocks : v.blocks[i] = "text"
      <3>1. 1 \in 1 .. Len(s)
        BY <2>1, <2>2
      <3>2. s[1] \in 1 .. Len(v.blocks) /\ v.blocks[s[1]] = "text"
        BY <1>2, <3>1 DEF TextsBelow
      <3> QED BY <1>3, <3>2
    <2>3. ASSUME NEW i \in DOMAIN v.blocks, v.blocks[i] = "text" PROVE s # << >>
      <3>1. \E j \in 1 .. Len(s) : s[j] = i
        BY <1>2, <1>3, <2>3 DEF TextsBelow
      <3> QED BY <2>1, <3>1
    <2> QED BY <2>2, <2>3
  <1> QED BY <1>4 DEF Usable, HasText, s, v

(* Before is the order of the loop.                                        *)
LEMMA BeforeInOrder ==
    ASSUME NEW k \in 1 .. 6
    PROVE  Before(KeyOrder[k]) \subseteq {KeyOrder[i] : i \in 1 .. k - 1}
  <1>1. CASE k = 1
    BY <1>1 DEF Before, KeyOrder
  <1>2. CASE k = 2
    BY <1>2 DEF Before, KeyOrder
  <1>3. CASE k = 3
    <2>1. 1 \in 1 .. k - 1 /\ 2 \in 1 .. k - 1
      BY <1>3
    <2> QED BY <1>3, <2>1 DEF Before, KeyOrder
  <1>4. CASE k = 4
    <2>1. 1 \in 1 .. k - 1 /\ 2 \in 1 .. k - 1 /\ 3 \in 1 .. k - 1
      BY <1>4
    <2> QED BY <1>4, <2>1 DEF Before, KeyOrder
  <1>5. CASE k = 5
    <2>1. 1 \in 1 .. k - 1 /\ 2 \in 1 .. k - 1 /\ 3 \in 1 .. k - 1 /\ 4 \in 1 .. k - 1
      BY <1>5
    <2> QED BY <1>5, <2>1 DEF Before, KeyOrder
  <1>6. CASE k = 6
    <2>1. /\ 1 \in 1 .. k - 1 /\ 2 \in 1 .. k - 1 /\ 3 \in 1 .. k - 1 /\ 4 \in 1 .. k - 1
          /\ 5 \in 1 .. k - 1
      BY <1>6
    <2> QED BY <1>6, <2>1 DEF Before, KeyOrder
  <1> QED BY <1>1, <1>2, <1>3, <1>4, <1>5, <1>6

(* The loop ends with a field that is usable after fields that are not.    *)
LEMMA FoundIsFirst ==
    ASSUME NEW b \in Body, NEW k \in 1 .. 6, HasText(b, KeyOrder[k]),
           \A i \in 1 .. k - 1 : ~HasText(b, KeyOrder[i]),
           NEW usable, usable = {key \in DOMAIN b.value : HasText(b, key)}
    PROVE  /\ usable # {} /\ KeyOrder[k] \in usable /\ KeyOrder[k] # None
           /\ Before(KeyOrder[k]) \cap usable = {}
  <1>1. KeyOrder[k] \in Names
    BY DEF Names
  <1>2. KeyOrder[k] \in usable /\ KeyOrder[k] # None
    BY <1>1, BodyTyped, PathAssumption DEF Names
  <1>3. \A key \in Before(KeyOrder[k]) : key \notin usable
    BY BeforeInOrder
  <1> QED BY <1>2, <1>3

(* One turn of the loop.                                                   *)
LEMMA ExtractSound == ASSUME PathInv, TextSound, Extract PROVE TextSound'
  <1>1. /\ reader.at = "text" /\ told = "none" /\ text.field = None
        /\ UNCHANGED <<call, run, maxWait, since>>
        /\ DOMAIN reader = DOMAIN reader' /\ run.outcome # "pending"
        /\ [reader EXCEPT !.at = "done"].at = "done"
        /\ run.outcome \in {"answered", "expired"}
    BY DEF Extract, TextSound, PathInv, ClientWaits, PathTypeOK, Tell
  <1>2. CASE (run.answer = None \/ text.key > Len(Keys)) /\ Tell /\ UNCHANGED text
    <2>1. reader'.at = "done" /\ told' = run.outcome /\ text' = text
      BY <1>1, <1>2 DEF Tell
    <2>2. ASSUME run.outcome = "answered" PROVE TextFirstUsable'
      <3> DEFINE usable == {key \in DOMAIN run.answer.value : HasText(run.answer, key)}
      <3>1. run.answer \in Body /\ run.answer # None
        BY <2>2, PathAssumption DEF TextSound
      <3>2. text.key = 7
        BY <1>2, <3>1 DEF TextSound, Keys, KeyOrder
      <3>3. \A i \in 1 .. 6 : ~HasText(run.answer, KeyOrder[i])
        BY <3>1, <3>2 DEF TextSound
      <3>4. DOMAIN run.answer.value = Names
        BY <3>1, BodyTyped
      <3>5. usable = {}
        BY <3>3, <3>4 DEF Names
      <3>6. text.field = None /\ "content" # None
        BY <1>1, <3>1, BodyTyped, PathAssumption DEF Names
      <3> HIDE DEF usable
      <3>7. run' = run
        BY <1>1
      <3> QED BY <2>1, <3>5, <3>6, <3>7 DEF TextFirstUsable, usable
    <2>3. TextFirstUsable'
      BY <1>1, <2>1, <2>2 DEF TextFirstUsable
    <2> QED BY <1>1, <2>1, <2>3 DEF TextSound
  <1>3. ASSUME run.answer # None, text.key <= Len(Keys)
        PROVE  /\ run.outcome = "answered" /\ run.answer \in Body /\ text.key \in 1 .. 6
               /\ KeyOrder[text.key] \in Names
               /\ \A i \in 1 .. text.key - 1 : ~HasText(run.answer, KeyOrder[i])
    BY <1>3 DEF TextSound, Keys, KeyOrder, Names
  <1> DEFINE key == KeyOrder[text.key]
             v == run.answer.value[key]
  <1>4. CASE /\ run.answer # None /\ text.key <= Len(Keys) /\ Usable(key, v) /\ Tell
             /\ text' = [text EXCEPT !.field = key, !.blocks = TextBlocks(v)]
    <2>1. reader'.at = "done" /\ told' = "answered" /\ run' = run
      BY <1>1, <1>3, <1>4 DEF Tell
    <2>2. HasText(run.answer, key)
      BY <1>3, <1>4, UsableHasText
    <2>3. v \in Value
      BY <1>3, <1>4, BodyTyped
    <2>4. TextsBelow(v.blocks, Len(v.blocks), TextBlocks(v))
      BY <2>3, TextBlocksRight
    <2>5. /\ text'.key = text.key /\ text'.field = key /\ text'.blocks = TextBlocks(v)
          /\ text' \in [key : Nat, field : Names \cup {None}, blocks : Seq(Nat)]
      BY <1>3, <1>4, <2>4 DEF TextSound, TextsBelow
    <2>6. TextFirstUsable'
      <3> DEFINE usable == {k \in DOMAIN run.answer.value : HasText(run.answer, k)}
      <3>1. /\ usable # {} /\ key \in usable /\ key # None
            /\ Before(key) \cap usable = {}
        <4>1. usable = {k \in DOMAIN run.answer.value : HasText(run.answer, k)}
          OBVIOUS
        <4>2. /\ run.answer \in Body /\ text.key \in 1 .. 6
              /\ HasText(run.answer, KeyOrder[text.key])
              /\ \A i \in 1 .. text.key - 1 : ~HasText(run.answer, KeyOrder[i])
          BY <1>3, <1>4, <2>2
        <4> HIDE DEF usable
        <4> QED BY <4>1, <4>2, FoundIsFirst
      <3>2. ASSUME key = "content"
            PROVE  LET blocks == run.answer.value["content"].blocks
                       s == TextBlocks(v)
                   IN  /\ {s[i] : i \in DOMAIN s} = {i \in DOMAIN blocks : blocks[i] = "text"}
                       /\ \A i, j \in DOMAIN s : i < j => s[i] < s[j]
        <4> DEFINE s == TextBlocks(v)
        <4> HIDE DEF s
        <4>1. /\ s \in Seq(Nat)
              /\ \A i \in 1 .. Len(s) : s[i] \in 1 .. Len(v.blocks) /\ v.blocks[s[i]] = "text"
              /\ \A j \in 1 .. Len(v.blocks) :
                    v.blocks[j] = "text" => \E i \in 1 .. Len(s) : s[i] = j
              /\ \A i, j \in 1 .. Len(s) : i < j => s[i] < s[j]
          BY <2>4 DEF TextsBelow, s
        <4>2. DOMAIN s = 1 .. Len(s)
          BY <4>1
        <4>3. DOMAIN v.blocks = 1 .. Len(v.blocks)
          BY <2>3 DEF Value
        <4>4. run.answer.value["content"] = v
          BY <3>2
        <4> HIDE DEF v
        <4>5. {s[i] : i \in DOMAIN s} = {i \in DOMAIN v.blocks : v.blocks[i] = "text"}
          BY <4>1, <4>2, <4>3
        <4>6. \A i, j \in DOMAIN s : i < j => s[i] < s[j]
          BY <4>1, <4>2
        <4> QED BY <4>4, <4>5, <4>6 DEF s
      <3> HIDE DEF usable, key, v
      <3> QED BY <2>1, <2>5, <3>1, <3>2 DEF TextFirstUsable, usable
    <2> HIDE DEF key, v
    <2> QED BY <1>1, <1>3, <1>4, <2>1, <2>5, <2>6 DEF TextSound
  <1>5. CASE /\ run.answer # None /\ text.key <= Len(Keys) /\ ~Usable(key, v)
             /\ text' = [text EXCEPT !.key = @ + 1] /\ UNCHANGED <<reader, told>>
    <2>1. /\ text'.key = text.key + 1 /\ text'.field = text.field
          /\ text' \in [key : Nat, field : Names \cup {None}, blocks : Seq(Nat)]
      BY <1>3, <1>5 DEF TextSound
    <2>2. ~HasText(run.answer, KeyOrder[text.key])
      BY <1>3, <1>5, UsableHasText
    <2>3. \A i \in 1 .. text.key : i \in 1 .. text.key - 1 \/ i = text.key
      BY <1>3, <1>5
    <2>4. \A i \in 1 .. text'.key - 1 : ~HasText(run.answer, KeyOrder[i])
      BY <1>3, <1>5, <2>1, <2>2, <2>3
    <2>5. told' = "none" /\ run' = run /\ reader' = reader
      BY <1>1, <1>5
    <2>6. TextFirstUsable'
      BY <2>5 DEF TextFirstUsable
    <2>7. text'.key \in 1 .. 7
      BY <1>3, <1>5, <2>1
    <2> HIDE DEF key, v
    <2> QED BY <1>1, <1>3, <1>5, <2>1, <2>4, <2>5, <2>6, <2>7 DEF TextSound
  <1> QED BY <1>2, <1>4, <1>5 DEF Extract, Keys

LEMMA TextSoundStep == ASSUME PathInv, TextSound, [PNext]_pvars PROVE TextSound'
  <1>1. CASE Extract
    BY <1>1, ExtractSound
  (* Nothing that the text depends on changes, or the client has none yet. *)
  <1>2. CASE UNCHANGED <<run, reader, told, text>>
    BY <1>2 DEF TextSound, TextFirstUsable
  <1>3. ASSUME UNCHANGED <<run, text>>, reader.at # "done", told' = "none"
        PROVE  TextSound'
    BY <1>3 DEF TextSound, TextFirstUsable
  <1>4. ASSUME UNCHANGED <<run, text>>, reader.at # "done", told' = "pending",
               reader'.at = "done"
        PROVE  TextSound'
    BY <1>4 DEF TextSound, TextFirstUsable
  <1>5. ASSUME run.outcome = "pending", UNCHANGED <<reader, told, text>>,
               \/ run'.outcome = "answered" /\ run'.answer \in Body
               \/ run'.outcome = "expired" /\ run'.answer = None
        PROVE  TextSound'
    BY <1>5 DEF TextSound, TextFirstUsable
  <1>6. CASE Expire
    BY <1>5, <1>6 DEF Expire, client
  <1>7. ASSUME NEW c \in Call, Resolve(c) PROVE TextSound'
    <2>1. call[c].body \in Body
      BY <1>7 DEF Resolve, PathInv, CallsInFlight
    <2>2. CASE UNCHANGED run
      BY <1>2, <1>7, <2>2 DEF Resolve, client
    <2>3. CASE /\ run.outcome = "pending"
               /\ run' = [outcome |-> "answered", by |-> c, answer |-> call[c].body]
      BY <1>5, <1>7, <2>1, <2>3 DEF Resolve, client
    <2> QED BY <1>7, <2>2, <2>3 DEF Resolve
  <1>8. ASSUME NEW c \in Call, Notify(c) PROVE TextSound'
    <2>1. reader'.at = reader.at /\ UNCHANGED <<run, told, text>>
      BY <1>8 DEF Notify, PathInv, PathTypeOK
    <2> QED BY <2>1 DEF TextSound, TextFirstUsable
  <1>9. CASE Read
    <2>1. reader.at # "done" /\ UNCHANGED <<run, text>> /\ told = "none"
      BY <1>9 DEF Read, TextSound
    <2>2. told' = "none" \/ (told' = "pending" /\ reader'.at = "done")
      BY <1>9, <2>1 DEF Read, PathInv, PathTypeOK
    <2> QED BY <1>3, <1>4, <2>1, <2>2
  <1>10. ASSUME NEW kind \in {"ask", "wait"}, NEW w \in Asked, StartWait(kind, w)
         PROVE  TextSound'
    BY <1>3, <1>10 DEF StartWait, TextSound
  <1>11. CASE Elapse \/ Wake
    BY <1>3, <1>11 DEF Elapse, Wake, TextSound
  <1>12. ASSUME NEW c \in Call,
                \/ \E size \in Size, length \in Length : Post(c, size, length)
                \/ CheckLength(c) \/ Chunk(c) \/ EndOfStream(c) \/ Disconnect(c)
         PROVE  TextSound'
    BY <1>2, <1>12 DEF Post, CheckLength, Chunk, EndOfStream, Disconnect, client
  <1>13. CASE UNCHANGED pvars
    BY <1>2, <1>13 DEF pvars
  <1> QED BY <1>1, <1>6, <1>7, <1>8, <1>9, <1>10, <1>11, <1>12, <1>13 DEF PNext

LEMMA TextSoundInit == PInit => TextSound
  BY PathAssumption DEF PInit, TextSound, TextFirstUsable, NoText, NoReader

(* What a client is told is the text of the first usable field, for every  *)
(* body, and of a list all the texts in their order.                       *)
THEOREM FirstUsableTextTold == PSpec => []TextFirstUsable
  <1>1. TextSound => TextFirstUsable
    BY DEF TextSound
  <1> QED BY <1>1, TextSoundInit, TextSoundStep, PathInvariance, PTL DEF PSpec

=============================================================================
