------------------------- MODULE RateLimiterProofs -------------------------
(***************************************************************************)
(* The promises of the rate limiter, for every window, limit, granularity  *)
(* of the clock and number of keys.                                        *)
(***************************************************************************)
EXTENDS RateLimiterProps, TLAPS

(* x \div u seconds are the last whole ones within x ticks.                *)
LEMMA WholeSeconds ==
    ASSUME NEW x \in Nat, NEW u \in Nat \ {0}, NEW s \in Nat
    PROVE  /\ x \div u \in Nat
           /\ s * u <= x <=> s < x \div u + 1
  <1> DEFINE q == x \div u
  <1>1. q \in Nat /\ q * u <= x /\ x < q * u + u
    BY SMTT(30)
  <1>2. CASE s <= q
    <2>1. PICK d \in Nat : q = s + d
      BY <1>1, <1>2 
    <2>2. q * u = s * u + d * u /\ d * u \in Nat /\ s * u \in Nat
      BY <1>1, <2>1, SMTT(30)
    <2> QED BY <1>1, <1>2, <2>2
  <1>3. CASE s > q
    <2>1. PICK d \in Nat : s = q + 1 + d
      <3>1. s - q - 1 \in Nat /\ s = q + 1 + (s - q - 1)
        BY <1>1, <1>3
      <3> QED BY <3>1
    <2>2. s * u = q * u + u + d * u /\ d * u \in Nat /\ q * u \in Nat
      BY <1>1, <2>1, SMTT(30)
    <2> QED BY <1>1, <1>3, <2>2
  <1> QED BY <1>1, <1>2, <1>3

(* A wait within the window is at most the window.                         *)
LEMMA WithinWindow ==
    ASSUME NEW x \in Nat, NEW u \in Nat \ {0}, NEW w \in Nat, x <= w * u
    PROVE  x \div u <= w
  <1>1. w * u \in Nat /\ (w + 1) * u = w * u + u
    BY SMTT(30)
  <1>2. ~((w + 1) * u <= x)
    BY <1>1
  <1> QED BY <1>2, WholeSeconds, x \div u \in Nat

LEMMA Spans == Span \in Nat /\ (Window + 1) * Unit = Span + Unit
  BY RateAssumption, SMTT(30) DEF Span

(* _int_env clamps: whatever the environment says, the limit is natural.   *)
LEMMA LimitNatural == ASSUME NEW raw \in RawLimit PROVE IntEnv(raw, DefaultLimit) \in Nat
  BY RateAssumption DEF IntEnv

(* A bucket that has no hits and no refusal is in order.                   *)
LEMMA FreshInv ==
    ASSUME log = [k \in Bucket |-> << >>], head = [k \in Bucket |-> 1],
           told = [k \in Bucket |-> NotTold],
           limit \in Nat, apiKey \in Key \cup {NoKey}, clock \in Nat
    PROVE  LimiterInv
  <1>1. \A k \in Bucket : log[k] = << >> /\ head[k] = 1 /\ told[k] = NotTold
    OBVIOUS
  <1>2. TypeOK
    BY DEF TypeOK, NotTold, Told
  <1>3. Ordered
    BY <1>1 DEF Ordered, InOrder, NotTold
  <1>4. WindowRespected /\ RetryExact
    BY <1>1 DEF WindowRespected, RetryExact
  <1> QED BY <1>2, <1>3, <1>4 DEF LimiterInv

LEMMA InitInv == Init => LimiterInv
  BY FreshInv, LimitNatural DEF Init

LEMMA RestartInv == ASSUME LimiterInv, Restart PROVE LimiterInv'
  <1>1. /\ log' = [k \in Bucket |-> << >>] /\ head' = [k \in Bucket |-> 1]
        /\ told' = [k \in Bucket |-> NotTold] /\ clock' = clock
        /\ limit' \in Nat /\ apiKey' \in Key \cup {NoKey}
    BY LimitNatural DEF Restart, Configure
  <1>2. \A k \in Bucket : log'[k] = << >> /\ head'[k] = 1 /\ told'[k] = NotTold
    BY <1>1
  <1>3. TypeOK'
    BY <1>1 DEF LimiterInv, TypeOK, NotTold, Told
  <1>4. Ordered'
    BY <1>1, <1>2, <1>3 DEF Ordered, InOrder, NotTold, TypeOK
  <1>5. WindowRespected' /\ RetryExact'
    BY <1>2 DEF WindowRespected, RetryExact
  <1> QED BY <1>3, <1>4, <1>5 DEF LimiterInv

LEMMA TickInv == ASSUME LimiterInv, Tick PROVE LimiterInv'
  <1>1. clock' = clock + 1 /\ UNCHANGED <<log, head, limit, apiKey, told>>
    BY DEF Tick
  <1>2. TypeOK'
    BY <1>1 DEF LimiterInv, TypeOK
  <1>3. ASSUME NEW k \in Bucket
        PROVE  /\ told[k].at <= clock + 1
               /\ \A i \in 1 .. Len(log[k]) : log[k][i] <= clock + 1
               /\ \A i \in 1 .. head[k] - 1 : log[k][i] < clock + 1 - Span
    <2>1. /\ log[k] \in Seq(Nat) /\ head[k] \in 1 .. Len(log[k]) + 1
          /\ told[k].at \in Nat /\ clock \in Nat /\ Len(log[k]) \in Nat
          /\ \A i \in 1 .. Len(log[k]) : log[k][i] \in Nat
      <3>1. log[k] \in Seq(Nat) /\ told[k] \in Told /\ clock \in Nat
        BY DEF LimiterInv, TypeOK
      <3>2. head[k] \in 1 .. Len(log[k]) + 1
        BY DEF LimiterInv, Ordered, InOrder
      <3>3. Len(log[k]) \in Nat /\ \A i \in 1 .. Len(log[k]) : log[k][i] \in Nat
        BY <3>1
      <3>4. told[k].at \in Nat
        BY <3>1 DEF Told
      <3> QED BY <3>1, <3>2, <3>3, <3>4
    <2>2. /\ told[k].at <= clock
          /\ \A i \in 1 .. Len(log[k]) : log[k][i] <= clock
          /\ \A i \in 1 .. head[k] - 1 : log[k][i] < clock - Span
      BY DEF LimiterInv, Ordered, InOrder
    <2>3. ASSUME NEW i \in 1 .. Len(log[k]) PROVE log[k][i] <= clock + 1
      <3>1. log[k][i] \in Nat /\ log[k][i] <= clock
        BY <2>1, <2>2
      <3> QED BY <2>1, <3>1
    <2>4. ASSUME NEW i \in 1 .. head[k] - 1 PROVE log[k][i] < clock + 1 - Span
      <3>1. log[k][i] \in Nat /\ log[k][i] < clock - Span
        BY <2>1, <2>2
      <3> QED BY <2>1, <3>1, Spans
    <2> QED BY <2>1, <2>2, <2>3, <2>4
  <1>5. Ordered'
    <2> SUFFICES ASSUME NEW k \in Bucket PROVE InOrder(k)'
      BY DEF Ordered
    <2>1. InOrder(k)
      BY DEF LimiterInv, Ordered
    <2>2. /\ log'[k] = log[k] /\ head'[k] = head[k] /\ told'[k] = told[k]
          /\ limit' = limit /\ clock' = clock + 1
      BY <1>1
    <2>3. /\ head'[k] \in 1 .. Len(log'[k]) + 1
          /\ Len(log'[k]) + 1 - head'[k] <= limit'
          /\ told'[k].at <= clock' /\ told'[k].admitted <= Len(log'[k])
      BY <1>3, <2>1, <2>2 DEF InOrder
    <2>4. \A i \in 1 .. Len(log'[k]) : log'[k][i] <= clock'
      BY <1>3, <2>2
    <2>5. \A i, j \in 1 .. Len(log'[k]) : i <= j => log'[k][i] <= log'[k][j]
      BY <2>1, <2>2 DEF InOrder
    <2>6. \A i \in 1 .. head'[k] - 1 : log'[k][i] < clock' - Span
      <3>1. clock \in Nat /\ clock' - Span = clock + 1 - Span
        BY <2>2, Spans DEF LimiterInv, TypeOK
      <3> QED BY <1>3, <2>2, <3>1
    <2> QED BY <2>3, <2>4, <2>5, <2>6 DEF InOrder, Span
  <1>4. WindowRespected' /\ RetryExact'
    BY <1>1 DEF LimiterInv, WindowRespected, RetryExact, Full
  <1> QED BY <1>2, <1>5, <1>4 DEF LimiterInv

(* What pruning leaves: from h on, the hits in the window.                 *)
LEMMA AfterPruning ==
    ASSUME LimiterInv, NEW k \in Bucket, NEW h \in 1 .. Len(log[k]) + 1, Pruned(k, h)
    PROVE  /\ log[k] \in Seq(Nat) /\ Len(log[k]) \in Nat /\ head[k] \in 1 .. h
           /\ \A i \in 1 .. h - 1 : log[k][i] < clock - Span
           /\ \A i \in h .. Len(log[k]) : log[k][i] >= clock - Span
           /\ Len(log[k]) + 1 - h <= limit
  <1>1. /\ log[k] \in Seq(Nat) /\ Len(log[k]) \in Nat /\ clock \in Nat /\ limit \in Nat
        /\ \A i \in 1 .. Len(log[k]) : log[k][i] \in Nat
    BY DEF LimiterInv, TypeOK
  <1>2. /\ head[k] \in 1 .. Len(log[k]) + 1 /\ Len(log[k]) + 1 - head[k] <= limit
        /\ \A i, j \in 1 .. Len(log[k]) : i <= j => log[k][i] <= log[k][j]
        /\ \A i \in 1 .. head[k] - 1 : log[k][i] < clock - Span
    BY DEF LimiterInv, Ordered, InOrder
  <1>3. /\ h \in head[k] .. Len(log[k]) + 1
        /\ \A i \in head[k] .. h - 1 : log[k][i] < clock - Span
        /\ h <= Len(log[k]) => log[k][h] >= clock - Span
    BY DEF Pruned
  <1>4. \A i \in 1 .. h - 1 : log[k][i] < clock - Span
    <2> SUFFICES ASSUME NEW i \in 1 .. h - 1 PROVE log[k][i] < clock - Span
      OBVIOUS
    <2>1. i \in 1 .. head[k] - 1 \/ i \in head[k] .. h - 1
      BY <1>2, <1>3
    <2> QED BY <2>1, <1>2, <1>3
  <1>5. \A i \in h .. Len(log[k]) : log[k][i] >= clock - Span
    <2> SUFFICES ASSUME NEW i \in h .. Len(log[k]) PROVE log[k][i] >= clock - Span
      OBVIOUS
    <2>1. log[k][h] <= log[k][i] /\ log[k][h] \in Nat /\ log[k][i] \in Nat
      BY <1>1, <1>2
    <2>2. log[k][h] >= clock - Span
      BY <1>1, <1>3
    <2>3. clock - Span \in Int
      BY <1>1, Spans
    <2> DEFINE edge == clock - Span
    <2> HIDE DEF edge
    <2>4. edge \in Int /\ log[k][h] >= edge
      BY <2>2, <2>3 DEF edge
    <2>5. log[k][i] >= edge
      BY <2>1, <2>4
    <2> QED BY <2>5 DEF edge
  <1> QED BY <1>1, <1>2, <1>3, <1>4, <1>5

LEMMA AdmitInv == ASSUME LimiterInv, NEW k \in Bucket, Admit(k) PROVE LimiterInv'
  <1> DEFINE L == Len(log[k])
  <1>1. PICK h \in 1 .. L + 1 : /\ Pruned(k, h) /\ L + 1 - h < limit
                                 /\ head' = [head EXCEPT ![k] = h]
    BY DEF Admit
  <1>2. log' = [log EXCEPT ![k] = Append(@, clock)] /\ UNCHANGED <<limit, apiKey, told, clock>>
    BY DEF Admit
  <1>3. /\ log[k] \in Seq(Nat) /\ L \in Nat
        /\ \A i \in 1 .. h - 1 : log[k][i] < clock - Span
    BY <1>1, AfterPruning
  <1>4. /\ log \in [Bucket -> Seq(Nat)] /\ head \in [Bucket -> Nat] /\ clock \in Nat
        /\ limit \in Nat /\ told \in [Bucket -> Told]
    BY DEF LimiterInv, TypeOK
  <1>5. \A b \in Bucket \ {k} : log'[b] = log[b] /\ head'[b] = head[b]
    BY <1>1, <1>2, <1>4
  <1>6. /\ log'[k] = Append(log[k], clock) /\ head'[k] = h
        /\ Len(log'[k]) = L + 1 /\ log'[k][L + 1] = clock
        /\ \A i \in 1 .. L : log'[k][i] = log[k][i] /\ log[k][i] \in Nat
    BY <1>1, <1>2, <1>3, <1>4
  <1>7. TypeOK'
    <2>1. Append(log[k], clock) \in Seq(Nat)
      BY <1>3, <1>4
    <2> QED BY <1>1, <1>2, <1>4, <2>1 DEF LimiterInv, TypeOK
  <1>8. ASSUME NEW b \in Bucket PROVE InOrder(b)'
    <2>1. InOrder(b)
      BY DEF LimiterInv, Ordered
    <2>2. CASE b # k
      BY <1>2, <1>5, <2>1, <2>2 DEF InOrder, Span
    <2>3. CASE b = k
      <3>1. /\ h \in 1 .. Len(log'[k]) + 1 /\ Len(log'[k]) + 1 - h <= limit
            /\ told[k].at <= clock /\ told[k].admitted <= Len(log'[k])
        BY <1>1, <1>3, <1>4, <1>6, <2>1, <2>3 DEF InOrder, Told
      <3>2. \A i \in 1 .. Len(log'[k]) : log'[k][i] <= clock
        BY <1>3, <1>4, <1>6, <2>1, <2>3 DEF InOrder
      <3>3. ASSUME NEW i \in 1 .. Len(log'[k]), NEW j \in 1 .. Len(log'[k]), i <= j
            PROVE  log'[k][i] <= log'[k][j]
        <4>1. CASE j = L + 1
          BY <1>6, <3>2, <4>1
        <4>2. CASE j # L + 1
          <5>1. i \in 1 .. L /\ j \in 1 .. L
            BY <1>3, <1>6, <3>3, <4>2
          <5> QED BY <1>6, <2>1, <2>3, <3>3, <5>1 DEF InOrder
        <4> QED BY <4>1, <4>2
      <3>4. \A i \in 1 .. h - 1 : log'[k][i] < clock - Span
        BY <1>1, <1>3, <1>6
      <3> QED BY <1>2, <1>6, <2>3, <3>1, <3>2, <3>3, <3>4 DEF InOrder, Span
    <2> QED BY <2>2, <2>3
  <1>9. WindowRespected'
    <2> SUFFICES ASSUME NEW b \in Bucket, NEW i \in 1 .. Len(log'[b]),
                        i + limit <= Len(log'[b])
                 PROVE  log'[b][i + limit] - log'[b][i] > Span
      BY <1>2 DEF WindowRespected, Span
    <2>1. CASE b # k
      BY <1>5, <2>1 DEF LimiterInv, WindowRespected
    <2>2. CASE b = k /\ i + limit <= L
      <3>1. i \in 1 .. L /\ i + limit \in 1 .. L
        BY <1>3, <1>4, <1>6, <2>2
      <3>2. log[k][i + limit] - log[k][i] > Span
        BY <2>2, <3>1 DEF LimiterInv, WindowRespected
      <3>3. /\ log'[k][i] = log[k][i] /\ log[k][i] \in Nat
            /\ log'[k][i + limit] = log[k][i + limit] /\ log[k][i + limit] \in Nat
        BY <1>6, <3>1
      <3> QED BY <2>2, <3>2, <3>3, Spans
    <2>3. CASE b = k /\ i + limit = L + 1
      <3>1. i \in 1 .. h - 1 /\ i \in 1 .. L
        BY <1>1, <1>3, <1>4, <1>6, <2>3
      <3>2. log'[k][i] = log[k][i] /\ log[k][i] \in Nat /\ log[k][i] < clock - Span
        BY <1>3, <1>6, <3>1
      <3>3. log'[k][i + limit] = clock
        BY <1>6, <2>3
      <3> QED BY <1>4, <2>3, <3>2, <3>3, Spans
    <2> QED BY <1>3, <1>4, <1>6, <2>1, <2>2, <2>3
  <1>10. RetryExact'
    <2> SUFFICES ASSUME NEW b \in Bucket, told[b] # NotTold, NEW t \in Int
                 PROVE  Full(b, told[b].admitted, t)' <=> Full(b, told[b].admitted, t)
      <3>1. /\ told' = told /\ \A s \in 0 .. Window + 1 : s * Unit \in Int
            /\ \A b \in Bucket : told[b].at \in Nat
        BY <1>2, <1>4, RateAssumption, SMTT(30) DEF Told
      <3> QED BY <3>1 DEF LimiterInv, RetryExact
    <2>1. told[b].admitted \in Nat /\ told[b].admitted <= Len(log[b]) /\ Len(log[b]) \in Nat
      BY <1>4 DEF LimiterInv, Ordered, InOrder, Told
    <2>2. CASE b # k
      BY <1>2, <1>5, <2>2 DEF Full, Span
    <2>3. CASE b = k
      <3>1. limit > 0 /\ told[b].admitted >= limit
            => told[b].admitted - limit + 1 \in 1 .. L
        BY <1>3, <1>4, <2>1, <2>3
      <3> QED BY <1>2, <1>6, <2>3, <3>1 DEF Full, Span
    <2> QED BY <2>2, <2>3
  <1> QED BY <1>7, <1>8, <1>9, <1>10 DEF LimiterInv, Ordered

LEMMA RefuseInv == ASSUME LimiterInv, NEW k \in Bucket, Refuse(k) PROVE LimiterInv'
  <1> DEFINE L == Len(log[k])
  <1>1. PICK h \in 1 .. L + 1 :
           /\ Pruned(k, h) /\ L + 1 - h >= limit
           /\ head' = [head EXCEPT ![k] = h]
           /\ told' = [told EXCEPT ![k] = [at |-> clock, retry |-> RetryAfter(log[k][h]),
                                           admitted |-> L]]
    BY DEF Refuse
  <1>2. limit > 0 /\ UNCHANGED <<log, limit, apiKey, clock>>
    BY DEF Refuse
  <1>3. /\ log \in [Bucket -> Seq(Nat)] /\ head \in [Bucket -> Nat] /\ clock \in Nat
        /\ limit \in Nat /\ told \in [Bucket -> Told]
    BY DEF LimiterInv, TypeOK
  <1>4. /\ L \in Nat /\ L + 1 - h = limit /\ h \in 1 .. L
        /\ \A i \in 1 .. h - 1 : log[k][i] < clock - Span
        /\ log[k][h] \in Nat /\ log[k][h] <= clock /\ log[k][h] >= clock - Span
    <2>1. L \in Nat /\ L + 1 - h <= limit /\ \A i \in 1 .. h - 1 : log[k][i] < clock - Span
      BY <1>1, AfterPruning
    <2>2. L + 1 - h = limit /\ h \in 1 .. L
      <3>1. L + 1 - h >= limit /\ limit \in Nat /\ limit > 0 /\ h \in 1 .. L + 1
        BY <1>1, <1>2, <1>3
      <3> HIDE DEF L
      <3> QED BY <2>1, <3>1
    <2>3. \A i \in h .. L : log[k][i] >= clock - Span
      BY <1>1, AfterPruning
    <2>4. log[k][h] \in Nat /\ log[k][h] <= clock
      BY <1>3, <2>2 DEF LimiterInv, Ordered, InOrder
    <2> QED BY <2>1, <2>2, <2>3, <2>4
  <1> DEFINE x == log[k][h] + Span - clock
             q == x \div Unit
  <1>5. x \in Nat /\ x <= Window * Unit /\ Unit \in Nat \ {0} /\ Window \in Nat
    <2>1. Span \in Nat /\ Unit \in Nat \ {0} /\ Window \in Nat
      BY Spans, RateAssumption
    <2>2. x \in Nat /\ x <= Span
      BY <1>3, <1>4, <2>1
    <2> HIDE DEF x
    <2> QED BY <2>1, <2>2 DEF Span
  <1>6. q \in Nat /\ q <= Window /\ \A s \in Nat : s * Unit <= x <=> s < q + 1
    <2> HIDE DEF x
    <2> QED BY <1>5, WholeSeconds, WithinWindow
  <1>7. RetryAfter(log[k][h]) = q + 1
    BY <1>6 DEF RetryAfter
  <1> HIDE DEF q
  <1>8. /\ told'[k] = [at |-> clock, retry |-> q + 1, admitted |-> L] /\ head'[k] = h
        /\ \A b \in Bucket \ {k} : told'[b] = told[b] /\ head'[b] = head[b]
    BY <1>1, <1>3, <1>7
  <1>9. TypeOK'
    <2>1. told'[k] \in Told
      BY <1>3, <1>4, <1>6, <1>8 DEF Told
    <2>2. told' \in [Bucket -> Told]
      BY <1>1, <1>3, <1>8, <2>1
    <2> QED BY <1>1, <1>2, <1>3, <2>2 DEF LimiterInv, TypeOK
  <1>10. ASSUME NEW b \in Bucket PROVE InOrder(b)'
    <2>1. InOrder(b)
      BY DEF LimiterInv, Ordered
    <2>2. CASE b # k
      BY <1>2, <1>8, <2>1, <2>2 DEF InOrder, Span
    <2>3. CASE b = k
      <3>1. log'[b] = log[k] /\ head'[b] = h /\ limit' = limit /\ clock' = clock
        BY <1>2, <1>8, <2>3
      <3>2. told'[b].at = clock /\ told'[b].admitted = L
        BY <1>8, <2>3
      <3>3. h \in 1 .. L + 1 /\ L + 1 - h <= limit /\ clock <= clock /\ L <= L
        BY <1>3, <1>4
      <3> QED BY <1>4, <2>1, <2>3, <3>1, <3>2, <3>3 DEF InOrder, Span
    <2> QED BY <2>2, <2>3
  <1>11. WindowRespected'
    BY <1>2 DEF LimiterInv, WindowRespected, Span
  <1>12. RetryExact'
    <2> SUFFICES ASSUME NEW b \in Bucket, told'[b] # NotTold
                 PROVE  /\ told'[b].retry \in 1 .. Window + 1
                        /\ \A s \in 0 .. Window + 1 :
                              Full(b, told'[b].admitted, told'[b].at + s * Unit)
                                  <=> s < told'[b].retry
      BY <1>2 DEF RetryExact, Full, Span
    <2>1. CASE b # k
      BY <1>8, <2>1 DEF LimiterInv, RetryExact
    <2>2. CASE b = k
      <3>1. told'[b].retry = q + 1 /\ told'[b].admitted = L /\ told'[b].at = clock
        BY <1>8, <2>2
      <3>2. ASSUME NEW s \in Nat PROVE Full(k, L, clock + s * Unit) <=> s < q + 1
        <4>1. s * Unit \in Nat
          BY <1>5, SMTT(30)
        <4>2. log[k][h] >= (clock + s * Unit) - Span <=> s * Unit <= x
          <5> DEFINE su == s * Unit
          <5>1. su \in Nat /\ Span \in Nat /\ clock \in Nat /\ log[k][h] \in Nat
            BY <1>3, <1>4, <4>1, Spans
          <5> HIDE DEF su
          <5>2. log[k][h] >= (clock + su) - Span <=> su <= x
            BY <5>1
          <5> QED BY <5>2 DEF su
        <4>3. L >= limit /\ L - limit + 1 = h
          BY <1>3, <1>4
        <4> QED BY <1>2, <1>6, <4>2, <4>3 DEF Full
      <3>3. q + 1 \in 1 .. Window + 1 /\ 0 .. Window + 1 \subseteq Nat
        <4> HIDE DEF x
        <4>1. q \in Nat /\ q <= Window
          BY <1>6, Zenon
        <4>2. Window \in Nat
          BY <1>5
        <4> QED BY <4>1, <4>2
      <3> QED BY <2>2, <3>1, <3>2, <3>3
    <2> QED BY <2>1, <2>2
  <1> QED BY <1>9, <1>10, <1>11, <1>12 DEF LimiterInv, Ordered

-----------------------------------------------------------------------------
(* The hits are in order, windows are respected and waits are exact, for   *)
(* any limit, window and granularity of the clock.                         *)
THEOREM LimiterInvariance == Spec => []LimiterInv
  <1>1. Init => LimiterInv
    BY InitInv
  <1>2. LimiterInv /\ [Next]_rvars => LimiterInv'
    <2> SUFFICES ASSUME LimiterInv, [Next]_rvars PROVE LimiterInv'
      OBVIOUS
    <2>1. CASE UNCHANGED rvars
      BY <2>1 DEF rvars, LimiterInv, TypeOK, Ordered, InOrder, WindowRespected, RetryExact,
                  Full, Span
    <2>2. ASSUME NEW k \in Bucket, Unlimited(k) PROVE LimiterInv'
      BY <2>1, <2>2 DEF Unlimited
    <2>3. ASSUME NEW k \in Bucket, Admit(k) PROVE LimiterInv'
      BY <2>3, AdmitInv
    <2>4. ASSUME NEW k \in Bucket, Refuse(k) PROVE LimiterInv'
      BY <2>4, RefuseInv
    <2>5. CASE Restart
      BY <2>5, RestartInv
    <2>6. CASE Tick
      BY <2>6, TickInv
    <2> QED BY <2>1, <2>2, <2>3, <2>4, <2>5, <2>6 DEF Next
  <1> QED BY <1>1, <1>2, PTL DEF Spec

(* Types are kept; in particular the limit is natural, whatever text the   *)
(* environment holds.                                                      *)
THEOREM LimiterTypes == Spec => []TypeOK
  <1>1. LimiterInv => TypeOK
    BY DEF LimiterInv
  <1> QED BY <1>1, LimiterInvariance, PTL

(* No closed window holds more calls than the limit.                       *)
THEOREM WindowsRespected == Spec => []WindowRespected
  <1>1. LimiterInv => WindowRespected
    BY DEF LimiterInv
  <1> QED BY <1>1, LimiterInvariance, PTL

(* The wait a refused call is told is exact to the second.                 *)
THEOREM RetriesExact == Spec => []RetryExact
  <1>1. LimiterInv => RetryExact
    BY DEF LimiterInv
  <1> QED BY <1>1, LimiterInvariance, PTL

(* Only Refuse and Restart change what was told.                           *)
LEMMA ToldByRefuse ==
    ASSUME LimiterInv, [Next]_rvars, NEW k \in Bucket, told'[k] # told[k], told'[k] # NotTold
    PROVE  Refuse(k)
  <1>1. ~(UNCHANGED told) /\ told \in [Bucket -> Told]
    BY DEF LimiterInv, TypeOK
  <1>2. \A b \in Bucket : ~Unlimited(b) /\ ~Admit(b)
    BY <1>1 DEF Unlimited, Admit, rvars
  <1>3. ~Tick /\ ~(UNCHANGED rvars)
    BY <1>1 DEF Tick, rvars
  <1>4. ~Restart
    BY DEF Restart
  <1>5. PICK b \in Bucket : Refuse(b)
    BY <1>2, <1>3, <1>4 DEF Next
  <1>6. \A c \in Bucket \ {b} : told'[c] = told[c]
    BY <1>1, <1>5 DEF Refuse
  <1> QED BY <1>5, <1>6

(* What holds of a refusal: the window is full.                            *)
LEMMA RefusedFull ==
    ASSUME LimiterInv, NEW k \in Bucket, Refuse(k)
    PROVE  Full(k, Len(log[k]), clock)
  <1> DEFINE L == Len(log[k])
  <1>1. PICK h \in 1 .. L + 1 : Pruned(k, h) /\ L + 1 - h >= limit
    BY DEF Refuse
  <1>2. limit \in Nat /\ limit > 0
    BY DEF Refuse, LimiterInv, TypeOK
  <1>3. /\ L \in Nat /\ L + 1 - h <= limit
        /\ \A i \in h .. L : log[k][i] >= clock - Span
    BY <1>1, AfterPruning
  <1>4. L - limit + 1 = h /\ h \in h .. L /\ L >= limit
    <2> HIDE DEF L
    <2> QED BY <1>1, <1>2, <1>3
  <1> QED BY <1>2, <1>3, <1>4 DEF Full

(* No call is refused below the limit.                                     *)
THEOREM NeverRefusedEarly == Spec => RefusedAtLimit
  <1>1. LimiterInv /\ [Next]_rvars =>
          [\A k \in Bucket : told'[k] # told[k] /\ told'[k] # NotTold
                              => Full(k, Len(log[k]), clock)]_rvars
    BY ToldByRefuse, RefusedFull
  <1> QED BY <1>1, LimiterInvariance, PTL DEF Spec, RefusedAtLimit

(* Whoever waits as told, and was not overtaken, is not refused again.     *)
THEOREM RetriesAdmitted == Spec => RetryAdmitted
  <1>1. ASSUME LimiterInv, [Next]_rvars, NEW k \in Bucket,
               told[k] # NotTold, told'[k] # told[k], told'[k] # NotTold,
               told[k].admitted = Len(log[k])
        PROVE  clock < told[k].at + told[k].retry * Unit
    <2> DEFINE r == told[k].retry
               t == told[k].at + r * Unit
    <2>1. /\ r \in 1 .. Window + 1
          /\ Full(k, Len(log[k]), t) <=> r < r
      BY <1>1 DEF LimiterInv, RetryExact
    <2>2. ~Full(k, Len(log[k]), t)
      BY <2>1, RateAssumption
    <2>3. Full(k, Len(log[k]), clock)
      BY <1>1, ToldByRefuse, RefusedFull
    <2>4. /\ clock \in Nat /\ told[k].at \in Nat /\ log[k] \in Seq(Nat) /\ limit \in Nat
          /\ r * Unit \in Nat
      <3>1. r \in Nat
        BY <2>1, RateAssumption
      <3>2. r * Unit \in Nat
        BY <3>1, RateAssumption, SMTT(30)
      <3> QED BY <1>1, <3>2 DEF LimiterInv, TypeOK, Told
    <2> DEFINE o == log[k][Len(log[k]) - limit + 1]
    <2>5. /\ limit > 0 /\ Len(log[k]) >= limit /\ o >= clock - Span
          /\ ~(o >= t - Span)
      BY <2>2, <2>3 DEF Full
    <2>6. o \in Nat
      <3>1. Len(log[k]) - limit + 1 \in 1 .. Len(log[k])
        BY <2>4, <2>5
      <3> QED BY <2>4, <3>1
    <2>7. t \in Nat /\ Span \in Nat /\ clock \in Nat
      BY <2>4, Spans
    <2> HIDE DEF o, t
    <2>8. clock < t
      BY <2>5, <2>6, <2>7
    <2> QED BY <2>8 DEF t, r
  <1>2. LimiterInv /\ [Next]_rvars =>
          [\A k \in Bucket :
              /\ told[k] # NotTold /\ told'[k] # told[k] /\ told'[k] # NotTold
              /\ told[k].admitted = Len(log[k])
              => clock < told[k].at + told[k].retry * Unit]_rvars
    BY <1>1
  <1> QED BY <1>2, LimiterInvariance, PTL DEF Spec, RetryAdmitted
=============================================================================
