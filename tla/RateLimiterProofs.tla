-------------------------- MODULE RateLimiterProofs --------------------------
(***************************************************************************)
(* The limiter for every number of clients, capacity, window and size of   *)
(* the Map, and any sequence of requests and times.                        *)
(***************************************************************************)
EXTENDS RateLimiter, SequenceTheorems, TLAPS

(***************************************************************************)
(* The inductive invariant                                                 *)
(***************************************************************************)
Distinct(queue) == \A i, j \in DOMAIN queue : queue[i] = queue[j] => i = j

\* The Map is bounded, and lists its keys in the order of their last request.
Queued ==
  /\ Len(tracked) <= MaxTracked
  /\ Distinct(tracked)
  /\ \A i, j \in DOMAIN tracked : i < j => refilled[tracked[i]] <= refilled[tracked[j]]
  /\ \A c \in Clients : refilled[c] <= now

\* What was let through since a time, and what is left, is at most a full bucket
\* and the refill from that time on; a bucket that is gone has let nothing through.
Spent ==
  \A c \in Clients :
    /\ \A t \in 0..MaxTime :
         t > refilled[c] \/ ~IsTracked(c) => admitted[c][t] = 0
    /\ \A t \in 0..refilled[c] :
         IsTracked(c) =>
           admitted[c][t] * Token + tokens[c] <= Full + Capacity * (refilled[c] - t)

\* From its last request on, a client that was refused gets the missing part of a
\* token by the time it was told, and was told to wait for a second at least.
PromisedTo(c) ==
  /\ tokens[c] + (refusal[c].retryAt - refilled[c]) * Capacity >= Token
  /\ refusal[c].retryAt - refilled[c] >= Second

Promised ==
  \A c \in Clients : refusal[c].refused /\ IsTracked(c) => PromisedTo(c)

Inv == TypeOK /\ Queued /\ Spent /\ Promised

\* What was let through since a time, and what is left, is at least the refill
\* from that time on, as far as the bucket holds it, and a full bucket since it was
\* made: refusals and other clients use up nothing.
Kept ==
  \A c \in Clients : IsTracked(c) =>
    /\ admitted[c][0] * Token + tokens[c] >= Full
    /\ \A t \in 0..refilled[c] :
         admitted[c][t] * Token + tokens[c] >= Lower(Full, Capacity * (refilled[c] - t))

(***************************************************************************)
(* The Map                                                                 *)
(***************************************************************************)
\* Map.delete closes the gap and keeps the order.
LEMMA WithoutOne ==
  ASSUME NEW q \in Seq(Clients), NEW c \in Clients, In(c, q)
  PROVE  /\ Without(q, c) \in Seq(Clients)
         /\ Len(Without(q, c)) = Len(q) - 1
         /\ \E p \in 1..Len(q) :
              /\ q[p] = c
              /\ \A i \in 1..(Len(q) - 1) :
                   Without(q, c)[i] = IF i < p THEN q[i] ELSE q[i + 1]
<1> DEFINE p == CHOOSE i \in DOMAIN q : q[i] = c
<1>1. Len(q) \in Nat /\ DOMAIN q = 1..Len(q)
  BY LenProperties
<1>2. p \in 1..Len(q) /\ q[p] = c
  BY <1>1 DEF In
<1> HIDE DEF p
<1>3. \A i \in 1..Len(q) : q[i] \in Clients
  BY ElementOfSeq
<1> DEFINE front == SubSeq(q, 1, p - 1)
           back  == SubSeq(q, p + 1, Len(q))
<1>4. /\ front \in Seq(Clients)
      /\ Len(front) = p - 1
      /\ \A i \in 1..(p - 1) : front[i] = q[i]
  <2>1. /\ SubSeq(q, 1, p - 1) \in Seq(Clients)
        /\ Len(SubSeq(q, 1, p - 1)) = IF 1 <= p - 1 THEN (p - 1) - 1 + 1 ELSE 0
        /\ \A i \in 1..((p - 1) - 1 + 1) : SubSeq(q, 1, p - 1)[i] = q[1 + i - 1]
    BY <1>1, <1>2, <1>3, SubSeqProperties
  <2> HIDE DEF front
  <2> QED BY <1>1, <1>2, <2>1 DEF front
<1>5. /\ back \in Seq(Clients)
      /\ Len(back) = Len(q) - p
      /\ \A i \in 1..(Len(q) - p) : back[i] = q[p + i]
  <2>1. /\ SubSeq(q, p + 1, Len(q)) \in Seq(Clients)
        /\ Len(SubSeq(q, p + 1, Len(q))) =
             IF p + 1 <= Len(q) THEN Len(q) - (p + 1) + 1 ELSE 0
        /\ \A i \in 1..(Len(q) - (p + 1) + 1) :
             SubSeq(q, p + 1, Len(q))[i] = q[(p + 1) + i - 1]
    BY <1>1, <1>2, <1>3, SubSeqProperties
  <2>2. \A i \in 1..(Len(q) - p) : q[(p + 1) + i - 1] = q[p + i]
    <3> TAKE i \in 1..(Len(q) - p)
    <3>1. (p + 1) + i - 1 = p + i
      BY <1>1, <1>2
    <3> QED BY <3>1
  <2>3. Len(q) - (p + 1) + 1 = Len(q) - p
    BY <1>1, <1>2
  <2>5. Len(back) = Len(q) - p
    <3> DEFINE n == Len(q)
               len == Len(back)
    <3>1. n \in Nat /\ p \in 1..n /\ len = IF p + 1 <= n THEN n - (p + 1) + 1 ELSE 0
      BY <1>1, <1>2, <2>1
    <3> HIDE DEF n, len
    <3>2. len = n - p
      BY <3>1
    <3> QED BY <3>2 DEF n, len
  <2>6. \A i \in 1..(Len(q) - p) : back[i] = q[p + i]
    BY <2>1, <2>2, <2>3
  <2> QED BY <2>1, <2>5, <2>6
<1>6. Without(q, c) = front \o back
  BY DEF Without, RemoveAt, p
<1> HIDE DEF front, back
<1>7. /\ front \o back \in Seq(Clients)
      /\ Len(front \o back) = Len(front) + Len(back)
      /\ \A i \in 1..(Len(front) + Len(back)) :
           (front \o back)[i] = IF i <= Len(front) THEN front[i] ELSE back[i - Len(front)]
  BY <1>4, <1>5, ConcatProperties
<1> DEFINE all == front \o back
<1>8. /\ all \in Seq(Clients) /\ Len(all) = Len(q) - 1
      /\ \A i \in 1..(Len(q) - 1) : all[i] = IF i < p THEN front[i] ELSE back[i - (p - 1)]
  <2> HIDE DEF all
  <2>1. Len(front) + Len(back) = Len(q) - 1
    BY <1>1, <1>2, <1>4, <1>5
  <2>2. \A i \in 1..(Len(q) - 1) :
          all[i] = IF i <= p - 1 THEN front[i] ELSE back[i - (p - 1)]
    BY <1>4, <1>7, <2>1 DEF all
  <2>3. \A i \in 1..(Len(q) - 1) : i <= p - 1 <=> i < p
    BY <1>1, <1>2
  <2> QED BY <1>7, <2>1, <2>2, <2>3 DEF all
<1> HIDE DEF all
<1>9. ASSUME NEW i \in 1..(Len(q) - 1)
      PROVE  all[i] = IF i < p THEN q[i] ELSE q[i + 1]
  <2>1. CASE i < p
    <3>1. i \in 1..(p - 1)
      BY <1>1, <1>2, <2>1
    <3> QED BY <1>4, <1>8, <2>1, <3>1
  <2>2. CASE ~(i < p)
    <3>1. i - (p - 1) \in 1..(Len(q) - p) /\ p + (i - (p - 1)) = i + 1
      BY <1>1, <1>2, <2>2
    <3> QED BY <1>5, <1>8, <2>2, <3>1
  <2> QED BY <2>1, <2>2
<1> QED BY <1>2, <1>6, <1>8, <1>9 DEF all

\* The Map r after a request of c: c is last, the others stand as they stood, and
\* one that is gone stood before them all.
Requeued(r, c) ==
  /\ r \in Seq(Clients)
  /\ Len(r) \in 1..MaxTracked
  /\ r[Len(r)] = c
  /\ \A i \in 1..(Len(r) - 1) :
       r[i] # c /\ \E k \in 1..Len(tracked) : r[i] = tracked[k]
  /\ \A i, j \in 1..(Len(r) - 1) : i < j =>
       \E k, l \in 1..Len(tracked) : k < l /\ r[i] = tracked[k] /\ r[j] = tracked[l]
  /\ \A d \in Clients : (d # c /\ IsTracked(d) /\ ~In(d, r)) =>
       \A i \in 1..(Len(r) - 1) :
         \E k, l \in 1..Len(tracked) : k < l /\ d = tracked[k] /\ r[i] = tracked[l]

\* So a request changes the Map.
LEMMA QueueStep ==
  ASSUME tracked \in Seq(Clients), Len(tracked) <= MaxTracked, Distinct(tracked),
         NEW c \in Clients, NEW taken \in Nat, taken = 0 => IsTracked(c)
  PROVE  Requeued(Queue(c, taken), c)
<1> DEFINE w == Without(tracked, c)
           n == Len(tracked)
           m == Append(w, c)
<1>0. n \in Nat /\ DOMAIN tracked = 1..n /\ MaxTracked \in Nat \ {0}
  BY LenProperties, LimiterAssumption
\* w lists what is not c, at the positions f in tracked.
<1>1. /\ w \in Seq(Clients)
      /\ Len(w) = IF IsTracked(c) THEN n - 1 ELSE n
      /\ \E f \in [1..Len(w) -> 1..n] :
           /\ \A i \in 1..Len(w) : w[i] = tracked[f[i]] /\ w[i] # c
           /\ \A i, j \in 1..Len(w) : i < j => f[i] < f[j]
           /\ \A k \in 1..n : tracked[k] = c \/ \E i \in 1..Len(w) : f[i] = k
  <2>1. CASE IsTracked(c)
    <3>1. In(c, tracked)
      BY <2>1 DEF IsTracked
    <3>2. w \in Seq(Clients) /\ Len(w) = n - 1
      BY <3>1, WithoutOne
    <3>3. PICK p \in 1..n :
            /\ tracked[p] = c
            /\ \A i \in 1..(n - 1) : w[i] = IF i < p THEN tracked[i] ELSE tracked[i + 1]
      BY <3>1, WithoutOne
    <3> DEFINE f == [i \in 1..(n - 1) |-> IF i < p THEN i ELSE i + 1]
    <3>4. f \in [1..(n - 1) -> 1..n]
      BY <1>0
    <3>5. \A i \in 1..(n - 1) : w[i] = tracked[f[i]] /\ f[i] # p
      BY <1>0, <3>3
    <3>6. \A i \in 1..(n - 1) : w[i] # c
      BY <1>0, <3>3, <3>4, <3>5 DEF Distinct
    <3>7. \A i, j \in 1..(n - 1) : i < j => f[i] < f[j]
      BY <1>0
    <3>8. \A k \in 1..n : tracked[k] = c \/ \E i \in 1..(n - 1) : f[i] = k
      <4> TAKE k \in 1..n
      <4>1. CASE k < p
        <5>1. k \in 1..(n - 1) /\ f[k] = k
          BY <1>0, <4>1
        <5> QED BY <5>1
      <4>2. CASE k > p
        <5>1. k - 1 \in 1..(n - 1) /\ f[k - 1] = k
          BY <1>0, <4>2
        <5> QED BY <5>1
      <4>3. CASE k = p
        BY <3>3, <4>3
      <4> QED BY <1>0, <4>1, <4>2, <4>3
    <3> HIDE DEF f
    <3> HIDE DEF w
    <3>9. \E g \in [1..Len(w) -> 1..n] :
            /\ \A i \in 1..Len(w) : w[i] = tracked[g[i]] /\ w[i] # c
            /\ \A i, j \in 1..Len(w) : i < j => g[i] < g[j]
            /\ \A k \in 1..n : tracked[k] = c \/ \E i \in 1..Len(w) : g[i] = k
      <4>1. 1..Len(w) = 1..(n - 1)
        BY <3>2
      <4>2. f \in [1..Len(w) -> 1..n]
        BY <3>4, <4>1
      <4> WITNESS f \in [1..Len(w) -> 1..n]
      <4> QED BY <4>1, <3>5, <3>6, <3>7, <3>8
    <3> QED BY <2>1, <3>2, <3>9
  <2>2. CASE ~IsTracked(c)
    <3>1. w = tracked
      BY <2>2 DEF Without, IsTracked
    <3> DEFINE f == [i \in 1..n |-> i]
    <3>2. \A i \in 1..n : tracked[i] # c
      BY <1>0, <2>2 DEF IsTracked, In
    <3>3. /\ f \in [1..n -> 1..n]
          /\ \A i \in 1..n : f[i] = i
      BY <1>0
    <3> HIDE DEF f
    <3>4. /\ \A i \in 1..n : tracked[i] = tracked[f[i]] /\ tracked[i] # c
          /\ \A i, j \in 1..n : i < j => f[i] < f[j]
          /\ \A k \in 1..n : tracked[k] = c \/ \E i \in 1..n : f[i] = k
      BY <1>0, <3>2, <3>3
    <3> QED BY <1>0, <2>2, <3>1, <3>3, <3>4
  <2> QED BY <2>1, <2>2
<1> HIDE DEF w
<1>2. PICK f \in [1..Len(w) -> 1..n] :
        /\ \A i \in 1..Len(w) : w[i] = tracked[f[i]] /\ w[i] # c
        /\ \A i, j \in 1..Len(w) : i < j => f[i] < f[j]
        /\ \A k \in 1..n : tracked[k] = c \/ \E i \in 1..Len(w) : f[i] = k
  BY <1>1
<1>3. Len(w) \in Nat
  BY <1>1, LenProperties
<1>4. /\ m \in Seq(Clients) /\ m # <<>>
      /\ Len(m) = Len(w) + 1
      /\ \A i \in 1..Len(w) : m[i] = w[i]
      /\ m[Len(w) + 1] = c
  BY <1>1, <1>3, AppendProperties
<1> HIDE DEF m
<1>5. ASSUME NEW r, r = m, Len(m) <= MaxTracked PROVE Requeued(r, c)
  <2>1. /\ r \in Seq(Clients) /\ Len(r) = Len(w) + 1 /\ Len(r) \in 1..MaxTracked
        /\ r[Len(r)] = c
        /\ \A i \in 1..(Len(r) - 1) : i \in 1..Len(w) /\ r[i] = w[i]
    BY <1>0, <1>3, <1>4, <1>5
  <2>2. \A i \in 1..(Len(r) - 1) : r[i] # c /\ f[i] \in 1..n /\ r[i] = tracked[f[i]]
    BY <1>2, <2>1
  <2>3. \A i, j \in 1..(Len(r) - 1) : i < j => f[i] < f[j]
    BY <1>2, <2>1
  <2>4. \A d \in Clients : d # c /\ IsTracked(d) => In(d, r)
    <3> SUFFICES ASSUME NEW d \in Clients, d # c, IsTracked(d) PROVE In(d, r)
      OBVIOUS
    <3>1. PICK k \in 1..n : tracked[k] = d
      BY <1>0 DEF IsTracked, In
    <3>2. PICK i \in 1..Len(w) : f[i] = k
      BY <1>2, <3>1
    <3>3. i \in 1..Len(r) /\ r[i] = d
      BY <1>2, <1>3, <2>1, <3>1, <3>2
    <3> QED BY <2>1, <3>3, LenProperties DEF In
  <2>5. \A i, j \in 1..(Len(r) - 1) : i < j =>
          \E k, l \in 1..n : k < l /\ r[i] = tracked[k] /\ r[j] = tracked[l]
    BY <2>2, <2>3
  <2>6. \A i \in 1..(Len(r) - 1) : r[i] # c /\ \E k \in 1..n : r[i] = tracked[k]
    BY <2>2
  <2> QED BY <2>1, <2>4, <2>5, <2>6 DEF Requeued
<1>6. ASSUME NEW r, r = Tail(m), Len(m) > MaxTracked PROVE Requeued(r, c)
  <2>1. Len(w) = n /\ n = MaxTracked
    <3> DEFINE len == Len(w)
    <3>1. len = n - 1 \/ len = n
      BY <1>1
    <3>2. n \in Nat /\ MaxTracked \in Nat /\ n <= MaxTracked /\ len + 1 > MaxTracked
      BY <1>0, <1>4, <1>6
    <3> HIDE DEF len, n
    <3>3. len = n /\ n = MaxTracked
      BY <3>1, <3>2
    <3> QED BY <3>3 DEF len
  <2>2. /\ r \in Seq(Clients) /\ Len(r) = n
        /\ \A i \in 1..n : r[i] = m[i + 1]
    BY <1>0, <1>4, <1>6, <2>1, HeadTailProperties
  <2>3. /\ Len(r) \in 1..MaxTracked /\ r[Len(r)] = c
        /\ \A i \in 1..(Len(r) - 1) : i + 1 \in 1..Len(w) /\ r[i] = w[i + 1]
    BY <1>0, <1>4, <2>1, <2>2
  <2>4. \A i \in 1..(Len(r) - 1) :
          r[i] # c /\ f[i + 1] \in 1..n /\ r[i] = tracked[f[i + 1]]
    BY <1>2, <2>3
  <2>5. \A i, j \in 1..(Len(r) - 1) : i < j => f[i + 1] < f[j + 1]
    BY <1>0, <1>2, <2>1, <2>2, <2>3
  <2>6. ASSUME NEW d \in Clients, d # c, IsTracked(d), ~In(d, r),
               NEW i \in 1..(Len(r) - 1)
        PROVE  \E k, l \in 1..n : k < l /\ d = tracked[k] /\ r[i] = tracked[l]
    <3>1. PICK k \in 1..n : tracked[k] = d
      BY <1>0, <2>6 DEF IsTracked, In
    <3>2. PICK j \in 1..Len(w) : f[j] = k
      BY <1>2, <2>6, <3>1
    <3>3. j = 1
      <4> SUFFICES ASSUME j # 1 PROVE FALSE
        OBVIOUS
      <4>1. j - 1 \in 1..(Len(r) - 1) /\ (j - 1) + 1 = j
        BY <1>0, <1>3, <2>1, <2>2
      <4>2. r[j - 1] = d
        BY <1>2, <2>3, <3>1, <3>2, <4>1
      <4>3. DOMAIN r = 1..Len(r) /\ j - 1 \in 1..Len(r)
        BY <1>0, <2>2, <4>1, LenProperties
      <4> QED BY <2>6, <4>2, <4>3 DEF In
    <3>4. i + 1 \in 1..Len(w) /\ 1 \in 1..Len(w) /\ 1 < i + 1
      BY <1>0, <2>1, <2>2, <2>3
    <3>5. f[1] < f[i + 1]
      BY <1>2, <3>4
    <3> QED BY <2>4, <3>1, <3>2, <3>3, <3>5
  <2>7. \A i, j \in 1..(Len(r) - 1) : i < j =>
          \E k, l \in 1..n : k < l /\ r[i] = tracked[k] /\ r[j] = tracked[l]
    BY <2>4, <2>5
  <2>8. \A i \in 1..(Len(r) - 1) : r[i] # c /\ \E k \in 1..n : r[i] = tracked[k]
    BY <2>4
  <2> QED BY <2>2, <2>3, <2>6, <2>7, <2>8 DEF Requeued
<1>7. \/ Queue(c, taken) = m /\ Len(m) <= MaxTracked
      \/ Queue(c, taken) = Tail(m) /\ Len(m) > MaxTracked
  <2>1. Reinsert(c) = m
    BY DEF Reinsert, m, w
  <2>2. CASE taken > 0
    BY <1>0, <1>3, <1>4, <2>1, <2>2 DEF Queue, Evict
  <2>3. CASE taken = 0
    <3>1. Queue(c, taken) = m
      BY <2>1, <2>3 DEF Queue
    <3>2. Len(m) = n
      BY <1>0, <1>1, <1>4, <2>3
    <3> QED BY <1>0, <3>1, <3>2
  <2> QED BY <2>2, <2>3
<1> QED BY <1>5, <1>6, <1>7

(***************************************************************************)
(* The arithmetic of a bucket                                              *)
(***************************************************************************)
\* Rounding up loses nothing.
LEMMA CeilDivBounds ==
  ASSUME NEW a \in Int, NEW b \in Nat \ {0}, a >= 0
  PROVE  CeilDiv(a, b) \in Nat /\ CeilDiv(a, b) * b >= a
<1> DEFINE q == (a + b - 1) \div b
<1>1. q \in Int /\ q * b <= a + b - 1 /\ a + b - 1 < q * b + b
  OBVIOUS
<1>2. q \in Nat
  <2> SUFFICES ASSUME q < 0 PROVE FALSE
    BY <1>1
  <2> HIDE DEF q
  <2>1. q * b + b <= 0
    BY <1>1
  <2> QED BY <1>1, <2>1
<1> HIDE DEF q
<1>3. q * b >= a
  BY <1>1
<1> QED BY <1>2, <1>3 DEF CeilDiv, q

\* The Retry-After of a bucket short of a token is long enough to refill it, and never
\* less than a second.
LEMMA RetryAfterRefills ==
  ASSUME NEW rest \in Nat, rest < Token
  PROVE  /\ RetryAfter(rest) \in Nat /\ RetryAfter(rest) >= Second
         /\ rest + RetryAfter(rest) * Capacity >= Token
<1> DEFINE ms == CeilDiv(Token - rest, Capacity)
           up == CeilDiv(ms, Second) * Second
<1>1. /\ Token \in Nat \ {0} /\ Capacity \in Nat \ {0} /\ Second \in Nat \ {0}
      /\ Token - rest \in Int /\ Token - rest >= 0
  BY LimiterAssumption DEF Token
<1>2. ms \in Nat /\ ms * Capacity >= Token - rest
  BY <1>1, CeilDivBounds
<1> HIDE DEF ms
<1>3. CeilDiv(ms, Second) \in Nat /\ CeilDiv(ms, Second) * Second >= ms
  BY <1>1, <1>2, CeilDivBounds
<1>4. up \in Nat /\ up >= ms
  BY <1>1, <1>3
<1>5. RetryAfter(rest) = Higher(Second, up)
  BY DEF RetryAfter, ms
<1> HIDE DEF up
<1> DEFINE after == RetryAfter(rest)
<1>6. after \in Nat /\ after >= ms /\ after >= Second
  BY <1>1, <1>2, <1>4, <1>5 DEF Higher
<1> HIDE DEF after
<1>7. after * Capacity >= ms * Capacity
  BY <1>1, <1>2, <1>6
<1>8. rest + after * Capacity >= Token
  BY <1>1, <1>2, <1>6, <1>7
<1> QED BY <1>6, <1>8 DEF after

\* The runs of a request take whole tokens that are there, and stop short of
\* Passes of them only when less than a token is left.
LEMMA TakenBounds ==
  ASSUME NEW held \in Nat
  PROVE  /\ Taken(held) \in 0..Passes
         /\ Taken(held) * Token <= held
         /\ Taken(held) # Passes => held - Taken(held) * Token < Token
         /\ held >= Token => Taken(held) > 0
<1> DEFINE q == held \div Token
<1>1. Token \in Nat \ {0} /\ Passes \in Nat \ {0}
  BY LimiterAssumption DEF Token
<1>2. q \in Int /\ q * Token <= held /\ held < q * Token + Token
  BY <1>1
<1>3. Taken(held) = IF Passes <= q THEN Passes ELSE q
  BY DEF Taken, Lower
<1> HIDE DEF q
<1>4. q \in Nat
  <2> SUFFICES ASSUME q < 0 PROVE FALSE
    BY <1>2
  <2>1. q * Token + Token <= 0
    BY <1>1, <1>2
  <2> QED BY <1>1, <1>2, <2>1
<1>5. held >= Token => q > 0
  BY <1>1, <1>2, <1>4
<1>6. CASE Passes <= q
  <2>1. Passes * Token <= q * Token
    BY <1>1, <1>4, <1>6
  <2> QED BY <1>1, <1>2, <1>3, <1>4, <1>6, <2>1
<1>7. CASE ~(Passes <= q)
  <2>1. Taken(held) = q
    BY <1>3, <1>7
  <2> QED BY <1>1, <1>2, <1>4, <1>5, <1>7, <2>1
<1> QED BY <1>6, <1>7

\* A refilled bucket holds no more than a full one, and no more than the refill
\* since its last request adds; a bucket just made is full.
LEMMA RefillBounds ==
  ASSUME TypeOK, Queued, NEW c \in Clients
  PROVE  /\ Token \in Nat \ {0} /\ Capacity \in Nat \ {0} /\ Full \in Nat
         /\ Token <= Full /\ Full = Capacity * Token
         /\ tokens[c] \in 0..Full /\ refilled[c] \in 0..now /\ now \in 0..MaxTime
         /\ Refill(c) \in 0..Full
         /\ IsTracked(c) =>
              Refill(c) = Lower(Full, tokens[c] + (now - refilled[c]) * Capacity)
         /\ ~IsTracked(c) => Refill(c) = Full
<1>1. /\ Window \in Nat \ {0} /\ Capacity \in Nat \ {0} /\ MaxTime \in Nat
  BY LimiterAssumption
<1>2. Full \in Nat /\ Window <= Full
  BY <1>1 DEF Full
<1>3. tokens[c] \in 0..Full /\ refilled[c] \in 0..now /\ now \in 0..MaxTime
  BY <1>1 DEF TypeOK, Queued
<1> DEFINE more == (now - refilled[c]) * Capacity
<1>4. more \in Nat
  BY <1>1, <1>3
<1> HIDE DEF more
<1>5. Lower(Full, tokens[c] + more) \in 0..Full
  BY <1>2, <1>3, <1>4 DEF Lower
<1> QED BY <1>1, <1>2, <1>3, <1>5 DEF Token, Full, Refill, more

(***************************************************************************)
(* The steps                                                               *)
(***************************************************************************)
\* What a request does, spelled out for the proofs of the steps.
LEMMA Requests ==
  ASSUME TypeOK, Queued, NEW c \in Clients, Request(c)
  PROVE  /\ Requeued(tracked', c)
         /\ In(c, tracked')
         /\ \A d \in Clients : d # c /\ In(d, tracked') => IsTracked(d)
         /\ now' = now
         /\ refilled' = [refilled EXCEPT ![c] = now]
         /\ tokens' = [tokens EXCEPT ![c] = Refill(c) - Taken(Refill(c)) * Token]
<1> DEFINE held == Refill(c)
<1>1. held \in Nat /\ (~IsTracked(c) => held >= Token)
  BY RefillBounds
<1>2. Taken(held) \in Nat /\ (Taken(held) = 0 => IsTracked(c))
  BY <1>1, TakenBounds, LimiterAssumption
<1>3. /\ tracked' = Queue(c, Taken(held))
      /\ now' = now
      /\ refilled' = [refilled EXCEPT ![c] = now]
      /\ tokens' = [tokens EXCEPT ![c] = held - Taken(held) * Token]
  BY DEF Request
<1> HIDE DEF held
<1>4. Requeued(tracked', c)
  BY <1>2, <1>3, QueueStep DEF TypeOK, Queued
<1>5. /\ DOMAIN tracked' = 1..Len(tracked')
      /\ Len(tracked') \in Nat \ {0}
      /\ tracked'[Len(tracked')] = c
  BY <1>4, LenProperties DEF Requeued
<1>6. In(c, tracked')
  BY <1>5 DEF In
<1>7. ASSUME NEW d \in Clients, d # c, In(d, tracked') PROVE IsTracked(d)
  <2>1. PICK i \in 1..Len(tracked') : tracked'[i] = d
    BY <1>5, <1>7 DEF In
  <2>2. i \in 1..(Len(tracked') - 1)
    BY <1>5, <1>7, <2>1
  <2>3. PICK k \in 1..Len(tracked) : tracked[k] = d
    BY <1>4, <2>1, <2>2 DEF Requeued
  <2> QED BY <2>3, LenProperties DEF TypeOK, IsTracked, In
<1> QED BY <1>3, <1>4, <1>6, <1>7 DEF held

\* What a request makes of the history and of the answer to its client.
LEMMA RequestAnswers ==
  ASSUME TypeOK, Queued, NEW c \in Clients, Request(c)
  PROVE  /\ \A d \in Clients : d # c =>
              /\ admitted'[d] = IF In(d, tracked') THEN admitted[d] ELSE NoneAdmitted
              /\ refusal'[d] = refusal[d]
         /\ \/ /\ Taken(Refill(c)) = Passes
               /\ admitted'[c] = Counted(admitted[c])
               /\ refusal'[c] = NotRefused
            \/ /\ Taken(Refill(c)) # Passes
               /\ admitted'[c] = admitted[c]
               /\ refusal'[c] =
                    [refused |-> TRUE,
                     retryAt |-> now + RetryAfter(Refill(c) - Taken(Refill(c)) * Token)]
<1> DEFINE held == Refill(c)
<1>1. admitted' = [d \in Clients |->
             IF d = c THEN IF Enough(held) THEN Counted(admitted[c]) ELSE admitted[c]
             ELSE IF In(d, tracked') THEN admitted[d] ELSE NoneAdmitted]
  BY DEF Request
<1>2. IF Enough(held)
      THEN refusal' = [refusal EXCEPT ![c] = NotRefused]
      ELSE refusal' = [refusal EXCEPT ![c] =
             [refused |-> TRUE, retryAt |-> now + RetryAfter(held - Taken(held) * Token)]]
  BY DEF Request
<1> HIDE DEF held
<1>3. \A d \in Clients : d # c =>
        admitted'[d] = IF In(d, tracked') THEN admitted[d] ELSE NoneAdmitted
  BY <1>1
<1>4. admitted'[c] = IF Enough(held) THEN Counted(admitted[c]) ELSE admitted[c]
  BY <1>1
<1>5. refusal \in [Clients -> [refused : BOOLEAN, retryAt : Nat]]
  BY DEF TypeOK
<1>6. \A d \in Clients : d # c => refusal'[d] = refusal[d]
  BY <1>2, <1>5
<1>7. refusal'[c] =
        IF Enough(held) THEN NotRefused
        ELSE [refused |-> TRUE, retryAt |-> now + RetryAfter(held - Taken(held) * Token)]
  BY <1>2, <1>5
<1> QED BY <1>3, <1>4, <1>6, <1>7 DEF Enough, held

\* The bucket of the client keeps the type it had, and the time to come back is one.
LEMMA TypeStep ==
  ASSUME TypeOK, Queued, NEW c \in Clients, Request(c)
  PROVE  TypeOK'
<1> DEFINE held == Refill(c)
           rest == held - Taken(held) * Token
<1>1. held \in 0..Full /\ Full \in Nat /\ now \in 0..MaxTime /\ Token \in Nat \ {0}
  BY RefillBounds
<1>2. /\ rest \in 0..Full
      /\ Taken(held) # Passes => rest < Token
  <2> HIDE DEF held
  <2>1. Taken(held) \in 0..Passes /\ Passes \in Nat
    BY <1>1, TakenBounds, LimiterAssumption
  <2>2. Taken(held) * Token \in Nat /\ Taken(held) * Token <= held
    BY <1>1, <2>1, TakenBounds
  <2> QED BY <1>1, <2>2, TakenBounds
<1>3. tracked' \in Seq(Clients)
  BY Requests DEF Requeued
<1> HIDE DEF held, rest
<1>4. tokens' \in [Clients -> 0..Full]
  BY <1>2, Requests DEF TypeOK, held, rest
<1>5. refilled' \in [Clients -> 0..MaxTime] /\ now' \in 0..MaxTime
  BY <1>1, Requests DEF TypeOK
<1>6. refusal' \in [Clients -> [refused : BOOLEAN, retryAt : Nat]]
  <2>1. CASE Taken(held) = Passes
    <3>1. NotRefused \in [refused : BOOLEAN, retryAt : Nat]
      BY DEF NotRefused
    <3>2. refusal' = [refusal EXCEPT ![c] = NotRefused]
      BY <2>1 DEF Request, Enough, held
    <3> QED BY <3>1, <3>2 DEF TypeOK
  <2>2. CASE Taken(held) # Passes
    <3> DEFINE at == now + RetryAfter(rest)
    <3>1. rest \in Nat /\ rest < Token
      BY <1>1, <1>2, <2>2
    <3>2. at \in Nat
      BY <1>1, <3>1, RetryAfterRefills
    <3>3. refusal' = [refusal EXCEPT ![c] = [refused |-> TRUE, retryAt |-> at]]
      BY <2>2 DEF Request, Enough, held, rest
    <3> HIDE DEF at
    <3>4. [refused |-> TRUE, retryAt |-> at] \in [refused : BOOLEAN, retryAt : Nat]
      BY <3>2
    <3> QED BY <3>3, <3>4 DEF TypeOK
  <2> QED BY <2>1, <2>2
<1>7. admitted' \in [Clients -> [0..MaxTime -> Nat]]
  <2>1. admitted' = [d \in Clients |->
             IF d = c THEN IF Enough(held) THEN Counted(admitted[c]) ELSE admitted[c]
             ELSE IF In(d, tracked') THEN admitted[d] ELSE NoneAdmitted]
    BY DEF Request, held
  <2>2. NoneAdmitted \in [0..MaxTime -> Nat]
    BY DEF NoneAdmitted
  <2>3. Counted(admitted[c]) \in [0..MaxTime -> Nat]
    <3>1. admitted[c] \in [0..MaxTime -> Nat]
      BY DEF TypeOK
    <3>2. \A t \in 0..MaxTime : admitted[c][t] \in Nat
      BY <3>1
    <3>3. ASSUME NEW t \in 0..MaxTime
          PROVE  (IF t <= now THEN admitted[c][t] + 1 ELSE admitted[c][t]) \in Nat
      BY <3>2
    <3> QED BY <3>3 DEF Counted
  <2>4. \A d \in Clients : admitted[d] \in [0..MaxTime -> Nat]
    BY DEF TypeOK
  <2> QED BY <2>1, <2>2, <2>3, <2>4
<1> QED BY <1>3, <1>4, <1>5, <1>6, <1>7 DEF TypeOK

\* The Map keeps the order of the last requests.
LEMMA QueuedStep ==
  ASSUME TypeOK, Queued, NEW c \in Clients, Request(c)
  PROVE  Queued'
<1> DEFINE r == tracked'
           n == Len(r)
<1>1. Requeued(r, c)
  BY Requests
<1>2. /\ r \in Seq(Clients) /\ DOMAIN r = 1..n /\ n \in 1..MaxTracked /\ r[n] = c
      /\ MaxTracked \in Nat
  BY <1>1, LenProperties, LimiterAssumption DEF Requeued
<1>3. \A d \in Clients : refilled'[d] = IF d = c THEN now ELSE refilled[d]
  BY Requests DEF TypeOK
<1>4. now \in Nat /\ \A d \in Clients : refilled[d] \in Nat /\ refilled[d] <= now
  BY LimiterAssumption DEF TypeOK, Queued
<1>5. \A d \in Clients : refilled'[d] <= now'
  BY <1>3, <1>4, Requests
<1>6. DOMAIN tracked = 1..Len(tracked) /\ Len(tracked) \in Nat
      /\ \A k \in 1..Len(tracked) : tracked[k] \in Clients
  BY LenProperties, ElementOfSeq DEF TypeOK
<1>7. \A i \in 1..n : r[i] \in Clients
  BY <1>2, ElementOfSeq
<1>8. \A i \in 1..(n - 1) : r[i] # c
  BY <1>1 DEF Requeued
<1> HIDE DEF r, n
<1>9. ASSUME NEW i \in 1..n, NEW j \in 1..n, i < j
      PROVE  r[i] # r[j] /\ refilled'[r[i]] <= refilled'[r[j]]
  <2>1. i \in 1..(n - 1)
    BY <1>2, <1>9
  <2>2. CASE j = n
    BY <1>2, <1>3, <1>4, <1>7, <1>8, <2>1, <2>2
  <2>3. CASE j # n
    <3>1. j \in 1..(n - 1)
      BY <1>2, <2>3
    <3>2. PICK k \in 1..Len(tracked), l \in 1..Len(tracked) :
            k < l /\ r[i] = tracked[k] /\ r[j] = tracked[l]
      BY <1>1, <1>9, <2>1, <3>1 DEF Requeued, n
    <3>3. tracked[k] # tracked[l]
      BY <1>6, <3>2 DEF Queued, Distinct
    <3>4. refilled[tracked[k]] <= refilled[tracked[l]]
      BY <1>6, <3>2 DEF Queued
    <3> QED BY <1>3, <1>7, <1>8, <2>1, <3>1, <3>2, <3>3, <3>4
  <2> QED BY <2>2, <2>3
<1>10. Distinct(r)
  <2> SUFFICES ASSUME NEW i \in 1..n, NEW j \in 1..n, r[i] = r[j] PROVE i = j
    BY <1>2 DEF Distinct
  <2> QED BY <1>2, <1>9
<1>11. \A i, j \in DOMAIN r : i < j => refilled'[r[i]] <= refilled'[r[j]]
  BY <1>2, <1>9
<1>12. Len(r) <= MaxTracked
  BY <1>2 DEF n
<1> QED BY <1>5, <1>10, <1>11, <1>12 DEF Queued, r

\* What is let through now still fits a full bucket and the refill of the time.
LEMMA SpentStep ==
  ASSUME TypeOK, Queued, Spent, NEW c \in Clients, Request(c)
  PROVE  Spent'
<1> DEFINE held == Refill(c)
<1>1. /\ Token \in Nat \ {0} /\ Capacity \in Nat \ {0} /\ Full \in Nat
      /\ tokens[c] \in 0..Full /\ refilled[c] \in 0..now /\ now \in 0..MaxTime
      /\ held \in 0..Full
      /\ IsTracked(c) => held <= tokens[c] + (now - refilled[c]) * Capacity
      /\ MaxTime \in Nat
  BY RefillBounds, LimiterAssumption DEF Lower
<1>2. /\ \A d \in Clients : refilled'[d] = IF d = c THEN now ELSE refilled[d]
      /\ \A d \in Clients : d # c => tokens'[d] = tokens[d]
      /\ tokens'[c] = held - Taken(held) * Token
      /\ In(c, tracked')
      /\ \A d \in Clients : d # c /\ In(d, tracked') => IsTracked(d)
  BY Requests DEF TypeOK
<1> HIDE DEF held
<1>3. \A t \in 0..MaxTime : admitted[c][t] \in Nat
  BY DEF TypeOK
<1>4. ASSUME NEW t \in 0..now
      PROVE  admitted[c][t] * Token + held <= Full + Capacity * (now - t)
  <2> DEFINE a == admitted[c][t]
  <2>1. t \in 0..MaxTime /\ a \in Nat
    BY <1>1, <1>3
  <2>2. CASE IsTracked(c) /\ t <= refilled[c]
    <3>1. a * Token + tokens[c] <= Full + Capacity * (refilled[c] - t)
      BY <1>1, <2>1, <2>2 DEF Spent
    <3>2. Capacity * (now - t) = Capacity * (refilled[c] - t) + (now - refilled[c]) * Capacity
      BY <1>1, <2>1
    <3>3. held <= tokens[c] + (now - refilled[c]) * Capacity
      BY <1>1, <2>2
    <3> DEFINE x == a * Token
               y == Capacity * (refilled[c] - t)
               z == (now - refilled[c]) * Capacity
    <3>4. x \in Int /\ y \in Int /\ z \in Int
      BY <1>1, <2>1
    <3> HIDE DEF x, y, z
    <3>5. x + held <= Full + (y + z)
      BY <1>1, <3>1, <3>3, <3>4 DEF x, y, z
    <3> QED BY <3>2, <3>5 DEF x, y, z
  <2>3. CASE ~(IsTracked(c) /\ t <= refilled[c])
    <3>1. a = 0
      BY <1>1, <2>1, <2>3 DEF Spent
    <3>2. Capacity * (now - t) >= 0
      BY <1>1, <2>1
    <3>3. a * Token = 0
      BY <1>1, <3>1
    <3> HIDE DEF a
    <3> QED BY <1>1, <2>1, <3>2, <3>3 DEF a
  <2> QED BY <2>2, <2>3
<1>5. \A t \in 0..MaxTime : t > now => admitted'[c][t] = 0
  <2> SUFFICES ASSUME NEW t \in 0..MaxTime, t > now PROVE admitted'[c][t] = 0
    OBVIOUS
  <2>1. admitted[c][t] = 0
    BY <1>1 DEF Spent
  <2>2. Counted(admitted[c])[t] = 0
    BY <1>1, <2>1 DEF Counted
  <2> QED BY <2>1, <2>2, RequestAnswers DEF held
<1>6. ASSUME NEW t \in 0..now
      PROVE  admitted'[c][t] * Token + tokens'[c] <= Full + Capacity * (now - t)
  <2> DEFINE a == admitted[c][t]
             taken == Taken(held)
             bound == Full + Capacity * (now - t)
  <2>1. t \in 0..MaxTime /\ a \in Nat /\ bound \in Int
    BY <1>1, <1>3
  <2>2. taken \in Nat /\ taken * Token \in Nat
    BY <1>1, TakenBounds, LimiterAssumption
  <2>3. a * Token + held <= bound
    BY <1>4
  <2>4. tokens'[c] = held - taken * Token
    BY <1>2
  <2>5. CASE taken = Passes
    <3>1. admitted'[c][t] = a + 1
      <4>1. admitted'[c] = Counted(admitted[c])
        BY <2>5, RequestAnswers DEF held
      <4> QED BY <1>1, <2>1, <4>1 DEF Counted
    <3>2. taken >= 1
      BY <2>5, LimiterAssumption
    <3>3. taken * Token >= Token
      BY <1>1, <2>2, <3>2
    <3>4. (a + 1) * Token = a * Token + Token /\ a * Token \in Nat
      BY <1>1, <2>1
    <3> HIDE DEF a, taken, bound
    <3> QED BY <1>1, <2>1, <2>2, <2>3, <2>4, <3>1, <3>3, <3>4 DEF bound
  <2>6. CASE taken # Passes
    <3>1. admitted'[c][t] = a
      BY <2>6, RequestAnswers DEF held
    <3>2. a * Token \in Nat
      BY <1>1, <2>1
    <3> HIDE DEF a, taken, bound
    <3> QED BY <1>1, <2>1, <2>2, <2>3, <2>4, <3>1, <3>2 DEF bound
  <2> QED BY <2>5, <2>6
<1>7. ASSUME NEW d \in Clients, d # c
      PROVE  /\ \A t \in 0..MaxTime :
                  t > refilled'[d] \/ ~In(d, tracked') => admitted'[d][t] = 0
             /\ \A t \in 0..refilled'[d] : In(d, tracked') =>
                  admitted'[d][t] * Token + tokens'[d]
                    <= Full + Capacity * (refilled'[d] - t)
  <2>1. admitted'[d] = IF In(d, tracked') THEN admitted[d] ELSE NoneAdmitted
    BY <1>7, RequestAnswers
  <2>2. refilled'[d] = refilled[d] /\ tokens'[d] = tokens[d]
    BY <1>2, <1>7
  <2>3. \A t \in 0..MaxTime : NoneAdmitted[t] = 0
    BY DEF NoneAdmitted
  <2> QED BY <1>2, <1>7, <2>1, <2>2, <2>3 DEF Spent
<1>8. ASSUME NEW d \in Clients
      PROVE  /\ \A t \in 0..MaxTime :
                  t > refilled'[d] \/ ~In(d, tracked') => admitted'[d][t] = 0
             /\ \A t \in 0..refilled'[d] : In(d, tracked') =>
                  admitted'[d][t] * Token + tokens'[d]
                    <= Full + Capacity * (refilled'[d] - t)
  BY <1>2, <1>5, <1>6, <1>7
<1> QED BY <1>8 DEF Spent, IsTracked

\* What is promised to the client is what is missing, and other clients touch no
\* bucket but to drop it.
LEMMA PromisedStep ==
  ASSUME TypeOK, Queued, Promised, NEW c \in Clients, Request(c)
  PROVE  Promised'
<1> DEFINE held == Refill(c)
           rest == held - Taken(held) * Token
<1>1. /\ \A d \in Clients : refilled'[d] = IF d = c THEN now ELSE refilled[d]
      /\ \A d \in Clients : d # c => tokens'[d] = tokens[d]
      /\ tokens'[c] = rest
      /\ \A d \in Clients : d # c /\ In(d, tracked') => IsTracked(d)
  BY Requests DEF TypeOK
<1>2. held \in Nat /\ Token \in Nat \ {0} /\ now \in Nat
  BY RefillBounds
<1>3. ASSUME refusal'[c].refused
      PROVE  PromisedTo(c)'
  <2>1. /\ Taken(held) # Passes
        /\ refusal'[c] = [refused |-> TRUE, retryAt |-> now + RetryAfter(rest)]
    BY <1>3, RequestAnswers DEF NotRefused
  <2>2. rest \in Nat /\ rest < Token
    <3> HIDE DEF held
    <3>1. Taken(held) \in Nat /\ Taken(held) * Token <= held /\ rest < Token
      BY <1>2, <2>1, TakenBounds, LimiterAssumption
    <3>2. Taken(held) * Token \in Nat
      BY <1>2, <3>1
    <3> QED BY <1>2, <3>1, <3>2
  <2> HIDE DEF rest, held
  <2>3. /\ RetryAfter(rest) \in Nat /\ RetryAfter(rest) >= Second
        /\ rest + RetryAfter(rest) * Capacity >= Token
    BY <2>2, RetryAfterRefills
  <2>4. refusal'[c].retryAt - refilled'[c] = RetryAfter(rest)
    BY <1>1, <1>2, <2>1, <2>3
  <2> QED BY <1>1, <2>3, <2>4 DEF PromisedTo
<1> HIDE DEF rest, held
<1>4. ASSUME NEW d \in Clients, d # c, refusal'[d].refused, In(d, tracked')
      PROVE  PromisedTo(d)'
  <2>1. refusal'[d] = refusal[d]
    BY <1>4, RequestAnswers
  <2> QED BY <1>1, <1>4, <2>1 DEF Promised, PromisedTo
<1> QED BY <1>3, <1>4 DEF Promised, IsTracked

\* Time disturbs nothing: a bucket is refilled only when it is asked for.
LEMMA TickStep ==
  ASSUME Inv, Tick
  PROVE  Inv'
<1>1. now \in Nat /\ now' = now + 1 /\ now' \in 0..MaxTime
  BY LimiterAssumption DEF Inv, TypeOK, Tick
<1>2. /\ tracked' = tracked /\ tokens' = tokens /\ refilled' = refilled
      /\ admitted' = admitted /\ refusal' = refusal
  BY DEF Tick
<1>3. TypeOK'
  BY <1>1, <1>2 DEF Inv, TypeOK
<1>4. Queued'
  <2>1. \A c \in Clients : refilled[c] \in Nat /\ refilled[c] <= now
    BY LimiterAssumption DEF Inv, TypeOK, Queued
  <2>2. \A c \in Clients : refilled'[c] <= now'
    BY <1>1, <1>2, <2>1
  <2> QED BY <1>2, <2>2 DEF Inv, Queued
<1>5. Spent' /\ Promised'
  BY <1>2 DEF Inv, Spent, Promised, PromisedTo, IsTracked, In
<1> QED BY <1>3, <1>4, <1>5 DEF Inv

(***************************************************************************)
(* The theorems                                                            *)
(***************************************************************************)
\* The limiter starts with an empty Map and full buckets, and every request and
\* every moment keeps the invariant.
THEOREM Invariance == Spec => []Inv
<1>1. Init => Inv
  <2> SUFFICES ASSUME Init PROVE Inv
    OBVIOUS
  <2>1. Full \in Nat /\ MaxTime \in Nat /\ MaxTracked \in Nat
    BY LimiterAssumption DEF Full
  <2>2. tracked = <<>> /\ Len(tracked) = 0 /\ DOMAIN tracked = {} /\ now = 0
    BY DEF Init
  <2>3. tracked \in Seq(Clients)
    BY <2>2
  <2>4. TypeOK
    BY <2>1, <2>3 DEF Init, TypeOK, NotRefused
  <2>5. Queued
    BY <2>1, <2>2 DEF Init, Queued, Distinct
  <2>6. \A c \in Clients : ~IsTracked(c)
    BY <2>2 DEF IsTracked, In
  <2>7. Spent /\ Promised
    BY <2>6 DEF Init, Spent, Promised
  <2> QED BY <2>4, <2>5, <2>7 DEF Inv
<1>2. Inv /\ [Next]_vars => Inv'
  <2> SUFFICES ASSUME Inv, [Next]_vars PROVE Inv'
    OBVIOUS
  <2>1. ASSUME NEW c \in Clients, Request(c) PROVE Inv'
    BY <2>1, TypeStep, QueuedStep, SpentStep, PromisedStep DEF Inv
  <2>2. CASE Tick
    BY <2>2, TickStep
  <2>3. CASE UNCHANGED vars
    BY <2>3 DEF vars, Inv, TypeOK, Queued, Spent, Promised, PromisedTo, IsTracked, In
  <2> QED BY <2>1, <2>2, <2>3 DEF Next
<1> QED BY <1>1, <1>2, PTL DEF Spec

\* Every bucket holds between no token and Capacity of them.
THEOREM TypeCorrect == Spec => []TypeOK
<1>1. Inv => TypeOK
  BY DEF Inv
<1> QED BY <1>1, Invariance, PTL

\* The Map stays within MaxTracked keys and lists no client twice.
THEOREM Bounded == Spec => []TrackedBounded
<1>1. Inv => TrackedBounded
  BY DEF Inv, Queued, Distinct, TrackedBounded
<1> QED BY <1>1, Invariance, PTL

\* No client is let through more often than a full bucket and the refill allow,
\* in any stretch of time.
THEOREM WindowHolds == Spec => []WindowBound
<1>1. Inv => WindowBound
  <2> SUFFICES ASSUME Inv, NEW c \in Clients, NEW t \in 0..now
               PROVE  admitted[c][t] * Token <= Full + Capacity * (now - t)
    BY DEF WindowBound
  <2>1. /\ Token \in Nat \ {0} /\ Capacity \in Nat \ {0} /\ Full \in Nat
        /\ tokens[c] \in 0..Full /\ refilled[c] \in 0..now /\ now \in 0..MaxTime
        /\ MaxTime \in Nat
    BY RefillBounds, LimiterAssumption DEF Inv
  <2>2. t \in 0..MaxTime /\ admitted[c][t] \in Nat
    BY <2>1 DEF Inv, TypeOK
  <2> DEFINE a == admitted[c][t]
  <2>3. CASE IsTracked(c) /\ t <= refilled[c]
    <3>1. a * Token + tokens[c] <= Full + Capacity * (refilled[c] - t)
      BY <2>1, <2>2, <2>3 DEF Inv, Spent
    <3>2. Capacity * (refilled[c] - t) <= Capacity * (now - t)
      BY <2>1, <2>2, <2>3
    <3>3. a * Token \in Int /\ Capacity * (refilled[c] - t) \in Int
          /\ Capacity * (now - t) \in Int
      BY <2>1, <2>2
    <3> DEFINE x == a * Token
               y == Capacity * (refilled[c] - t)
               z == Capacity * (now - t)
    <3> HIDE DEF x, y, z
    <3>4. x <= Full + z
      BY <2>1, <3>1, <3>2, <3>3 DEF x, y, z
    <3> QED BY <3>4 DEF x, z
  <2>4. CASE ~(IsTracked(c) /\ t <= refilled[c])
    <3>1. a = 0
      BY <2>1, <2>2, <2>4 DEF Inv, Spent
    <3>2. a * Token = 0 /\ Capacity * (now - t) >= 0
      BY <2>1, <2>2, <3>1
    <3> HIDE DEF a
    <3> QED BY <2>1, <2>2, <3>2 DEF a
  <2> QED BY <2>3, <2>4
<1> QED BY <1>1, Invariance, PTL

\* A bucket with a token for each run of the limiter lets a request through.
LEMMA EnoughTokens ==
  ASSUME NEW held \in Nat, held >= Passes * Token
  PROVE  Enough(held)
<1> DEFINE q == held \div Token
<1>1. Token \in Nat \ {0} /\ Passes \in Nat \ {0}
  BY LimiterAssumption DEF Token
<1>2. q \in Int /\ held < q * Token + Token
  BY <1>1
<1>3. Taken(held) = IF Passes <= q THEN Passes ELSE q
  BY DEF Taken, Lower
<1> HIDE DEF q
<1>4. Passes <= q
  <2> SUFFICES ASSUME q + 1 <= Passes PROVE FALSE
    BY <1>1, <1>2
  <2>1. (q + 1) * Token <= Passes * Token /\ (q + 1) * Token = q * Token + Token
    BY <1>1, <1>2
  <2> DEFINE x == q * Token
             y == Passes * Token
  <2>2. x \in Int /\ y \in Int
    BY <1>1, <1>2
  <2>3. x + Token <= y /\ held < x + Token /\ held >= y
    BY <1>2, <2>1
  <2> HIDE DEF x, y
  <2> QED BY <1>1, <2>2, <2>3
<1> QED BY <1>3, <1>4 DEF Enough

\* What a bucket holds once its client has waited as it was told.
LEMMA Waited ==
  ASSUME Inv, NEW c \in Clients, refusal[c].refused, now >= refusal[c].retryAt
  PROVE  /\ Refill(c) \in Nat /\ Refill(c) >= Token
         /\ Refill(c) >= Lower(Full, Capacity * Second)
<1>1. /\ Token \in Nat \ {0} /\ Capacity \in Nat \ {0} /\ Full \in Nat /\ Token <= Full
      /\ tokens[c] \in 0..Full /\ refilled[c] \in 0..now /\ now \in 0..MaxTime
      /\ MaxTime \in Nat /\ Second \in Nat /\ Refill(c) \in 0..Full
      /\ IsTracked(c) =>
           Refill(c) = Lower(Full, tokens[c] + (now - refilled[c]) * Capacity)
      /\ ~IsTracked(c) => Refill(c) = Full
  BY RefillBounds, LimiterAssumption DEF Inv
<1> DEFINE at == refusal[c].retryAt
<1>2. at \in Nat /\ at <= now
  BY <1>1 DEF Inv, TypeOK
<1>3. CASE IsTracked(c)
  <2> DEFINE x == (at - refilled[c]) * Capacity
             y == (now - refilled[c]) * Capacity
             z == Capacity * Second
  <2>1. tokens[c] + x >= Token /\ at - refilled[c] >= Second
    BY <1>3 DEF Inv, Promised, PromisedTo
  <2> HIDE DEF at
  <2>2. x \in Int /\ y \in Int /\ z \in Nat /\ x <= y
    BY <1>1, <1>2
  <2>3. z <= x
    BY <1>1, <1>2, <2>1
  <2>4. Refill(c) = Lower(Full, tokens[c] + y)
    BY <1>1, <1>3
  <2> HIDE DEF x, y, z
  <2>5. Refill(c) >= Token /\ Refill(c) >= Lower(Full, z)
    BY <1>1, <2>1, <2>2, <2>3, <2>4 DEF Lower
  <2> QED BY <1>1, <2>5 DEF z
<1>4. CASE ~IsTracked(c)
  <2> DEFINE z == Capacity * Second
  <2>1. z \in Nat
    BY <1>1
  <2> HIDE DEF z
  <2>2. Refill(c) >= Lower(Full, z)
    BY <1>1, <1>4, <2>1 DEF Lower
  <2> QED BY <1>1, <1>4, <2>2 DEF z
<1> QED BY <1>3, <1>4

\* The second that Retry-After rounds up to brings a token for each run.
Paced == Passes <= Capacity /\ Passes * Window <= Capacity * Second

\* Coming back when Retry-After says so is soon enough, whatever was refused
\* before and whether or not the bucket is still there: where one limiter runs for a
\* request, and also on POST /webhook, where two do, whose 600 requests a minute
\* refill ten tokens in the second that Retry-After is at least (src/index.ts).
THEOREM RetryAfterHolds ==
  ASSUME Passes = 1 \/ Paced
  PROVE  Spec => []RetryAfterSuffices
<1>1. Inv => RetryAfterSuffices
  <2> SUFFICES ASSUME Inv, NEW c \in Clients, refusal[c].refused, now >= refusal[c].retryAt
               PROVE  Enough(Refill(c))
    BY DEF RetryAfterSuffices
  <2>1. /\ Refill(c) \in Nat /\ Refill(c) >= Token
        /\ Refill(c) >= Lower(Full, Capacity * Second)
    BY Waited
  <2>2. /\ Token \in Nat \ {0} /\ Capacity \in Nat \ {0} /\ Second \in Nat \ {0}
        /\ Passes \in Nat \ {0} /\ Window = Token /\ Full = Capacity * Token
    BY LimiterAssumption DEF Token, Full
  <2>3. CASE Passes = 1
    <3>1. Passes * Token = Token
      BY <2>2, <2>3
    <3> QED BY <2>1, <3>1, EnoughTokens
  <2>4. CASE Paced
    <3> DEFINE need == Passes * Token
               z == Capacity * Second
    <3>1. need \in Nat /\ z \in Nat /\ need <= z
      BY <2>2, <2>4 DEF Paced
    <3>2. Full \in Nat /\ need <= Full
      BY <2>2, <2>4 DEF Paced
    <3> HIDE DEF need, z
    <3>3. Lower(Full, z) >= need
      BY <3>1, <3>2 DEF Lower
    <3>4. Lower(Full, z) \in Nat
      BY <3>1, <3>2 DEF Lower
    <3>5. Refill(c) >= need
      BY <2>1, <3>1, <3>3, <3>4 DEF z
    <3> QED BY <2>1, <3>5, EnoughTokens DEF need
  <2> QED BY <2>3, <2>4
<1> QED BY <1>1, Invariance, PTL

\* The bucket a request drops was used no later than any that stays.
THEOREM EvictsLeastRecentHolds == Spec => EvictsLeastRecent
<1> DEFINE Fair ==
      \A c, d \in Clients :
        (IsTracked(c) /\ ~In(c, tracked') /\ In(d, tracked')) => refilled[c] <= refilled'[d]
<1>1. Inv /\ [Next]_vars => [Fair]_vars
  <2> SUFFICES ASSUME Inv, NEW b \in Clients, Request(b),
                      NEW c \in Clients, NEW d \in Clients,
                      IsTracked(c), ~In(c, tracked'), In(d, tracked')
               PROVE  refilled[c] <= refilled'[d]
    <3>1. Tick => Fair
      BY DEF Tick, IsTracked
    <3> QED BY <3>1 DEF Next
  <2>1. TypeOK /\ Queued
    BY DEF Inv
  <2>2. /\ Requeued(tracked', b) /\ In(b, tracked')
        /\ \A e \in Clients : refilled'[e] = IF e = b THEN now ELSE refilled[e]
    BY <2>1, Requests DEF TypeOK
  <2>3. c # b
    BY <2>2
  <2>4. CASE d = b
    BY <2>1, <2>2, <2>4 DEF Queued
  <2>5. CASE d # b
    <3>1. DOMAIN tracked' = 1..Len(tracked') /\ Len(tracked') \in Nat
      BY <2>2, LenProperties DEF Requeued
    <3>2. PICK i \in 1..Len(tracked') : tracked'[i] = d
      BY <3>1 DEF In
    <3>3. i \in 1..(Len(tracked') - 1)
      BY <2>2, <2>5, <3>1, <3>2 DEF Requeued
    <3>4. PICK k \in 1..Len(tracked), l \in 1..Len(tracked) :
            k < l /\ c = tracked[k] /\ d = tracked[l]
      BY <2>2, <2>3, <3>2, <3>3 DEF Requeued
    <3>5. DOMAIN tracked = 1..Len(tracked)
      BY <2>1, LenProperties DEF TypeOK
    <3>6. refilled[tracked[k]] <= refilled[tracked[l]]
      BY <2>1, <3>4, <3>5 DEF Queued
    <3> QED BY <2>2, <2>5, <3>4, <3>6
  <2> QED BY <2>4, <2>5
<1> QED BY <1>1, Invariance, PTL DEF Spec, EvictsLeastRecent

(***************************************************************************)
(* No early refusal, where the limiter runs once for a request             *)
(***************************************************************************)
\* What was let through, and what a refilled bucket holds, is at least the refill
\* since a time, as far as a bucket holds it.
LEMMA KeptNow ==
  ASSUME TypeOK, Queued, Spent, Kept, NEW c \in Clients, IsTracked(c), NEW t \in 0..now
  PROVE  /\ admitted[c][t] * Token + Refill(c) >= Lower(Full, Capacity * (now - t))
         /\ admitted[c][0] * Token + Refill(c) >= Full
<1> DEFINE held == Refill(c)
           a == admitted[c][t]
           more == (now - refilled[c]) * Capacity
<1>1. /\ Token \in Nat \ {0} /\ Capacity \in Nat \ {0} /\ Full \in Nat
      /\ tokens[c] \in 0..Full /\ refilled[c] \in 0..now /\ now \in 0..MaxTime
      /\ MaxTime \in Nat
      /\ held \in 0..Full /\ held = Lower(Full, tokens[c] + more)
  BY RefillBounds, LimiterAssumption
<1>2. \A s \in 0..MaxTime : admitted[c][s] \in Nat /\ admitted[c][s] * Token \in Nat
  <2>1. \A s \in 0..MaxTime : admitted[c][s] \in Nat
    BY DEF TypeOK
  <2> QED BY <1>1, <2>1
<1>3. more \in Nat
  BY <1>1
<1> HIDE DEF held
<1>4. a \in Nat /\ a * Token \in Nat /\ t \in Int
  BY <1>1, <1>2
<1>5. admitted[c][0] * Token \in Nat
  BY <1>1, <1>2
<1>6. admitted[c][0] * Token + tokens[c] >= Full
  BY DEF Kept
<1>7. admitted[c][0] * Token + held >= Full
  <2> DEFINE x == admitted[c][0] * Token
  <2> HIDE DEF x, more
  <2>1. x \in Nat /\ x + tokens[c] >= Full
    BY <1>5, <1>6 DEF x
  <2>2. x + held >= Full
    BY <1>1, <1>3, <2>1 DEF Lower
  <2> QED BY <2>2 DEF x
<1>8. a * Token + held >= Lower(Full, Capacity * (now - t))
  <2> DEFINE x == a * Token
             z == Capacity * (now - t)
  <2>1. x \in Nat /\ z \in Nat
    BY <1>1, <1>4
  <2>2. CASE t <= refilled[c]
    <3> DEFINE y == Capacity * (refilled[c] - t)
    <3>1. y \in Nat /\ z = y + more
      BY <1>1, <1>4, <2>2
    <3>2. x + tokens[c] >= Lower(Full, y)
      BY <1>1, <2>2 DEF Kept
    <3> HIDE DEF x, y, z, more
    <3>3. x + held >= Lower(Full, z)
      BY <1>1, <1>3, <2>1, <3>1, <3>2 DEF Lower
    <3> QED BY <3>3 DEF x, z
  <2>3. CASE ~(t <= refilled[c])
    <3>1. z <= more
      BY <1>1, <1>4, <2>3
    <3> HIDE DEF x, z, more
    <3>2. x + held >= Lower(Full, z)
      BY <1>1, <1>3, <2>1, <3>1 DEF Lower
    <3> QED BY <3>2 DEF x, z
  <2> QED BY <2>2, <2>3
<1> QED BY <1>7, <1>8 DEF held

\* A request that finds a token uses up just what is counted, one that does not
\* uses up nothing.
LEMMA KeptStep ==
  ASSUME Passes = 1, TypeOK, Queued, Spent, Kept, NEW c \in Clients, Request(c)
  PROVE  Kept'
<1> DEFINE held == Refill(c)
<1>1. /\ Token \in Nat \ {0} /\ Capacity \in Nat \ {0} /\ Full \in Nat
      /\ now \in 0..MaxTime /\ MaxTime \in Nat /\ 0 \in 0..now /\ held \in 0..Full
  BY RefillBounds, LimiterAssumption
<1>2. /\ \A d \in Clients : refilled'[d] = IF d = c THEN now ELSE refilled[d]
      /\ \A d \in Clients : d # c => tokens'[d] = tokens[d]
      /\ tokens'[c] = held - Taken(held) * Token
      /\ \A d \in Clients : d # c /\ In(d, tracked') => IsTracked(d)
  BY Requests DEF TypeOK
<1>3. ASSUME NEW t \in 0..now
      PROVE  /\ admitted[c][t] * Token + held >= Lower(Full, Capacity * (now - t))
             /\ admitted[c][0] * Token + held >= Full
  <2>1. CASE IsTracked(c)
    BY <2>1, KeptNow
  <2>2. CASE ~IsTracked(c)
    <3> DEFINE x == admitted[c][t] * Token
               y == admitted[c][0] * Token
               z == Capacity * (now - t)
    <3>1. admitted[c][t] \in Nat /\ admitted[c][0] \in Nat
      BY <1>1 DEF TypeOK
    <3>2. x \in Nat /\ y \in Nat /\ z \in Int
      BY <1>1, <3>1
    <3>3. held = Full
      BY <2>2, RefillBounds
    <3> HIDE DEF x, y, z, held
    <3>4. x + held >= Lower(Full, z) /\ y + held >= Full
      BY <1>1, <3>2, <3>3 DEF Lower
    <3> QED BY <3>4 DEF x, y, z
  <2> QED BY <2>1, <2>2
<1> HIDE DEF held
<1>4. ASSUME NEW t \in 0..now
      PROVE  admitted'[c][t] * Token + tokens'[c] = admitted[c][t] * Token + held
  <2> DEFINE a == admitted[c][t]
  <2>1. t \in 0..MaxTime /\ a \in Nat /\ t <= now
    BY <1>1 DEF TypeOK
  <2>2. Taken(held) \in 0..1
    BY <1>1, TakenBounds
  <2>3. CASE Taken(held) = 1
    <3>1. admitted'[c] = Counted(admitted[c])
      BY <2>3, RequestAnswers DEF held
    <3>2. admitted'[c][t] = a + 1
      BY <2>1, <3>1 DEF Counted
    <3>3. (a + 1) * Token = a * Token + Token /\ a * Token \in Nat
      BY <1>1, <2>1
    <3>4. tokens'[c] = held - Token
      BY <1>1, <1>2, <2>3
    <3> HIDE DEF a
    <3> QED BY <1>1, <3>2, <3>3, <3>4 DEF a
  <2>4. CASE Taken(held) = 0
    <3>1. admitted'[c] = admitted[c]
      <4>1. Taken(Refill(c)) # Passes
        BY <2>4 DEF held
      <4> QED BY <4>1, RequestAnswers
    <3>2. tokens'[c] = held
      BY <1>1, <1>2, <2>4
    <3> QED BY <3>1, <3>2
  <2> QED BY <2>2, <2>3, <2>4
<1>5. /\ admitted'[c][0] * Token + tokens'[c] >= Full
      /\ \A t \in 0..refilled'[c] :
           admitted'[c][t] * Token + tokens'[c] >= Lower(Full, Capacity * (refilled'[c] - t))
  BY <1>1, <1>2, <1>3, <1>4
<1>6. ASSUME NEW d \in Clients, d # c, In(d, tracked')
      PROVE  /\ admitted'[d][0] * Token + tokens'[d] >= Full
             /\ \A t \in 0..refilled'[d] :
                  admitted'[d][t] * Token + tokens'[d]
                    >= Lower(Full, Capacity * (refilled'[d] - t))
  <2>1. admitted'[d] = admitted[d]
    BY <1>6, RequestAnswers
  <2> QED BY <1>2, <1>6, <2>1 DEF Kept
<1> QED BY <1>5, <1>6 DEF Kept, IsTracked

\* Where one limiter runs for a request, as on the routes that mount only the
\* general one, a client is refused only if Capacity of its own requests were let
\* through within the last window. The webhook's two passes break this: see
\* limiter_webhook.
THEOREM RefusedOnlyOverCapacityHolds ==
  ASSUME Passes = 1
  PROVE  Spec => RefusedOnlyOverCapacity
<1> DEFINE Used(c) == admitted[c][Higher(0, now - Window)] >= Capacity
           Fair == \A c \in Clients :
                     (refusal'[c] # refusal[c] /\ refusal'[c].refused) => Used(c)
<1>1. Init => Kept
  BY DEF Init, Kept, IsTracked, In
<1>2. Inv /\ Kept /\ [Next]_vars => Kept'
  <2> SUFFICES ASSUME Inv, Kept, [Next]_vars PROVE Kept'
    OBVIOUS
  <2>1. ASSUME NEW c \in Clients, Request(c) PROVE Kept'
    BY <2>1, KeptStep DEF Inv
  <2>2. CASE Tick \/ UNCHANGED vars
    BY <2>2 DEF Tick, vars, Kept, IsTracked, In
  <2> QED BY <2>1, <2>2 DEF Next
<1>3. Inv /\ Kept /\ [Next]_vars => [Fair]_vars
  <2> SUFFICES ASSUME Inv, Kept, NEW b \in Clients, Request(b),
                      NEW c \in Clients, refusal'[c] # refusal[c], refusal'[c].refused
               PROVE  Used(c)
    <3>1. Tick => Fair
      BY DEF Tick
    <3> QED BY <3>1 DEF Next
  <2>0. TypeOK /\ Queued /\ Spent
    BY DEF Inv
  <2>1. b = c
    BY <2>0, RequestAnswers
  <2> DEFINE held == Refill(c)
             t == Higher(0, now - Window)
             a == admitted[c][t]
  <2>2. /\ Token \in Nat \ {0} /\ Capacity \in Nat \ {0} /\ Full \in Nat
        /\ Token <= Full /\ Full = Capacity * Token
        /\ now \in 0..MaxTime /\ MaxTime \in Nat /\ held \in 0..Full
        /\ ~IsTracked(c) => held = Full
        /\ Window = Token
    BY <2>0, RefillBounds, LimiterAssumption DEF Token
  <2>3. held < Token
    <3>1. Taken(held) # Passes
      <4>1. Request(c)
        BY <2>1
      <4>2. ~NotRefused.refused
        BY DEF NotRefused
      <4> QED BY <2>0, <4>1, <4>2, RequestAnswers
    <3>2. Taken(held) = 0
      BY <2>2, <3>1, TakenBounds
    <3> QED BY <2>2, <3>2, TakenBounds
  <2>4. IsTracked(c)
    BY <2>2, <2>3
  <2>5. t \in 0..now /\ 0 \in 0..now
    BY <2>2 DEF Higher
  <2>6. a * Token + held >= Full
    <3>1. CASE now < Window
      <4>1. t = 0
        BY <2>2, <3>1 DEF Higher
      <4> QED BY <2>0, <2>4, <2>5, <4>1, KeptNow
    <3>2. CASE now >= Window
      <4>1. now - t = Window
        BY <2>2, <3>2 DEF Higher
      <4>2. a * Token + held >= Lower(Full, Capacity * (now - t))
        BY <2>0, <2>4, <2>5, KeptNow
      <4>3. Lower(Full, Capacity * (now - t)) = Full
        BY <2>2, <4>1 DEF Lower
      <4> QED BY <4>2, <4>3
    <3> QED BY <2>2, <3>1, <3>2
  <2>7. a \in Nat
    <3>1. \A s \in 0..MaxTime : admitted[c][s] \in Nat
      BY <2>0 DEF TypeOK
    <3>2. t \in 0..MaxTime
      BY <2>2, <2>5
    <3> QED BY <3>1, <3>2
  <2> HIDE DEF a, held
  <2>8. a >= Capacity
    <3> SUFFICES ASSUME a <= Capacity - 1 PROVE FALSE
      BY <2>2, <2>7
    <3>1. a * Token <= (Capacity - 1) * Token /\ (Capacity - 1) * Token = Full - Token
      BY <2>2, <2>7
    <3>2. a * Token \in Nat
      BY <2>2, <2>7
    <3> QED BY <2>2, <2>3, <2>6, <3>1, <3>2
  <2> QED BY <2>8 DEF a
<1> QED BY <1>1, <1>2, <1>3, Invariance, PTL DEF Spec, RefusedOnlyOverCapacity
=============================================================================
