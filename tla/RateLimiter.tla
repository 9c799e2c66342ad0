----------------------------- MODULE RateLimiter -----------------------------
(***************************************************************************)
(* The in-memory token bucket per client of src/middleware/rate-limit.ts   *)
(* and how src/index.ts mounts it.                                         *)
(*                                                                         *)
(* A token is counted in units of 1/windowMs, so that the refill rate of   *)
(* capacity / windowMs tokens per ms is Capacity units per ms and all the  *)
(* arithmetic is exact (the code's is in floating point).                  *)
(***************************************************************************)
EXTENDS Integers, SequencesExt

CONSTANTS
  Clients,      \* what clientKey returns
  Capacity,     \* requests permitted per window
  Window,       \* windowMs
  Second,       \* ms in a second, the unit of Retry-After
  MaxTracked,   \* MAX_TRACKED_IPS
  Passes,       \* how often the limiter runs for one request
  MaxTime,      \* bound on the clock
  MaxAdmitted   \* bound on the requests of a client let through

ASSUME LimiterAssumption ==
  /\ Capacity \in Nat \ {0} /\ Window \in Nat \ {0} /\ Second \in Nat \ {0}
  /\ MaxTracked \in Nat \ {0} /\ Passes \in Nat \ {0}
  /\ MaxTime \in Nat /\ MaxAdmitted \in Nat

VARIABLES
  tracked,    \* keys of the Map, least recently seen first
  tokens,     \* tokens of each client's bucket, in units; full if untracked
  refilled,   \* lastRefillMs of each client's bucket
  now,        \* Date.now()
  admitted,   \* history: requests let through since a time, of the bucket kept
  refusal     \* the last answer to each client, if it was a 429

vars == <<tracked, tokens, refilled, now, admitted, refusal>>

Token == Window
Full == Capacity * Window
NotRefused == [refused |-> FALSE, retryAt |-> 0]

Init ==
  /\ tracked = <<>>
  /\ tokens = [c \in Clients |-> Full]
  /\ refilled = [c \in Clients |-> 0]
  /\ now = 0
  /\ admitted = [c \in Clients |-> [t \in 0..MaxTime |-> 0]]
  /\ refusal = [c \in Clients |-> NotRefused]

In(c, queue) == \E i \in DOMAIN queue : queue[i] = c
IsTracked(c) == In(c, tracked)

Lower(a, b) == IF a <= b THEN a ELSE b
Higher(a, b) == IF a >= b THEN a ELSE b
CeilDiv(a, b) == (a + b - 1) \div b

\* Fault variant of Refill: nothing refills the bucket.
RefillNever(c) == IF IsTracked(c) THEN tokens[c] ELSE Full

\* What the bucket of c holds once it is refilled up to now.
Refill(c) ==
  IF IsTracked(c) THEN Lower(Full, tokens[c] + (now - refilled[c]) * Capacity)
                  ELSE Full

\* Of the Passes runs of the limiter for a request each takes a token, or
\* refuses; a refusal keeps what the runs before it took.
Taken(held) == Lower(Passes, held \div Token)
Enough(held) == Taken(held) = Passes

\* Fault variant of RetryAfter: rounded down.
RetryAfterDown(held) == ((Token - held) \div Capacity)

\* The Retry-After header, in ms: both roundings go up.
RetryAfter(held) ==
  Higher(Second, CeilDiv(CeilDiv(Token - held, Capacity), Second) * Second)

Evict(queue) == IF Len(queue) > MaxTracked THEN Tail(queue) ELSE queue

\* Fault variant of Reinsert: a bucket keeps its place in the Map.
KeepPlace(c) == IF IsTracked(c) THEN tracked ELSE Append(tracked, c)

\* Map.delete
Without(queue, c) ==
  IF In(c, queue) THEN RemoveAt(queue, CHOOSE i \in DOMAIN queue : queue[i] = c)
                  ELSE queue

Reinsert(c) == Append(Without(tracked, c), c)

\* Fault variant of Queue: a refusal does not put the bucket back.
QueueIfTaken(c, taken) ==
  IF taken > 0 THEN Evict(Reinsert(c)) ELSE Without(tracked, c)

\* Only a run of the limiter that took a token looks at the size of the Map.
Queue(c, taken) == IF taken > 0 THEN Evict(Reinsert(c)) ELSE Reinsert(c)

NoneAdmitted == [t \in 0..MaxTime |-> 0]
Counted(since) == [t \in 0..MaxTime |-> IF t <= now THEN since[t] + 1 ELSE since[t]]

Request(c) ==
  /\ admitted[c][0] < MaxAdmitted
  /\ LET held == Refill(c)
     IN /\ tokens' = [tokens EXCEPT ![c] = held - Taken(held) * Token]
        /\ refilled' = [refilled EXCEPT ![c] = now]
        /\ tracked' = Queue(c, Taken(held))
        /\ IF Enough(held)
           THEN refusal' = [refusal EXCEPT ![c] = NotRefused]
           ELSE refusal' = [refusal EXCEPT ![c] =
                  [refused |-> TRUE,
                   retryAt |-> now + RetryAfter(held - Taken(held) * Token)]]
        /\ admitted' = [d \in Clients |->
             IF d = c THEN IF Enough(held) THEN Counted(admitted[c]) ELSE admitted[c]
             ELSE IF In(d, tracked') THEN admitted[d] ELSE NoneAdmitted]
        /\ UNCHANGED now

Tick ==
  /\ now < MaxTime
  /\ now' = now + 1
  /\ UNCHANGED <<tracked, tokens, refilled, admitted, refusal>>

Next == (\E c \in Clients : Request(c)) \/ Tick

Spec == Init /\ [][Next]_vars

(***************************************************************************)
(* Properties                                                              *)
(***************************************************************************)
\* Every bucket of the limiter holds between no token and Capacity of them.
TypeOK ==
  /\ tracked \in Seq(Clients)
  /\ tokens \in [Clients -> 0..Full]
  /\ refilled \in [Clients -> 0..MaxTime]
  /\ now \in 0..MaxTime
  /\ admitted \in [Clients -> [0..MaxTime -> Nat]]
  /\ refusal \in [Clients -> [refused : BOOLEAN, retryAt : Nat]]

\* Number of requests permitted per window: in no stretch of time, wherever it
\* starts, is a client let through more often than a full bucket and the refill
\* of that time allow, counted from the time its bucket was last evicted.
WindowBound ==
  \A c \in Clients, t \in 0..now :
    admitted[c][t] * Token <= Full + Capacity * (now - t)

\* Nor is a client refused too early: a 429 means that Capacity of its own
\* requests were let through within the last window and since its bucket was
\* last evicted, whatever the requests refused in between and those of others.
RefusedOnlyOverCapacity ==
  [][\A c \in Clients :
       (refusal'[c] # refusal[c] /\ refusal'[c].refused) =>
         admitted[c][Higher(0, now - Window)] >= Capacity]_vars

\* A client that comes back when Retry-After says so is let through, also when
\* it was refused, and told so, several times before.
RetryAfterSuffices ==
  \A c \in Clients :
    (refusal[c].refused /\ now >= refusal[c].retryAt) => Enough(Refill(c))

\* The Map stays bounded although a refusal stores a bucket without evicting,
\* and holds no client twice.
TrackedBounded ==
  /\ Len(tracked) <= MaxTracked
  /\ \A i, j \in DOMAIN tracked : tracked[i] = tracked[j] => i = j

\* A bucket, and with it what its client has used up, is dropped only while all
\* that stay were used at the same time or later.
EvictsLeastRecent ==
  [][\A c, d \in Clients :
       (IsTracked(c) /\ ~In(c, tracked') /\ In(d, tracked')) =>
         refilled[c] <= refilled'[d]]_vars
=============================================================================
