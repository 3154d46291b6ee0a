---------------------------- MODULE RedisClient ----------------------------
(***************************************************************************)
(* The rate limiter and the cache of src/core/redis_client.py.             *)
(*                                                                         *)
(* Redis executes each command atomically; what the module does between    *)
(* two commands is a suspension, at which other tasks, other processes and *)
(* expiry come in.  RateLimiter.is_allowed is a GET followed by a SETEX or *)
(* an INCR; TradingCache.get_or_set is a GET, the factory and a SETEX;     *)
(* flush_namespace visits the keys one by one and deletes what it saw.     *)
(* The factory is a provider call as in the usage example of the module,   *)
(* tried up to Attempts times (src/data/providers/finnhub_provider.py).    *)
(*                                                                         *)
(* Time passes in ticks: a key stored with a time to live of n is gone     *)
(* after n ticks.                                                          *)
(***************************************************************************)
EXTENDS Integers, FiniteSets

CONSTANTS
    Identifiers,   \* users or tools whose requests are limited
    Callers,       \* tasks that call is_allowed
    MaxRequests,   \* max_requests
    Window,        \* window_seconds, in ticks
    Keys,          \* cache keys of the namespace that is flushed
    Readers,       \* tasks that call get_or_set
    Ttl,           \* ttl, in ticks
    Attempts,      \* stop_after_attempt
    MaxVersion,    \* bound: how often the source of a value changes
    Forever,       \* the time to live of a key that never expires
    Nothing        \* None: what a factory may produce, and an absent value

Versions == 0 .. MaxVersion

ASSUME RedisConstants ==
    /\ IsFiniteSet(Callers)
    /\ MaxRequests \in Nat \ {0}
    /\ Window \in Nat \ {0}
    /\ Ttl \in Nat \ {0}
    /\ Attempts \in Nat \ {0}
    /\ MaxVersion \in Nat
    /\ Forever \notin Nat
    /\ Nothing \notin Versions

VARIABLES
    counter,   \* the key ratelimit:<identifier>; ttl 0 when it is absent
    caller,    \* is_allowed between its GET and its second command
    orphans,   \* identifiers whose counter INCR has created (for LimitsLift)
    admitted,  \* requests let in since the key of an identifier was created
               \* (for OvershootIsBounded)
    entry,     \* the key trading:<key>; ttl 0 when it is absent
    reader,    \* get_or_set between its GET and its SETEX
    flush,     \* flush_namespace: keys not visited yet, keys seen
    source,    \* the version of the value a factory would compute
    unwritten  \* keys not stored since the flush began (for FlushEmpties)

limiter == <<counter, caller, orphans, admitted>>
cache == <<entry, reader, flush, source, unwritten>>
vars == <<limiter, cache>>

NoCounter == [count |-> 0, ttl |-> 0]
NoEntry == [value |-> Nothing, ttl |-> 0]
NotFlushing == [busy |-> FALSE, left |-> {}, seen |-> {}]

Resting(k) == [pc |-> "idle", key |-> k, value |-> Nothing, attempt |-> 1]

Present(x) == x.ttl # 0

\* The entry or counter x one tick later, absent being what is left of it.
Aged(x, absent) == CASE x.ttl = 1 -> absent
                     [] x.ttl \in {0, Forever} -> x
                     [] OTHER -> [x EXCEPT !.ttl = @ - 1]

\* Time passes for every key.
Tick ==
    /\ counter' = [i \in Identifiers |-> Aged(counter[i], NoCounter)]
    /\ admitted' = [i \in Identifiers |->
                      IF Present(counter'[i]) THEN admitted[i] ELSE 0]
    /\ entry' = [k \in Keys |-> Aged(entry[k], NoEntry)]
    /\ UNCHANGED <<caller, orphans, reader, flush, source, unwritten>>

-----------------------------------------------------------------------------
(* RateLimiter.is_allowed *)

AtLimit(i) == counter[i].count >= MaxRequests

\* Mutant: one request more than the limit.
CheckLimitLate(c, i) ==
    /\ caller[c].pc = "idle"
    /\ counter[i].count <= MaxRequests
    /\ caller' = [caller EXCEPT ![c] =
                    [pc |-> IF Present(counter[i]) THEN "incr" ELSE "open",
                     id |-> i]]
    /\ UNCHANGED <<counter, orphans, admitted, cache>>

\* The GET.  At the limit the answer is (False, 0), and nothing changes.
CheckLimit(c, i) ==
    /\ caller[c].pc = "idle"
    /\ ~AtLimit(i)
    /\ caller' = [caller EXCEPT ![c] =
                    [pc |-> IF Present(counter[i]) THEN "incr" ELSE "open",
                     id |-> i]]
    /\ UNCHANGED <<counter, orphans, admitted, cache>>

\* Mutant: the key is stored with SET, without a time to live.
OpenWindowForGood(c) ==
    /\ caller[c].pc = "open"
    /\ counter' = [counter EXCEPT ![caller[c].id] =
                     [count |-> 1, ttl |-> Forever]]
    /\ caller' = [caller EXCEPT ![c].pc = "idle"]
    /\ orphans' = orphans \ {caller[c].id}
    /\ admitted' = [admitted EXCEPT ![caller[c].id] = @ + 1]
    /\ UNCHANGED cache

\* No key was found: SETEX, whatever others have stored meanwhile.
OpenWindow(c) ==
    /\ caller[c].pc = "open"
    /\ counter' = [counter EXCEPT ![caller[c].id] =
                     [count |-> 1, ttl |-> Window]]
    /\ caller' = [caller EXCEPT ![c].pc = "idle"]
    /\ orphans' = orphans \ {caller[c].id}
    /\ admitted' = [admitted EXCEPT ![caller[c].id] = @ + 1]
    /\ UNCHANGED cache

\* A count below the limit was found: INCR.  The key may have expired since;
\* INCR then creates one, and Redis gives it no time to live.
Admit(c) ==
    /\ caller[c].pc = "incr"
    /\ counter' = [counter EXCEPT ![caller[c].id] =
                     [count |-> @.count + 1,
                      ttl |-> IF Present(@) THEN @.ttl ELSE Forever]]
    /\ caller' = [caller EXCEPT ![c].pc = "idle"]
    /\ orphans' = orphans \cup {i \in {caller[c].id} : ~Present(counter[i])}
    /\ admitted' = [admitted EXCEPT ![caller[c].id] = @ + 1]
    /\ UNCHANGED cache

-----------------------------------------------------------------------------
(* TradingCache *)

\* Mutant: SET instead of SETEX.
StoredForGood(k, v) ==
    /\ entry' = [entry EXCEPT ![k] = [value |-> v, ttl |-> Forever]]
    /\ unwritten' = unwritten \ {k}

\* What cache.set and get_or_set store under a key.
Stored(k, v) == /\ entry' = [entry EXCEPT ![k] = [value |-> v, ttl |-> Ttl]]
                /\ unwritten' = unwritten \ {k}

\* get_or_set up to the call of the factory.  A stored None reads like a
\* missing key; any other value is returned, and nothing changes.
Miss(r, k) ==
    /\ reader[r].pc = "idle"
    /\ entry[k].value = Nothing
    /\ reader' = [reader EXCEPT ![r] = [pc |-> "fetch", key |-> k,
                                       value |-> Nothing, attempt |-> 1]]
    /\ UNCHANGED <<limiter, entry, flush, source, unwritten>>

\* The factory returns the value of this moment, or None.
Fetched(r) ==
    /\ reader[r].pc = "fetch"
    /\ \E v \in {source[reader[r].key], Nothing} :
         reader' = [reader EXCEPT ![r].pc = "store", ![r].value = v]
    /\ UNCHANGED <<limiter, entry, flush, source, unwritten>>

\* An attempt fails: the next one, or the exception of the last one leaves
\* get_or_set.
FetchFails(r) ==
    /\ reader[r].pc = "fetch"
    /\ LET attempt == reader[r].attempt
       IN  reader' = [reader EXCEPT ![r] =
                        IF attempt < Attempts
                          THEN [@ EXCEPT !.attempt = attempt + 1]
                          ELSE Resting(@.key)]
    /\ UNCHANGED <<limiter, entry, flush, source, unwritten>>

\* self.set(key, value, ttl), whatever happened to the key meanwhile.
Store(r) ==
    /\ reader[r].pc = "store"
    /\ Stored(reader[r].key, reader[r].value)
    /\ reader' = [reader EXCEPT ![r] = Resting(@.key)]
    /\ UNCHANGED <<limiter, flush, source>>

\* set and delete, called directly.
Set(k) == Stored(k, source[k]) /\ UNCHANGED <<limiter, reader, flush, source>>

Delete(k) ==
    /\ entry' = [entry EXCEPT ![k] = NoEntry]
    /\ UNCHANGED <<limiter, reader, flush, source, unwritten>>

\* flush_namespace: scan_iter visits every key at some moment and yields it
\* if it is there; afterwards the keys it yielded are deleted.
FlushStart ==
    /\ ~flush.busy
    /\ flush' = [busy |-> TRUE, left |-> Keys, seen |-> {}]
    /\ unwritten' = Keys
    /\ UNCHANGED <<limiter, entry, reader, source>>

FlushVisit(k) ==
    /\ k \in flush.left
    /\ flush' = [flush EXCEPT !.left = @ \ {k},
                              !.seen = @ \cup {j \in {k} : Present(entry[j])}]
    /\ UNCHANGED <<limiter, entry, reader, source, unwritten>>

\* Mutant: only the first batch of the scan is deleted.
FlushDeleteEarly ==
    /\ flush.busy
    /\ entry' = [k \in Keys |-> IF k \in flush.seen THEN NoEntry ELSE entry[k]]
    /\ flush' = NotFlushing
    /\ UNCHANGED <<limiter, reader, source, unwritten>>

FlushDelete ==
    /\ flush.busy /\ flush.left = {}
    /\ entry' = [k \in Keys |-> IF k \in flush.seen THEN NoEntry ELSE entry[k]]
    /\ flush' = NotFlushing
    /\ UNCHANGED <<limiter, reader, source, unwritten>>

\* What the factory computes changes.
SourceMoves(k) ==
    /\ source[k] < MaxVersion
    /\ source' = [source EXCEPT ![k] = @ + 1]
    /\ UNCHANGED <<limiter, entry, reader, flush, unwritten>>

-----------------------------------------------------------------------------
Init ==
    /\ counter = [i \in Identifiers |-> NoCounter]
    /\ caller \in [Callers -> {[pc |-> "idle", id |-> i] : i \in Identifiers}]
    /\ orphans = {}
    /\ admitted = [i \in Identifiers |-> 0]
    /\ entry = [k \in Keys |-> NoEntry]
    /\ reader \in [Readers -> {Resting(k) : k \in Keys}]
    /\ flush = NotFlushing
    /\ source = [k \in Keys |-> 0]
    /\ unwritten = {}

Request(c) == \E i \in Identifiers : CheckLimit(c, i)
Answer(c) == OpenWindow(c) \/ Admit(c)
Read(r) == \E k \in Keys : Miss(r, k)
Fill(r) == Fetched(r) \/ FetchFails(r) \/ Store(r)
Flush == FlushStart \/ FlushDelete \/ \E k \in Keys : FlushVisit(k)

Next == \/ Tick
        \/ \E c \in Callers : Request(c) \/ Answer(c)
        \/ \E r \in Readers : Read(r) \/ Fill(r)
        \/ \E k \in Keys : Set(k) \/ Delete(k) \/ SourceMoves(k)
        \/ Flush

Spec == Init /\ [][Next]_vars

\* Time passes; Redis and the factory answer, be it with an exception.
Fairness == /\ WF_vars(Tick)
            /\ \A c \in Callers : WF_vars(Answer(c))
            /\ \A r \in Readers : WF_vars(Fill(r))

FairSpec == Spec /\ Fairness

-----------------------------------------------------------------------------
(* Properties *)

\* max_requests is documented as the "maximum requests in window", and the
\* limiter lets more in for two reasons: a request is judged by the count it
\* has read, and one that has found no key sets the count back to one and
\* the time to live to its full length, whatever was admitted meanwhile.
\* What is let in while a key exists is bounded nevertheless: with n callers
\* it is the sum of MaxRequests + j for j below n, each late SETEX opening
\* one more round, and each round overshooting by one caller less.
OvershootIsBounded ==
    LET n == Cardinality(Callers)
    IN  \A i \in Identifiers : 2 * admitted[i] <= n * (2 * MaxRequests + n - 1)

\* An identifier at its limit is let in again, unless its counter was
\* created by the INCR of a request that had read one since expired: that one
\* never expires, and shuts the identifier out (see the README).
LimitsLift ==
    \A i \in Identifiers : (AtLimit(i) /\ i \notin orphans) ~> ~AtLimit(i)

\* Nothing invalidates the cache, and a slow reader may store an old value
\* over a newer one; but once a value is superseded for good it leaves the
\* cache for good.
StaleValuesLeave ==
    \A k \in Keys :
      [](source[k] = MaxVersion =>
           <>[](entry[k].value \in {Nothing, MaxVersion}))

\* When flush_namespace returns, no key of the namespace holds a value
\* stored before it was called, though keys come and go during the scan.
FlushEmpties ==
    [][FlushDelete => \A k \in unwritten : ~Present(entry'[k])]_vars
=============================================================================
