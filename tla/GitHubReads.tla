----------------------------- MODULE GitHubReads -----------------------------
(***************************************************************************)
(* GitHubAdapter of packages/runner/src/adapters/github.ts below its       *)
(* endpoints: the conditional-request cache with its two limits, and the   *)
(* read hold that rate limits and the quota reserve put on every GET. The  *)
(* controller reads several endpoints at once (observe's Promise.all), so  *)
(* a call may be answered before, after or between the others.             *)
(***************************************************************************)
EXTENDS Integers, Sequences, FiniteSets, SequencesExt

CONSTANTS
    Callers,            \* concurrent calls
    Keys,               \* cache keys: endpoint and fields
    RunnerKeys,         \* the keys of the runner list
    Bytes,              \* possible sizes of a response
    EntryLimit,         \* CACHE_ENTRY_LIMIT
    ByteLimit,          \* CACHE_BYTE_LIMIT
    Quota, Reserve,     \* GitHub's quota per window, CORE_RESERVE
    Window,             \* length of a quota window
    Fallback, FallbackMax,  \* BACKOFF_FALLBACK_MS, BACKOFF_MAX_MS
    Delays,             \* retry-after values GitHub may send
    MaxNow              \* bound on the clock

ReadsAssumption ==
    /\ {EntryLimit, ByteLimit, Window, Fallback, FallbackMax} \subseteq Nat \ {0}
    /\ Bytes \subseteq Nat \ {0} /\ Delays \subseteq Nat /\ RunnerKeys \subseteq Keys
    /\ Reserve < Quota

VARIABLES now, cache, cacheBytes, hold, throttled, call, remaining, embargo, overdraft

vars == <<now, cache, cacheBytes, hold, throttled, call, remaining, embargo, overdraft>>

None == -1
Idle == [state |-> "idle", method |-> "GET", key |-> None, held |-> FALSE]
Max2(a, b) == IF a >= b THEN a ELSE b
Min2(a, b) == IF a <= b THEN a ELSE b

\* cache is the Map in insertion order; hold is retryAtMs or None; embargo is
\* the latest moment GitHub asked us to wait for; remaining is GitHub's counter,
\* overdraft the reads it charged in this window at or below the reserve.
Init ==
    /\ now = 0 /\ cache = <<>> /\ cacheBytes = 0 /\ hold = None /\ throttled = 0
    /\ call = [c \in Callers |-> Idle] /\ remaining = Quota /\ embargo = 0 /\ overdraft = 0

Cached(key) == \E i \in DOMAIN cache : cache[i].key = key
BytesOf(entries) == FoldLeft(LAMBDA sum, e : sum + e.bytes, 0, entries)

\* readHold: a hold that is over is dropped.
HoldNow == IF hold # None /\ hold > now THEN hold ELSE None

\* Forget on the pair <<entries, total>>.
Forget(m, key) ==
    LET prior == SelectSeq(m[1], LAMBDA e : e.key = key)
    IN  <<SelectSeq(m[1], LAMBDA e : e.key # key), m[2] - BytesOf(prior)>>

\* The shortest prefix of entries whose removal makes room.
Evicted(m, bytes) ==
    LET fits(n) == Len(m[1]) - n < EntryLimit /\ m[2] - BytesOf(SubSeq(m[1], 1, n)) + bytes <= ByteLimit
        n == CHOOSE k \in 0..Len(m[1]) : fits(k) /\ \A i \in 0..(k - 1) : ~fits(i)
    IN  <<SubSeq(m[1], n + 1, Len(m[1])), m[2] - BytesOf(SubSeq(m[1], 1, n))>>

\* #remember: a response too large for the cache is not kept, nor is what it
\* replaces.
Remember(m, key, bytes) ==
    LET gone == Forget(m, key)
        room == Evicted(gone, bytes)
    IN  IF bytes > ByteLimit THEN gone
        ELSE <<Append(room[1], [key |-> key, bytes |-> bytes]), room[2] + bytes>>

\* Mutant: the last answer decides how long reads are held.
HoldForLast(delay) == now + delay

\* holdFor: a hold is replaced by a longer one only.
HoldFor(delay) == IF hold = None THEN now + delay ELSE Max2(hold, now + delay)

\* The delay after a 403 or 429: what GitHub asks for when that is more than
\* nothing, or the fallback, doubled with every such answer in a row.
Doublings == <<1, 2, 4, 8, 16>>
ThrottleDelay(retryAfter) ==
    IF retryAfter > 0 THEN retryAfter
    ELSE Min2(FallbackMax, Fallback * Doublings[Min2(throttled, 4) + 1])

NextReset == (now \div Window + 1) * Window
-----------------------------------------------------------------------------
\* #call up to the request: a GET is refused while reads are held; a mutation
\* is not.
Send(c, method, key) ==
    /\ call[c].state = "idle"
    /\ hold' = HoldNow
    /\ method = "GET" => HoldNow = None
    /\ call' = [call EXCEPT ![c] = [state |-> "sent", method |-> method, key |-> key,
                                    held |-> method = "GET" /\ Cached(key)]]
    /\ UNCHANGED <<now, cache, cacheBytes, throttled, remaining, embargo, overdraft>>

Done(c) == call' = [call EXCEPT ![c] = Idle]

\* The quota of an answer: at or below the reserve, reads wait for the reset.
QuotaHold(left) == IF left <= Reserve THEN HoldFor(NextReset - now) ELSE hold

\* GitHub answers with success: 200 and a new representation of any size, or
\* 304 for a cached one, which costs no quota and is remembered again. A
\* successful mutation forgets the runner list.
Succeeds(c) ==
    /\ call[c].state = "sent" /\ remaining > 0 /\ Done(c)
    /\ throttled' = 0 /\ UNCHANGED <<now, embargo>>
    /\ \E fresh \in BOOLEAN, bytes \in Bytes :
         /\ ~fresh => call[c].held
         /\ remaining' = IF fresh THEN remaining - 1 ELSE remaining
         /\ overdraft' = IF fresh /\ call[c].method = "GET" /\ remaining <= Reserve THEN overdraft + 1 ELSE overdraft
         /\ hold' = QuotaHold(remaining')
         /\ LET m == IF call[c].method = "GET" THEN Remember(<<cache, cacheBytes>>, call[c].key, bytes)
                     ELSE FoldLeft(Forget, <<cache, cacheBytes>>, SetToSeq(RunnerKeys))
            IN  cache' = m[1] /\ cacheBytes' = m[2]

\* GitHub answers 403 or 429, with a retry-after or without.
Throttled(c) ==
    /\ call[c].state = "sent" /\ Done(c)
    /\ \E d \in Delays :
         /\ hold' = HoldFor(ThrottleDelay(d))
         /\ embargo' = Max2(embargo, now + d)
    /\ throttled' = Min2(throttled + 1, 5)
    /\ UNCHANGED <<now, cache, cacheBytes, remaining, overdraft>>

\* gh fails without a parseable response, or GitHub answers another error.
Fails(c) ==
    /\ call[c].state = "sent" /\ Done(c)
    /\ UNCHANGED <<now, cache, cacheBytes, hold, throttled, remaining, embargo, overdraft>>

\* Time passes; a new window restores the quota.
Pass ==
    /\ now < MaxNow /\ now' = now + 1
    /\ remaining' = IF now' % Window = 0 THEN Quota ELSE remaining
    /\ overdraft' = IF now' % Window = 0 THEN 0 ELSE overdraft
    /\ UNCHANGED <<cache, cacheBytes, hold, throttled, call, embargo>>

Next ==
    \/ Pass
    \/ \E c \in Callers :
         \/ \E k \in Keys : Send(c, "GET", k)
         \/ \E k \in RunnerKeys : Send(c, "POST", k)
         \/ Succeeds(c) \/ Throttled(c) \/ Fails(c)

Spec == Init /\ [][Next]_vars
-----------------------------------------------------------------------------
\* The cache keeps its limits and its own count of bytes is exact, through
\* replacement, eviction, forgetting after a mutation and late 304 answers.
CacheAccounted ==
    /\ cacheBytes = BytesOf(cache) /\ cacheBytes <= ByteLimit /\ Len(cache) <= EntryLimit
    /\ \A i, j \in DOMAIN cache : cache[i].key = cache[j].key => i = j

\* A GET is sent only after every moment GitHub asked to wait for, also when
\* calls in flight are answered later with a shorter delay or with success.
RetryAfterHonoured ==
    [][\A c \in Callers : (call[c].state = "idle" /\ call'[c].state = "sent" /\ call'[c].method = "GET") => now >= embargo]_vars

\* The reads leave the reserve of GitHub's quota alone, but for the calls that
\* were in flight when it was reached.
ReserveKept == overdraft < Cardinality(Callers)
=============================================================================
