----------------------------- MODULE RateLimits -----------------------------
(***************************************************************************)
(* The rate limiter (src/src/infrastructure/rate_limiter.py): a token      *)
(* bucket or a sliding window per key.  Time passes in ticks, a rate is    *)
(* tokens per tick.  Both are lazy: nothing happens to a bucket or to a    *)
(* window until the next check of its key.                                 *)
(*                                                                         *)
(* An object keeps the configuration its key had when it was made;         *)
(* set_custom_limit changes what the next object is made with, and which   *)
(* of the two a check asks.                                                *)
(***************************************************************************)
EXTENDS Integers, FiniteSets

CONSTANTS
    Keys,
    Rates,          \* requests_per_second of the configurations, per tick
    Bursts,         \* their burst_size
    Windows,        \* their window_seconds, in ticks
    Costs,          \* tokens of a check
    Longest         \* ticks that fill any bucket and outlast any window

ASSUME RateAssumption ==
    /\ \A S \in {Rates, Bursts, Windows, Costs} : S \subseteq Nat \ {0} /\ S # {}
    /\ Longest \in Nat /\ \A n \in Bursts \cup Windows : n <= Longest

VARIABLES
    limits,         \* the configuration that _get_config finds for each key
    buckets,        \* _token_buckets
    windows,        \* _sliding_windows
    spent           \* auxiliary: what each object granted in the last n ticks

rateVars == <<limits, buckets, windows, spent>>

Algorithms == {"token_bucket", "sliding_window"}
Limits == [algorithm : Algorithms, rate : Rates, burst : Bursts, window : Windows]

\* idle: ticks since _last_refill.  ages: of _requests, which a check filters
\* and counts whatever their order; so each has a slot and the list no order.
\* Ages beyond the window are not told apart.
NoBucket == [rate |-> 0, burst |-> 0, tokens |-> 0, idle |-> 0]
NoWindow == [limit |-> 0, window |-> 0, ages |-> [slot \in {} |-> 0]]
NothingSpent == [a \in Algorithms |-> [n \in 0..Longest |-> 0]]

Bucket == {bucket \in [rate : Rates, burst : Bursts, tokens : Nat, idle : 0..Longest] :
              bucket.tokens <= bucket.burst}
IsWindow(window) ==
    /\ window = [limit |-> window.limit, window |-> window.window, ages |-> window.ages]
    /\ window.limit \in Nat /\ window.window \in Windows
    /\ DOMAIN window.ages \subseteq 1..window.limit
    /\ window.ages \in [DOMAIN window.ages -> 0..window.window]

RateTypeOK ==
    /\ limits \in [Keys -> Limits]
    /\ buckets \in [Keys -> Bucket \cup {NoBucket}]
    /\ DOMAIN windows = Keys /\ \A k \in Keys : windows[k] = NoWindow \/ IsWindow(windows[k])
    /\ spent \in [Keys -> [Algorithms -> [0..Longest -> Nat]]]

RateInit ==
    /\ \E default_config \in Limits : limits = [k \in Keys |-> default_config]
    /\ buckets = [k \in Keys |-> NoBucket]
    /\ windows = [k \in Keys |-> NoWindow]
    /\ spent = [k \in Keys |-> NothingSpent]

SetLimit(k, c) ==
    /\ limits' = [limits EXCEPT ![k] = c]
    /\ UNCHANGED <<buckets, windows, spent>>

\* _refill: what the ticks since the last one bring, up to the burst.
Refilled(bucket) ==
    LET tokens == bucket.tokens + bucket.idle * bucket.rate IN
    IF tokens < bucket.burst THEN tokens ELSE bucket.burst

\* MUTANT: a bucket that was found wanting keeps its time of refill.
MutantConsumed(bucket, cost) ==
    IF cost <= Refilled(bucket)
    THEN [bucket EXCEPT !.tokens = Refilled(bucket) - cost, !.idle = 0]
    ELSE [bucket EXCEPT !.tokens = Refilled(bucket)]

\* consume: the refill, then the tokens if there are enough.
Consumed(bucket, cost) ==
    LET tokens == Refilled(bucket) IN
    [bucket EXCEPT !.tokens = IF cost <= tokens THEN tokens - cost ELSE tokens, !.idle = 0]

Grants(k, algorithm, cost) ==
    spent' = [spent EXCEPT ![k][algorithm] = [n \in 0..Longest |-> @[n] + cost]]

CheckBucket(k, cost) ==
    LET c == limits[k]
        before == IF buckets[k] # NoBucket THEN buckets[k]
                  ELSE [rate |-> c.rate, burst |-> c.burst, tokens |-> c.burst, idle |-> 0]
    IN
    /\ c.algorithm = "token_bucket"
    /\ buckets' = [buckets EXCEPT ![k] = Consumed(before, cost)]
    /\ IF cost <= Refilled(before) THEN Grants(k, "token_bucket", cost) ELSE UNCHANGED spent
    /\ UNCHANGED <<limits, windows>>

\* _requests, less those that a window has passed over; and one more.
Recent(window) ==
    LET slots == {slot \in DOMAIN window.ages : window.ages[slot] < window.window} IN
    [slot \in slots |-> window.ages[slot]]
Appended(ages, new) == [slot \in DOMAIN ages \cup {new} |-> IF slot = new THEN 0 ELSE ages[slot]]
FreeSlot(ages, limit) == CHOOSE slot \in 1..limit : slot \notin DOMAIN ages

\* A check costs one here, whatever tokens the caller asked for.
CheckWindow(k) ==
    LET c == limits[k]
        before == IF windows[k] # NoWindow THEN windows[k]
                  ELSE [limit |-> c.rate * c.window, window |-> c.window,
                        ages |-> NoWindow.ages]
        recent == Recent(before)
        yes == Cardinality(DOMAIN recent) < before.limit
    IN
    /\ c.algorithm = "sliding_window"
    /\ windows' = [windows EXCEPT ![k] = [before EXCEPT !.ages =
          IF yes THEN Appended(recent, FreeSlot(recent, before.limit)) ELSE recent]]
    /\ IF yes THEN Grants(k, "sliding_window", 1) ELSE UNCHANGED spent
    /\ UNCHANGED <<limits, buckets>>

\* reset drops both objects of the key.
Reset(k) ==
    /\ buckets' = [buckets EXCEPT ![k] = NoBucket]
    /\ windows' = [windows EXCEPT ![k] = NoWindow]
    /\ spent' = [spent EXCEPT ![k] = NothingSpent]
    /\ UNCHANGED limits

Aged(n, most) == IF n < most THEN n + 1 ELSE n

RateTick ==
    /\ buckets' = [k \in Keys |-> IF buckets[k] = NoBucket THEN NoBucket
                                  ELSE [buckets[k] EXCEPT !.idle = Aged(@, Longest)]]
    /\ windows' = [k \in Keys |->
          [windows[k] EXCEPT !.ages = [slot \in DOMAIN @ |-> Aged(@[slot], windows[k].window)]]]
    /\ spent' = [k \in Keys |-> [a \in Algorithms |->
          [n \in 0..Longest |-> IF n = 0 THEN 0 ELSE spent[k][a][n - 1]]]]
    /\ UNCHANGED limits

RateNext ==
    \/ \E k \in Keys :
          \/ \E c \in Limits : SetLimit(k, c)
          \/ \E cost \in Costs : CheckBucket(k, cost)
          \/ CheckWindow(k)
          \/ Reset(k)
    \/ RateTick

RateSpec == RateInit /\ [][RateNext]_rateVars

-----------------------------------------------------------------------------
(* Properties.                                                             *)

\* However checks, denials and idle times alternate, and whatever other limits
\* are set meanwhile: in no stretch of n ticks does a bucket grant more than
\* the burst it was made with and n ticks of its rate, and in no window's length
\* does a window grant more than its limit.
AllowanceKept ==
    \A k \in Keys :
        /\ buckets[k] # NoBucket =>
              \A n \in 0..Longest :
                  spent[k]["token_bucket"][n] <= buckets[k].burst + n * buckets[k].rate
        /\ windows[k] # NoWindow =>
              spent[k]["sliding_window"][windows[k].window - 1] <= windows[k].limit
=============================================================================
