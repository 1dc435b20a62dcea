------------------------------- MODULE RateLimit -------------------------------
(***************************************************************************)
(* The relay's limiter of connection attempts (relay/ratelimit.go): a      *)
(* token bucket per address, in a map of bounded size.  A full map drops   *)
(* the entries that have been idle for ipIdleTTL, and only if there are    *)
(* none the one seen longest ago.  Everything happens under one mutex.     *)
(*                                                                         *)
(* A bucket (golang.org/x/time/rate) is what it held at some time; it      *)
(* fills by one unit per tick up to Full, and an attempt costs Cost units. *)
(* The burst of the code is Full \div Cost, its rate one in Cost ticks.    *)
(***************************************************************************)
EXTENDS Integers, FiniteSets

CONSTANTS
  Addrs,     \* client addresses
  Capacity,  \* ipLimiterCap
  Full, Cost,
  IdleTTL,   \* ipIdleTTL
  MaxTime    \* bound on the clock

\* The defaults of Options make a bucket full within ipIdleTTL.
ASSUME RateLimitAssumption ==
  /\ IsFiniteSet(Addrs) /\ Capacity \in Nat \ {0}
  /\ Cost \in Nat \ {0} /\ Full \in Nat /\ Cost <= Full
  /\ IdleTTL \in Nat /\ Full <= IdleTTL
  /\ MaxTime \in Nat

VARIABLES
  now,
  tracked,   \* the keys of ipLimiter.m
  bucket,    \* its limiters, of the keys
  seen,      \* ipEntry.seen, of the keys
  ideal,     \* reference: buckets nobody evicts for being idle
  spent,     \* history: units spent by an address since
  since      \*   the limiter last dropped it while it was active

vars == <<now, tracked, bucket, seen, ideal, spent, since>>

Bucket == [units : 0..Full, last : Nat]
Fresh  == [units |-> Full, last |-> now]

\* Types; the map does not outgrow its capacity.
TypeOK ==
  /\ now \in Nat
  /\ tracked \subseteq Addrs /\ Cardinality(tracked) <= Capacity
  /\ bucket \in [Addrs -> Bucket] /\ ideal \in [Addrs -> Bucket]
  /\ seen \in [Addrs -> Nat] /\ spent \in [Addrs -> Nat] /\ since \in [Addrs -> Nat]

Init ==
  /\ now = 0
  /\ tracked = {}
  /\ bucket = [a \in Addrs |-> Fresh] /\ ideal = [a \in Addrs |-> Fresh]
  /\ seen = [a \in Addrs |-> 0] /\ spent = [a \in Addrs |-> 0] /\ since = [a \in Addrs |-> 0]

-----------------------------------------------------------------------------
\* What a bucket holds now.
Level(b) == IF b.units + (now - b.last) < Full THEN b.units + (now - b.last) ELSE Full

\* AllowN(now, 1).
Allows(b) == Level(b) >= Cost

TakenNothing(b) == b

Taken(b)  == IF Allows(b) THEN [units |-> Level(b) - Cost, last |-> now] ELSE b

StaleEarly == {a \in tracked : now - seen[a] >= IdleTTL - 1}

\* evictLocked: what has been idle long enough,
Stale == {a \in tracked : now - seen[a] >= IdleTTL}

\* or what has been idle longest.
Oldest == {a \in tracked : \A b \in tracked : seen[a] <= seen[b]}

\* An attempt of a that finds, or is given, the bucket b.
Attempt(a, b) ==
  /\ bucket' = [bucket EXCEPT ![a] = Taken(b)]
  /\ seen' = [seen EXCEPT ![a] = now]
  /\ UNCHANGED now

Pays(a) ==
  /\ ideal' = [ideal EXCEPT ![a] = Taken(@)]
  /\ UNCHANGED since

Spends(a, b) == spent' = IF Allows(b) THEN [spent EXCEPT ![a] = @ + Cost] ELSE spent

\* allow: an address in the map.
AllowKnown(a) ==
  /\ a \in tracked
  /\ Attempt(a, bucket[a]) /\ Pays(a) /\ Spends(a, bucket[a])
  /\ UNCHANGED tracked

Room == Cardinality(tracked) < Capacity

\* An address that is not, with room or with room made by idle entries.
AllowNew(a) ==
  /\ a \notin tracked
  /\ Room \/ Stale # {}
  /\ Attempt(a, Fresh) /\ Pays(a) /\ Spends(a, Fresh)
  /\ tracked' = (IF Room THEN tracked ELSE tracked \ Stale) \cup {a}

\* An address that takes the place of o, which was not idle: o is forgiven.
AllowInstead(a, o) ==
  /\ a \notin tracked /\ ~Room /\ Stale = {}
  /\ o \in Oldest
  /\ Attempt(a, Fresh)
  /\ tracked' = (tracked \ {o}) \cup {a}
  /\ ideal' = [ideal EXCEPT ![a] = Taken(@), ![o] = Fresh]
  /\ spent' = [spent EXCEPT ![a] = IF Allows(Fresh) THEN @ + Cost ELSE @, ![o] = 0]
  /\ since' = [since EXCEPT ![o] = now]

Allow(a) == AllowKnown(a) \/ AllowNew(a) \/ \E o \in Addrs : AllowInstead(a, o)

Tick ==
  /\ now < MaxTime
  /\ now' = now + 1
  /\ UNCHANGED <<tracked, bucket, seen, ideal, spent, since>>

Next == Tick \/ \E a \in Addrs : Allow(a)

Spec == Init /\ [][Next]_vars

-----------------------------------------------------------------------------
(* Properties.                                                             *)

\* What allow would find for a now.
Holds(a) == IF a \in tracked THEN Level(bucket[a]) ELSE Full

\* evictLocked of entries idle for ipIdleTTL makes no difference to any address:
\* allow answers each attempt as a limiter would that never drops one.
Lossless == \A a \in Addrs : Holds(a) = Level(ideal[a])

\* allow: from the last time evictLocked dropped it while it was active, or the
\* start, no address spends more than a full bucket and what time has refilled.
WithinRate == \A a \in Addrs : spent[a] <= Full + (now - since[a])
================================================================================
