---------------------------- MODULE RateLimitProofs ----------------------------
(***************************************************************************)
(* The limiter of relay/ratelimit.go for any number of addresses, any      *)
(* capacity, any rate and burst whose bucket is full within ipIdleTTL.     *)
(***************************************************************************)
EXTENDS RateLimit, FiniteSetTheorems, TLAPS

\* Nothing is dated in the future, and a bucket was not taken from after its
\* address was last seen.
Clocks ==
  \A a \in Addrs :
    /\ bucket[a].last <= now /\ ideal[a].last <= now /\ seen[a] <= now /\ since[a] <= now
    /\ a \in tracked => bucket[a].last <= seen[a]

\* What an address has spent and what it may still spend at once.
Budget == \A a \in Addrs : spent[a] + Level(ideal[a]) <= Full + (now - since[a])

\* What a bucket holds at time t.
LevelAt(b, t) == IF b.units + (t - b.last) < Full THEN b.units + (t - b.last) ELSE Full

IInv == TypeOK /\ Clocks /\ Lossless /\ Budget

-----------------------------------------------------------------------------
\* AllowN leaves a bucket that holds Cost less if it allows, the same if not.
LEMMA TakenIsBucket ==
  ASSUME NEW b \in Bucket, now \in Nat, b.last <= now
  PROVE  /\ Level(b) \in 0..Full
         /\ Taken(b) \in Bucket /\ Taken(b).last <= now
         /\ Level(Taken(b)) = IF Allows(b) THEN Level(b) - Cost ELSE Level(b)
<1>1. b.units \in 0..Full /\ b.last \in Nat
  BY Zenon DEF Bucket
<1>2. Level(b) \in 0..Full
  BY <1>1, RateLimitAssumption DEF Level
<1>3. CASE Allows(b)
  <2>1. Taken(b) = [units |-> Level(b) - Cost, last |-> now]
    BY <1>3, Zenon DEF Taken
  <2>2. Level(b) - Cost \in 0..Full
    BY <1>2, <1>3, RateLimitAssumption DEF Allows
  <2>3. Taken(b) \in Bucket /\ Taken(b).units = Level(b) - Cost /\ Taken(b).last = now
    BY <2>1, <2>2 DEF Bucket
  <2>4. Level(Taken(b)) = Level(b) - Cost
    <3>1. Level(b) - Cost + (now - now) = Level(b) - Cost
      BY <1>2, RateLimitAssumption
    <3>2. Level(b) - Cost < Full
      BY <1>2, RateLimitAssumption
    <3> QED BY <2>3, <3>1, <3>2, Zenon DEF Level
  <2> QED BY <1>2, <1>3, <2>3, <2>4
<1>4. CASE ~Allows(b)
  BY <1>2, <1>4, Zenon DEF Taken
<1> QED BY <1>3, <1>4, Zenon

\* A new limiter is full.
LEMMA FreshIsFull ==
  ASSUME now \in Nat
  PROVE  Fresh \in Bucket /\ Fresh.last = now /\ Level(Fresh) = Full
BY RateLimitAssumption DEF Fresh, Bucket, Level

\* evictLocked: an entry idle for ipIdleTTL has a full bucket.
LEMMA StaleIsFull ==
  ASSUME TypeOK, Clocks, NEW a \in Stale
  PROVE  Level(bucket[a]) = Full
<1>1. a \in Addrs /\ a \in tracked /\ now - seen[a] >= IdleTTL
  BY Zenon DEF Stale, TypeOK
<1>2. bucket[a].units \in 0..Full /\ bucket[a].last \in Nat /\ seen[a] \in Nat /\ now \in Nat
  BY <1>1, Zenon DEF TypeOK, Bucket
<1>3. bucket[a].last <= seen[a]
  BY <1>1, Zenon DEF Clocks
<1> QED BY <1>1, <1>2, <1>3, RateLimitAssumption DEF Level

\* Making room: with at least one entry out, one more fits.
LEMMA OneOutOneIn ==
  ASSUME NEW S \in SUBSET Addrs, Cardinality(S) <= Capacity,
         NEW o \in S, NEW T \in SUBSET (S \ {o}), NEW a \in Addrs
  PROVE  Cardinality(T \cup {a}) <= Capacity
<1>1. IsFiniteSet(S) /\ Cardinality(S) \in Nat
  BY RateLimitAssumption, FS_Subset, FS_CardinalityType, Zenon
<1>2. IsFiniteSet(S \ {o}) /\ Cardinality(S \ {o}) = Cardinality(S) - 1
  BY <1>1, FS_RemoveElement, Zenon
<1>3. IsFiniteSet(T) /\ Cardinality(T) <= Cardinality(S \ {o}) /\ Cardinality(T) \in Nat
  BY <1>2, FS_Subset, FS_CardinalityType, Zenon
<1>4. Cardinality(T \cup {a}) = Cardinality(T) \/ Cardinality(T \cup {a}) = Cardinality(T) + 1
  BY <1>3, FS_AddElement, Zenon
<1> QED BY <1>1, <1>2, <1>3, <1>4, RateLimitAssumption

\* With room, one more fits.
LEMMA OneIn ==
  ASSUME NEW S \in SUBSET Addrs, Cardinality(S) < Capacity, NEW a \in Addrs
  PROVE  Cardinality(S \cup {a}) <= Capacity
<1>1. IsFiniteSet(S) /\ Cardinality(S) \in Nat
  BY RateLimitAssumption, FS_Subset, FS_CardinalityType, Zenon
<1>2. Cardinality(S \cup {a}) = Cardinality(S) \/ Cardinality(S \cup {a}) = Cardinality(S) + 1
  BY <1>1, FS_AddElement, Zenon
<1> QED BY <1>1, <1>2, RateLimitAssumption

-----------------------------------------------------------------------------
\* Nobody has tried yet.
LEMMA InitIInv == Init => IInv
<1> SUFFICES ASSUME Init PROVE IInv
  BY Zenon
<1>1. now \in Nat /\ now = 0
  BY Zenon DEF Init
<1>2. Fresh \in Bucket /\ Fresh.last = 0 /\ Level(Fresh) = Full
  BY <1>1, FreshIsFull, Zenon
<1>3. TypeOK
  BY <1>1, <1>2, FS_EmptySet, RateLimitAssumption DEF Init, TypeOK
<1>4. Clocks
  BY <1>1, <1>2 DEF Init, Clocks
<1>5. Lossless
  BY <1>2, Zenon DEF Init, Lossless, Holds
<1>6. Budget
  BY <1>1, <1>2, RateLimitAssumption DEF Init, Budget
<1> QED BY <1>3, <1>4, <1>5, <1>6, Zenon DEF IInv

\* allow, for the address itself: it is dated now, it has as much left as in
\* the reference, and it has paid for what it got.
LEMMA AttemptKeeps ==
  ASSUME IInv, NEW a \in Addrs, NEW b \in Bucket, b.last <= now, Level(b) = Level(ideal[a]),
         Attempt(a, b), Pays(a), Spends(a, b)
  PROVE  /\ now' = now /\ since' = since
         /\ bucket' \in [Addrs -> Bucket] /\ ideal' \in [Addrs -> Bucket]
         /\ seen' \in [Addrs -> Nat] /\ spent' \in [Addrs -> Nat]
         /\ \A c \in Addrs \ {a} : bucket'[c] = bucket[c] /\ ideal'[c] = ideal[c] /\ seen'[c] = seen[c]
         /\ bucket'[a].last <= now /\ ideal'[a].last <= now /\ seen'[a] = now
         /\ Level(bucket'[a]) = Level(ideal'[a])
         /\ Budget'
<1>0. /\ now \in Nat /\ bucket \in [Addrs -> Bucket] /\ ideal \in [Addrs -> Bucket]
      /\ seen \in [Addrs -> Nat] /\ spent \in [Addrs -> Nat] /\ since \in [Addrs -> Nat]
  BY Zenon DEF IInv, TypeOK
<1>1. /\ now' = now /\ since' = since
      /\ bucket' = [bucket EXCEPT ![a] = Taken(b)]
      /\ ideal' = [ideal EXCEPT ![a] = Taken(ideal[a])]
      /\ seen' = [seen EXCEPT ![a] = now]
  BY Zenon DEF Attempt, Pays
<1>2. ideal[a] \in Bucket /\ ideal[a].last <= now
  BY <1>0, Zenon DEF IInv, Clocks
<1>3. /\ Taken(b) \in Bucket /\ Taken(b).last <= now
      /\ Level(Taken(b)) = IF Allows(b) THEN Level(b) - Cost ELSE Level(b)
  BY <1>0, TakenIsBucket, Zenon
<1>4. /\ Taken(ideal[a]) \in Bucket /\ Taken(ideal[a]).last <= now
      /\ Level(Taken(ideal[a])) = IF Allows(ideal[a]) THEN Level(ideal[a]) - Cost ELSE Level(ideal[a])
      /\ Level(ideal[a]) \in 0..Full
  BY <1>0, <1>2, TakenIsBucket, Zenon
<1>5. Allows(b) <=> Allows(ideal[a])
  BY Zenon DEF Allows
<1>6. /\ bucket' \in [Addrs -> Bucket] /\ ideal' \in [Addrs -> Bucket] /\ seen' \in [Addrs -> Nat]
      /\ bucket'[a] = Taken(b) /\ ideal'[a] = Taken(ideal[a]) /\ seen'[a] = now
      /\ \A c \in Addrs \ {a} : bucket'[c] = bucket[c] /\ ideal'[c] = ideal[c] /\ seen'[c] = seen[c]
  BY <1>0, <1>1, <1>3, <1>4, Zenon
<1>7. Level(bucket'[a]) = Level(ideal'[a])
  BY <1>3, <1>4, <1>5, <1>6, Zenon
<1>8. spent' \in [Addrs -> Nat]
  BY <1>0, RateLimitAssumption DEF Spends
<1>9. Budget'
  <2> SUFFICES ASSUME NEW c \in Addrs
               PROVE  spent'[c] + Level(ideal'[c]) <= Full + (now - since[c])
    BY <1>1, Zenon DEF Budget, Level
  <2>1. spent[c] + Level(ideal[c]) <= Full + (now - since[c])
    BY Zenon DEF IInv, Budget
  <2>2. CASE c # a
    BY <2>1, <2>2, <1>6, <1>0, Zenon DEF Spends
  <2>3. CASE c = a /\ Allows(b)
    <3>1. spent'[c] = spent[c] + Cost
      BY <2>3, <1>0, Zenon DEF Spends
    <3>2. Level(ideal'[c]) = Level(ideal[c]) - Cost
      BY <2>3, <1>4, <1>5, <1>6, Zenon
    <3>3. spent[c] \in Nat /\ Level(ideal[c]) \in 0..Full /\ since[c] \in Nat
      BY <1>0, <1>4, <2>3, Zenon
    <3> QED BY <2>1, <3>1, <3>2, <3>3, <1>0, RateLimitAssumption
  <2>4. CASE c = a /\ ~Allows(b)
    BY <2>1, <2>4, <1>4, <1>5, <1>6, Zenon DEF Spends
  <2> QED BY <2>2, <2>3, <2>4, Zenon
<1> QED BY <1>1, <1>3, <1>4, <1>6, <1>7, <1>8, <1>9, Zenon

\* allow of an address in the map.
LEMMA KnownKeeps ==
  ASSUME IInv, NEW a \in Addrs, AllowKnown(a)
  PROVE  IInv'
<1>0. /\ a \in tracked /\ tracked' = tracked
      /\ Attempt(a, bucket[a]) /\ Pays(a) /\ Spends(a, bucket[a])
  BY Zenon DEF AllowKnown
<1>1. bucket[a] \in Bucket /\ bucket[a].last <= now
  BY Zenon DEF IInv, TypeOK, Clocks
<1>2. Level(bucket[a]) = Level(ideal[a])
  BY <1>0, Zenon DEF IInv, Lossless, Holds
<1>3. /\ now' = now /\ since' = since
      /\ bucket' \in [Addrs -> Bucket] /\ ideal' \in [Addrs -> Bucket]
      /\ seen' \in [Addrs -> Nat] /\ spent' \in [Addrs -> Nat]
      /\ \A c \in Addrs \ {a} : bucket'[c] = bucket[c] /\ ideal'[c] = ideal[c] /\ seen'[c] = seen[c]
      /\ bucket'[a].last <= now /\ ideal'[a].last <= now /\ seen'[a] = now
      /\ Level(bucket'[a]) = Level(ideal'[a])
      /\ Budget'
  BY <1>0, <1>1, <1>2, AttemptKeeps, Zenon
<1>4. TypeOK'
  BY <1>0, <1>3, Zenon DEF IInv, TypeOK
<1>5. Clocks'
  <2>1. now \in Nat
    BY Zenon DEF IInv, TypeOK
  <2> QED BY <1>0, <1>3, <2>1 DEF IInv, Clocks
<1>6. Lossless'
  <2> SUFFICES ASSUME NEW c \in Addrs
               PROVE  (IF c \in tracked THEN Level(bucket'[c]) ELSE Full) = Level(ideal'[c])
    BY <1>0, <1>3, Zenon DEF Lossless, Holds, Level
  <2> QED BY <1>0, <1>3, Zenon DEF IInv, Lossless, Holds
<1> QED BY <1>3, <1>4, <1>5, <1>6, Zenon DEF IInv

\* allow of a new address, where there is room or idle entries make it.
LEMMA NewKeeps ==
  ASSUME IInv, NEW a \in Addrs, AllowNew(a)
  PROVE  IInv'
<1> DEFINE kept == IF Room THEN tracked ELSE tracked \ Stale
<1>0. /\ a \notin tracked /\ (Room \/ Stale # {}) /\ tracked' = kept \cup {a}
      /\ Attempt(a, Fresh) /\ Pays(a) /\ Spends(a, Fresh)
  BY Zenon DEF AllowNew
<1>1. now \in Nat /\ tracked \in SUBSET Addrs /\ Cardinality(tracked) <= Capacity
  BY Zenon DEF IInv, TypeOK
<1>2. Fresh \in Bucket /\ Fresh.last <= now /\ Level(Fresh) = Full
  BY <1>1, FreshIsFull
<1>3. Level(Fresh) = Level(ideal[a])
  BY <1>0, <1>2, Zenon DEF IInv, Lossless, Holds
<1>4. /\ now' = now /\ since' = since
      /\ bucket' \in [Addrs -> Bucket] /\ ideal' \in [Addrs -> Bucket]
      /\ seen' \in [Addrs -> Nat] /\ spent' \in [Addrs -> Nat]
      /\ \A c \in Addrs \ {a} : bucket'[c] = bucket[c] /\ ideal'[c] = ideal[c] /\ seen'[c] = seen[c]
      /\ bucket'[a].last <= now /\ ideal'[a].last <= now /\ seen'[a] = now
      /\ Level(bucket'[a]) = Level(ideal'[a])
      /\ Budget'
  BY <1>0, <1>2, <1>3, AttemptKeeps, Zenon
<1>5. Cardinality(tracked') <= Capacity
  <2>1. CASE Room
    BY <1>0, <1>1, <2>1, OneIn, Zenon DEF Room
  <2>2. CASE ~Room
    <3>1. PICK o \in Stale : TRUE
      BY <1>0, <2>2, Zenon
    <3>2. o \in tracked /\ kept \in SUBSET (tracked \ {o})
      BY <2>2, <3>1, Zenon DEF Stale
    <3> QED BY <1>0, <1>1, <3>2, OneOutOneIn, Zenon
  <2> QED BY <2>1, <2>2, Zenon
<1>6. TypeOK'
  BY <1>0, <1>1, <1>4, <1>5, Zenon DEF IInv, TypeOK
<1>7. Clocks'
  BY <1>0, <1>1, <1>4 DEF IInv, Clocks
<1>8. Lossless'
  <2> SUFFICES ASSUME NEW c \in Addrs
               PROVE  (IF c \in tracked' THEN Level(bucket'[c]) ELSE Full) = Level(ideal'[c])
    BY <1>4, Zenon DEF Lossless, Holds, Level
  <2>1. CASE c = a
    BY <1>0, <1>4, <2>1, Zenon
  <2>2. CASE c # a /\ c \in kept
    BY <1>0, <1>4, <2>2, Zenon DEF IInv, Lossless, Holds
  <2>3. CASE c # a /\ c \notin tracked
    BY <1>0, <1>4, <2>3, Zenon DEF IInv, Lossless, Holds
  <2>4. CASE c # a /\ c \in tracked /\ c \notin kept
    <3>1. c \in Stale
      BY <2>4, Zenon
    <3>2. Level(bucket[c]) = Full
      BY <3>1, StaleIsFull, Zenon DEF IInv
    <3>3. Level(ideal[c]) = Full
      BY <3>2, <2>4, Zenon DEF IInv, Lossless, Holds
    <3>4. c \notin tracked' /\ ideal'[c] = ideal[c]
      BY <1>0, <1>4, <2>4, Zenon
    <3> QED BY <3>3, <3>4, Zenon
  <2> QED BY <2>1, <2>2, <2>3, <2>4, Zenon
<1> QED BY <1>4, <1>6, <1>7, <1>8, Zenon DEF IInv

\* allow of a new address in the place of the one seen longest ago, which
\* starts again from a full bucket.
LEMMA InsteadKeeps ==
  ASSUME IInv, NEW a \in Addrs, NEW o \in Addrs, AllowInstead(a, o)
  PROVE  IInv'
<1>0. /\ a \notin tracked /\ o \in tracked /\ a # o
      /\ tracked' = (tracked \ {o}) \cup {a}
      /\ now' = now
      /\ bucket' = [bucket EXCEPT ![a] = Taken(Fresh)] /\ seen' = [seen EXCEPT ![a] = now]
      /\ ideal' = [ideal EXCEPT ![a] = Taken(ideal[a]), ![o] = Fresh]
      /\ spent' = [spent EXCEPT ![a] = IF Allows(Fresh) THEN spent[a] + Cost ELSE spent[a], ![o] = 0]
      /\ since' = [since EXCEPT ![o] = now]
  BY Zenon DEF AllowInstead, Attempt, Oldest
<1>1. /\ now \in Nat /\ tracked \in SUBSET Addrs /\ Cardinality(tracked) <= Capacity
      /\ bucket \in [Addrs -> Bucket] /\ ideal \in [Addrs -> Bucket]
      /\ seen \in [Addrs -> Nat] /\ spent \in [Addrs -> Nat] /\ since \in [Addrs -> Nat]
  BY Zenon DEF IInv, TypeOK
<1>2. Fresh \in Bucket /\ Fresh.last = now /\ Level(Fresh) = Full
  BY <1>1, FreshIsFull, Zenon
<1>3. /\ Taken(Fresh) \in Bucket /\ Taken(Fresh).last <= now
      /\ Level(Taken(Fresh)) = IF Allows(Fresh) THEN Level(Fresh) - Cost ELSE Level(Fresh)
  BY <1>1, <1>2, TakenIsBucket
<1>4. ideal[a] \in Bucket /\ ideal[a].last <= now /\ Level(ideal[a]) = Full
  BY <1>0, <1>1, Zenon DEF IInv, Clocks, Lossless, Holds
<1>5. /\ Taken(ideal[a]) \in Bucket /\ Taken(ideal[a]).last <= now
      /\ Level(Taken(ideal[a])) = IF Allows(ideal[a]) THEN Level(ideal[a]) - Cost ELSE Level(ideal[a])
  BY <1>1, <1>4, TakenIsBucket, Zenon
<1>6. Allows(Fresh) /\ Allows(ideal[a])
  BY <1>2, <1>4, RateLimitAssumption, Zenon DEF Allows
<1>7. /\ bucket'[a] = Taken(Fresh) /\ ideal'[a] = Taken(ideal[a]) /\ seen'[a] = now /\ since'[a] = since[a]
      /\ spent'[a] = spent[a] + Cost
      /\ bucket'[o] = bucket[o] /\ ideal'[o] = Fresh /\ seen'[o] = seen[o] /\ since'[o] = now /\ spent'[o] = 0
      /\ \A c \in Addrs \ {a, o} : /\ bucket'[c] = bucket[c] /\ ideal'[c] = ideal[c]
                                   /\ seen'[c] = seen[c] /\ since'[c] = since[c] /\ spent'[c] = spent[c]
  BY <1>0, <1>1, <1>6, Zenon
<1>8. now' = now
  BY <1>0, Zenon
<1>9. TypeOK'
  <2>1. Cardinality(tracked') <= Capacity
    BY <1>0, <1>1, OneOutOneIn, Zenon
  <2>2. bucket' \in [Addrs -> Bucket] /\ ideal' \in [Addrs -> Bucket]
    BY <1>0, <1>1, <1>2, <1>3, <1>5, Zenon
  <2>3. seen' \in [Addrs -> Nat] /\ spent' \in [Addrs -> Nat] /\ since' \in [Addrs -> Nat]
    BY <1>0, <1>1, RateLimitAssumption
  <2> QED BY <1>0, <1>1, <2>1, <2>2, <2>3, Zenon DEF TypeOK
<1>10. Clocks'
  <2> SUFFICES ASSUME NEW c \in Addrs
               PROVE  /\ bucket'[c].last <= now /\ ideal'[c].last <= now /\ seen'[c] <= now /\ since'[c] <= now
                      /\ c \in tracked' => bucket'[c].last <= seen'[c]
    BY <1>0, Zenon DEF Clocks
  <2>1. /\ bucket[c].last <= now /\ ideal[c].last <= now /\ seen[c] <= now /\ since[c] <= now
        /\ c \in tracked => bucket[c].last <= seen[c]
    BY Zenon DEF IInv, Clocks
  <2>2. CASE c = a
    BY <1>1, <1>3, <1>5, <1>7, <2>1, <2>2
  <2>3. CASE c = o
    BY <1>0, <1>1, <1>2, <1>7, <2>1, <2>3
  <2>4. CASE c \notin {a, o}
    BY <1>0, <1>7, <2>1, <2>4, Zenon
  <2> QED BY <2>2, <2>3, <2>4, Zenon
<1>11. Lossless'
  <2> SUFFICES ASSUME NEW c \in Addrs
               PROVE  (IF c \in tracked' THEN Level(bucket'[c]) ELSE Full) = Level(ideal'[c])
    BY <1>8, Zenon DEF Lossless, Holds, Level
  <2>1. CASE c = a
    BY <1>0, <1>2, <1>3, <1>4, <1>5, <1>6, <1>7, <2>1
  <2>2. CASE c = o
    BY <1>0, <1>2, <1>7, <2>2, Zenon
  <2>3. CASE c \notin {a, o}
    BY <1>0, <1>7, <2>3, Zenon DEF IInv, Lossless, Holds
  <2> QED BY <2>1, <2>2, <2>3, Zenon
<1>12. Budget'
  <2> SUFFICES ASSUME NEW c \in Addrs
               PROVE  spent'[c] + Level(ideal'[c]) <= Full + (now - since'[c])
    BY <1>8, Zenon DEF Budget, Level
  <2>1. spent[c] + Level(ideal[c]) <= Full + (now - since[c])
    BY Zenon DEF IInv, Budget
  <2>2. CASE c = a
    <3>1. Level(ideal'[c]) = Full - Cost /\ Level(ideal[c]) = Full
      BY <1>4, <1>5, <1>6, <1>7, <2>2, Zenon
    <3>2. spent'[c] = spent[c] + Cost /\ since'[c] = since[c] /\ spent[c] \in Nat /\ since[c] \in Nat
      BY <1>1, <1>7, <2>2, Zenon
    <3> QED BY <1>1, <2>1, <3>1, <3>2, RateLimitAssumption
  <2>3. CASE c = o
    BY <1>1, <1>2, <1>7, <2>3, RateLimitAssumption
  <2>4. CASE c \notin {a, o}
    BY <1>7, <2>1, <2>4, Zenon
  <2> QED BY <2>2, <2>3, <2>4, Zenon
<1> QED BY <1>9, <1>10, <1>11, <1>12, Zenon DEF IInv

\* Two buckets that hold the same hold the same a tick later.
LEMMA FillTogether ==
  ASSUME NEW b, NEW c, NEW t \in Nat,
         b.units \in 0..Full, b.last \in Nat, b.last <= t,
         c.units \in 0..Full, c.last \in Nat, c.last <= t,
         LevelAt(b, t) = LevelAt(c, t)
  PROVE  LevelAt(b, t + 1) = LevelAt(c, t + 1)
<1>1. CASE b.units + (t - b.last) < Full
  BY <1>1, RateLimitAssumption DEF LevelAt
<1>2. CASE b.units + (t - b.last) >= Full
  BY <1>2, RateLimitAssumption DEF LevelAt
<1> QED BY <1>1, <1>2, RateLimitAssumption

\* Time fills equal buckets equally, and no bucket by more than one unit.
LEMMA TickKeeps ==
  ASSUME IInv, Tick
  PROVE  IInv'
<1>1. /\ now' = now + 1 /\ tracked' = tracked /\ bucket' = bucket /\ seen' = seen
      /\ ideal' = ideal /\ spent' = spent /\ since' = since
  BY Zenon DEF Tick
<1>2. /\ now \in Nat /\ bucket \in [Addrs -> Bucket] /\ ideal \in [Addrs -> Bucket]
      /\ seen \in [Addrs -> Nat] /\ spent \in [Addrs -> Nat] /\ since \in [Addrs -> Nat]
  BY Zenon DEF IInv, TypeOK
<1>3. TypeOK'
  BY <1>1, <1>2 DEF IInv, TypeOK
<1>4. ASSUME NEW c \in Addrs
      PROVE  /\ bucket[c].units \in 0..Full /\ bucket[c].last \in Nat /\ bucket[c].last <= now
             /\ ideal[c].units \in 0..Full /\ ideal[c].last \in Nat /\ ideal[c].last <= now
             /\ seen[c] \in Nat /\ seen[c] <= now /\ since[c] \in Nat /\ since[c] <= now /\ spent[c] \in Nat
  <2>1. bucket[c] \in Bucket /\ ideal[c] \in Bucket
    BY <1>2, Zenon
  <2> QED BY <1>2, <2>1, Zenon DEF IInv, Clocks, Bucket
<1>5. Clocks'
  <2> SUFFICES ASSUME NEW c \in Addrs
               PROVE  /\ bucket[c].last <= now + 1 /\ ideal[c].last <= now + 1
                      /\ seen[c] <= now + 1 /\ since[c] <= now + 1
                      /\ c \in tracked => bucket[c].last <= seen[c]
    BY <1>1, Zenon DEF Clocks
  <2>1. c \in tracked => bucket[c].last <= seen[c]
    BY Zenon DEF IInv, Clocks
  <2> QED BY <1>2, <1>4, <2>1
<1>6. ASSUME NEW b PROVE Level(b) = LevelAt(b, now)
  BY Zenon DEF Level, LevelAt
<1>7. Lossless'
  <2> SUFFICES ASSUME NEW c \in Addrs
               PROVE  (IF c \in tracked THEN LevelAt(bucket[c], now + 1) ELSE Full) = LevelAt(ideal[c], now + 1)
    BY <1>1, Zenon DEF Lossless, Holds, Level, LevelAt
  <2>1. (IF c \in tracked THEN LevelAt(bucket[c], now) ELSE Full) = LevelAt(ideal[c], now)
    BY <1>6, Zenon DEF IInv, Lossless, Holds
  <2>2. CASE c \in tracked
    BY <1>2, <1>4, <2>1, <2>2, FillTogether
  <2>3. CASE c \notin tracked
    <3>1. ideal[c].units + (now - ideal[c].last) >= Full
      BY <1>2, <1>4, <2>1, <2>3, RateLimitAssumption DEF LevelAt
    <3>2. ideal[c].units + (now + 1 - ideal[c].last) >= Full
      BY <1>2, <1>4, <3>1, RateLimitAssumption
    <3> QED BY <1>2, <1>4, <2>3, <3>2, RateLimitAssumption DEF LevelAt
  <2> QED BY <2>2, <2>3, Zenon
<1>8. Budget'
  <2> SUFFICES ASSUME NEW c \in Addrs
               PROVE  spent'[c] + Level(ideal[c])' <= Full + (now' - since'[c])
    BY Zenon DEF Budget
  <2>0. Level(ideal[c])' = LevelAt(ideal[c], now + 1)
    BY <1>1, Zenon DEF Level, LevelAt
  <2>1. spent[c] + LevelAt(ideal[c], now) <= Full + (now - since[c])
    BY <1>6, Zenon DEF IInv, Budget
  <2>2. /\ LevelAt(ideal[c], now + 1) <= LevelAt(ideal[c], now) + 1
        /\ LevelAt(ideal[c], now) \in Nat /\ LevelAt(ideal[c], now + 1) \in Nat
    BY <1>2, <1>4, RateLimitAssumption DEF LevelAt
  <2> QED BY <1>1, <1>2, <1>4, <2>0, <2>1, <2>2, RateLimitAssumption
<1> QED BY <1>3, <1>5, <1>7, <1>8, Zenon DEF IInv

\* Every step of the limiter keeps the invariant.
LEMMA NextKeeps == IInv /\ [Next]_vars => IInv'
<1> SUFFICES ASSUME IInv, [Next]_vars PROVE IInv'
  BY Zenon
<1>1. CASE Tick
  BY <1>1, TickKeeps, Zenon
<1>2. ASSUME NEW a \in Addrs, Allow(a) PROVE IInv'
  BY <1>2, KnownKeeps, NewKeeps, InsteadKeeps, Zenon DEF Allow
<1>3. CASE UNCHANGED vars
  BY <1>3, Zenon DEF vars, IInv, TypeOK, Clocks, Lossless, Holds, Budget, Level
<1> QED BY <1>1, <1>2, <1>3, Zenon DEF Next

-----------------------------------------------------------------------------
\* The map of ipLimiter never has more than ipLimiterCap entries.
THEOREM LimiterTypes == Spec => []TypeOK
<1>1. IInv => TypeOK
  BY Zenon DEF IInv
<1> QED BY <1>1, InitIInv, NextKeeps, PTL DEF Spec

\* evictLocked calls dropping idle entries lossless, and it is: with the map
\* of bounded size every attempt is answered as with an unbounded one.
THEOREM IdleEvictionIsLossless == Spec => []Lossless
<1>1. IInv => Lossless
  BY Zenon DEF IInv
<1> QED BY <1>1, InitIInv, NextKeeps, PTL DEF Spec

\* allow holds every address to its rate, through all the evictions of idle
\* entries, from the last time it was dropped while active.
THEOREM RateIsKept == Spec => []WithinRate
<1>1. IInv => WithinRate
  <2> SUFFICES ASSUME IInv, NEW a \in Addrs PROVE spent[a] <= Full + (now - since[a])
    BY Zenon DEF WithinRate
  <2>1. /\ now \in Nat /\ spent[a] \in Nat /\ since[a] \in Nat
        /\ ideal[a] \in Bucket /\ ideal[a].last <= now
    BY Zenon DEF IInv, TypeOK, Clocks
  <2>2. Level(ideal[a]) \in 0..Full
    BY <2>1, TakenIsBucket, Zenon
  <2>3. spent[a] + Level(ideal[a]) <= Full + (now - since[a])
    BY Zenon DEF IInv, Budget
  <2> QED BY <2>1, <2>2, <2>3, RateLimitAssumption
<1> QED BY <1>1, InitIInv, NextKeeps, PTL DEF Spec
================================================================================
