---------------------- MODULE RequestProtectionProofs ----------------------
(***************************************************************************)
(* The limiter's memory is bounded, the in-flight counter exact, no client *)
(* gets more through in a window than it may, and waiting as long as told  *)
(* is rewarded, for any clients, limits, windows and numbers of concurrent *)
(* requests.                                                               *)
(***************************************************************************)
EXTENDS RequestProtection, FiniteSetTheorems, SequenceTheorems, TLAPS

Working == {t \in Tasks : stage[t] # "out"}

\* Oldest first.
Sorted(bucket) == \A i, j \in DOMAIN bucket : i <= j => bucket[i] >= bucket[j]

\* The events of a bucket that are not older than age, and how many they are.
Young(bucket, age) == {i \in DOMAIN bucket : bucket[i] <= age}
Count(bucket, age) == Cardinality(Young(bucket, age))

\* A table's bucket of a key, empty if there is none.
Held(table, k) == IF k \in DOMAIN table THEN table[k] ELSE <<>>

\* The table has finitely many buckets, which hold ages.
TableOK ==
    /\ IsFiniteSet(DOMAIN events) /\ DOMAIN events \subseteq Keys
    /\ \A k \in DOMAIN events : events[k] \in Seq(Ages)

StagesOK == stage \in [Tasks -> {"out", "inside", "refusing"}] /\ inFlight \in 0 .. MaxConcurrent

\* Buckets and histories are in order, so that what expires is a prefix.
OrderOK ==
    /\ \A k \in DOMAIN events : Sorted(events[k])
    /\ admitted \in [Clients -> Seq(Ages)]
    /\ \A c \in Clients : Sorted(admitted[c])

\* At every age the window still counts, a client was let through no more often
\* than its own bucket and the overflow say together.
AdmittedCounted ==
    \A c \in Clients, age \in 0 .. Window - 1 :
        Count(admitted[c], age) <= Count(Held(events, c), age) + Count(Held(events, Overflow), age)

\* A refused client's bucket will not be full when its wait is over; after one
\* refusal this may be half a second short, after two it is not.
PatienceOK ==
    /\ wait \in [Patient -> Nat] /\ refused \in [Patient -> 0 .. 2]
    /\ \A c \in Patient : refused[c] > 0 =>
          Count(Held(events, c), Window - 3 + refused[c] - wait[c]) < Limit

\* What the limiter and the capacity keep, and what they promise the clients by it.
CapacityInv == TableOK /\ MemoryBounded /\ StagesOK /\ CapacityCounted
ClientsInv == OrderOK /\ AdmittedCounted /\ PatienceOK

ProtectionInv == CapacityInv /\ ClientsInv

-----------------------------------------------------------------------------
(* Buckets.                                                                *)

\* Dropping what has expired leaves a bucket of ages that is no longer.
LEMMA FreshShorter ==
    ASSUME NEW bucket \in Seq(Ages)
    PROVE  Fresh(bucket) \in Seq(Ages) /\ Len(Fresh(bucket)) <= Len(bucket)
<1>1. Expired(bucket) \subseteq 1 .. Len(bucket) /\ IsFiniteSet(1 .. Len(bucket))
  BY FS_Interval DEF Expired
<1>2. Cardinality(Expired(bucket)) \in Nat
  BY <1>1, FS_Subset, FS_CardinalityType
<1> DEFINE dropped == Cardinality(Expired(bucket))
<1>3. dropped \in Nat
  BY <1>2
<1> HIDE DEF dropped
<1>4. SubSeq(bucket, dropped + 1, Len(bucket)) \in Seq(Ages)
      /\ Len(SubSeq(bucket, dropped + 1, Len(bucket))) <= Len(bucket)
  BY <1>3
<1> QED
  BY <1>4 DEF Fresh, dropped

LEMMA FirstNumbers == ASSUME NEW n \in Nat PROVE IsFiniteSet(1 .. n) /\ Cardinality(1 .. n) = n
<1>1. IsFiniteSet(1 .. n) /\ Cardinality(1 .. n) = IF 1 > n THEN 0 ELSE n - 1 + 1
  BY FS_Interval
<1>2. (IF 1 > n THEN 0 ELSE n - 1 + 1) = n
  OBVIOUS
<1> QED
  BY <1>1, <1>2

\* How many events are young is a number within the bucket's length, and grows with the age.
LEMMA CountBounded ==
    ASSUME NEW bucket \in Seq(Ages), NEW age \in Int
    PROVE  /\ IsFiniteSet(Young(bucket, age))
           /\ Count(bucket, age) \in Nat /\ Count(bucket, age) <= Len(bucket)
           /\ \A more \in Int : age <= more => Count(bucket, age) <= Count(bucket, more)
<1>1. \A a : Young(bucket, a) \subseteq 1 .. Len(bucket)
  BY DEF Young
<1>2. IsFiniteSet(1 .. Len(bucket)) /\ Cardinality(1 .. Len(bucket)) = Len(bucket)
  <2>1. Len(bucket) \in Nat
    OBVIOUS
  <2> QED
    BY <2>1, FirstNumbers
<1>3. \A a : IsFiniteSet(Young(bucket, a)) /\ Cardinality(Young(bucket, a)) <= Len(bucket)
  BY <1>1, <1>2, FS_Subset
<1>4. ASSUME NEW more \in Int, age <= more PROVE Count(bucket, age) <= Count(bucket, more)
  <2>1. Young(bucket, age) \subseteq Young(bucket, more)
    BY <1>4, ProtectionAssumption DEF Young, Ages
  <2> QED
    BY <1>3, <2>1, FS_Subset DEF Count
<1> QED
  BY <1>3, <1>4, FS_CardinalityType DEF Count

\* What has expired from a bucket in order is what Fresh drops.
LEMMA ExpiredPrefix ==
    ASSUME NEW bucket \in Seq(Ages), Sorted(bucket)
    PROVE  LET dropped == Cardinality(Expired(bucket))
           IN  dropped \in 0 .. Len(bucket) /\ Expired(bucket) = 1 .. dropped
<1> DEFINE dropped == Cardinality(Expired(bucket))
<1>1. Expired(bucket) \subseteq 1 .. Len(bucket) /\ IsFiniteSet(1 .. Len(bucket))
      /\ Cardinality(1 .. Len(bucket)) = Len(bucket)
  <2>1. Len(bucket) \in Nat
    OBVIOUS
  <2> QED
    BY <2>1, FirstNumbers DEF Expired
<1>2. IsFiniteSet(Expired(bucket)) /\ dropped \in Nat /\ dropped <= Len(bucket)
  BY <1>1, FS_Subset, FS_CardinalityType
<1>3. ASSUME NEW i \in Expired(bucket) PROVE i <= dropped
  <2>1. i \in 1 .. Len(bucket) /\ bucket[i] >= Window
    BY <1>1 DEF Expired
  <2>2. ASSUME NEW j \in 1 .. i PROVE j \in Expired(bucket)
    <3>1. j \in DOMAIN bucket /\ bucket[j] >= bucket[i] /\ bucket[j] \in Ages /\ bucket[i] \in Ages
      BY <2>1 DEF Sorted
    <3> QED
      BY <2>1, <3>1, ProtectionAssumption DEF Expired, Ages
  <2>3. 1 .. i \subseteq Expired(bucket)
    BY <2>2
  <2>4. Cardinality(1 .. i) = i
    BY <2>1, FirstNumbers
  <2>5. Cardinality(1 .. i) <= dropped
    BY <1>2, <2>3, FS_Subset
  <2> QED
    BY <2>4, <2>5
<1>4. Expired(bucket) \subseteq 1 .. dropped
  BY <1>1, <1>2, <1>3
<1>5. IsFiniteSet(1 .. dropped) /\ Cardinality(1 .. dropped) = dropped
  BY <1>2, FirstNumbers
<1>6. Expired(bucket) = 1 .. dropped
  BY <1>4, <1>5, FS_Subset
<1> QED
  BY <1>2, <1>6

\* Dropping what has expired keeps the order and forgets nothing that counts.
LEMMA FreshCounts ==
    ASSUME NEW bucket \in Seq(Ages), Sorted(bucket)
    PROVE  /\ Sorted(Fresh(bucket))
           /\ \A i \in DOMAIN Fresh(bucket) : Fresh(bucket)[i] < Window
           /\ \A age \in Int : age < Window => Count(Fresh(bucket), age) = Count(bucket, age)
           /\ Len(Fresh(bucket)) = Count(bucket, Window - 1)
<1> DEFINE dropped == Cardinality(Expired(bucket))
           fresh == Fresh(bucket)
<1>1. dropped \in 0 .. Len(bucket) /\ Expired(bucket) = 1 .. dropped
  BY ExpiredPrefix
<1>2. Len(bucket) \in Nat /\ DOMAIN bucket = 1 .. Len(bucket) /\ \A i \in DOMAIN bucket : bucket[i] \in Ages
  OBVIOUS
<1>3. fresh = SubSeq(bucket, dropped + 1, Len(bucket))
  BY DEF Fresh
<1> HIDE DEF dropped, fresh
<1>4. /\ Len(fresh) = Len(bucket) - dropped /\ DOMAIN fresh = 1 .. Len(bucket) - dropped
      /\ \A i \in 1 .. Len(bucket) - dropped : fresh[i] = bucket[i + dropped] /\ i + dropped \in DOMAIN bucket
  <2>1. \A i \in dropped + 1 .. Len(bucket) : bucket[i] \in Ages
    BY <1>1, <1>2
  <2>2. dropped + 1 \in Int /\ Len(bucket) \in Int
    BY <1>1, <1>2
  <2>3. /\ fresh \in Seq(Ages)
        /\ Len(fresh) = IF dropped + 1 <= Len(bucket) THEN Len(bucket) - (dropped + 1) + 1 ELSE 0
        /\ \A i \in 1 .. Len(bucket) - (dropped + 1) + 1 : fresh[i] = bucket[(dropped + 1) + i - 1]
    BY <1>3, <2>1, <2>2, SubSeqProperties
  <2>4. Len(fresh) = Len(bucket) - dropped
    <3>1. CASE dropped + 1 <= Len(bucket)
      BY <1>1, <1>2, <2>3, <3>1
    <3>2. CASE ~(dropped + 1 <= Len(bucket))
      <4> DEFINE n == Len(bucket)
      <4>2. n \in Nat /\ dropped \in 0 .. n /\ ~(dropped + 1 <= n)
        BY <1>1, <1>2, <3>2
      <4> HIDE DEF n
      <4>3. dropped = n
        BY <4>2
      <4>1. dropped = Len(bucket)
        BY <4>3 DEF n
      <4> QED
        BY <1>2, <2>3, <3>2, <4>1
    <3> QED
      BY <3>1, <3>2
  <2>5. \A i \in 1 .. Len(bucket) - dropped : (dropped + 1) + i - 1 = i + dropped /\ i + dropped \in DOMAIN bucket
    BY <1>1, <1>2
  <2>6. Len(bucket) - (dropped + 1) + 1 = Len(bucket) - dropped
    BY <1>1, <1>2
  <2>7. \A i \in 1 .. Len(bucket) - dropped : fresh[i] = bucket[i + dropped]
    BY <2>3, <2>5, <2>6
  <2> QED
    BY <2>3, <2>4, <2>5, <2>7
<1>5. Sorted(fresh)
  <2> SUFFICES ASSUME NEW i \in DOMAIN fresh, NEW j \in DOMAIN fresh, i <= j
               PROVE  fresh[i] >= fresh[j]
    BY DEF Sorted
  <2>1. i \in 1 .. Len(bucket) - dropped /\ j \in 1 .. Len(bucket) - dropped
    BY <1>4
  <2>2. /\ fresh[i] = bucket[i + dropped] /\ i + dropped \in DOMAIN bucket
        /\ fresh[j] = bucket[j + dropped] /\ j + dropped \in DOMAIN bucket
    BY <1>4, <2>1
  <2>3. i + dropped <= j + dropped
    BY <1>1, <1>2, <2>1
  <2>4. bucket[i + dropped] >= bucket[j + dropped]
    BY <2>2, <2>3 DEF Sorted
  <2> QED
    BY <2>2, <2>4
<1>6. \A i \in DOMAIN bucket : bucket[i] < Window <=> i > dropped
  BY <1>1, <1>2, ProtectionAssumption DEF Expired, Ages
<1>7. \A i \in DOMAIN fresh : fresh[i] < Window /\ fresh[i] \in Ages
  BY <1>1, <1>2, <1>4, <1>6
<1>8. ASSUME NEW age \in Int, age < Window PROVE Count(fresh, age) = Count(bucket, age)
  <2> DEFINE f == [i \in Young(fresh, age) |-> i + dropped]
  <2>1. \A i \in Young(fresh, age) : i \in 1 .. Len(bucket) - dropped /\ i + dropped \in Young(bucket, age)
    BY <1>4 DEF Young
  <2>2. f \in Injection(Young(fresh, age), Young(bucket, age))
    BY <1>1, <2>1 DEF Injection, IsInjective
  <2>3. \A j \in Young(bucket, age) : \E i \in Young(fresh, age) : f[i] = j
    <3> SUFFICES ASSUME NEW j \in Young(bucket, age) PROVE \E i \in Young(fresh, age) : f[i] = j
      OBVIOUS
    <3>1. j \in DOMAIN bucket /\ bucket[j] <= age /\ j > dropped
      BY <1>2, <1>6, <1>8, ProtectionAssumption DEF Young, Ages
    <3>2. j - dropped \in DOMAIN fresh /\ fresh[j - dropped] = bucket[j] /\ (j - dropped) + dropped = j
      BY <1>1, <1>2, <1>4, <3>1
    <3>3. j - dropped \in Young(fresh, age)
      BY <3>1, <3>2 DEF Young
    <3> QED
      BY <3>2, <3>3
  <2>4. f \in Surjection(Young(fresh, age), Young(bucket, age))
    BY <2>1, <2>3 DEF Surjection
  <2>5. ExistsBijection(Young(fresh, age), Young(bucket, age))
    BY <2>2, <2>4 DEF ExistsBijection, Bijection
  <2>6. fresh \in Seq(Ages)
    BY FreshShorter DEF fresh
  <2>7. IsFiniteSet(Young(fresh, age))
    BY <2>6, CountBounded
  <2> QED
    BY <2>5, <2>7, FS_Bijection DEF Count
<1>9. Len(fresh) = Count(fresh, Window - 1)
  <2>1. Young(fresh, Window - 1) = 1 .. Len(fresh)
    BY <1>4, <1>7, ProtectionAssumption DEF Young, Ages
  <2>2. Len(fresh) \in Nat
    BY <1>1, <1>4
  <2>3. Cardinality(1 .. Len(fresh)) = Len(fresh)
    BY <2>2, FirstNumbers
  <2> QED
    BY <2>1, <2>3 DEF Count
<1>10. Len(fresh) = Count(bucket, Window - 1)
  BY <1>8, <1>9, ProtectionAssumption
<1> QED
  BY <1>5, <1>7, <1>8, <1>10 DEF fresh

\* Half a second makes every event that counts that much older.
LEMMA OlderCounts ==
    ASSUME NEW bucket \in Seq(Ages), Sorted(bucket)
    PROVE  /\ Older(bucket) \in Seq(Ages) /\ Len(Older(bucket)) = Len(bucket) /\ Sorted(Older(bucket))
           /\ \A age \in Int : age < Window => Count(Older(bucket), age) = Count(bucket, age - 1)
<1>1. \A i \in DOMAIN bucket : bucket[i] \in Ages
  OBVIOUS
<1>2. Older(bucket) \in [1 .. Len(bucket) -> Ages]
  BY <1>1, ProtectionAssumption DEF Older, Ages
<1>3. Older(bucket) \in Seq(Ages) /\ Len(Older(bucket)) = Len(bucket)
  BY <1>2
<1>4. /\ DOMAIN Older(bucket) = DOMAIN bucket
      /\ \A i \in DOMAIN bucket : Older(bucket)[i] = IF bucket[i] < Window THEN bucket[i] + 1 ELSE Window
  BY DEF Older
<1>5. Sorted(Older(bucket))
  BY <1>1, <1>4, ProtectionAssumption DEF Sorted, Ages
<1>6. ASSUME NEW age \in Int, age < Window PROVE Young(Older(bucket), age) = Young(bucket, age - 1)
  BY <1>1, <1>4, <1>6, ProtectionAssumption DEF Young, Ages
<1> QED
  BY <1>3, <1>5, <1>6 DEF Count

\* A new event counts at every age.
LEMMA AppendCounts ==
    ASSUME NEW bucket \in Seq(Ages), Sorted(bucket)
    PROVE  /\ Append(bucket, 0) \in Seq(Ages) /\ Sorted(Append(bucket, 0))
           /\ \A age \in Int :
                Count(Append(bucket, 0), age) = Count(bucket, age) + (IF age >= 0 THEN 1 ELSE 0)
<1> DEFINE new == Append(bucket, 0)
           last == Len(bucket) + 1
<1>1. 0 \in Ages /\ \A i \in DOMAIN bucket : bucket[i] \in Ages
  BY ProtectionAssumption DEF Ages
<1>2. /\ new \in Seq(Ages) /\ DOMAIN new = DOMAIN bucket \cup {last} /\ new[last] = 0
      /\ last \notin DOMAIN bucket /\ \A i \in DOMAIN bucket : new[i] = bucket[i] /\ i < last
  BY <1>1
<1> HIDE DEF new
<1>3. Sorted(new)
  BY <1>1, <1>2, ProtectionAssumption DEF Sorted, Ages
<1>4. ASSUME NEW age \in Int
      PROVE  Count(new, age) = Count(bucket, age) + (IF age >= 0 THEN 1 ELSE 0)
  <2>1. IsFiniteSet(Young(bucket, age)) /\ Cardinality(Young(bucket, age)) \in Nat
    BY CountBounded DEF Count
  <2>2. CASE age >= 0
    <3>1. Young(new, age) = Young(bucket, age) \cup {last} /\ last \notin Young(bucket, age)
      BY <1>2, <2>2 DEF Young
    <3>2. Cardinality(Young(bucket, age) \cup {last}) = Cardinality(Young(bucket, age)) + 1
      BY <2>1, <3>1, FS_AddElement
    <3> QED
      BY <2>2, <3>1, <3>2 DEF Count
  <2>3. CASE ~(age >= 0)
    <3>1. Young(new, age) = Young(bucket, age)
      BY <1>2, <2>3 DEF Young
    <3> QED
      BY <2>1, <2>3, <3>1 DEF Count
  <2> QED
    BY <2>2, <2>3
<1> QED
  BY <1>2, <1>3, <1>4 DEF new

\* Sweeping only removes buckets and shortens the others.
LEMMA SweptSmaller ==
    ASSUME TableOK, NEW c
    PROVE  /\ DOMAIN Swept(c) \subseteq DOMAIN events
           /\ \A k \in DOMAIN Swept(c) :
                Swept(c)[k] \in Seq(Ages) /\ Len(Swept(c)[k]) <= Len(events[k])
<1>1. CASE c \notin DOMAIN events /\ Full(events)
  <2>1. Swept(c) = Purged(events)
    BY <1>1 DEF Swept
  <2>2. DOMAIN Purged(events) \subseteq DOMAIN events
        /\ \A k \in DOMAIN Purged(events) : Purged(events)[k] = Fresh(events[k])
    BY DEF Purged
  <2> QED
    BY <2>1, <2>2, FreshShorter DEF TableOK
<1>2. CASE ~(c \notin DOMAIN events /\ Full(events))
  <2>1. Swept(c) = events
    BY <1>2 DEF Swept
  <2>2. \A k \in DOMAIN events : Len(events[k]) <= Len(events[k])
    BY DEF TableOK
  <2> QED
    BY <2>1, <2>2 DEF TableOK
<1> QED
  BY <1>1, <1>2

\* The bucket a client is counted in.
LEMMA BucketTyped ==
    ASSUME TableOK, MemoryBounded, NEW c
    PROVE  BucketOf(c) \in Seq(Ages) /\ Len(BucketOf(c)) <= Limit
<1>1. CASE KeyOf(c) \in DOMAIN Swept(c)
  <2>1. BucketOf(c) = Fresh(Swept(c)[KeyOf(c)])
    BY <1>1 DEF BucketOf
  <2>2. /\ KeyOf(c) \in DOMAIN events /\ Swept(c)[KeyOf(c)] \in Seq(Ages)
        /\ Len(Swept(c)[KeyOf(c)]) <= Len(events[KeyOf(c)])
    BY <1>1, SweptSmaller
  <2>3. Len(events[KeyOf(c)]) <= Limit /\ Len(events[KeyOf(c)]) \in Nat
    BY <2>2 DEF MemoryBounded, TableOK
  <2>4. Len(BucketOf(c)) \in Nat /\ BucketOf(c) \in Seq(Ages)
        /\ Len(BucketOf(c)) <= Len(Swept(c)[KeyOf(c)])
    BY <2>1, <2>2, FreshShorter
  <2> QED
    BY <2>2, <2>3, <2>4, ProtectionAssumption
<1>2. CASE KeyOf(c) \notin DOMAIN Swept(c)
  BY <1>2, ProtectionAssumption DEF BucketOf
<1> QED
  BY <1>1, <1>2

\* Counting a client adds a bucket of its own only while there is room.
LEMMA RoomForBucket ==
    ASSUME TableOK, MemoryBounded, NEW c
    PROVE  LET keys == DOMAIN Swept(c) \cup {KeyOf(c)}
           IN  IsFiniteSet(keys) /\ Cardinality(keys \ {Overflow}) <= MaxKeys
<1> DEFINE keys == DOMAIN Swept(c) \cup {KeyOf(c)}
<1>1. IsFiniteSet(DOMAIN Swept(c)) /\ DOMAIN Swept(c) \subseteq DOMAIN events
  BY SweptSmaller, FS_Subset DEF TableOK
<1>2. IsFiniteSet(keys)
  BY <1>1, FS_AddElement
<1>3. /\ Cardinality(DOMAIN Swept(c) \ {Overflow}) <= MaxKeys
      /\ Cardinality(DOMAIN Swept(c) \ {Overflow}) \in Nat
  <2>1. IsFiniteSet(DOMAIN events \ {Overflow})
        /\ DOMAIN Swept(c) \ {Overflow} \subseteq DOMAIN events \ {Overflow}
    BY <1>1, FS_Subset DEF TableOK
  <2>2. Cardinality(DOMAIN Swept(c) \ {Overflow}) <= Cardinality(DOMAIN events \ {Overflow})
        /\ IsFiniteSet(DOMAIN Swept(c) \ {Overflow})
    BY <2>1, FS_Subset
  <2>3. Cardinality(DOMAIN Swept(c) \ {Overflow}) \in Nat /\ Cardinality(DOMAIN events \ {Overflow}) \in Nat
    BY <2>1, <2>2, FS_CardinalityType
  <2> QED
    BY <2>2, <2>3, ProtectionAssumption DEF MemoryBounded
<1>4. CASE KeyOf(c) \in DOMAIN Swept(c) \/ KeyOf(c) = Overflow
  <2>1. keys \ {Overflow} = DOMAIN Swept(c) \ {Overflow}
    BY <1>4
  <2> QED
    BY <1>2, <1>3, <2>1
<1>5. CASE KeyOf(c) \notin DOMAIN Swept(c) /\ KeyOf(c) # Overflow
  <2>1. ~(Cardinality(DOMAIN Swept(c)) >= MaxKeys)
    BY <1>5 DEF KeyOf, Full
  <2>2. Cardinality(keys) = Cardinality(DOMAIN Swept(c)) + 1
    BY <1>1, <1>5, FS_AddElement
  <2>3. Cardinality(keys \ {Overflow}) <= Cardinality(keys)
        /\ Cardinality(keys \ {Overflow}) \in Nat
    <3>1. keys \ {Overflow} \subseteq keys
      OBVIOUS
    <3>2. IsFiniteSet(keys \ {Overflow}) /\ Cardinality(keys \ {Overflow}) <= Cardinality(keys)
      BY <1>2, <3>1, FS_Subset
    <3> QED
      BY <3>2, FS_CardinalityType
  <2>4. Cardinality(DOMAIN Swept(c)) \in Nat /\ Cardinality(keys) \in Nat
    BY <1>1, <1>2, FS_CardinalityType
  <2> QED
    BY <1>2, <2>1, <2>2, <2>3, <2>4, ProtectionAssumption
<1> QED
  BY <1>4, <1>5

\* Any bucket of ages within the limit can take the client's bucket's place.
LEMMA TableReplaced ==
    ASSUME TableOK, MemoryBounded, NEW c \in Clients, NEW bucket \in Seq(Ages), Len(bucket) <= Limit,
           events' = With(c, bucket)
    PROVE  (TableOK /\ MemoryBounded)'
<1> DEFINE keys == DOMAIN Swept(c) \cup {KeyOf(c)}
<1>1. IsFiniteSet(keys) /\ Cardinality(keys \ {Overflow}) <= MaxKeys
  BY RoomForBucket
<1>2. DOMAIN events' = keys /\ events' = [k \in keys |-> IF k = KeyOf(c) THEN bucket ELSE Swept(c)[k]]
  BY DEF With
<1>3. ASSUME NEW k \in keys PROVE events'[k] \in Seq(Ages) /\ Len(events'[k]) <= Limit
  <2>1. CASE k = KeyOf(c)
    BY <1>2, <2>1
  <2>2. CASE k # KeyOf(c)
    <3>1. /\ k \in DOMAIN events /\ Swept(c)[k] \in Seq(Ages)
          /\ Len(Swept(c)[k]) <= Len(events[k]) /\ events'[k] = Swept(c)[k]
      BY <1>2, <2>2, SweptSmaller
    <3>2. Len(events[k]) <= Limit /\ Len(events[k]) \in Nat
      BY <3>1 DEF MemoryBounded, TableOK
    <3>3. Len(Swept(c)[k]) \in Nat
      BY <3>1
    <3> QED
      BY <3>1, <3>2, <3>3, ProtectionAssumption
  <2> QED
    BY <2>1, <2>2
<1>4. keys \subseteq Keys
  BY SweptSmaller DEF TableOK, KeyOf, Keys
<1> QED
  BY <1>1, <1>2, <1>3, <1>4 DEF TableOK, MemoryBounded

\* Making room forgets nothing that counts.
LEMMA SweptCounts ==
    ASSUME TableOK, \A k \in DOMAIN events : Sorted(events[k]), NEW c
    PROVE  /\ \A k \in DOMAIN Swept(c) : Sorted(Swept(c)[k])
           /\ \A k : \A age \in Int : age < Window => Count(Held(Swept(c), k), age) = Count(Held(events, k), age)
<1>1. CASE c \notin DOMAIN events /\ Full(events)
  <2>1. Swept(c) = Purged(events)
    BY <1>1 DEF Swept
  <2>2. /\ DOMAIN Purged(events) \subseteq DOMAIN events
        /\ \A k \in DOMAIN events : k \in DOMAIN Purged(events) <=> Fresh(events[k]) # <<>>
        /\ \A k \in DOMAIN Purged(events) : Purged(events)[k] = Fresh(events[k])
    BY DEF Purged
  <2>3. \A k \in DOMAIN events : events[k] \in Seq(Ages) /\ Sorted(events[k])
    BY DEF TableOK
  <2>4. \A k \in DOMAIN Purged(events) : Sorted(Purged(events)[k])
    BY <2>2, <2>3, FreshCounts
  <2>5. ASSUME NEW k, NEW age \in Int, age < Window
        PROVE  Count(Held(Purged(events), k), age) = Count(Held(events, k), age)
    <3>1. CASE k \notin DOMAIN events
      BY <2>2, <3>1 DEF Held
    <3>2. CASE k \in DOMAIN events
      <4>1. Count(Fresh(events[k]), age) = Count(events[k], age)
        BY <2>3, <2>5, <3>2, FreshCounts
      <4>2. Held(Purged(events), k) = Fresh(events[k])
        BY <2>2, <3>2 DEF Held
      <4> QED
        BY <3>2, <4>1, <4>2 DEF Held
    <3> QED
      BY <3>1, <3>2
  <2> QED
    BY <2>1, <2>4, <2>5
<1>2. CASE ~(c \notin DOMAIN events /\ Full(events))
  <2>1. Swept(c) = events
    BY <1>2 DEF Swept
  <2> QED
    BY <2>1
<1> QED
  BY <1>1, <1>2

\* An empty bucket counts nothing.
LEMMA NothingCounts ==
    /\ <<>> \in Seq(Ages) /\ Sorted(<<>>)
    /\ \A age : Count(<<>>, age) = 0
<1>1. \A age : Young(<<>>, age) = {}
  BY DEF Young
<1> QED
  BY <1>1, FS_EmptySet DEF Count, Sorted

\* The bucket a client is counted in has what its key's bucket has, as far as it counts.
LEMMA BucketCounts ==
    ASSUME TableOK, MemoryBounded, \A k \in DOMAIN events : Sorted(events[k]), NEW c
    PROVE  /\ Sorted(BucketOf(c)) /\ BucketOf(c) \in Seq(Ages) /\ Len(BucketOf(c)) <= Limit
           /\ \A i \in DOMAIN BucketOf(c) : BucketOf(c)[i] \in 0 .. Window - 1
           /\ Len(BucketOf(c)) = Count(Held(events, KeyOf(c)), Window - 1)
           /\ \A age \in Int : age < Window =>
                Count(BucketOf(c), age) = Count(Held(events, KeyOf(c)), age)
<1> DEFINE held == Held(Swept(c), KeyOf(c))
<1>1. held \in Seq(Ages) /\ Sorted(held)
  BY SweptCounts, SweptSmaller, NothingCounts DEF Held
<1>2. BucketOf(c) = Fresh(held)
  <2>1. CASE KeyOf(c) \in DOMAIN Swept(c)
    BY <2>1 DEF BucketOf, Held
  <2>2. CASE KeyOf(c) \notin DOMAIN Swept(c)
    <3>1. Expired(<<>>) = {}
      BY DEF Expired
    <3>2. Fresh(<<>>) = <<>>
      BY <3>1, FS_EmptySet DEF Fresh
    <3> QED
      BY <2>2, <3>2 DEF BucketOf, Held
  <2> QED
    BY <2>1, <2>2
<1>3. \A age \in Int : age < Window => Count(held, age) = Count(Held(events, KeyOf(c)), age)
  BY SweptCounts
<1> HIDE DEF held
<1>4. /\ Sorted(BucketOf(c)) /\ Len(BucketOf(c)) = Count(held, Window - 1)
      /\ \A i \in DOMAIN BucketOf(c) : BucketOf(c)[i] < Window
      /\ \A age \in Int : age < Window => Count(BucketOf(c), age) = Count(held, age)
  BY <1>1, <1>2, FreshCounts
<1>5. BucketOf(c) \in Seq(Ages) /\ Len(BucketOf(c)) <= Limit
  BY BucketTyped
<1>6. Window - 1 \in Int /\ Window - 1 < Window
  BY ProtectionAssumption
<1>7. \A i \in DOMAIN BucketOf(c) : BucketOf(c)[i] \in 0 .. Window - 1
  <2>1. \A i \in DOMAIN BucketOf(c) : BucketOf(c)[i] \in Ages
    BY <1>5
  <2> QED
    BY <1>4, <2>1, ProtectionAssumption DEF Ages
<1> QED
  BY <1>3, <1>4, <1>5, <1>6, <1>7

\* What counts in the table whose bucket of the client has been replaced.
LEMMA ReplacedCounts ==
    ASSUME TableOK, \A k \in DOMAIN events : Sorted(events[k]), NEW c, NEW bucket, Sorted(bucket),
           events' = With(c, bucket)
    PROVE  /\ \A k \in DOMAIN events' : Sorted(events'[k])
           /\ Held(events', KeyOf(c)) = bucket
           /\ \A k : k # KeyOf(c) => \A age \in Int : age < Window =>
                Count(Held(events', k), age) = Count(Held(events, k), age)
<1>1. /\ DOMAIN events' = DOMAIN Swept(c) \cup {KeyOf(c)}
      /\ events' = [k \in DOMAIN Swept(c) \cup {KeyOf(c)} |-> IF k = KeyOf(c) THEN bucket ELSE Swept(c)[k]]
  BY DEF With
<1>2. \A k : k # KeyOf(c) => Held(events', k) = Held(Swept(c), k)
  BY <1>1 DEF Held
<1>3. Held(events', KeyOf(c)) = bucket
  BY <1>1 DEF Held
<1>4. \A k \in DOMAIN events' : Sorted(events'[k])
  BY <1>1, SweptCounts
<1> QED
  BY <1>2, <1>3, <1>4, SweptCounts

\* What is left of a wait that begins now: at least until the oldest event is
\* half a second short of leaving the window, and then until it has.
LEMMA RetryAfterReaches ==
    ASSUME NEW oldest \in 0 .. Window - 1
    PROVE  /\ RetryAfter(oldest) \in Nat /\ oldest + RetryAfter(oldest) >= Window - 1
           /\ oldest = Window - 1 => oldest + RetryAfter(oldest) >= Window
BY ProtectionAssumption DEF RetryAfter

-----------------------------------------------------------------------------
(* Steps.                                                                  *)

LEMMA RefuseRateHolds ==
    ASSUME CapacityInv, NEW t \in Tasks, NEW c \in Clients, RefuseRate(t, c)
    PROVE  CapacityInv'
<1>1. (TableOK /\ MemoryBounded)'
  BY BucketTyped, TableReplaced DEF CapacityInv, RefuseRate
<1> QED
  BY <1>1 DEF CapacityInv, RefuseRate, StagesOK, CapacityCounted

LEMMA LetThroughHolds ==
    ASSUME CapacityInv, NEW c \in Clients, LetThrough(c)
    PROVE  (TableOK /\ MemoryBounded)'
<1>1. BucketOf(c) \in Seq(Ages) /\ Len(BucketOf(c)) < Limit
  BY BucketTyped DEF CapacityInv, LetThrough
<1>2. 0 \in Ages
  BY ProtectionAssumption DEF Ages
<1>3. Append(BucketOf(c), 0) \in Seq(Ages) /\ Len(Append(BucketOf(c), 0)) <= Limit
  BY <1>1, <1>2, ProtectionAssumption
<1> QED
  BY <1>3, TableReplaced DEF CapacityInv, LetThrough

LEMMA EnterHolds ==
    ASSUME CapacityInv, NEW t \in Tasks, NEW c \in Clients, stage[t] = "out", Enter(t, c)
    PROVE  CapacityInv'
<1>1. (TableOK /\ MemoryBounded)'
  BY LetThroughHolds DEF Enter
<1>2. StagesOK'
  BY ProtectionAssumption DEF CapacityInv, StagesOK, Enter
<1>3. Working' = Working \cup {t} /\ t \notin Working
  BY DEF CapacityInv, StagesOK, Enter, Working
<1>4. IsFiniteSet(Working)
  BY FS_Subset, ProtectionAssumption DEF Working
<1>5. Cardinality(Working') = Cardinality(Working) + 1
  BY <1>3, <1>4, FS_AddElement
<1> QED
  BY <1>1, <1>2, <1>5 DEF CapacityInv, CapacityCounted, Working, Enter

LEMMA LeaveHolds ==
    ASSUME CapacityInv, NEW t \in Tasks, Leave(t)
    PROVE  CapacityInv'
<1>1. (TableOK /\ MemoryBounded)'
  BY DEF CapacityInv, Leave, TableOK, MemoryBounded
<1>2. Working' = Working \ {t} /\ t \in Working
  BY DEF CapacityInv, StagesOK, Leave, Working
<1>3. IsFiniteSet(Working)
  BY FS_Subset, ProtectionAssumption DEF Working
<1>4. Cardinality(Working \ {t}) = Cardinality(Working) - 1 /\ Cardinality(Working) \in Nat
  BY <1>2, <1>3, FS_RemoveElement, FS_CardinalityType
<1>5. Cardinality(Working \ {t}) \in Nat
  BY <1>3, FS_RemoveElement, FS_CardinalityType
<1>6. inFlight = Cardinality(Working)
  BY DEF CapacityInv, CapacityCounted, Working
<1>7. inFlight # 0 /\ inFlight' = inFlight - 1
  BY <1>4, <1>5, <1>6 DEF Leave
<1>8. CapacityCounted'
  BY <1>2, <1>4, <1>6, <1>7 DEF CapacityCounted, Working
<1>9. StagesOK'
  <2>1. inFlight \in 0 .. MaxConcurrent /\ stage \in [Tasks -> {"out", "inside", "refusing"}]
    BY DEF CapacityInv, StagesOK
  <2>2. inFlight' \in 0 .. MaxConcurrent
    BY <1>7, <2>1, ProtectionAssumption
  <2> QED
    BY <2>1, <2>2 DEF StagesOK, Leave
<1> QED
  BY <1>1, <1>8, <1>9 DEF CapacityInv

LEMMA TickHolds == ASSUME CapacityInv, Tick PROVE CapacityInv'
<1>1. DOMAIN events' = DOMAIN events /\ \A k \in DOMAIN events : events'[k] = Older(events[k])
  BY DEF Tick
<1>2. ASSUME NEW k \in DOMAIN events
      PROVE  events'[k] \in Seq(Ages) /\ Len(events'[k]) = Len(events[k])
  <2>1. events[k] \in Seq(Ages)
    BY DEF CapacityInv, TableOK
  <2>2. \A i \in DOMAIN events[k] : events[k][i] \in Ages
    BY <2>1
  <2>3. Older(events[k]) \in [1 .. Len(events[k]) -> Ages]
    BY <2>1, <2>2, ProtectionAssumption DEF Older, Ages
  <2> QED
    BY <1>1, <2>1, <2>3
<1>3. IsFiniteSet(DOMAIN events) /\ Cardinality(DOMAIN events \ {Overflow}) <= MaxKeys
      /\ \A k \in DOMAIN events : Len(events[k]) <= Limit
  BY DEF CapacityInv, TableOK, MemoryBounded
<1>4. TableOK'
  <2>2. IsFiniteSet(DOMAIN events')
    BY <1>1, <1>3
  <2>3. \A k \in DOMAIN events' : events'[k] \in Seq(Ages)
    BY <1>1, <1>2
  <2>4. DOMAIN events' \subseteq Keys
    BY <1>1 DEF CapacityInv, TableOK
  <2> QED
    BY <2>2, <2>3, <2>4, Zenon DEF TableOK
<1>5. MemoryBounded'
  BY <1>1, <1>2, <1>3 DEF MemoryBounded
<1> QED
  BY <1>4, <1>5 DEF CapacityInv, Tick, StagesOK, CapacityCounted

LEMMA CapacityKept == ASSUME CapacityInv, [Next]_vars PROVE CapacityInv'
<1>1. CASE Tick
  BY <1>1, TickHolds
<1>2. ASSUME NEW t \in Tasks, ExceedBody(t) PROVE CapacityInv'
  <2>1. Working' = Working
    BY <1>2 DEF CapacityInv, StagesOK, ExceedBody, Working
  <2> QED
    BY <1>2, <2>1 DEF CapacityInv, TableOK, MemoryBounded, StagesOK, CapacityCounted, Working, ExceedBody
<1>3. ASSUME NEW t \in Tasks, Leave(t) PROVE CapacityInv'
  BY <1>3, LeaveHolds
<1>4. ASSUME NEW t \in Tasks, NEW c \in Clients, Arrive(t, c) PROVE CapacityInv'
  <2>1. CASE RefuseRate(t, c)
    BY <2>1, RefuseRateHolds
  <2>2. CASE RefuseBusy(t, c)
    <3>1. (TableOK /\ MemoryBounded)'
      BY <2>2, LetThroughHolds DEF RefuseBusy
    <3> QED
      BY <2>2, <3>1 DEF CapacityInv, RefuseBusy, StagesOK, CapacityCounted
  <2>3. CASE Enter(t, c)
    BY <1>4, <2>3, EnterHolds DEF Arrive
  <2> QED
    BY <1>4, <2>1, <2>2, <2>3 DEF Arrive
<1>5. CASE UNCHANGED vars
  BY <1>5 DEF vars, CapacityInv, TableOK, MemoryBounded, StagesOK, CapacityCounted
<1> QED
  BY <1>1, <1>2, <1>3, <1>4, <1>5 DEF Next

LEMMA CapacityBegins == Init => CapacityInv
<1> SUFFICES ASSUME Init PROVE CapacityInv
  OBVIOUS
<1>1. DOMAIN events = {}
  BY DEF Init
<1>2. IsFiniteSet({}) /\ Cardinality({}) = 0
  BY FS_EmptySet
<1>3. TableOK
  BY <1>1, <1>2 DEF TableOK
<1>4. DOMAIN events \ {Overflow} = {}
  BY <1>1
<1>5. MemoryBounded
  BY <1>1, <1>2, <1>4, ProtectionAssumption DEF MemoryBounded
<1>6. Working = {} /\ StagesOK /\ inFlight = 0
  BY ProtectionAssumption DEF Init, Working, StagesOK
<1>7. CapacityCounted
  BY <1>2, <1>6 DEF CapacityCounted, Working
<1> QED
  BY <1>3, <1>5, <1>6, <1>7 DEF CapacityInv

-----------------------------------------------------------------------------
(* What the steps keep of the promises to the clients.                     *)

\* The facts about the histories and the table that the steps need.
LEMMA InOrder ==
    ASSUME ProtectionInv
    PROVE  /\ TableOK /\ MemoryBounded
           /\ \A k : Held(events, k) \in Seq(Ages) /\ Sorted(Held(events, k)) /\ Len(Held(events, k)) <= Limit
           /\ \A k \in DOMAIN events : Sorted(events[k])
           /\ \A c \in Clients : admitted[c] \in Seq(Ages) /\ Sorted(admitted[c])
           /\ wait \in [Patient -> Nat] /\ refused \in [Patient -> 0 .. 2]
           /\ Window \in Nat /\ Limit \in Nat
<1>1. TableOK /\ MemoryBounded /\ OrderOK /\ PatienceOK
  BY DEF ProtectionInv, CapacityInv, ClientsInv
<1>2. \A k : Held(events, k) \in Seq(Ages) /\ Sorted(Held(events, k)) /\ Len(Held(events, k)) <= Limit
  BY <1>1, NothingCounts, ProtectionAssumption DEF Held, TableOK, MemoryBounded, OrderOK
<1> QED
  BY <1>1, <1>2, ProtectionAssumption DEF OrderOK, PatienceOK

LEMMA TickClients == ASSUME ProtectionInv, Tick PROVE ClientsInv'
<1>1. /\ DOMAIN events' = DOMAIN events /\ \A k \in DOMAIN events : events'[k] = Older(events[k])
      /\ DOMAIN admitted' = Clients /\ \A c \in Clients : admitted'[c] = Fresh(Older(admitted[c]))
      /\ admitted' = [c \in Clients |-> Fresh(Older(admitted[c]))]
      /\ wait' = [c \in Patient |-> IF wait[c] = 0 THEN 0 ELSE wait[c] - 1] /\ refused' = refused
  BY DEF Tick
<1>2. \A k \in DOMAIN events' : Sorted(events'[k])
  BY <1>1, InOrder, OlderCounts DEF TableOK
<1>3. ASSUME NEW k, NEW age \in Int, age < Window
      PROVE  Count(Held(events', k), age) = Count(Held(events, k), age - 1)
  <2>1. CASE k \in DOMAIN events
    <3>1. events[k] \in Seq(Ages) /\ Sorted(events[k])
      BY <2>1, InOrder DEF TableOK
    <3> QED
      BY <1>1, <1>3, <2>1, <3>1, OlderCounts DEF Held
  <2>2. CASE k \notin DOMAIN events
    BY <1>1, <2>2, NothingCounts DEF Held
  <2> QED
    BY <2>1, <2>2
<1>4. ASSUME NEW c \in Clients
      PROVE  /\ admitted'[c] \in Seq(Ages) /\ Sorted(admitted'[c])
             /\ \A age \in Int : age < Window => Count(admitted'[c], age) = Count(admitted[c], age - 1)
  <2>1. /\ Older(admitted[c]) \in Seq(Ages) /\ Sorted(Older(admitted[c]))
        /\ \A age \in Int : age < Window => Count(Older(admitted[c]), age) = Count(admitted[c], age - 1)
    BY InOrder, OlderCounts
  <2>2. /\ Fresh(Older(admitted[c])) \in Seq(Ages) /\ Sorted(Fresh(Older(admitted[c])))
        /\ \A age \in Int : age < Window => Count(Fresh(Older(admitted[c])), age) = Count(Older(admitted[c]), age)
    BY <2>1, FreshShorter, FreshCounts
  <2> QED
    BY <1>1, <2>1, <2>2
<1>5. OrderOK'
  <2>1. admitted' \in [Clients -> Seq(Ages)]
    BY <1>1, <1>4
  <2> QED
    BY <1>2, <1>4, <2>1 DEF OrderOK
<1>6. AdmittedCounted'
  <2> SUFFICES ASSUME NEW c \in Clients, NEW age \in 0 .. Window - 1
               PROVE  Count(admitted'[c], age)
                        <= Count(Held(events', c), age) + Count(Held(events', Overflow), age)
    BY DEF AdmittedCounted
  <2>1. age \in Int /\ age < Window /\ age - 1 \in Int /\ Window \in Nat
    BY ProtectionAssumption
  <2>2. Count(admitted[c], age - 1) <= Count(Held(events, c), age - 1) + Count(Held(events, Overflow), age - 1)
    <3>1. CASE age = 0
      <4>1. Young(admitted[c], age - 1) = {}
        BY <3>1, InOrder DEF Young, Ages
      <4>2. Count(admitted[c], age - 1) = 0
        BY <4>1, FS_EmptySet DEF Count
      <4>3. Count(Held(events, c), age - 1) \in Nat /\ Count(Held(events, Overflow), age - 1) \in Nat
        BY <2>1, InOrder, CountBounded
      <4> QED
        BY <4>2, <4>3
    <3>2. CASE age # 0
      <4>1. age - 1 \in 0 .. Window - 1
        BY <2>1, <3>2
      <4> QED
        BY <4>1 DEF ProtectionInv, ClientsInv, AdmittedCounted
    <3> QED
      BY <3>1, <3>2
  <2> QED
    BY <1>3, <1>4, <2>1, <2>2
<1>7. PatienceOK'
  <2>1. wait' \in [Patient -> Nat] /\ refused' \in [Patient -> 0 .. 2]
    BY <1>1, InOrder
  <2>2. ASSUME NEW c \in Patient, refused[c] > 0
        PROVE  Count(Held(events', c), Window - 3 + refused[c] - wait'[c]) < Limit
    <3> DEFINE before == Window - 3 + refused[c] - wait[c]
               after == Window - 3 + refused[c] - wait'[c]
    <3>1. Count(Held(events, c), before) < Limit
      BY <2>2 DEF ProtectionInv, ClientsInv, PatienceOK
    <3>2. /\ wait[c] \in Nat /\ wait'[c] = (IF wait[c] = 0 THEN 0 ELSE wait[c] - 1) /\ refused[c] \in 0 .. 2
          /\ Window \in Nat
      BY <1>1, InOrder
    <3>3. after \in Int /\ before \in Int /\ after < Window /\ after - 1 <= before /\ after - 1 \in Int
      BY <3>2
    <3> HIDE DEF before, after
    <3>4. Count(Held(events', c), after) = Count(Held(events, c), after - 1)
      BY <1>3, <3>3
    <3>5. /\ Count(Held(events, c), after - 1) <= Count(Held(events, c), before)
          /\ Count(Held(events, c), after - 1) \in Nat /\ Count(Held(events, c), before) \in Nat
      BY <3>3, InOrder, CountBounded
    <3>6. Count(Held(events', c), after) < Limit
      BY <3>1, <3>4, <3>5, InOrder
    <3> QED
      BY <3>6 DEF after
  <2> QED
    BY <1>1, <2>1, <2>2 DEF PatienceOK
<1> QED
  BY <1>5, <1>6, <1>7 DEF ClientsInv

LEMMA RefusedClients ==
    ASSUME ProtectionInv, NEW t \in Tasks, NEW c \in Clients, RefuseRate(t, c), c \in Patient => wait[c] = 0
    PROVE  ClientsInv'
<1> DEFINE bucket == BucketOf(c)
           key == KeyOf(c)
<1>1. /\ Len(bucket) >= Limit /\ events' = With(c, bucket) /\ admitted' = admitted
      /\ wait' = [wait EXCEPT ![c] = RetryAfter(bucket[1])]
      /\ refused' = [refused EXCEPT ![c] = IF key = c THEN @ + 1 ELSE 0]
  BY DEF RefuseRate
<1>2. /\ Sorted(bucket) /\ bucket \in Seq(Ages) /\ Len(bucket) <= Limit
      /\ \A i \in DOMAIN bucket : bucket[i] \in 0 .. Window - 1
      /\ Len(bucket) = Count(Held(events, key), Window - 1)
      /\ \A age \in Int : age < Window => Count(bucket, age) = Count(Held(events, key), age)
  BY InOrder, BucketCounts
<1>3. /\ \A k \in DOMAIN events' : Sorted(events'[k])
      /\ Held(events', key) = bucket
      /\ \A k : k # key => \A age \in Int : age < Window =>
            Count(Held(events', k), age) = Count(Held(events, k), age)
  BY <1>1, <1>2, InOrder, ReplacedCounts
<1>4. Limit \in Nat \ {0} /\ Window \in Nat \ {0}
  BY ProtectionAssumption
<1> HIDE DEF bucket, key
<1>5. Len(bucket) = Limit /\ 1 \in DOMAIN bucket /\ bucket[1] \in 0 .. Window - 1
      /\ \A i \in DOMAIN bucket : bucket[i] <= bucket[1]
  <2>1. Len(bucket) = Limit /\ 1 \in DOMAIN bucket
    BY <1>1, <1>2, <1>4
  <2> QED
    BY <1>2, <2>1 DEF Sorted
<1>6. \A k : \A age \in Int : age < Window => Count(Held(events', k), age) = Count(Held(events, k), age)
  BY <1>2, <1>3
<1>7. OrderOK'
  BY <1>1, <1>3 DEF ProtectionInv, ClientsInv, OrderOK
<1>8. AdmittedCounted'
  <2> SUFFICES ASSUME NEW d \in Clients, NEW age \in 0 .. Window - 1
               PROVE  Count(admitted[d], age)
                        <= Count(Held(events', d), age) + Count(Held(events', Overflow), age)
    BY <1>1 DEF AdmittedCounted
  <2>1. age \in Int /\ age < Window
    BY <1>4
  <2>2. Count(admitted[d], age) <= Count(Held(events, d), age) + Count(Held(events, Overflow), age)
    BY DEF ProtectionInv, ClientsInv, AdmittedCounted
  <2> QED
    BY <1>6, <2>1, <2>2
\* Fewer than the limit are younger than the oldest of a full bucket.
<1>9. ASSUME NEW age \in Int, age < bucket[1] PROVE Count(bucket, age) < Limit
  <2>1. Young(bucket, age) \subseteq (1 .. Limit) \ {1}
    <3>0. DOMAIN bucket = 1 .. Len(bucket)
      <4>1. bucket \in Seq(Ages)
        BY <1>2
      <4> QED
        BY <4>1
    <3>1. DOMAIN bucket = 1 .. Limit
      BY <3>0, <1>5
    <3>2. ~(bucket[1] <= age)
      BY <1>5, <1>9
    <3> QED
      BY <3>1, <3>2 DEF Young
  <2>2. IsFiniteSet(1 .. Limit) /\ Cardinality(1 .. Limit) = Limit
    BY <1>4, FirstNumbers
  <2>3. IsFiniteSet((1 .. Limit) \ {1}) /\ Cardinality((1 .. Limit) \ {1}) = Limit - 1
    <3>1. 1 \in 1 .. Limit
      BY <1>4
    <3>2. Cardinality((1 .. Limit) \ {1}) = Cardinality(1 .. Limit) - 1
      BY <2>2, <3>1, FS_RemoveElement, Zenon
    <3> QED
      BY <2>2, <3>1, <3>2, FS_RemoveElement, Zenon
  <2>4. Cardinality(Young(bucket, age)) <= Limit - 1
    BY <2>1, <2>3, FS_Subset
  <2>5. Cardinality(Young(bucket, age)) \in Nat
    BY <1>2, CountBounded DEF Count
  <2> QED
    BY <1>4, <2>4, <2>5 DEF Count
\* All of them are young at the age of the oldest.
<1>10. ASSUME NEW age \in Int, bucket[1] <= age PROVE Count(bucket, age) = Limit
  <2>1. Young(bucket, age) = 1 .. Limit
    BY <1>2, <1>4, <1>5, <1>10 DEF Young
  <2> QED
    BY <1>4, <2>1, FirstNumbers DEF Count
<1>11. /\ RetryAfter(bucket[1]) \in Nat /\ bucket[1] + RetryAfter(bucket[1]) >= Window - 1
       /\ bucket[1] = Window - 1 => bucket[1] + RetryAfter(bucket[1]) >= Window
  BY <1>5, RetryAfterReaches
<1>12. PatienceOK'
  <2>1. wait' \in [Patient -> Nat]
    BY <1>1, <1>11, InOrder
  <2>2. ASSUME c \in Patient, key = c
        PROVE  refused[c] \in {0, 1} /\ (refused[c] = 1 => bucket[1] = Window - 1)
    <3> DEFINE reach == Window - 3 + refused[c]
    <3>1. wait[c] = 0 /\ refused[c] \in 0 .. 2
      BY <2>2, InOrder
    <3>2. CASE refused[c] = 0
      BY <3>2, <1>4
    <3>3. CASE refused[c] > 0
      <4>1. Count(Held(events, c), Window - 3 + refused[c] - wait[c]) < Limit
        BY <2>2, <3>3 DEF ProtectionInv, ClientsInv, PatienceOK
      <4>2. Window - 3 + refused[c] - wait[c] = reach /\ reach \in Int /\ reach < Window
        <5> DEFINE n == refused[c]
                   w == wait[c]
        <5>1. n \in 0 .. 2 /\ w = 0
          BY <3>1
        <5> HIDE DEF n, w
        <5>2. Window - 3 + n - w = Window - 3 + n /\ Window - 3 + n \in Int /\ Window - 3 + n < Window
          BY <1>4, <5>1
        <5> QED
          BY <5>2 DEF n, w
      <4>3. Count(bucket, reach) < Limit
        BY <1>2, <2>2, <4>1, <4>2
      <4>4. ~(bucket[1] <= reach)
        BY <1>4, <1>10, <4>2, <4>3
      <4> QED
        BY <1>4, <1>5, <3>1, <3>3, <4>4
    <3> QED
      BY <3>1, <3>2, <3>3
  <2>3. refused' \in [Patient -> 0 .. 2]
    <3>1. refused \in [Patient -> 0 .. 2]
      BY InOrder
    <3>2. c \in Patient /\ key = c => refused[c] + 1 \in 0 .. 2
      BY <2>2
    <3>3. DOMAIN refused' = Patient /\ refused' = [refused EXCEPT ![c] = IF key = c THEN refused[c] + 1 ELSE 0]
      BY <1>1, <3>1
    <3>4. ASSUME NEW d \in Patient PROVE refused'[d] \in 0 .. 2
      <4>1. CASE d = c
        BY <3>1, <3>2, <3>3, <4>1
      <4>2. CASE d # c
        BY <3>1, <3>3, <4>2
      <4> QED
        BY <4>1, <4>2
    <3> QED
      BY <3>3, <3>4
  <2>4. ASSUME NEW d \in Patient, refused'[d] > 0
        PROVE  Count(Held(events', d), Window - 3 + refused'[d] - wait'[d]) < Limit
    <3>1. CASE d = c
      <4>1. key = c
        BY <1>1, <2>4, <3>1, InOrder
      <4>2. refused'[c] = refused[c] + 1 /\ wait'[c] = RetryAfter(bucket[1])
        BY <1>1, <2>4, <3>1, <4>1, InOrder
      <4> DEFINE reach == Window - 3 + refused'[c] - wait'[c]
      <4>3. reach \in Int /\ reach < bucket[1]
        BY <1>4, <1>5, <1>11, <2>2, <2>4, <3>1, <4>1, <4>2
      <4> HIDE DEF reach
      <4>4. Count(bucket, reach) < Limit
        BY <1>9, <4>3
      <4> QED
        BY <1>3, <3>1, <4>1, <4>4 DEF reach
    <3>2. CASE d # c
      <4>1. refused'[d] = refused[d] /\ wait'[d] = wait[d] /\ refused[d] \in 0 .. 2 /\ wait[d] \in Nat
        BY <1>1, <3>2, InOrder
      <4> DEFINE reach == Window - 3 + refused[d] - wait[d]
      <4>2. reach \in Int /\ reach < Window
        BY <1>4, <4>1
      <4>3. Count(Held(events, d), reach) < Limit
        BY <2>4, <4>1 DEF ProtectionInv, ClientsInv, PatienceOK
      <4> HIDE DEF reach
      <4>4. Count(Held(events', d), reach) < Limit
        BY <1>6, <4>2, <4>3
      <4> QED
        BY <4>1, <4>4 DEF reach
    <3> QED
      BY <3>1, <3>2
  <2> QED
    BY <2>1, <2>3, <2>4 DEF PatienceOK
<1> QED
  BY <1>7, <1>8, <1>12 DEF ClientsInv

LEMMA LetThroughClients ==
    ASSUME ProtectionInv, NEW c \in Clients, LetThrough(c)
    PROVE  ClientsInv'
<1> DEFINE bucket == BucketOf(c)
           key == KeyOf(c)
           new == Append(bucket, 0)
<1>1. /\ events' = With(c, new)
      /\ admitted' = [admitted EXCEPT ![c] = Append(Fresh(@), 0)]
      /\ wait' = [wait EXCEPT ![c] = 0] /\ refused' = [refused EXCEPT ![c] = 0]
  BY DEF LetThrough
<1>2. /\ Sorted(bucket) /\ bucket \in Seq(Ages)
      /\ \A age \in Int : age < Window => Count(bucket, age) = Count(Held(events, key), age)
  BY InOrder, BucketCounts
<1>3. /\ new \in Seq(Ages) /\ Sorted(new)
      /\ \A age \in Int : Count(new, age) = Count(bucket, age) + (IF age >= 0 THEN 1 ELSE 0)
  BY <1>2, AppendCounts
<1> HIDE DEF new
<1>4. /\ \A k \in DOMAIN events' : Sorted(events'[k])
      /\ Held(events', key) = new
      /\ \A k : k # key => \A age \in Int : age < Window =>
            Count(Held(events', k), age) = Count(Held(events, k), age)
  BY <1>1, <1>3, InOrder, ReplacedCounts
<1>5. key \in {c, Overflow} /\ Overflow \notin Clients /\ Window \in Nat \ {0}
  BY ProtectionAssumption DEF KeyOf
<1> HIDE DEF bucket, key
<1> DEFINE log == Append(Fresh(admitted[c]), 0)
<1>6. /\ Fresh(admitted[c]) \in Seq(Ages) /\ Sorted(Fresh(admitted[c]))
      /\ \A age \in Int : age < Window => Count(Fresh(admitted[c]), age) = Count(admitted[c], age)
  BY InOrder, FreshShorter, FreshCounts
<1>7. /\ log \in Seq(Ages) /\ Sorted(log)
      /\ \A age \in Int :
            Count(log, age) = Count(Fresh(admitted[c]), age) + (IF age >= 0 THEN 1 ELSE 0)
  BY <1>6, AppendCounts
<1>8. admitted \in [Clients -> Seq(Ages)]
  BY DEF ProtectionInv, ClientsInv, OrderOK
<1>9. admitted'[c] = log /\ \A d \in Clients : d # c => admitted'[d] = admitted[d]
  BY <1>1, <1>8
<1> HIDE DEF log
<1>10. OrderOK'
  <2>1. admitted' \in [Clients -> Seq(Ages)]
    BY <1>1, <1>7, <1>8, <1>9
  <2>2. \A d \in Clients : Sorted(admitted'[d])
    BY <1>7, <1>9, InOrder
  <2> QED
    BY <1>4, <2>1, <2>2 DEF OrderOK
\* The bucket the client is counted in gains what its history gains; no other changes.
<1>11. ASSUME NEW age \in 0 .. Window - 1
       PROVE  /\ Count(Held(events', key), age) = Count(Held(events, key), age) + 1
              /\ \A k : k # key => Count(Held(events', k), age) = Count(Held(events, k), age)
              /\ Count(admitted'[c], age) = Count(admitted[c], age) + 1
              /\ age \in Int
  <2>1. age \in Int /\ age < Window /\ age >= 0
    BY <1>5
  <2> QED
    BY <1>2, <1>3, <1>4, <1>6, <1>7, <1>9, <2>1
<1>12. AdmittedCounted'
  <2> SUFFICES ASSUME NEW d \in Clients, NEW age \in 0 .. Window - 1
               PROVE  Count(admitted'[d], age)
                        <= Count(Held(events', d), age) + Count(Held(events', Overflow), age)
    BY DEF AdmittedCounted
  <2> DEFINE own == Count(Held(events, d), age)
             shared == Count(Held(events, Overflow), age)
             let == Count(admitted[d], age)
  <2>1. let <= own + shared
    BY DEF ProtectionInv, ClientsInv, AdmittedCounted
  <2>2. own \in Nat /\ shared \in Nat /\ let \in Nat
    BY <1>11, InOrder, CountBounded
  <2>3. /\ Count(Held(events', d), age) = IF d = key THEN own + 1 ELSE own
        /\ Count(Held(events', Overflow), age) = IF Overflow = key THEN shared + 1 ELSE shared
        /\ Count(admitted'[d], age) = IF d = c THEN let + 1 ELSE let
    BY <1>9, <1>11
  <2> HIDE DEF own, shared, let
  <2> QED
    BY <1>5, <2>1, <2>2, <2>3
<1>13. PatienceOK'
  <2>1. wait' \in [Patient -> Nat] /\ refused' \in [Patient -> 0 .. 2]
    <3>1. wait \in [Patient -> Nat] /\ refused \in [Patient -> 0 .. 2] /\ 0 \in Nat /\ 0 \in 0 .. 2
      BY InOrder
    <3> QED
      BY <1>1, <3>1
  <2>2. ASSUME NEW d \in Patient, refused'[d] > 0
        PROVE  Count(Held(events', d), Window - 3 + refused'[d] - wait'[d]) < Limit
    <3>1. d # c /\ d \in Clients
      BY <1>1, <2>2, InOrder, ProtectionAssumption
    <3>2. refused'[d] = refused[d] /\ wait'[d] = wait[d] /\ refused[d] \in 0 .. 2 /\ wait[d] \in Nat
      BY <1>1, <3>1, InOrder
    <3> DEFINE reach == Window - 3 + refused[d] - wait[d]
    <3>3. reach \in Int /\ reach < Window
      BY <1>5, <3>2
    <3>4. Count(Held(events, d), reach) < Limit
      BY <2>2, <3>2 DEF ProtectionInv, ClientsInv, PatienceOK
    <3> HIDE DEF reach
    <3>5. d # key
      BY <1>5, <3>1
    <3>6. Count(Held(events', d), reach) < Limit
      BY <1>4, <3>3, <3>4, <3>5
    <3> QED
      BY <3>2, <3>6 DEF reach
  <2> QED
    BY <2>1, <2>2 DEF PatienceOK
<1> QED
  BY <1>10, <1>12, <1>13 DEF ClientsInv

LEMMA ClientsKept == ASSUME ProtectionInv, [Next]_vars PROVE ClientsInv'
<1>1. CASE Tick
  BY <1>1, TickClients
<1>2. ASSUME NEW t \in Tasks, NEW c \in Clients, Arrive(t, c) PROVE ClientsInv'
  <2>1. CASE RefuseRate(t, c)
    BY <1>2, <2>1, RefusedClients DEF Arrive
  <2>2. CASE LetThrough(c)
    BY <2>2, LetThroughClients
  <2> QED
    BY <1>2, <2>1, <2>2 DEF Arrive, RefuseBusy, Enter
<1>3. CASE UNCHANGED <<events, admitted, wait, refused>>
  BY <1>3 DEF ProtectionInv, ClientsInv, OrderOK, AdmittedCounted, PatienceOK
<1>4. ASSUME NEW t \in Tasks, ExceedBody(t) \/ Leave(t) PROVE ClientsInv'
  BY <1>3, <1>4 DEF ExceedBody, Leave
<1> QED
  BY <1>1, <1>2, <1>3, <1>4 DEF Next, vars

LEMMA ClientsBegin == Init => ClientsInv
<1> SUFFICES ASSUME Init PROVE ClientsInv
  OBVIOUS
<1>1. /\ DOMAIN events = {} /\ \A k : Held(events, k) = <<>>
      /\ admitted = [c \in Clients |-> <<>>]
  BY DEF Init, Held
<1>2. OrderOK
  BY <1>1, NothingCounts DEF OrderOK
<1>3. AdmittedCounted
  BY <1>1, NothingCounts DEF AdmittedCounted
<1>4. PatienceOK
  BY DEF Init, PatienceOK
<1> QED
  BY <1>2, <1>3, <1>4 DEF ClientsInv

-----------------------------------------------------------------------------

\* The limiter's table, the counter and the histories keep what makes the
\* promises below inductive: order, counts by age, and how long a refused
\* client's bucket stays full (middleware.py:21-48, 149-158).
THEOREM ProtectionHolds == Spec => []ProtectionInv
<1>1. Init => ProtectionInv
  BY CapacityBegins, ClientsBegin DEF ProtectionInv
<1>2. ProtectionInv /\ [Next]_vars => ProtectionInv'
  BY CapacityKept, ClientsKept DEF ProtectionInv
<1> QED
  BY <1>1, <1>2, PTL DEF Spec

\* Every variable keeps its type.
THEOREM ProtectionTyped == Spec => []TypeOK
<1>1. ProtectionInv => TypeOK
  BY DEF ProtectionInv, CapacityInv, ClientsInv, TableOK, StagesOK, OrderOK, PatienceOK, TypeOK
<1> QED
  BY <1>1, ProtectionHolds, PTL

\* However many clients there are, at most max_keys of them have a bucket, and
\* no bucket more events than the limit.
THEOREM MemoryAlwaysBounded == Spec => []MemoryBounded
BY ProtectionHolds, PTL DEF ProtectionInv, CapacityInv

\* Capacity is neither leaked nor handed out twice.
THEOREM CapacityAlwaysCounted == Spec => []CapacityCounted
BY ProtectionHolds, PTL DEF ProtectionInv, CapacityInv

\* No client gets more through in a window than the limit and what the overflow
\* counts, though buckets are purged, shared and made anew (middleware.py:21-48).
THEOREM WindowAlwaysRespected == Spec => []WindowRespected
<1>1. ASSUME ProtectionInv, NEW c \in Clients
      PROVE  Len(Fresh(admitted[c])) <=
               Limit + (IF Overflow \in DOMAIN events THEN Len(Fresh(events[Overflow])) ELSE 0)
  <2> DEFINE age == Window - 1
             shared == IF Overflow \in DOMAIN events THEN Len(Fresh(events[Overflow])) ELSE 0
  <2>1. age \in 0 .. Window - 1 /\ age \in Int /\ Limit \in Nat
    BY ProtectionAssumption
  <2>2. Len(Fresh(admitted[c])) = Count(admitted[c], age)
    BY <1>1, InOrder, FreshCounts
  <2>3. shared = Count(Held(events, Overflow), age)
    <3>1. CASE Overflow \in DOMAIN events
      BY <1>1, <3>1, InOrder, FreshCounts DEF Held
    <3>2. CASE Overflow \notin DOMAIN events
      BY <3>2, NothingCounts DEF Held
    <3> QED
      BY <3>1, <3>2
  <2>4. Count(admitted[c], age) <= Count(Held(events, c), age) + Count(Held(events, Overflow), age)
    BY <1>1, <2>1 DEF ProtectionInv, ClientsInv, AdmittedCounted
  <2>5. /\ Count(admitted[c], age) \in Nat /\ Count(Held(events, Overflow), age) \in Nat
        /\ Count(Held(events, c), age) \in Nat /\ Count(Held(events, c), age) <= Limit
    <3>1. /\ Held(events, c) \in Seq(Ages) /\ Len(Held(events, c)) <= Limit
          /\ Held(events, Overflow) \in Seq(Ages) /\ admitted[c] \in Seq(Ages)
      BY <1>1, InOrder
    <3>2. Len(Held(events, c)) \in Nat
      BY <3>1
    <3> HIDE DEF age
    <3>3. /\ Count(Held(events, c), age) \in Nat /\ Count(Held(events, c), age) <= Len(Held(events, c))
          /\ Count(Held(events, Overflow), age) \in Nat /\ Count(admitted[c], age) \in Nat
      BY <2>1, <3>1, CountBounded
    <3>4. Count(Held(events, c), age) <= Limit
      BY <2>1, <3>1, <3>2, <3>3
    <3> QED
      BY <3>3, <3>4
  <2> HIDE DEF age, shared
  <2>6. Len(Fresh(admitted[c])) <= Limit + shared
    BY <2>1, <2>2, <2>3, <2>4, <2>5
  <2> QED
    BY <2>6 DEF shared
<1>2. ProtectionInv => WindowRespected
  BY <1>1 DEF WindowRespected
<1> QED
  BY <1>2, ProtectionHolds, PTL

\* A client that waits as Retry-After says is refused by a bucket of its own at
\* most twice in a row, whatever the window and the limit (middleware.py:34-38).
THEOREM PatienceAlwaysRewarded == Spec => []PatienceRewarded
<1>1. ProtectionInv => PatienceRewarded
  BY DEF ProtectionInv, ClientsInv, PatienceOK, PatienceRewarded
<1> QED
  BY <1>1, ProtectionHolds, PTL

=============================================================================
