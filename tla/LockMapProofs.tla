---------------------------- MODULE LockMapProofs ----------------------------
(***************************************************************************)
(* What the operators of LockMap do to a counter: the facts about          *)
(* incrementRef, decrementRef, removeKey and removeTopic that the proofs   *)
(* of the coordinators rest on.                                            *)
(***************************************************************************)
EXTENDS LockMap, TLAPS

\* The counter of every key of a lock map is a natural number.
LEMMA CountType ==
  ASSUME NEW T, NEW K, NEW lm, IsLockMap(lm, T, K), NEW t, NEW k
  PROVE  GetRefCount(lm, t, k) \in Nat
BY DEF IsLockMap, GetRefCount, HasKey

\* The table without entries is a lock map and counts nothing.
LEMMA EmptyMap ==
  ASSUME NEW T, NEW K
  PROVE  /\ IsLockMap(Nothing, T, K)
         /\ \A t, k : GetRefCount(Nothing, t, k) = 0
BY DEF IsLockMap, IsMap, Nothing, GetRefCount, HasKey

\* incrementRef adds one to the counter of its key and leaves every other
\* counter as it is.
LEMMA IncrementCount ==
  ASSUME NEW T, NEW K, NEW lm, IsLockMap(lm, T, K), NEW t \in T, NEW k \in K
  PROVE  /\ IsLockMap(IncrementRef(lm, t, k), T, K)
         /\ \A t2, k2 :
              GetRefCount(IncrementRef(lm, t, k), t2, k2) =
                GetRefCount(lm, t2, k2) + (IF t2 = t /\ k2 = k THEN 1 ELSE 0)
<1> DEFINE keys == IF t \in DOMAIN lm THEN lm[t] ELSE Nothing
           row  == Put(keys, k, GetRefCount(lm, t, k) + 1)
           new  == IncrementRef(lm, t, k)
<1>1. DOMAIN keys \subseteq K /\ \A x \in DOMAIN keys : keys[x] \in Nat
  BY DEF IsLockMap, IsMap, Nothing
<1>2. row = [x \in DOMAIN keys \cup {k} |->
               IF x = k THEN GetRefCount(lm, t, k) + 1 ELSE keys[x]]
  BY DEF Put
<1>3. new = [x \in DOMAIN lm \cup {t} |-> IF x = t THEN row ELSE lm[x]]
  BY DEF Put, IncrementRef
<1>4. GetRefCount(lm, t, k) \in Nat
  BY CountType
<1>5. /\ DOMAIN new = DOMAIN lm \cup {t}
      /\ new[t] = row
      /\ \A x \in DOMAIN lm : x # t => new[x] = lm[x]
  BY <1>3
<1>6. /\ DOMAIN row = DOMAIN keys \cup {k}
      /\ row[k] = GetRefCount(lm, t, k) + 1
      /\ \A x \in DOMAIN keys : x # k => row[x] = keys[x]
      /\ row = [x \in DOMAIN row |-> row[x]]
  BY <1>2
<1> HIDE DEF keys, row, new
<1>7. IsLockMap(new, T, K)
  <2>1. IsMap(new, T)
    BY <1>3, <1>5 DEF IsLockMap, IsMap
  <2>2. IsMap(row, K) /\ \A x \in DOMAIN row : row[x] \in Nat
    BY <1>1, <1>4, <1>6 DEF IsMap
  <2> QED
    BY <2>1, <2>2, <1>5 DEF IsLockMap
<1>8. ASSUME NEW t2, NEW k2
      PROVE  GetRefCount(new, t2, k2) =
               GetRefCount(lm, t2, k2) + (IF t2 = t /\ k2 = k THEN 1 ELSE 0)
  <2>1. GetRefCount(lm, t2, k2) \in Nat
    BY CountType
  <2>2. CASE t2 # t
    BY <2>1, <2>2, <1>5 DEF GetRefCount, HasKey
  <2>3. CASE t2 = t /\ k2 = k
    BY <2>3, <1>5, <1>6 DEF GetRefCount, HasKey
  <2>4. CASE t2 = t /\ k2 # k
    BY <2>1, <2>4, <1>5, <1>6 DEF GetRefCount, HasKey, keys, Nothing
  <2> QED
    BY <2>2, <2>3, <2>4
<1> QED
  BY <1>7, <1>8 DEF new

\* What Release does to the counters: the one of its key goes down by one
\* unless it is zero already, every other stays.
LEMMA ReleaseCount ==
  ASSUME NEW T, NEW K, NEW lm, IsLockMap(lm, T, K), NEW t, NEW k
  PROVE  /\ IsLockMap(ReleaseRef(lm, t, k), T, K)
         /\ \A t2, k2 :
              GetRefCount(ReleaseRef(lm, t, k), t2, k2) =
                IF t2 = t /\ k2 = k /\ GetRefCount(lm, t, k) > 0
                THEN GetRefCount(lm, t2, k2) - 1
                ELSE GetRefCount(lm, t2, k2)
<1> DEFINE counted == DecrementRef(lm, t, k)
           removed == RemoveKey(counted, t, k)
           kept    == IF GetRefCount(counted, t, k) <= 0 THEN removed ELSE counted
           new     == ReleaseRef(lm, t, k)
<1>1. CASE ~HasKey(lm, t, k)
  BY <1>1, CountType DEF ReleaseRef, GetRefCount, HasKey
<1>2. CASE HasKey(lm, t, k)
  <2> USE <1>2
  <2>1. /\ t \in DOMAIN lm /\ k \in DOMAIN lm[t]
        /\ GetRefCount(lm, t, k) = lm[t][k]
        /\ lm[t][k] \in Nat
    BY DEF HasKey, GetRefCount, IsLockMap
  <2>2. /\ counted = [x \in DOMAIN lm |->
                        IF x = t THEN [y \in DOMAIN lm[t] |->
                                         IF y = k THEN lm[t][k] - 1 ELSE lm[t][y]]
                        ELSE lm[x]]
    BY <2>1 DEF DecrementRef, IsLockMap, IsMap
  <2>3. /\ DOMAIN counted = DOMAIN lm
        /\ DOMAIN counted[t] = DOMAIN lm[t]
        /\ counted[t][k] = lm[t][k] - 1
        /\ \A y \in DOMAIN lm[t] : y # k => counted[t][y] = lm[t][y]
        /\ \A x \in DOMAIN lm : x # t => counted[x] = lm[x]
        /\ counted[t] = [y \in DOMAIN lm[t] |-> counted[t][y]]
        /\ counted = [x \in DOMAIN lm |-> counted[x]]
    BY <2>1, <2>2
  <2> HIDE DEF counted
  <2>4. GetRefCount(counted, t, k) = lm[t][k] - 1
    BY <2>1, <2>3 DEF GetRefCount, HasKey
  <2>5. removed = [x \in DOMAIN lm |->
                     IF x = t THEN [y \in DOMAIN lm[t] \ {k} |-> counted[t][y]]
                     ELSE counted[x]]
    BY <2>1, <2>3 DEF RemoveKey, Restrict
  <2>6. /\ DOMAIN removed = DOMAIN lm
        /\ DOMAIN removed[t] = DOMAIN lm[t] \ {k}
        /\ \A y \in DOMAIN lm[t] : y # k => removed[t][y] = lm[t][y]
        /\ \A x \in DOMAIN lm : x # t => removed[x] = lm[x]
        /\ removed[t] = [y \in DOMAIN lm[t] \ {k} |-> removed[t][y]]
        /\ removed = [x \in DOMAIN lm |-> removed[x]]
    BY <2>1, <2>3, <2>5
  <2> HIDE DEF removed
  <2>7. /\ IsLockMap(kept, T, K)
        /\ t \in DOMAIN kept
        /\ \A t2, k2 : GetRefCount(kept, t2, k2) =
                         IF t2 = t /\ k2 = k /\ lm[t][k] > 0
                         THEN lm[t][k] - 1 ELSE GetRefCount(lm, t2, k2)
    <3>1. CASE lm[t][k] - 1 <= 0
      <4>1. kept = removed
        BY <3>1, <2>4
      <4>2. IsMap(removed, T)
        BY <2>6 DEF IsLockMap, IsMap
      <4>3. \A x \in DOMAIN removed :
              IsMap(removed[x], K) /\ \A y \in DOMAIN removed[x] : removed[x][y] \in Nat
        BY <2>6 DEF IsLockMap, IsMap
      <4> QED
        BY <3>1, <2>1, <2>6, <4>1, <4>2, <4>3 DEF IsLockMap, GetRefCount, HasKey
    <3>2. CASE lm[t][k] - 1 > 0
      <4>1. kept = counted
        BY <3>2, <2>1, <2>4
      <4>2. IsMap(counted, T)
        BY <2>3 DEF IsLockMap, IsMap
      <4>3. \A x \in DOMAIN counted :
              IsMap(counted[x], K) /\ \A y \in DOMAIN counted[x] : counted[x][y] \in Nat
        BY <3>2, <2>1, <2>3 DEF IsLockMap, IsMap
      <4> QED
        BY <3>2, <2>1, <2>3, <4>1, <4>2, <4>3 DEF IsLockMap, GetRefCount, HasKey
    <3> QED
      BY <2>1, <3>1, <3>2
  <2> HIDE DEF kept
  <2>8. CASE IsTopicEmpty(kept, t)
    <3>1. new = [x \in DOMAIN kept \ {t} |-> kept[x]]
      BY <2>8 DEF ReleaseRef, RemoveTopic, Restrict, kept, removed, counted
    <3>2. DOMAIN kept[t] = {}
      BY <2>7, <2>8 DEF IsTopicEmpty
    <3>3. \A t2, k2 : GetRefCount(new, t2, k2) = GetRefCount(kept, t2, k2)
      BY <3>1, <3>2 DEF GetRefCount, HasKey
    <3>4. IsLockMap(new, T, K)
      BY <2>7, <3>1 DEF IsLockMap, IsMap
    <3> QED
      BY <2>1, <2>7, <3>3, <3>4
  <2>9. CASE ~IsTopicEmpty(kept, t)
    <3>1. new = kept
      BY <2>9 DEF ReleaseRef, kept, removed, counted
    <3> QED
      BY <2>1, <2>7, <3>1
  <2> QED
    BY <2>8, <2>9
<1> QED
  BY <1>1, <1>2 DEF new

\* incrementRef leaves no empty entry behind.
LEMMA IncrementClean ==
  ASSUME NEW T, NEW K, NEW lm, IsLockMap(lm, T, K), IsClean(lm), NEW t \in T, NEW k \in K
  PROVE  IsClean(IncrementRef(lm, t, k))
<1> DEFINE new == IncrementRef(lm, t, k)
<1>1. \A t2, k2 : HasKey(new, t2, k2) <=> HasKey(lm, t2, k2) \/ (t2 = t /\ k2 = k)
  BY DEF IncrementRef, Put, HasKey, Nothing
<1>2. DOMAIN new = DOMAIN lm \cup {t}
  BY DEF IncrementRef, Put
<1>3. \A t2, k2 : GetRefCount(lm, t2, k2) \in Nat
  BY CountType
<1>4. \A t2, k2 : HasKey(new, t2, k2) => GetRefCount(new, t2, k2) > 0
  <2> SUFFICES ASSUME NEW t2, NEW k2, HasKey(new, t2, k2)
               PROVE  GetRefCount(new, t2, k2) > 0
    OBVIOUS
  <2>1. GetRefCount(new, t2, k2) =
          GetRefCount(lm, t2, k2) + (IF t2 = t /\ k2 = k THEN 1 ELSE 0)
    BY IncrementCount
  <2>2. HasKey(lm, t2, k2) => GetRefCount(lm, t2, k2) > 0
    BY DEF IsClean, HasKey, GetRefCount
  <2> QED
    BY <1>1, <1>3, <2>1, <2>2
<1>5. \A t2 \in DOMAIN new : \E k2 : HasKey(new, t2, k2)
  BY <1>1, <1>2 DEF IsClean, HasKey
<1> QED
  BY <1>4, <1>5 DEF IsClean, HasKey, GetRefCount

\* Release drops the key whose counter reached zero and the topic left
\* without keys.
LEMMA ReleaseClean ==
  ASSUME NEW T, NEW K, NEW lm, IsLockMap(lm, T, K), IsClean(lm), NEW t, NEW k
  PROVE  IsClean(ReleaseRef(lm, t, k))
<1> DEFINE counted == DecrementRef(lm, t, k)
           kept    == IF GetRefCount(counted, t, k) <= 0
                      THEN RemoveKey(counted, t, k) ELSE counted
<1>1. CASE ~HasKey(lm, t, k)
  BY <1>1 DEF ReleaseRef
<1>2. CASE HasKey(lm, t, k)
  <2>1. /\ DOMAIN counted = DOMAIN lm
        /\ \A x \in DOMAIN lm : DOMAIN counted[x] = DOMAIN lm[x]
        /\ \A x \in DOMAIN lm : \A y \in DOMAIN lm[x] :
             ~(x = t /\ y = k) => counted[x][y] = lm[x][y]
    BY <1>2 DEF DecrementRef, HasKey, IsLockMap, IsMap
  <2>2. t \in DOMAIN lm /\ k \in DOMAIN lm[t]
    BY <1>2 DEF HasKey
  <2> HIDE DEF counted
  <2>3. GetRefCount(counted, t, k) = counted[t][k]
    BY <2>1, <2>2 DEF GetRefCount, HasKey
  <2>4. /\ DOMAIN kept = DOMAIN lm
        /\ \A x \in DOMAIN lm : DOMAIN kept[x] \subseteq DOMAIN lm[x]
        /\ \A x \in DOMAIN lm : x # t => DOMAIN kept[x] = DOMAIN lm[x]
        /\ \A x \in DOMAIN lm : \A y \in DOMAIN kept[x] :
             ~(x = t /\ y = k) => kept[x][y] = lm[x][y]
    BY <2>1, <2>2 DEF RemoveKey, Restrict
  <2>5. k \in DOMAIN kept[t] => kept[t][k] > 0
    <3>1. CASE GetRefCount(counted, t, k) <= 0
      BY <3>1, <2>1, <2>2 DEF RemoveKey, Restrict
    <3>2. CASE ~(GetRefCount(counted, t, k) <= 0)
      <4>1. GetRefCount(counted, t, k) \in Int
        BY <1>2, <2>2, <2>3 DEF counted, DecrementRef, IsLockMap, IsMap
      <4> QED
        BY <3>2, <4>1, <2>3
    <3> QED
      BY <3>1, <3>2
  <2> HIDE DEF kept
  <2>6. \A x \in DOMAIN kept : \A y \in DOMAIN kept[x] : kept[x][y] > 0
    BY <2>4, <2>5 DEF IsClean
  <2>7. \A x \in DOMAIN kept : x # t => DOMAIN kept[x] # {}
    BY <2>4 DEF IsClean
  <2>8. ReleaseRef(lm, t, k) = IF IsTopicEmpty(kept, t) THEN RemoveTopic(kept, t) ELSE kept
    BY <1>2 DEF ReleaseRef, kept, counted
  <2>9. CASE IsTopicEmpty(kept, t)
    BY <2>6, <2>7, <2>8, <2>9 DEF IsClean, RemoveTopic, Restrict
  <2>10. CASE ~IsTopicEmpty(kept, t)
    BY <2>6, <2>7, <2>8, <2>10 DEF IsClean, IsTopicEmpty
  <2> QED
    BY <2>9, <2>10
<1> QED
  BY <1>1, <1>2

\* Without empty entries a table is determined by its counters.
LEMMA CleanEqual ==
  ASSUME NEW T, NEW K, NEW a, NEW b, IsLockMap(a, T, K), IsLockMap(b, T, K),
         IsClean(a), IsClean(b),
         \A t, k : GetRefCount(a, t, k) = GetRefCount(b, t, k)
  PROVE  a = b
<1>1. \A t, k : HasKey(a, t, k) <=> HasKey(b, t, k)
  BY DEF IsClean, IsLockMap, GetRefCount, HasKey
<1>2. DOMAIN a = DOMAIN b
  BY <1>1 DEF IsClean, HasKey
<1>3. ASSUME NEW t \in DOMAIN a PROVE a[t] = b[t]
  <2>1. DOMAIN a[t] = DOMAIN b[t]
    BY <1>1, <1>2 DEF HasKey
  <2>2. \A k \in DOMAIN a[t] : a[t][k] = b[t][k]
    BY <1>1, <1>2, <2>1 DEF GetRefCount, HasKey
  <2> QED
    BY <1>2, <2>1, <2>2 DEF IsLockMap, IsMap
<1> QED
  BY <1>2, <1>3 DEF IsLockMap, IsMap
=============================================================================
