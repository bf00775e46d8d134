------------------------- MODULE RetryMessageProofs -------------------------
(***************************************************************************)
(* Proofs about RetryMessage, the life of one message, and about the       *)
(* modules it is made of: header lists and backoff strategies.             *)
(*                                                                         *)
(* Loops are recursive functions on 0..n.  What they compute is proved by  *)
(* the least counterexample: the smallest number at which a function with  *)
(* the equations does not exist, or does not have the value it should.     *)
(***************************************************************************)
EXTENDS RetryMessage, FiniteSetTheorems, SequenceTheorems, WellFoundedInduction, TLAPS

\* A set of naturals has a smallest element, a bounded one a largest.
LEMMA Smallest ==
  ASSUME NEW T \in SUBSET Nat, T # {}
  PROVE  \E x \in T : \A y \in T : x <= y
<1> DEFINE R == OpToRel(<, Nat)
<1>1. PICK x \in T : \A y \in T : ~(<<y, x>> \in R)
  <2> HIDE DEF R
  <2>1. IsWellFoundedOn(R, Nat)
    BY NatLessThanWellFounded DEF R
  <2> QED BY <2>1, WFMin
<1>2. \A y \in T : ~(y < x)
  BY <1>1 DEF OpToRel
<1> QED
  BY <1>2

LEMMA Largest ==
  ASSUME NEW n \in Nat, NEW T \in SUBSET (1..n), T # {}
  PROVE  \E x \in T : \A y \in T : y <= x
<1> DEFINE B == {b \in Nat : \A y \in T : y <= b}
<1>1. n \in B
  OBVIOUS
<1>2. PICK b \in B : \A c \in B : b <= c
  BY <1>1, Smallest
<1>3. b # 0
  <2>1. PICK y \in T : TRUE
    OBVIOUS
  <2>2. y \in 1..n /\ y <= b
    OBVIOUS
  <2> QED BY <2>2
<1>4. b - 1 \notin B /\ b - 1 \in Nat
  BY <1>2, <1>3
<1>5. PICK y \in T : ~(y <= b - 1)
  BY <1>4
<1>6. y = b
  BY <1>5
<1> QED
  BY <1>6

-----------------------------------------------------------------------------
(* Header lists                                                            *)

\* What is a sequence of anything is a list.
LEMMA ListOf ==
  ASSUME NEW S, NEW l \in Seq(S)
  PROVE  IsList(l) /\ DOMAIN l = 1..Len(l) /\ Len(l) \in Nat
<1>1. l \in [1..Len(l) -> S] /\ Len(l) \in Nat
  BY LenProperties
<1>2. l \in [1..Len(l) -> {l[i] : i \in DOMAIN l}]
  BY <1>1
<1>3. l \in Seq({l[i] : i \in DOMAIN l})
  BY <1>1, <1>2, SeqDef
<1> QED
  BY <1>1, <1>3 DEF IsList

LEMMA Places ==
  ASSUME NEW l, IsList(l)
  PROVE  DOMAIN l = 1..Len(l) /\ Len(l) \in Nat
BY LenProperties DEF IsList

\* No name is repeated: the header found is the only one.
Unique(l) == \A i, j \in DOMAIN l : NameOf(l[i]) = NameOf(l[j]) => i = j

LEMMA OnlyOne ==
  ASSUME NEW l, IsList(l), NEW i \in DOMAIN l, NEW m, NameOf(l[i]) = m,
         \A j \in DOMAIN l : NameOf(l[j]) = m => j = i
  PROVE  /\ FirstOf(l, m) = i /\ LastOf(l, m) = i
         /\ Has(l, m) /\ Get(l, m) = ValueOf(l[i])
<1>1. \A j \in DOMAIN l : j <= j
  BY Places
<1>2. FirstOf(l, m) = i
  BY <1>1 DEF FirstOf
<1>3. LastOf(l, m) = i
  BY <1>1 DEF LastOf
<1> QED
  BY <1>2, <1>3 DEF Has, Get

LEMMA GetUnique ==
  ASSUME NEW l, IsList(l), Unique(l), NEW i \in DOMAIN l, NEW m, NameOf(l[i]) = m
  PROVE  /\ FirstOf(l, m) = i /\ LastOf(l, m) = i
         /\ Get(l, m) = ValueOf(l[i])
<1>1. \A j \in DOMAIN l : NameOf(l[j]) = m => j = i
  BY DEF Unique
<1> QED
  BY <1>1, OnlyOne

\* Set gives one name its value and leaves the others theirs.
LEMMA SetUnique ==
  ASSUME NEW l, IsList(l), Unique(l), NEW n, NEW v
  PROVE  LET s == Set(l, n, v) IN
         /\ IsList(s) /\ Unique(s)
         /\ \A m : Has(s, m) <=> m = n \/ Has(l, m)
         /\ Get(s, n) = v
         /\ \A m : m # n /\ Has(l, m) => Get(s, m) = Get(l, m)
<1> DEFINE s == Set(l, n, v)
           S == {l[i] : i \in DOMAIN l} \cup {<<n, v>>}
<1>1. DOMAIN l = 1..Len(l) /\ Len(l) \in Nat
  BY Places
<1>2. l \in Seq(S) /\ <<n, v>> \in S
  BY SeqMonotonic DEF IsList
<1>3. NameOf(<<n, v>>) = n /\ ValueOf(<<n, v>>) = v
  BY DEF NameOf, ValueOf
<1>4. CASE Has(l, n)
  <2>1. PICK p \in DOMAIN l : NameOf(l[p]) = n
    BY <1>4 DEF Has
  <2>2. s = [l EXCEPT ![p] = <<n, v>>]
    <3>1. FirstOf(l, n) = p
      BY <2>1, GetUnique
    <3> QED BY <1>4, <3>1 DEF Set
  <2> HIDE DEF s, S
  <2>3. /\ s \in Seq(S) /\ Len(s) = Len(l)
        /\ \A j \in 1..Len(l) : s[j] = IF j = p THEN <<n, v>> ELSE l[j]
    BY <1>1, <1>2, <2>1, <2>2, ExceptSeq
  <2>4. IsList(s) /\ DOMAIN s = DOMAIN l
    BY <1>1, <2>3, ListOf
  <2>5. \A j \in DOMAIN l : NameOf(s[j]) = NameOf(l[j])
    BY <1>1, <1>3, <2>1, <2>3
  <2>6. Unique(s)
    BY <2>4, <2>5 DEF Unique
  <2>7. \A m : Has(s, m) <=> m = n \/ Has(l, m)
    BY <2>1, <2>4, <2>5 DEF Has
  <2>8. Get(s, n) = v
    <3>1. p \in DOMAIN s /\ NameOf(s[p]) = n /\ ValueOf(s[p]) = v
      BY <1>1, <1>3, <2>1, <2>3, <2>4
    <3> QED BY <2>4, <2>6, <3>1, GetUnique
  <2>9. ASSUME NEW m, m # n, Has(l, m) PROVE Get(s, m) = Get(l, m)
    <3>1. PICK j \in DOMAIN l : NameOf(l[j]) = m
      BY <2>9 DEF Has
    <3>2. Get(l, m) = ValueOf(l[j])
      BY <3>1, GetUnique
    <3>3. Get(s, m) = ValueOf(s[j])
      BY <2>4, <2>5, <2>6, <3>1, GetUnique
    <3> QED BY <1>1, <2>1, <2>3, <2>9, <3>1, <3>2, <3>3
  <2> QED BY <2>4, <2>6, <2>7, <2>8, <2>9 DEF s
<1>5. CASE ~Has(l, n)
  <2>2. s = Append(l, <<n, v>>)
    BY <1>5 DEF Set
  <2> HIDE DEF s, S
  <2>3. /\ s \in Seq(S) /\ Len(s) = Len(l) + 1
        /\ \A j \in 1..Len(l) : s[j] = l[j]
        /\ s[Len(l) + 1] = <<n, v>>
    BY <1>1, <1>2, <2>2, AppendProperties
  <2>4. IsList(s) /\ DOMAIN s = 1..(Len(l) + 1)
    BY <1>1, <2>3, ListOf
  <2>5. DOMAIN s = DOMAIN l \cup {Len(l) + 1} /\ Len(l) + 1 \notin DOMAIN l
    BY <1>1, <2>4
  <2>6. Unique(s)
    BY <1>1, <1>3, <1>5, <2>3, <2>5 DEF Unique, Has
  <2>7. \A m : Has(s, m) <=> m = n \/ Has(l, m)
    BY <1>1, <1>3, <2>3, <2>5 DEF Has
  <2>8. Get(s, n) = v
    <3>1. Len(l) + 1 \in DOMAIN s /\ NameOf(s[Len(l) + 1]) = n /\ ValueOf(s[Len(l) + 1]) = v
      BY <1>3, <2>3, <2>5
    <3> QED BY <2>4, <2>6, <3>1, GetUnique
  <2>9. ASSUME NEW m, m # n, Has(l, m) PROVE Get(s, m) = Get(l, m)
    <3>1. PICK j \in DOMAIN l : NameOf(l[j]) = m
      BY <2>9 DEF Has
    <3>2. Get(l, m) = ValueOf(l[j])
      BY <3>1, GetUnique
    <3>3. Get(s, m) = ValueOf(s[j])
      <4>1. j \in DOMAIN s /\ NameOf(s[j]) = m
        BY <1>1, <2>3, <2>5, <3>1
      <4> QED BY <2>4, <2>6, <4>1, GetUnique
    <3> QED BY <1>1, <2>3, <3>1, <3>2, <3>3
  <2> QED BY <2>4, <2>6, <2>7, <2>8, <2>9 DEF s
<1> QED
  BY <1>4, <1>5

\* The recursive function of a loop exists, and has the equations it is
\* defined with.
IsLoop(upto, l, more, skipped, k) ==
  upto = [n \in 0..k |-> IF n = 0 THEN l ELSE Copied(upto[n - 1], more[n], skipped)]

LEMMA LoopExists ==
  ASSUME NEW l, NEW more, NEW skipped, NEW k \in Nat
  PROVE  \E upto : IsLoop(upto, l, more, skipped, k)
<1> DEFINE Is(f, j) == f = [n \in 0..j |-> IF n = 0 THEN l ELSE Copied(f[n - 1], more[n], skipped)]
           Bad == {j \in Nat : ~ \E f : Is(f, j)}
<1>1. Bad = {}
  <2> SUFFICES ASSUME Bad # {} PROVE FALSE
    OBVIOUS
  <2>1. PICK j \in Bad : \A i \in Bad : j <= i
    BY Smallest
  <2>2. CASE j = 0
    <3>1. Is([n \in 0..0 |-> l], 0)
      OBVIOUS
    <3> QED BY <2>2, <3>1
  <2>3. CASE j # 0
    <3>1. j - 1 \in Nat /\ j - 1 \notin Bad
      BY <2>1, <2>3
    <3>2. PICK f : Is(f, j - 1)
      BY <3>1
    <3> DEFINE g == [n \in 0..j |-> IF n = j THEN Copied(f[j - 1], more[j], skipped) ELSE f[n]]
    <3>3. \A n \in 0..j : n # 0 => g[n - 1] = f[n - 1]
      BY <2>3
    <3>4. \A n \in 0..(j - 1) : f[n] = IF n = 0 THEN l ELSE Copied(f[n - 1], more[n], skipped)
      BY <3>2
    <3>5. \A n \in 0..j : g[n] = IF n = 0 THEN l ELSE Copied(g[n - 1], more[n], skipped)
      <4>1. g[j] = Copied(g[j - 1], more[j], skipped)
        BY <2>3, <3>3
      <4>2. ASSUME NEW n \in 0..(j - 1)
            PROVE  g[n] = IF n = 0 THEN l ELSE Copied(g[n - 1], more[n], skipped)
        <5>1. n \in 0..j /\ n # j
          BY <3>1
        <5>2. g[n] = f[n]
          BY <5>1
        <5> HIDE DEF g
        <5> QED BY <3>3, <3>4, <5>1, <5>2
      <4>3. \A n \in 0..j : n = j \/ n \in 0..(j - 1)
        BY <3>1
      <4> HIDE DEF g
      <4> QED BY <2>3, <4>1, <4>2, <4>3
    <3>6. g = [n \in 0..j |-> g[n]]
      OBVIOUS
    <3>7. Is(g, j)
      <4> HIDE DEF g
      <4> QED BY <3>5, <3>6
    <3> QED BY <3>7
  <2> QED BY <2>2, <2>3
<1>2. \E f : Is(f, k)
  BY <1>1
<1> QED
  BY <1>2 DEF IsLoop

LEMMA LoopIs ==
  ASSUME NEW l, NEW more, NEW skipped, Len(more) \in Nat
  PROVE  /\ Loop(l, more, skipped)[0] = l
         /\ \A n \in 1..Len(more) :
              Loop(l, more, skipped)[n] =
                Copied(Loop(l, more, skipped)[n - 1], more[n], skipped)
<1> DEFINE upto == Loop(l, more, skipped)
<1>1. upto = [n \in 0..Len(more) |->
                IF n = 0 THEN l ELSE Copied(upto[n - 1], more[n], skipped)]
  <2>1. \E f : IsLoop(f, l, more, skipped, Len(more))
    BY LoopExists
  <2> QED BY <2>1, Zenon DEF Loop, IsLoop
<1> HIDE DEF upto
<1>2. \A n \in 0..Len(more) : upto[n] =
        IF n = 0 THEN l ELSE Copied(upto[n - 1], more[n], skipped)
  BY <1>1
<1>3. upto[0] = l /\ \A n \in 1..Len(more) : upto[n] = Copied(upto[n - 1], more[n], skipped)
  BY <1>2
<1> QED
  BY <1>3 DEF upto
-----------------------------------------------------------------------------
(* Loops over a header list                                                *)

\* What the loop has done after n turns: a list without repetition, with the
\* names it had before and those it was given, each with its last value.
Given(more, skipped, n, m) ==
  m \notin skipped /\ \E i \in 1..n : NameOf(more[i]) = m

GivenLast(more, n, i) ==
  \A j \in 1..n : NameOf(more[j]) = NameOf(more[i]) => j <= i

Filled(s, list, more, skipped, n) ==
  /\ IsList(s) /\ Unique(s)
  /\ \A m : Has(s, m) <=> Has(list, m) \/ Given(more, skipped, n, m)
  /\ \A i \in 1..n : NameOf(more[i]) \notin skipped /\ GivenLast(more, n, i)
                      => Get(s, NameOf(more[i])) = ValueOf(more[i])
  /\ \A m : Has(list, m) /\ ~Given(more, skipped, n, m) => Get(s, m) = Get(list, m)

LEMMA FilledStep ==
  ASSUME NEW s, NEW list, NEW more, NEW skipped, NEW n \in Nat,
         Filled(s, list, more, skipped, n)
  PROVE  Filled(Copied(s, more[n + 1], skipped), list, more, skipped, n + 1)
<1> DEFINE name  == NameOf(more[n + 1])
           value == ValueOf(more[n + 1])
           t     == Copied(s, more[n + 1], skipped)
<1>1. \A i : i \in 1..(n + 1) <=> i \in 1..n \/ i = n + 1
  OBVIOUS
<1>2. CASE name \in skipped
  <2>1. t = s
    BY <1>2 DEF Copied
  <2>2. \A m : Given(more, skipped, n + 1, m) <=> Given(more, skipped, n, m)
    BY <1>1, <1>2 DEF Given
  <2>3. \A i \in 1..n : GivenLast(more, n + 1, i) => GivenLast(more, n, i)
    BY <1>1 DEF GivenLast
  <2> HIDE DEF t
  <2>4. \A i \in 1..(n + 1) : NameOf(more[i]) \notin skipped /\ GivenLast(more, n + 1, i)
                              => Get(t, NameOf(more[i])) = ValueOf(more[i])
    BY <1>1, <1>2, <2>1, <2>3 DEF Filled
  <2> QED BY <2>1, <2>2, <2>4 DEF Filled, t
<1>3. CASE name \notin skipped
  <2>1. t = Set(s, name, value)
    BY <1>3 DEF Copied
  <2> HIDE DEF t
  <2>2. /\ IsList(t) /\ Unique(t)
        /\ \A m : Has(t, m) <=> m = name \/ Has(s, m)
        /\ Get(t, name) = value
        /\ \A m : m # name /\ Has(s, m) => Get(t, m) = Get(s, m)
    <3> HIDE DEF name, value
    <3> QED BY <2>1, SetUnique DEF Filled
  <2>3. \A m : Given(more, skipped, n + 1, m) <=> m = name \/ Given(more, skipped, n, m)
    BY <1>1, <1>3 DEF Given
  <2>4. \A m : Has(t, m) <=> Has(list, m) \/ Given(more, skipped, n + 1, m)
    BY <2>2, <2>3 DEF Filled
  <2>5. ASSUME NEW i \in 1..(n + 1), NameOf(more[i]) \notin skipped, GivenLast(more, n + 1, i)
        PROVE  Get(t, NameOf(more[i])) = ValueOf(more[i])
    <3>1. CASE i = n + 1
      BY <2>2, <3>1
    <3>2. CASE i \in 1..n
      <4>1. NameOf(more[i]) # name
        BY <1>1, <2>5, <3>2 DEF GivenLast
      <4>2. GivenLast(more, n, i)
        BY <1>1, <2>5 DEF GivenLast
      <4>3. Get(s, NameOf(more[i])) = ValueOf(more[i])
        BY <2>5, <3>2, <4>2 DEF Filled
      <4>4. Has(s, NameOf(more[i]))
        BY <2>5, <3>2 DEF Filled, Given
      <4> QED BY <2>2, <4>1, <4>3, <4>4
    <3> QED BY <1>1, <3>1, <3>2
  <2>6. ASSUME NEW m, Has(list, m), ~Given(more, skipped, n + 1, m)
        PROVE  Get(t, m) = Get(list, m)
    BY <2>2, <2>3, <2>6 DEF Filled
  <2> QED BY <2>2, <2>4, <2>5, <2>6 DEF Filled, t
<1> QED
  BY <1>2, <1>3

LEMMA LoopFills ==
  ASSUME NEW list, IsList(list), Unique(list), NEW more, IsList(more), NEW skipped
  PROVE  Filled(Loop(list, more, skipped)[Len(more)], list, more, skipped, Len(more))
<1> DEFINE upto == Loop(list, more, skipped)
           Bad  == {n \in 0..Len(more) : ~Filled(upto[n], list, more, skipped, n)}
<1>1. Len(more) \in Nat
  BY Places
<1>2. /\ upto[0] = list
      /\ \A n \in 1..Len(more) : upto[n] = Copied(upto[n - 1], more[n], skipped)
  BY <1>1, LoopIs
<1> HIDE DEF upto
<1>3. Filled(upto[0], list, more, skipped, 0)
  BY <1>2 DEF Filled, Given
<1>4. Bad = {}
  <2> SUFFICES ASSUME Bad # {} PROVE FALSE
    OBVIOUS
  <2>1. PICK n \in Bad : \A i \in Bad : n <= i
    <3>1. Bad \in SUBSET Nat
      BY <1>1
    <3> HIDE DEF Bad
    <3> QED BY <3>1, Smallest
  <2>2. n \in 1..Len(more)
    BY <1>1, <1>3, <2>1
  <2>3. n - 1 \in Nat /\ n - 1 \in 0..Len(more) /\ n - 1 \notin Bad /\ (n - 1) + 1 = n
    BY <1>1, <2>1, <2>2
  <2>4. Filled(upto[n - 1], list, more, skipped, n - 1)
    BY <2>3
  <2>5. Filled(Copied(upto[n - 1], more[(n - 1) + 1], skipped), list, more, skipped, (n - 1) + 1)
    BY <2>3, <2>4, FilledStep
  <2>6. Filled(upto[n], list, more, skipped, n)
    BY <1>2, <2>2, <2>3, <2>5
  <2> QED BY <2>6
<1>5. Len(more) \in 0..Len(more)
  BY <1>1
<1> QED
  BY <1>4, <1>5 DEF upto

-----------------------------------------------------------------------------
(* What the operators on header lists return                               *)

\* The list has one header of that name at most.
Once(l, m) == \A i, j \in DOMAIN l : NameOf(l[i]) = m /\ NameOf(l[j]) = m => i = j

LEMMA UniqueOnce == ASSUME NEW l, Unique(l), NEW m PROVE Once(l, m)
BY DEF Unique, Once

\* A name on the list has a last header, and its value is what All returns.
LEMMA LastIs ==
  ASSUME NEW l, IsList(l), NEW m, Has(l, m)
  PROVE  /\ LastOf(l, m) \in 1..Len(l) /\ NameOf(l[LastOf(l, m)]) = m
         /\ GivenLast(l, Len(l), LastOf(l, m))
<1> DEFINE T == {i \in DOMAIN l : NameOf(l[i]) = m}
<1>1. DOMAIN l = 1..Len(l) /\ Len(l) \in Nat
  BY Places
<1>2. T \in SUBSET (1..Len(l)) /\ T # {}
  BY <1>1 DEF Has
<1>3. \E i \in T : \A j \in T : j <= i
  <2> HIDE DEF T
  <2> QED BY <1>1, <1>2, Largest
<1>4. \E i \in DOMAIN l : /\ NameOf(l[i]) = m
                          /\ \A j \in DOMAIN l : NameOf(l[j]) = m => j <= i
  BY <1>3
<1>5. /\ LastOf(l, m) \in DOMAIN l /\ NameOf(l[LastOf(l, m)]) = m
      /\ \A j \in DOMAIN l : NameOf(l[j]) = m => j <= LastOf(l, m)
  BY <1>4 DEF LastOf
<1> QED
  BY <1>1, <1>5 DEF GivenLast

LEMMA AllIs ==
  ASSUME NEW l, IsList(l), NEW m, Has(l, m)
  PROVE  All(l)[m] = ValueOf(l[LastOf(l, m)])
BY DEF All, Has

LEMMA AllOnce ==
  ASSUME NEW l, IsList(l), NEW m, Has(l, m), Once(l, m)
  PROVE  All(l)[m] = Get(l, m)
<1>1. PICK i \in DOMAIN l : NameOf(l[i]) = m
  BY DEF Has
<1>2. \A j \in DOMAIN l : NameOf(l[j]) = m => j = i
  BY <1>1 DEF Once
<1>3. LastOf(l, m) = i /\ Get(l, m) = ValueOf(l[i])
  BY <1>1, <1>2, OnlyOne
<1> QED
  BY <1>3, AllIs

LEMMA EmptyList == IsList(<< >>) /\ Unique(<< >>) /\ \A m : ~Has(<< >>, m)
<1>1. IsList(<< >>)
  BY EmptySeq DEF IsList
<1> QED
  BY <1>1 DEF Unique, Has

\* Filling an empty list from another one, without some of its names.
LEMMA WithoutIs ==
  ASSUME NEW l, IsList(l), NEW skipped
  PROVE  LET s == Without(l, skipped) IN
         /\ IsList(s) /\ Unique(s)
         /\ \A m : Has(s, m) <=> Has(l, m) /\ m \notin skipped
         /\ \A m : Has(s, m) => Get(s, m) = All(l)[m]
<1> DEFINE s == Without(l, skipped)
<1>1. Filled(s, << >>, l, skipped, Len(l))
  BY EmptyList, LoopFills DEF Without
<1>2. DOMAIN l = 1..Len(l)
  BY Places
<1> HIDE DEF s
<1>3. \A m : Has(s, m) <=> Has(l, m) /\ m \notin skipped
  BY <1>1, <1>2, EmptyList DEF Filled, Given, Has
<1>4. ASSUME NEW m, Has(s, m) PROVE Get(s, m) = All(l)[m]
  <2>1. Has(l, m) /\ m \notin skipped
    BY <1>3, <1>4
  <2> QED BY <1>1, <2>1, LastIs, AllIs DEF Filled
<1> QED
  BY <1>1, <1>3, <1>4 DEF Filled, s

LEMMA FromMessageIs ==
  ASSUME NEW l, IsList(l)
  PROVE  LET s == FromMessage(l) IN
         /\ IsList(s) /\ Unique(s)
         /\ \A m : Has(s, m) <=> Has(l, m)
         /\ \A m : Has(s, m) => Get(s, m) = All(l)[m]
<1>1. FromMessage(l) = Without(l, {})
  BY DEF FromMessage, SetAll, Without
<1> QED
  BY <1>1, WithoutIs

\* Setting some headers, each once, in a list.
LEMMA SetAllIs ==
  ASSUME NEW l, IsList(l), Unique(l), NEW more, IsList(more), Unique(more)
  PROVE  LET s == SetAll(l, more) IN
         /\ IsList(s) /\ Unique(s)
         /\ \A m : Has(s, m) <=> Has(l, m) \/ Has(more, m)
         /\ \A m : Has(s, m) => Get(s, m) = IF Has(more, m) THEN Get(more, m) ELSE Get(l, m)
<1> DEFINE s == SetAll(l, more)
<1>1. Filled(s, l, more, {}, Len(more))
  BY LoopFills DEF SetAll
<1>2. DOMAIN more = 1..Len(more)
  BY Places
<1> HIDE DEF s
<1>3. \A m : Given(more, {}, Len(more), m) <=> Has(more, m)
  BY <1>2 DEF Given, Has
<1>4. \A m : Has(s, m) <=> Has(l, m) \/ Has(more, m)
  BY <1>1, <1>3 DEF Filled
<1>5. ASSUME NEW m, Has(more, m) PROVE Get(s, m) = Get(more, m)
  <2>1. /\ LastOf(more, m) \in 1..Len(more) /\ NameOf(more[LastOf(more, m)]) = m
        /\ GivenLast(more, Len(more), LastOf(more, m))
    BY <1>5, LastIs
  <2>2. Get(more, m) = ValueOf(more[LastOf(more, m)])
    BY <1>2, <2>1, GetUnique
  <2> QED BY <1>1, <2>1, <2>2 DEF Filled
<1>6. ASSUME NEW m, Has(l, m), ~Has(more, m) PROVE Get(s, m) = Get(l, m)
  BY <1>1, <1>3, <1>6 DEF Filled
<1> QED
  BY <1>1, <1>4, <1>5, <1>6 DEF Filled, s

\* The short lists the operations write.
LEMMA OneHeader ==
  ASSUME NEW a, NEW x
  PROVE  LET l == << <<a, x>> >> IN
         /\ IsList(l) /\ Unique(l)
         /\ \A m : Has(l, m) <=> m = a
         /\ Get(l, a) = x
<1> DEFINE l == << <<a, x>> >>
<1>1. DOMAIN l = {1} /\ l[1] = <<a, x>> /\ NameOf(l[1]) = a /\ ValueOf(l[1]) = x
  BY DEF NameOf, ValueOf
<1>2. IsList(l)
  <2>1. l \in Seq({<<a, x>>})
    OBVIOUS
  <2> QED BY <2>1, ListOf
<1> HIDE DEF l
<1>3. Unique(l) /\ \A m : Has(l, m) <=> m = a
  BY <1>1 DEF Unique, Has
<1>4. Get(l, a) = x
  BY <1>1, <1>2, <1>3, GetUnique
<1> QED
  BY <1>2, <1>3, <1>4 DEF l

LEMMA TwoHeaders ==
  ASSUME NEW a, NEW x, NEW b, NEW y, a # b
  PROVE  LET l == << <<a, x>>, <<b, y>> >> IN
         /\ IsList(l) /\ Unique(l)
         /\ \A m : Has(l, m) <=> m \in {a, b}
         /\ Get(l, a) = x /\ Get(l, b) = y
<1> DEFINE l == << <<a, x>>, <<b, y>> >>
<1>1. /\ DOMAIN l = {1, 2}
      /\ NameOf(l[1]) = a /\ ValueOf(l[1]) = x
      /\ NameOf(l[2]) = b /\ ValueOf(l[2]) = y
  BY DEF NameOf, ValueOf
<1>2. IsList(l)
  <2>1. l \in Seq({<<a, x>>, <<b, y>>})
    OBVIOUS
  <2> QED BY <2>1, ListOf
<1> HIDE DEF l
<1>3. Unique(l) /\ \A m : Has(l, m) <=> m \in {a, b}
  BY <1>1 DEF Unique, Has
<1>4. Get(l, a) = x /\ Get(l, b) = y
  <2>1. 1 \in DOMAIN l /\ 2 \in DOMAIN l
    BY <1>1
  <2> QED BY <1>1, <1>2, <1>3, <2>1, GetUnique
<1> QED
  BY <1>2, <1>3, <1>4 DEF l

LEMMA FourHeaders ==
  ASSUME NEW a, NEW x, NEW b, NEW y, NEW c, NEW z, NEW d, NEW w,
         a # b, a # c, a # d, b # c, b # d, c # d
  PROVE  LET l == << <<a, x>>, <<b, y>>, <<c, z>>, <<d, w>> >> IN
         /\ IsList(l) /\ Unique(l)
         /\ \A m : Has(l, m) <=> m \in {a, b, c, d}
         /\ Get(l, a) = x /\ Get(l, b) = y /\ Get(l, c) = z /\ Get(l, d) = w
<1> DEFINE l == << <<a, x>>, <<b, y>>, <<c, z>>, <<d, w>> >>
<1>1. /\ DOMAIN l = {1, 2, 3, 4}
      /\ NameOf(l[1]) = a /\ ValueOf(l[1]) = x
      /\ NameOf(l[2]) = b /\ ValueOf(l[2]) = y
      /\ NameOf(l[3]) = c /\ ValueOf(l[3]) = z
      /\ NameOf(l[4]) = d /\ ValueOf(l[4]) = w
  BY DEF NameOf, ValueOf
<1>2. IsList(l)
  <2>1. l \in Seq({<<a, x>>, <<b, y>>, <<c, z>>, <<d, w>>})
    OBVIOUS
  <2> QED BY <2>1, ListOf
<1> HIDE DEF l
<1>3. Unique(l) /\ \A m : Has(l, m) <=> m \in {a, b, c, d}
  BY <1>1 DEF Unique, Has
<1>4. Get(l, a) = x /\ Get(l, b) = y /\ Get(l, c) = z /\ Get(l, d) = w
  <2>1. 1 \in DOMAIN l /\ 2 \in DOMAIN l /\ 3 \in DOMAIN l /\ 4 \in DOMAIN l
    BY <1>1
  <2> QED BY <1>1, <1>2, <1>3, <2>1, GetUnique
<1> QED
  BY <1>2, <1>3, <1>4 DEF l

-----------------------------------------------------------------------------
(* Durations and the linear strategy                                       *)

\* Durations wrap around into their range, and not at all inside of it.
LEMMA WrapTyped == ASSUME NEW n \in Int PROVE Wrap(n) \in Durations
<1> DEFINE W == 2 * Limit
<1>1. Limit \in Nat \ {0} /\ W \in Nat \ {0} /\ W = Limit + Limit
  BY BackoffAssumption
<1>2. (n + Limit) % W \in 0..(W - 1)
  <2> HIDE DEF W
  <2> QED BY <1>1
<1> QED BY <1>1, <1>2 DEF Wrap, Durations

LEMMA WrapIs == ASSUME NEW n \in Durations PROVE Wrap(n) = n
<1> DEFINE W == 2 * Limit
           m == n + Limit
<1>1. Limit \in Nat \ {0} /\ W \in Nat \ {0} /\ W = Limit + Limit /\ n \in Int
  BY BackoffAssumption DEF Durations
<1>2. m \in 0..(W - 1)
  BY <1>1 DEF Durations
<1>3. m % W = m
  <2> HIDE DEF W, m
  <2>1. m = W * (m \div W) + (m % W) /\ m % W \in 0..(W - 1) /\ m \div W \in Int
    BY <1>1, <1>2
  <2> QED BY <1>1, <1>2, <2>1
<1> QED BY <1>1, <1>3 DEF Wrap

\* A setting that NewLinearBackoff accepts.
Setting(s) == /\ s.kind = "linear"
              /\ s.initial \in Durations /\ s.increment \in Durations /\ s.max \in Durations
              /\ Accepted(s)

\* Without overflow the sum is the one of the integers.
LEMMA LinearSum ==
  ASSUME NEW s, Setting(s), NEW n \in Nat, NoOverflow(s, n)
  PROVE  /\ NextDelay(s, n) =
              IF s.initial + s.increment * n > s.max THEN s.max
                                                     ELSE s.initial + s.increment * n
         /\ s.increment * n \in Nat
<1> DEFINE product == s.increment * n
<1>1. /\ Limit \in Nat
      /\ s.initial \in Nat \ {0} /\ s.increment \in Nat /\ s.max \in Nat
      /\ s.initial + product < Limit
  BY BackoffAssumption DEF Setting, Accepted, Durations, NoOverflow
<1>2. product \in Nat
  BY <1>1
<1> HIDE DEF product
<1>3. product \in Durations /\ s.initial + product \in Durations
  BY <1>1, <1>2 DEF Durations
<1>4. Wrap(s.initial + Wrap(product)) = s.initial + product
  BY <1>3, WrapIs
<1>5. NextDelay(s, n) = LinearDelay(s, n)
  BY DEF NextDelay, Setting
<1> QED BY <1>2, <1>4, <1>5 DEF LinearDelay, product

\* However large the attempt, and also when the sum wraps around, a linear
\* delay is a duration and at most the configured maximum
\* (backoff.go:131-144).
THEOREM LinearIsCapped ==
  ASSUME NEW s, Setting(s), NEW n \in Nat
  PROVE  NextDelay(s, n) \in Durations /\ NextDelay(s, n) <= Longest(s)
<1>1. s.initial \in Int /\ s.increment \in Int /\ s.max \in Durations
  BY BackoffAssumption DEF Setting, Durations
<1>2. Wrap(s.increment * n) \in Durations
  BY <1>1, WrapTyped
<1>3. Wrap(s.initial + Wrap(s.increment * n)) \in Durations
  BY <1>1, <1>2, WrapTyped, BackoffAssumption DEF Durations
<1>4. LinearDelay(s, n) \in Durations /\ LinearDelay(s, n) <= s.max
  BY <1>1, <1>3, BackoffAssumption DEF LinearDelay, Durations
<1> QED BY <1>4 DEF NextDelay, Longest, Setting

\* As long as the sum stays within a duration no delay is shorter than the
\* initial one or than that of an earlier attempt (backoff.go:131-144).
THEOREM LinearGrows ==
  ASSUME NEW s, Setting(s), NEW n \in Nat, NEW m \in 0..n, NoOverflow(s, n)
  PROVE  s.initial <= NextDelay(s, m) /\ NextDelay(s, m) <= NextDelay(s, n)
<1>1. /\ Limit \in Nat /\ m \in Nat
      /\ s.initial \in Nat \ {0} /\ s.increment \in Nat
      /\ s.max \in Nat /\ s.initial <= s.max
      /\ s.initial + s.increment * n < Limit
  BY BackoffAssumption DEF Setting, Accepted, Durations, NoOverflow
<1>2. s.increment * m <= s.increment * n
  <2>1. PICK k \in Nat : n = m + k
    BY <1>1
  <2>2. s.increment * n = s.increment * m + s.increment * k /\ s.increment * k >= 0
    BY <1>1, <2>1
  <2> QED BY <1>1, <2>2
<1>3. NoOverflow(s, m)
  BY <1>1, <1>2 DEF NoOverflow
<1>4. s.increment * m \in Nat /\ s.increment * n \in Nat
  BY <1>1
<1> QED BY <1>1, <1>2, <1>3, <1>4, LinearSum

-----------------------------------------------------------------------------
(* The exponential strategy                                                *)

\* Powers as a recursive function, as it is proved of loops above.
IsPowers(power, b, n) ==
  power = [k \in 0..n |-> IF k = 0 THEN 1 ELSE b * power[k - 1]]

LEMMA PowersExist ==
  ASSUME NEW b \in Nat \ {0}, NEW n \in Nat
  PROVE  \E power : IsPowers(power, b, n)
<1> DEFINE Bad == {k \in Nat : ~ \E power : IsPowers(power, b, k)}
<1>1. Bad = {}
  <2> SUFFICES ASSUME Bad # {} PROVE FALSE
    OBVIOUS
  <2>1. PICK k \in Bad : \A i \in Bad : k <= i
    BY Smallest
  <2>2. CASE k = 0
    <3>1. IsPowers([i \in 0..0 |-> 1], b, 0)
      BY DEF IsPowers
    <3> QED BY <2>2, <3>1
  <2>3. CASE k # 0
    <3>1. k - 1 \in Nat /\ k - 1 \notin Bad
      BY <2>1, <2>3
    <3>2. PICK f : IsPowers(f, b, k - 1)
      BY <3>1
    <3> DEFINE g == [i \in 0..k |-> IF i = k THEN b * f[k - 1] ELSE f[i]]
    <3>3. \A i \in 0..k : i # 0 => g[i - 1] = f[i - 1]
      BY <2>3
    <3>4. \A i \in 0..(k - 1) : f[i] = IF i = 0 THEN 1 ELSE b * f[i - 1]
      BY <3>2 DEF IsPowers
    <3>5. \A i \in 0..k : g[i] = IF i = 0 THEN 1 ELSE b * g[i - 1]
      <4>1. g[k] = b * g[k - 1]
        BY <2>3, <3>3
      <4>2. ASSUME NEW i \in 0..(k - 1) PROVE g[i] = IF i = 0 THEN 1 ELSE b * g[i - 1]
        <5>1. i \in 0..k /\ i # k
          BY <3>1
        <5>2. g[i] = f[i]
          BY <5>1
        <5> HIDE DEF g
        <5> QED BY <3>3, <3>4, <5>1, <5>2
      <4>3. \A i \in 0..k : i = k \/ i \in 0..(k - 1)
        BY <3>1
      <4> HIDE DEF g
      <4> QED BY <2>3, <4>1, <4>2, <4>3
    <3>6. g = [i \in 0..k |-> g[i]]
      OBVIOUS
    <3>7. IsPowers(g, b, k)
      <4> HIDE DEF g
      <4> QED BY <3>5, <3>6 DEF IsPowers
    <3> QED BY <3>7
  <2> QED BY <2>2, <2>3
<1> QED
  BY <1>1

LEMMA PowersAre ==
  ASSUME NEW b \in Nat \ {0}, NEW n \in Nat
  PROVE  /\ Powers(b, n)[0] = 1
         /\ \A k \in 1..n : Powers(b, n)[k] = b * Powers(b, n)[k - 1]
<1> DEFINE power == Powers(b, n)
<1>1. IsPowers(power, b, n)
  <2>1. \E f : IsPowers(f, b, n)
    BY PowersExist
  <2> QED BY <2>1, Zenon DEF Powers, IsPowers
<1> HIDE DEF power
<1>2. \A k \in 0..n : power[k] = IF k = 0 THEN 1 ELSE b * power[k - 1]
  BY <1>1 DEF IsPowers
<1>3. power[0] = 1 /\ \A k \in 1..n : power[k] = b * power[k - 1]
  BY <1>2
<1> QED
  BY <1>3 DEF power

LEMMA PowersPositive ==
  ASSUME NEW b \in Nat \ {0}, NEW n \in Nat, NEW k \in 0..n
  PROVE  Powers(b, n)[k] \in Nat \ {0}
<1> DEFINE power == Powers(b, n)
           Bad   == {i \in 0..n : power[i] \notin Nat \ {0}}
<1>1. power[0] = 1 /\ \A i \in 1..n : power[i] = b * power[i - 1]
  BY PowersAre
<1> HIDE DEF power
<1>2. Bad = {}
  <2> SUFFICES ASSUME Bad # {} PROVE FALSE
    OBVIOUS
  <2>1. PICK i \in Bad : \A j \in Bad : i <= j
    <3>1. Bad \in SUBSET Nat
      OBVIOUS
    <3> HIDE DEF Bad
    <3> QED BY <3>1, Smallest
  <2>2. i \in 1..n /\ i - 1 \in 0..n /\ i - 1 \notin Bad
    BY <1>1, <2>1
  <2>3. power[i] = b * power[i - 1] /\ power[i - 1] \in Nat \ {0}
    BY <1>1, <2>2
  <2>4. power[i] \in Nat \ {0}
    <3> DEFINE p == power[i - 1]
    <3>1. p \in Nat \ {0} /\ power[i] = b * p
      BY <2>3
    <3> HIDE DEF p
    <3>2. b * p \in Nat /\ b * p # 0
      BY <3>1
    <3> QED BY <3>1, <3>2
  <2> QED BY <2>4
<1> QED
  BY <1>2 DEF power

\* The powers up to one number begin with those up to a smaller one.
LEMMA PowersPrefix ==
  ASSUME NEW b \in Nat \ {0}, NEW n \in Nat, NEW k \in 0..n
  PROVE  Powers(b, n + 1)[k] = Powers(b, n)[k]
<1> DEFINE f == Powers(b, n)
           g == Powers(b, n + 1)
           Bad == {i \in 0..n : g[i] # f[i]}
<1>1. f[0] = 1 /\ \A i \in 1..n : f[i] = b * f[i - 1]
  BY PowersAre
<1>2. g[0] = 1 /\ \A i \in 1..(n + 1) : g[i] = b * g[i - 1]
  BY PowersAre
<1> HIDE DEF f, g
<1>3. Bad = {}
  <2> SUFFICES ASSUME Bad # {} PROVE FALSE
    OBVIOUS
  <2>1. PICK i \in Bad : \A j \in Bad : i <= j
    <3>1. Bad \in SUBSET Nat
      OBVIOUS
    <3> HIDE DEF Bad
    <3> QED BY <3>1, Smallest
  <2>2. i \in 1..n /\ i \in 1..(n + 1) /\ i - 1 \in 0..n /\ i - 1 \notin Bad
    BY <1>1, <1>2, <2>1
  <2>3. g[i - 1] = f[i - 1]
    BY <2>2
  <2> QED BY <1>1, <1>2, <2>2, <2>3
<1> QED
  BY <1>3 DEF f, g

LEMMA PowerSteps ==
  ASSUME NEW b \in Nat \ {0}, NEW n \in Nat
  PROVE  /\ Powers(b, n)[n] \in Nat \ {0}
         /\ Powers(b, n + 1)[n + 1] = b * Powers(b, n)[n]
<1>1. n \in 0..n /\ n + 1 \in 1..(n + 1) /\ (n + 1) - 1 = n
  OBVIOUS
<1>2. Powers(b, n + 1)[n + 1] = b * Powers(b, n + 1)[n]
  BY <1>1, PowersAre
<1> QED
  BY <1>1, <1>2, PowersPositive, PowersPrefix

\* Division rounds down.
LEMMA Quotient ==
  ASSUME NEW a \in Nat, NEW d \in Nat \ {0}
  PROVE  /\ a \div d \in Nat
         /\ d * (a \div d) <= a
         /\ \A q \in Nat : d * q <= a => q <= a \div d
         /\ \A q \in Nat : a <= d * q => a \div d <= q
<1> DEFINE r == a \div d
<1>1. r \in Int /\ a = d * r + (a % d) /\ a % d \in 0..(d - 1)
  OBVIOUS
<1> HIDE DEF r
<1>2. d * r <= a /\ a < d * r + d
  BY <1>1
<1>3. \A x, y \in Int : x < y => d * x + d <= d * y
  <2> SUFFICES ASSUME NEW x \in Int, NEW y \in Int, x < y PROVE d * x + d <= d * y
    OBVIOUS
  <2>1. PICK z \in Nat : y = x + 1 + z
    <3>1. y = x + 1 + (y - x - 1) /\ y - x - 1 \in Nat
      OBVIOUS
    <3> QED BY <3>1
  <2>2. d * y = d * x + d + d * z /\ d * z >= 0
    BY <2>1
  <2> QED BY <2>2
<1>4. r >= 0
  <2> SUFFICES ASSUME r < 0 PROVE FALSE
    BY <1>1
  <2>1. d * r + d <= d * 0
    BY <1>1, <1>3
  <2> QED BY <1>1, <1>2, <2>1
<1>5. ASSUME NEW q \in Nat, d * q <= a PROVE q <= r
  <2> SUFFICES ASSUME r < q PROVE FALSE
    BY <1>1
  <2>1. d * r + d <= d * q
    BY <1>1, <1>3
  <2>2. d * q \in Int /\ d * r \in Int
    BY <1>1
  <2> QED BY <1>2, <1>5, <2>1, <2>2
<1>6. ASSUME NEW q \in Nat, a <= d * q PROVE r <= q
  <2> SUFFICES ASSUME q < r PROVE FALSE
    BY <1>1
  <2>1. d * q + d <= d * r
    BY <1>1, <1>3
  <2>2. d * q \in Int /\ d * r \in Int
    BY <1>1
  <2> QED BY <1>2, <1>6, <2>1, <2>2
<1> QED
  BY <1>1, <1>2, <1>4, <1>5, <1>6 DEF r

\* A fraction that grows does not get smaller when it is capped and rounded.
Rounded(a, d, max) == IF a > max * d THEN max ELSE a \div d

LEMMA RoundedCapped ==
  ASSUME NEW a \in Nat, NEW d \in Nat \ {0}, NEW max \in Nat
  PROVE  Rounded(a, d, max) \in 0..max
<1>1. max * d = d * max /\ max * d \in Int
  OBVIOUS
<1>2. CASE a > max * d
  BY <1>2 DEF Rounded
<1>3. CASE ~(a > max * d)
  <2>1. a <= d * max
    BY <1>1, <1>3
  <2>2. a \div d \in Nat /\ a \div d <= max
    BY <2>1, Quotient
  <2> DEFINE r == a \div d
  <2> HIDE DEF r
  <2>3. r \in Nat /\ r <= max
    BY <2>2 DEF r
  <2>4. Rounded(a, d, max) = r
    BY <1>3 DEF Rounded, r
  <2> QED BY <2>3, <2>4
<1> QED
  BY <1>2, <1>3

LEMMA RoundedGrows ==
  ASSUME NEW a \in Nat, NEW d \in Nat \ {0}, NEW max \in Nat,
         NEW x \in Nat \ {0}, NEW y \in Nat \ {0}, x >= y
  PROVE  Rounded(a, d, max) <= Rounded(x * a, y * d, max)
<1>1. x * a \in Nat /\ y * d \in Nat \ {0} /\ y * a \in Nat
  <2>1. y * d # 0
    OBVIOUS
  <2> QED BY <2>1
<1>2. y * a <= x * a
  <2>1. PICK z \in Nat : x = y + z
    <3>1. x = y + (x - y) /\ x - y \in Nat
      OBVIOUS
    <3> QED BY <3>1
  <2>2. x * a = y * a + z * a /\ z * a \in Nat
    BY <2>1
  <2> QED BY <1>1, <2>2
<1>3. max * d \in Nat /\ max * (y * d) = y * (max * d)
  OBVIOUS
<1>4. Rounded(x * a, y * d, max) \in 0..max
  BY <1>1, RoundedCapped
<1>5. CASE a > max * d
  <2>1. y * a > y * (max * d)
    <3> DEFINE p == max * d
    <3>1. p \in Nat /\ a > p
      BY <1>3, <1>5
    <3> HIDE DEF p
    <3>2. PICK z \in Nat \ {0} : a = p + z
      <4>1. a = p + (a - p) /\ a - p \in Nat \ {0}
        BY <3>1
      <4> QED BY <4>1
    <3>3. y * a = y * p + y * z /\ y * z \in Nat \ {0} /\ y * p \in Nat
      BY <3>1, <3>2
    <3>4. y * a > y * p
      BY <3>3
    <3> QED BY <3>4 DEF p
  <2>2. x * a > max * (y * d)
    <3>1. y * (max * d) \in Nat
      BY <1>3
    <3> QED BY <1>1, <1>2, <1>3, <2>1, <3>1
  <2>3. Rounded(a, d, max) = max /\ Rounded(x * a, y * d, max) = max
    BY <1>5, <2>2 DEF Rounded
  <2> QED BY <2>3
<1>6. CASE ~(a > max * d)
  <2>1. Rounded(a, d, max) = a \div d
    BY <1>6 DEF Rounded
  <2>2. CASE x * a > max * (y * d)
    <3>1. Rounded(x * a, y * d, max) = max
      BY <2>2 DEF Rounded
    <3>2. Rounded(a, d, max) \in 0..max
      BY RoundedCapped
    <3> QED BY <3>1, <3>2
  <2>3. CASE ~(x * a > max * (y * d))
    <3> DEFINE q == a \div d
    <3>1. q \in Nat /\ d * q <= a
      BY Quotient
    <3>2. Rounded(x * a, y * d, max) = (x * a) \div (y * d)
      BY <2>3 DEF Rounded
    <3> HIDE DEF q
    <3>3. d * q \in Nat /\ (y * d) * q = y * (d * q)
      BY <3>1
    <3>4. y * (d * q) <= y * a
      <4>1. PICK z \in Nat : a = d * q + z
        <5>1. a = d * q + (a - d * q) /\ a - d * q \in Nat
          BY <3>1, <3>3
        <5> QED BY <5>1
      <4>2. y * a = y * (d * q) + y * z /\ y * z \in Nat
        BY <3>3, <4>1
      <4> QED BY <1>1, <3>3, <4>2
    <3>5. (y * d) * q <= x * a
      <4>1. y * (d * q) \in Nat
        BY <3>3
      <4> QED BY <1>1, <1>2, <3>3, <3>4, <4>1
    <3>6. q <= (x * a) \div (y * d)
      BY <1>1, <3>1, <3>5, Quotient
    <3> QED BY <2>1, <3>2, <3>6 DEF q
  <2> QED BY <2>2, <2>3
<1> QED
  BY <1>5, <1>6

\* A strategy that its constructor accepts.
Strategy(s) == s \in Strategies /\ Accepted(s)

LEMMA StrategyKinds ==
  ASSUME NEW s, Strategy(s)
  PROVE  /\ s.kind \in {"exponential", "constant", "linear"}
         /\ s.kind = "linear" => Setting(s)
         /\ s.initial \in Durations /\ s.initial > 0
         /\ s.kind = "exponential" => /\ s.max \in Durations /\ s.max >= s.initial
                                      /\ s.num \in Nat \ {0} /\ s.den \in Nat \ {0}
                                      /\ s.num >= s.den
BY DEF Strategy, Strategies, Accepted, Setting

LEMMA ExponentialIs ==
  ASSUME NEW s, Strategy(s), s.kind = "exponential", NEW n \in Nat
  PROVE  /\ \E a \in Nat, d \in Nat \ {0} :
              /\ NextDelay(s, n) = Rounded(a, d, s.max)
              /\ NextDelay(s, n + 1) = Rounded(s.num * a, s.den * d, s.max)
         /\ s.max \in Nat
         /\ s.num \in Nat \ {0} /\ s.den \in Nat \ {0} /\ s.num >= s.den
<1> DEFINE p == Powers(s.num, n)[n]
           d == Powers(s.den, n)[n]
           a == s.initial * p
<1>1. /\ s.initial \in Nat /\ s.max \in Nat
      /\ s.num \in Nat \ {0} /\ s.den \in Nat \ {0} /\ s.num >= s.den
  BY StrategyKinds, BackoffAssumption DEF Durations
<1>2. /\ p \in Nat \ {0} /\ Powers(s.num, n + 1)[n + 1] = s.num * p
      /\ d \in Nat \ {0} /\ Powers(s.den, n + 1)[n + 1] = s.den * d
  BY <1>1, PowerSteps
<1>3. /\ NextDelay(s, n) = ExponentialDelay(s, n)
      /\ NextDelay(s, n + 1) = ExponentialDelay(s, n + 1)
  BY DEF NextDelay
<1>4. ExponentialDelay(s, n) = Rounded(a, d, s.max)
  BY DEF ExponentialDelay, Rounded
<1>5. ExponentialDelay(s, n + 1) = Rounded(s.initial * (s.num * p), s.den * d, s.max)
  BY <1>2 DEF ExponentialDelay, Rounded
<1> HIDE DEF p, d
<1>6. s.initial * (s.num * p) = s.num * a /\ a \in Nat
  BY <1>1, <1>2
<1> HIDE DEF a
<1>7. /\ NextDelay(s, n) = Rounded(a, d, s.max)
      /\ NextDelay(s, n + 1) = Rounded(s.num * a, s.den * d, s.max)
      /\ a \in Nat /\ d \in Nat \ {0}
  BY <1>2, <1>3, <1>4, <1>5, <1>6
<1> QED
  BY <1>1, <1>7

\* No strategy waits longer than the configured maximum, for any attempt,
\* also when the sum of the linear one wraps around (backoff.go:60-144).
THEOREM DelayIsCapped ==
  ASSUME NEW s, Strategy(s), NEW n \in Nat
  PROVE  NextDelay(s, n) \in Durations /\ NextDelay(s, n) <= Longest(s)
<1>1. CASE s.kind = "exponential"
  <2>1. s.max \in Durations /\ s.max \in Nat
    BY <1>1, StrategyKinds, BackoffAssumption DEF Durations
  <2>2. NextDelay(s, n) \in 0..s.max
    <3>1. \E a \in Nat, d \in Nat \ {0} : NextDelay(s, n) = Rounded(a, d, s.max)
      BY <1>1, ExponentialIs
    <3> QED BY <2>1, <3>1, RoundedCapped
  <2>3. Longest(s) = s.max
    BY <1>1 DEF Longest
  <2> QED BY <2>1, <2>2, <2>3, BackoffAssumption DEF Durations
<1>2. CASE s.kind = "constant"
  <2>1. NextDelay(s, n) = s.initial /\ Longest(s) = s.initial /\ s.initial \in Durations
    BY <1>2, StrategyKinds DEF NextDelay, Longest
  <2> QED BY <2>1, BackoffAssumption DEF Durations
<1>3. CASE s.kind = "linear"
  BY <1>3, StrategyKinds, LinearIsCapped
<1> QED
  BY <1>1, <1>2, <1>3, StrategyKinds

\* No strategy waits less for one attempt than for the one before, as long as
\* the sum of the linear one stays within a duration (backoff.go:60-144).
THEOREM DelayGrows ==
  ASSUME NEW s, Strategy(s), NEW n \in Nat, NoOverflow(s, n + 1)
  PROVE  0 <= NextDelay(s, n) /\ NextDelay(s, n) <= NextDelay(s, n + 1)
<1>1. CASE s.kind = "exponential"
  <2>1. PICK a \in Nat, d \in Nat \ {0} :
               /\ NextDelay(s, n) = Rounded(a, d, s.max)
               /\ NextDelay(s, n + 1) = Rounded(s.num * a, s.den * d, s.max)
    BY <1>1, ExponentialIs
  <2>2. /\ s.max \in Nat
        /\ s.num \in Nat \ {0} /\ s.den \in Nat \ {0} /\ s.num >= s.den
    BY <1>1, ExponentialIs
  <2>3. Rounded(a, d, s.max) \in 0..s.max
    BY <2>2, RoundedCapped
  <2>4. Rounded(a, d, s.max) <= Rounded(s.num * a, s.den * d, s.max)
    BY <2>2, RoundedGrows
  <2> QED BY <2>1, <2>2, <2>3, <2>4
<1>2. CASE s.kind = "constant"
  <2>1. NextDelay(s, n) = s.initial /\ NextDelay(s, n + 1) = s.initial
    BY <1>2 DEF NextDelay
  <2> QED BY <2>1, StrategyKinds, BackoffAssumption DEF Durations
<1>3. CASE s.kind = "linear"
  <2>1. /\ s.initial <= NextDelay(s, n) /\ NextDelay(s, n) <= NextDelay(s, n + 1)
    <3>1. Setting(s) /\ n + 1 \in Nat /\ n \in 0..(n + 1)
      BY <1>3, StrategyKinds
    <3> QED BY <3>1, LinearGrows
  <2>2. NextDelay(s, n) \in Int /\ s.initial \in Int /\ s.initial > 0
    BY DelayIsCapped, StrategyKinds, BackoffAssumption DEF Durations
  <2> QED BY <2>1, <2>2
<1> QED
  BY <1>1, <1>2, <1>3, StrategyKinds

-----------------------------------------------------------------------------
(* What the operations do to the headers of a record                       *)

\* A record as the library may meet it: no header of its own is repeated.
Orderly(h) == IsList(h) /\ \A m : m \notin UserNames => Once(h, m)

\* Names and values that two lists have in common.
Agree(g, h, m) == (Has(g, m) <=> Has(h, m)) /\ (Has(h, m) => Get(g, m) = Get(h, m))

\* The library's own names are not those of the user's headers.
LEMMA OwnNames ==
  {"id", "topic", "retry", "attempt", "next", "original", "dlq-attempts", "dlq-failed"}
    \cap UserNames = {}
BY DEF UserNames

\* User headers are the same if they have the same last values.
LEMMA UserPartSame ==
  ASSUME NEW g, NEW h,
         \A m \in UserNames : Has(g, m) <=> Has(h, m),
         \A m \in UserNames : Has(h, m) => All(g)[m] = All(h)[m]
  PROVE  UserPart(g) = UserPart(h)
<1>1. {n \in UserNames : Has(g, n)} = {n \in UserNames : Has(h, n)}
  OBVIOUS
<1>2. \A n \in {n \in UserNames : Has(g, n)} : All(g)[n] = All(h)[n]
  OBVIOUS
<1> QED
  BY <1>1, <1>2 DEF UserPart

LEMMA UserPartAgrees ==
  ASSUME NEW g, NEW h, IsList(g), IsList(h), Unique(g), Unique(h),
         \A m \in UserNames : Agree(g, h, m)
  PROVE  UserPart(g) = UserPart(h)
<1>1. ASSUME NEW m \in UserNames, Has(h, m) PROVE All(g)[m] = All(h)[m]
  BY <1>1, UniqueOnce, AllOnce DEF Agree
<1> QED
  BY <1>1, UserPartSame DEF Agree

\* The copy has the names of the message and the library's own values.
LEMMA CopyIs ==
  ASSUME Orderly(headers)
  PROVE  /\ IsList(Copy) /\ Unique(Copy)
         /\ \A m : m \notin UserNames => Agree(Copy, headers, m)
         /\ \A m : Has(Copy, m) <=> Has(headers, m)
         /\ UserPart(Copy) = UserPart(headers)
<1>1. /\ IsList(Copy) /\ Unique(Copy)
      /\ \A m : Has(Copy, m) <=> Has(headers, m)
      /\ \A m : Has(Copy, m) => Get(Copy, m) = All(headers)[m]
  BY FromMessageIs DEF Copy, Orderly
<1>2. ASSUME NEW m, m \notin UserNames PROVE Agree(Copy, headers, m)
  BY <1>1, <1>2, AllOnce DEF Orderly, Agree
<1>3. ASSUME NEW m \in UserNames, Has(headers, m) PROVE All(Copy)[m] = All(headers)[m]
  BY <1>1, <1>3, UniqueOnce, AllOnce
<1> QED
  BY <1>1, <1>2, <1>3, UserPartSame

LEMMA AcquiredIs ==
  ASSUME NEW h, IsList(h), Unique(h), ~InRetry(h)
  PROVE  LET a == Acquired(h) IN
         /\ IsList(a) /\ Unique(a)
         /\ Has(a, "id") /\ Get(a, "id") = GetOr(h, "id", ids)
         /\ Has(a, "topic") /\ Get(a, "topic") = OriginalTopic(h)
         /\ \A m : m \notin {"id", "topic"} => Agree(a, h, m)
<1> DEFINE more == << <<"id", GetOr(h, "id", ids)>>, <<"topic", OriginalTopic(h)>> >>
           a == Acquired(h)
<1>1. /\ IsList(more) /\ Unique(more)
      /\ \A m : Has(more, m) <=> m \in {"id", "topic"}
      /\ Get(more, "id") = GetOr(h, "id", ids)
      /\ Get(more, "topic") = OriginalTopic(h)
  BY TwoHeaders
<1>2. a = SetAll(h, more)
  BY DEF Acquired
<1> HIDE DEF more, a
<1>3. /\ IsList(a) /\ Unique(a)
      /\ \A m : Has(a, m) <=> Has(h, m) \/ Has(more, m)
      /\ \A m : Has(a, m) => Get(a, m) = IF Has(more, m) THEN Get(more, m) ELSE Get(h, m)
  BY <1>1, <1>2, SetAllIs
<1> QED
  BY <1>1, <1>3 DEF Agree, a

LEMMA CarriedIs ==
  ASSUME NEW h, IsList(h), Unique(h)
  PROVE  LET c == Carried(h) IN
         /\ IsList(c) /\ Unique(c)
         /\ \A m \in {"attempt", "original", "id", "topic"} : Has(c, m)
         /\ Get(c, "attempt") = Attempt(h) + 1
         /\ Get(c, "original") = GetOr(h, "original", now \div Second)
         /\ Get(c, "id") = Get(h, "id")
         /\ Get(c, "topic") = OriginalTopic(h)
         /\ \A m : m \notin {"attempt", "next", "original", "id", "retry", "topic"}
                   => Agree(c, h, m)
<1> DEFINE names == {"attempt", "next", "original", "id", "retry"}
           base == Without(h, names)
           more == << <<"attempt", Attempt(h) + 1>>,
                      <<"original", GetOr(h, "original", now \div Second)>>,
                      <<"id", Get(h, "id")>>,
                      <<"topic", OriginalTopic(h)>> >>
           c == Carried(h)
<1>1. /\ IsList(more) /\ Unique(more)
      /\ \A m : Has(more, m) <=> m \in {"attempt", "original", "id", "topic"}
      /\ Get(more, "attempt") = Attempt(h) + 1
      /\ Get(more, "original") = GetOr(h, "original", now \div Second)
      /\ Get(more, "id") = Get(h, "id")
      /\ Get(more, "topic") = OriginalTopic(h)
  BY FourHeaders
<1>2. c = SetAll(base, more)
  BY DEF Carried
<1>3. /\ IsList(base) /\ Unique(base)
      /\ \A m : Has(base, m) <=> Has(h, m) /\ m \notin names
      /\ \A m : Has(base, m) => Get(base, m) = Get(h, m)
  <2> HIDE DEF names
  <2>1. /\ IsList(base) /\ Unique(base)
        /\ \A m : Has(base, m) <=> Has(h, m) /\ m \notin names
        /\ \A m : Has(base, m) => Get(base, m) = All(h)[m]
    BY WithoutIs
  <2> QED BY <2>1, UniqueOnce, AllOnce
<1> HIDE DEF more, c, base
<1>4. /\ IsList(c) /\ Unique(c)
      /\ \A m : Has(c, m) <=> Has(base, m) \/ Has(more, m)
      /\ \A m : Has(c, m) => Get(c, m) = IF Has(more, m) THEN Get(more, m) ELSE Get(base, m)
  BY <1>1, <1>2, <1>3, SetAllIs
<1>5. \A m : m \notin names \cup {"topic"} => Agree(c, h, m)
  BY <1>1, <1>3, <1>4 DEF Agree
<1>6. \A m \in {"attempt", "original", "id", "topic"} : Has(c, m) /\ Get(c, m) = Get(more, m)
  BY <1>1, <1>4
<1> QED
  BY <1>1, <1>4, <1>5, <1>6 DEF c

LEMMA RetryHeadersIs ==
  ASSUME NEW h, IsList(h), Unique(h), NEW wait
  PROVE  LET r == RetryHeaders(h, wait) IN
         /\ IsList(r) /\ Unique(r)
         /\ \A m \in {"attempt", "original", "id", "topic", "next", "retry"} : Has(r, m)
         /\ Get(r, "attempt") = Attempt(h) + 1
         /\ Get(r, "original") = GetOr(h, "original", now \div Second)
         /\ Get(r, "id") = Get(h, "id")
         /\ Get(r, "topic") = OriginalTopic(h)
         /\ Get(r, "next") = (now + wait) \div Second
         /\ Get(r, "retry") = "true"
         /\ \A m : m \notin {"attempt", "next", "original", "id", "retry", "topic"}
                   => Agree(r, h, m)
<1> DEFINE c == Carried(h)
           time == (now + wait) \div Second
           more == << <<"next", time>>, <<"retry", "true">> >>
           r == RetryHeaders(h, wait)
<1> HIDE DEF time
<1>1. /\ IsList(more) /\ Unique(more)
      /\ \A m : Has(more, m) <=> m \in {"next", "retry"}
      /\ Get(more, "next") = time
      /\ Get(more, "retry") = "true"
  BY TwoHeaders
<1>2. r = SetAll(c, more)
  BY DEF RetryHeaders, time
<1>3. /\ IsList(c) /\ Unique(c)
      /\ \A m \in {"attempt", "original", "id", "topic"} : Has(c, m)
      /\ Get(c, "attempt") = Attempt(h) + 1
      /\ Get(c, "original") = GetOr(h, "original", now \div Second)
      /\ Get(c, "id") = Get(h, "id")
      /\ Get(c, "topic") = OriginalTopic(h)
      /\ \A m : m \notin {"attempt", "next", "original", "id", "retry", "topic"}
                => Agree(c, h, m)
  BY CarriedIs
<1> HIDE DEF more, c, r
<1>4. /\ IsList(r) /\ Unique(r)
      /\ \A m : Has(r, m) <=> Has(c, m) \/ Has(more, m)
      /\ \A m : Has(r, m) => Get(r, m) = IF Has(more, m) THEN Get(more, m) ELSE Get(c, m)
  BY <1>1, <1>2, <1>3, SetAllIs
<1>5. \A m : m \notin {"next", "retry"} => Agree(r, c, m)
  BY <1>1, <1>4 DEF Agree
<1>6. \A m \in {"next", "retry"} : Has(r, m) /\ Get(r, m) = Get(more, m)
  BY <1>1, <1>4
<1>7. \A m : m \notin {"attempt", "next", "original", "id", "retry", "topic"} => Agree(r, h, m)
  BY <1>3, <1>5 DEF Agree
<1>8. \A m \in {"attempt", "original", "id", "topic"} : Has(r, m) /\ Get(r, m) = Get(c, m)
  BY <1>3, <1>5 DEF Agree
<1> QED
  BY <1>1, <1>3, <1>4, <1>6, <1>7, <1>8 DEF r, time

LEMMA Joined ==
  ASSUME NEW a, NEW b
  PROVE  <<a>> \o <<b>> = <<a, b>> /\ <<a>> \o << >> = <<a>>
<1>1. <<a>> \in Seq({a, b}) /\ <<b>> \in Seq({a, b}) /\ <<a, b>> \in Seq({a, b})
  OBVIOUS
<1>2. <<a>> \o << >> = <<a>>
  BY <1>1, ConcatEmptySeq
<1>3. /\ <<a>> \o <<b>> \in Seq({a, b}) /\ Len(<<a>> \o <<b>>) = 2
      /\ \A i \in 1..2 : (<<a>> \o <<b>>)[i] = IF i <= 1 THEN <<a>>[i] ELSE <<b>>[i - 1]
  BY <1>1, ConcatProperties
<1>4. <<a>> \o <<b>> = <<a, b>>
  <2>1. Len(<<a>> \o <<b>>) = Len(<<a, b>>)
    BY <1>3
  <2>2. \A i \in 1..Len(<<a>> \o <<b>>) : (<<a>> \o <<b>>)[i] = <<a, b>>[i]
    BY <1>3
  <2> QED BY <1>1, <1>3, <2>1, <2>2, SeqEqual
<1> QED
  BY <1>2, <1>4

LEMMA ReportIs ==
  ASSUME NEW h
  PROVE  LET p == Report(h) IN
         /\ IsList(p) /\ Unique(p)
         /\ Has(p, "dlq-attempts") /\ Get(p, "dlq-attempts") = Attempt(h)
         /\ Has(p, "dlq-failed") <=> Has(h, "original")
         /\ Has(h, "original") => Get(p, "dlq-failed") = Get(h, "original")
         /\ \A m : m \notin {"dlq-attempts", "dlq-failed"} => ~Has(p, m)
<1>1. CASE Has(h, "original")
  <2>1. Report(h) = << <<"dlq-attempts", Attempt(h)>>, <<"dlq-failed", Get(h, "original")>> >>
    BY <1>1, Joined DEF Report
  <2> QED BY <1>1, <2>1, TwoHeaders
<1>2. CASE ~Has(h, "original")
  <2>1. Report(h) = << <<"dlq-attempts", Attempt(h)>> >>
    BY <1>2, Joined DEF Report
  <2> QED BY <1>2, <2>1, OneHeader
<1> QED
  BY <1>1, <1>2

LEMMA DLQHeadersIs ==
  ASSUME NEW h, IsList(h), Unique(h)
  PROVE  LET d == DLQHeaders(h) IN
         /\ IsList(d) /\ Unique(d)
         /\ Has(d, "dlq-attempts") /\ Get(d, "dlq-attempts") = Attempt(h)
         /\ Has(d, "dlq-failed") <=> Has(h, "dlq-failed") \/ Has(h, "original")
         /\ Has(h, "original") => Get(d, "dlq-failed") = Get(h, "original")
         /\ \A m \in {"attempt", "next", "id", "retry"} : ~Has(d, m)
         /\ \A m : m \notin {"attempt", "next", "id", "retry", "dlq-attempts", "dlq-failed"}
                   => Agree(d, h, m)
<1> DEFINE names == {"attempt", "next", "id", "retry"}
           base == Without(h, names)
           more == Report(h)
           d == DLQHeaders(h)
<1>1. /\ IsList(more) /\ Unique(more)
      /\ Has(more, "dlq-attempts") /\ Get(more, "dlq-attempts") = Attempt(h)
      /\ Has(more, "dlq-failed") <=> Has(h, "original")
      /\ Has(h, "original") => Get(more, "dlq-failed") = Get(h, "original")
      /\ \A m : m \notin {"dlq-attempts", "dlq-failed"} => ~Has(more, m)
  BY ReportIs
<1>2. d = SetAll(base, more)
  BY DEF DLQHeaders
<1>3. /\ IsList(base) /\ Unique(base)
      /\ \A m : Has(base, m) <=> Has(h, m) /\ m \notin names
      /\ \A m : Has(base, m) => Get(base, m) = Get(h, m)
  <2> HIDE DEF names
  <2>1. /\ IsList(base) /\ Unique(base)
        /\ \A m : Has(base, m) <=> Has(h, m) /\ m \notin names
        /\ \A m : Has(base, m) => Get(base, m) = All(h)[m]
    BY WithoutIs
  <2> QED BY <2>1, UniqueOnce, AllOnce
<1> HIDE DEF more, d, base
<1>4. /\ IsList(d) /\ Unique(d)
      /\ \A m : Has(d, m) <=> Has(base, m) \/ Has(more, m)
      /\ \A m : Has(d, m) => Get(d, m) = IF Has(more, m) THEN Get(more, m) ELSE Get(base, m)
  BY <1>1, <1>2, <1>3, SetAllIs
<1>5. \A m : m \notin names \cup {"dlq-attempts", "dlq-failed"} => Agree(d, h, m)
  BY <1>1, <1>3, <1>4 DEF Agree
<1>6. \A m \in names : ~Has(d, m)
  BY <1>1, <1>3, <1>4
<1>7. /\ Has(d, "dlq-attempts") /\ Get(d, "dlq-attempts") = Attempt(h)
      /\ Has(d, "dlq-failed") <=> Has(h, "dlq-failed") \/ Has(h, "original")
      /\ Has(h, "original") => Get(d, "dlq-failed") = Get(h, "original")
  BY <1>1, <1>3, <1>4
<1> QED
  BY <1>4, <1>5, <1>6, <1>7 DEF d

-----------------------------------------------------------------------------
(* The inductive invariant                                                 *)

\* The time of the first failure is on the record once it has failed.
Timed(h, f) ==
  /\ Has(h, "original") <=> f # -1
  /\ Has(h, "original") => Get(h, "original") = f
  /\ Has(h, "dlq-failed") => Has(h, "original")

\* A record that is not in the retry chain has no trace of an earlier one but
\* the topic.
Outside(h) ==
  /\ \A m \in {"attempt", "next", "id", "retry"} : ~Has(h, m)
  /\ Has(h, "topic") => Get(h, "topic") = Main

\* A record of the retry topic says where it comes from and when it is due.
Inside(h) ==
  /\ \A m \in {"id", "topic", "attempt", "retry", "next", "original"} : Has(h, m)
  /\ Get(h, "topic") = Main
  /\ Get(h, "attempt") = hops
  /\ Get(h, "retry") = "true"
  /\ Get(h, "next") = due \div Second

Numbers ==
  /\ written \in UserHeaders /\ cfg \in Configs
  /\ count \in Nat /\ ids \in Nat /\ now \in Nat /\ faults \in Nat /\ replays \in Nat
  /\ first \in {-1} \cup Nat
  /\ hops \in 0..cfg.maxRetries
  /\ due \in Int /\ delay \in Int

Headed ==
  /\ topic \in {Nowhere, Main, RetryTopic(Main)}
  /\ topic = Nowhere => headers = << >>
  /\ topic # Nowhere => /\ Orderly(headers)
                        /\ UserPart(headers) = UserPart(written)
                        /\ Timed(headers, first)
  /\ topic = Main => Outside(headers) /\ hops = 0 /\ delay = 0
  /\ topic = RetryTopic(Main) => /\ Unique(headers) /\ Inside(headers)
                                 /\ hops >= 1
                                 /\ delay = NextDelay(cfg.backoff, hops - 1)

\* A record of the DLQ can be sent to the main topic as it is.
Replayable(record) ==
  /\ IsList(record.headers) /\ Unique(record.headers)
  /\ UserPart(record.headers) = UserPart(written)
  /\ Outside(record.headers) /\ Timed(record.headers, record.first)
  /\ record.first \in {-1} \cup Nat
  /\ Has(record.headers, "dlq-attempts")
  /\ Get(record.headers, "dlq-attempts") = record.hops
  /\ record.first # -1 => /\ Has(record.headers, "dlq-failed")
                          /\ Get(record.headers, "dlq-failed") = record.first

Reported == \A record \in dlq : Replayable(record)

\* Locks are younger than the next uuid.  As long as nothing has failed the
\* lock of a record in the retry topic is open and each is counted once.
Counted ==
  /\ IsFiniteSet(held)
  /\ \A lock \in held \cup left : lock[1] \in 0..(ids - 1) /\ lock[2] = Main
  /\ topic = RetryTopic(Main) => LockOf(headers) \in held \cup left
  /\ held \subseteq left \cup IF topic = RetryTopic(Main) THEN {LockOf(headers)} ELSE {}
  /\ faults = 0 => /\ count = Cardinality(held)
                   /\ topic = RetryTopic(Main) => LockOf(headers) \in held

RecordInv == Numbers /\ Headed /\ Reported /\ Counted

-----------------------------------------------------------------------------
(* What the records of a step are                                          *)

LEMMA Topics ==
  /\ Main # Nowhere /\ RetryTopic(Main) # Nowhere /\ RetryTopic(Main) # Main
<1>1. RetryTopic(Main) = <<"retry", "main">>
  BY Joined DEF RetryTopic, Main
<1> QED
  BY <1>1 DEF Main, Nowhere

\* Only two headers are asked for the time of the first failure.
LEMMA TimedAgrees ==
  ASSUME NEW g, NEW h, NEW f, Timed(h, f), Agree(g, h, "original"), Agree(g, h, "dlq-failed")
  PROVE  Timed(g, f)
BY DEF Timed, Agree

\* The copy of a record says what the record says.
LEMMA CopyMeets ==
  ASSUME RecordInv, topic # Nowhere
  PROVE  /\ IsList(Copy) /\ Unique(Copy)
         /\ UserPart(Copy) = UserPart(written)
         /\ Timed(Copy, first)
         /\ Attempt(Copy) = hops
         /\ OriginalTopic(Copy) = Main
         /\ topic = Main => Outside(Copy) /\ ~InRetry(Copy)
         /\ topic = RetryTopic(Main) => /\ Inside(Copy) /\ InRetry(Copy)
                                        /\ LockOf(Copy) = LockOf(headers)
<1>1. /\ Orderly(headers) /\ UserPart(headers) = UserPart(written) /\ Timed(headers, first)
      /\ topic \in {Main, RetryTopic(Main)}
      /\ topic = Main => Outside(headers) /\ hops = 0
      /\ topic = RetryTopic(Main) => Inside(headers)
  BY DEF RecordInv, Headed
<1>2. /\ IsList(Copy) /\ Unique(Copy)
      /\ \A m : m \notin UserNames => Agree(Copy, headers, m)
      /\ UserPart(Copy) = UserPart(headers)
  BY <1>1, CopyIs
<1>3. \A m \in {"id", "topic", "retry", "attempt", "next", "original", "dlq-attempts", "dlq-failed"} :
        Agree(Copy, headers, m)
  BY <1>2, OwnNames
<1>4. Timed(Copy, first)
  BY <1>1, <1>3, TimedAgrees
<1>5. ASSUME topic = Main
      PROVE  /\ Outside(Copy) /\ ~InRetry(Copy)
             /\ Attempt(Copy) = hops /\ OriginalTopic(Copy) = Main
  <2>1. Outside(Copy) /\ hops = 0
    BY <1>1, <1>3, <1>5 DEF Outside, Agree
  <2>2. ~InRetry(Copy)
    BY <2>1 DEF Outside, InRetry, GetOr
  <2>3. Attempt(Copy) = hops
    BY <2>1 DEF Outside, Attempt, GetOr
  <2>4. OriginalTopic(Copy) = Main
    BY <1>5, <2>1 DEF Outside, OriginalTopic, GetOr
  <2> QED BY <2>1, <2>2, <2>3, <2>4
<1>6. ASSUME topic = RetryTopic(Main)
      PROVE  /\ Inside(Copy) /\ InRetry(Copy)
             /\ Attempt(Copy) = hops /\ OriginalTopic(Copy) = Main
             /\ LockOf(Copy) = LockOf(headers)
  <2>1. Inside(headers)
    BY <1>1, <1>6
  <2>2. Inside(Copy)
    BY <1>3, <2>1 DEF Inside, Agree
  <2>3. LockOf(Copy) = LockOf(headers)
    BY <1>3, <2>1 DEF Inside, Agree, LockOf
  <2>4. InRetry(Copy) /\ Attempt(Copy) = hops /\ OriginalTopic(Copy) = Main
    BY <2>2 DEF Inside, InRetry, Attempt, OriginalTopic, GetOr
  <2> QED BY <2>2, <2>3, <2>4
<1> QED
  BY <1>1, <1>2, <1>4, <1>5, <1>6

\* The lock of a message that is redirected.
ThisLock == IF topic = Main THEN <<ids, Main>> ELSE LockOf(headers)

LEMMA AcquiredMeets ==
  ASSUME RecordInv, topic # Nowhere
  PROVE  LET a == Acquired(Copy) IN
         /\ IsList(a) /\ Unique(a)
         /\ UserPart(a) = UserPart(written)
         /\ Timed(a, first)
         /\ Attempt(a) = hops
         /\ OriginalTopic(a) = Main
         /\ Has(a, "id") /\ LockOf(a) = ThisLock
<1> DEFINE c == Copy
           a == Acquired(Copy)
<1>1. topic \in {Main, RetryTopic(Main)}
  BY DEF RecordInv, Headed
<1>2. /\ IsList(c) /\ Unique(c)
      /\ UserPart(c) = UserPart(written)
      /\ Timed(c, first)
      /\ Attempt(c) = hops
      /\ OriginalTopic(c) = Main
      /\ topic = Main => Outside(c) /\ ~InRetry(c)
      /\ topic = RetryTopic(Main) => /\ Inside(c) /\ InRetry(c)
                                     /\ LockOf(c) = LockOf(headers)
  BY CopyMeets
<1>3. CASE topic = RetryTopic(Main)
  <2>1. a = c
    BY <1>2, <1>3 DEF Acquired
  <2>2. Has(a, "id") /\ LockOf(a) = ThisLock
    BY <1>2, <1>3, <2>1, Topics DEF Inside, ThisLock
  <2> HIDE DEF a, c
  <2> QED BY <1>2, <2>1, <2>2 DEF a, c
<1>4. CASE topic = Main
  <2>1. /\ IsList(a) /\ Unique(a)
        /\ Has(a, "id") /\ Get(a, "id") = GetOr(c, "id", ids)
        /\ Has(a, "topic") /\ Get(a, "topic") = OriginalTopic(c)
        /\ \A m : m \notin {"id", "topic"} => Agree(a, c, m)
    BY <1>2, <1>4, AcquiredIs
  <2>2. Get(a, "id") = ids /\ Get(a, "topic") = Main
    BY <1>2, <1>4, <2>1 DEF Outside, GetOr
  <2> HIDE DEF a, c
  <2>3. LockOf(a) = ThisLock /\ OriginalTopic(a) = Main
    BY <1>4, <2>1, <2>2 DEF LockOf, ThisLock, OriginalTopic, GetOr
  <2>4. Timed(a, first)
    BY <1>2, <2>1, TimedAgrees
  <2>5. Attempt(a) = Attempt(c)
    BY <2>1 DEF Agree, Attempt, GetOr
  <2>6. UserPart(a) = UserPart(c)
    BY <1>2, <2>1, OwnNames, UserPartAgrees
  <2> QED BY <1>2, <2>1, <2>3, <2>4, <2>5, <2>6 DEF a
<1> QED
  BY <1>1, <1>3, <1>4

\* The time that stands on a record after it has failed.
Failed == IF first = -1 THEN now \div Second ELSE first

LEMMA RedirectedMeets ==
  ASSUME RecordInv, topic # Nowhere, NEW wait
  PROVE  LET r == RetryHeaders(Acquired(Copy), wait) IN
         /\ IsList(r) /\ Unique(r)
         /\ UserPart(r) = UserPart(written)
         /\ \A m \in {"attempt", "original", "id", "topic", "next", "retry"} : Has(r, m)
         /\ Get(r, "attempt") = hops + 1
         /\ Get(r, "original") = Failed
         /\ Get(r, "topic") = Main
         /\ Get(r, "next") = (now + wait) \div Second
         /\ Get(r, "retry") = "true"
         /\ LockOf(r) = ThisLock
<1> DEFINE a == Acquired(Copy)
           r == RetryHeaders(Acquired(Copy), wait)
           time == (now + wait) \div Second
           second == now \div Second
<1> HIDE DEF time, second
<1>1. /\ IsList(a) /\ Unique(a)
      /\ UserPart(a) = UserPart(written)
      /\ Timed(a, first)
      /\ Attempt(a) = hops
      /\ OriginalTopic(a) = Main
      /\ Has(a, "id") /\ LockOf(a) = ThisLock
  BY AcquiredMeets
<1> HIDE DEF a
<1>2. /\ IsList(r) /\ Unique(r)
      /\ \A m \in {"attempt", "original", "id", "topic", "next", "retry"} : Has(r, m)
      /\ Get(r, "attempt") = Attempt(a) + 1
      /\ Get(r, "original") = GetOr(a, "original", second)
      /\ Get(r, "id") = Get(a, "id")
      /\ Get(r, "topic") = OriginalTopic(a)
      /\ Get(r, "next") = time
      /\ Get(r, "retry") = "true"
      /\ \A m : m \notin {"attempt", "next", "original", "id", "retry", "topic"}
                => Agree(r, a, m)
  BY <1>1, RetryHeadersIs DEF time, second, a
<1> HIDE DEF r
<1>3. Get(r, "original") = Failed
  BY <1>1, <1>2 DEF Timed, GetOr, Failed, second
<1>4. LockOf(r) = ThisLock
  <2>1. ThisLock = <<ThisLock[1], Main>> /\ ThisLock[1] = Get(a, "id")
    <3>1. CASE topic = Main
      BY <1>1, <3>1 DEF ThisLock, LockOf
    <3>2. CASE topic = RetryTopic(Main)
      <4>1. Get(headers, "topic") = Main
        BY <3>2 DEF RecordInv, Headed, Inside
      <4> QED BY <1>1, <3>2, <4>1, Topics DEF ThisLock, LockOf
    <3> QED BY <3>1, <3>2 DEF RecordInv, Headed
  <2> QED BY <1>1, <1>2, <2>1 DEF LockOf
<1>5. UserPart(r) = UserPart(a)
  BY <1>1, <1>2, OwnNames, UserPartAgrees
<1> QED
  BY <1>1, <1>2, <1>3, <1>4, <1>5 DEF r, time

LEMMA ReportedMeets ==
  ASSUME RecordInv, topic # Nowhere
  PROVE  Replayable([headers |-> DLQHeaders(Copy), hops |-> hops, first |-> first])
<1> DEFINE c == Copy
           d == DLQHeaders(Copy)
<1>1. /\ IsList(c) /\ Unique(c)
      /\ UserPart(c) = UserPart(written)
      /\ Timed(c, first)
      /\ Attempt(c) = hops
      /\ OriginalTopic(c) = Main
      /\ topic = Main => Outside(c)
      /\ topic = RetryTopic(Main) => Inside(c)
  BY CopyMeets
<1>2. topic \in {Main, RetryTopic(Main)} /\ first \in {-1} \cup Nat
  BY DEF RecordInv, Headed, Numbers
<1>3. /\ IsList(d) /\ Unique(d)
      /\ Has(d, "dlq-attempts") /\ Get(d, "dlq-attempts") = Attempt(c)
      /\ Has(d, "dlq-failed") <=> Has(c, "dlq-failed") \/ Has(c, "original")
      /\ Has(c, "original") => Get(d, "dlq-failed") = Get(c, "original")
      /\ \A m \in {"attempt", "next", "id", "retry"} : ~Has(d, m)
      /\ \A m : m \notin {"attempt", "next", "id", "retry", "dlq-attempts", "dlq-failed"}
                => Agree(d, c, m)
  BY <1>1, DLQHeadersIs
<1> HIDE DEF c, d
<1>4. Has(c, "topic") => Get(c, "topic") = Main
  BY <1>1, <1>2 DEF Outside, Inside
<1>5. Outside(d)
  BY <1>3, <1>4 DEF Outside, Agree
<1>6. Timed(d, first)
  BY <1>1, <1>3 DEF Timed, Agree
<1>7. first # -1 => Has(d, "dlq-failed") /\ Get(d, "dlq-failed") = first
  BY <1>1, <1>3 DEF Timed
<1>8. UserPart(d) = UserPart(c)
  BY <1>1, <1>3, OwnNames, UserPartAgrees
<1> QED
  BY <1>1, <1>2, <1>3, <1>5, <1>6, <1>7, <1>8 DEF Replayable, d

-----------------------------------------------------------------------------
(* The steps                                                               *)

LEMMA ConfigType ==
  ASSUME cfg \in Configs
  PROVE  /\ cfg.maxRetries \in Nat /\ Strategy(cfg.backoff)
         /\ \A n \in Nat : NextDelay(cfg.backoff, n) \in Int
<1>1. cfg.maxRetries \in Nat /\ Strategy(cfg.backoff)
  BY RetryMessageAssumption DEF Strategy
<1>2. \A n \in Nat : NextDelay(cfg.backoff, n) \in Durations
  BY <1>1, DelayIsCapped
<1> QED
  BY <1>1, <1>2, BackoffAssumption DEF Durations

LEMMA SecondsAre ==
  ASSUME NEW n \in Int
  PROVE  /\ n \div Second \in Int
         /\ n < Second * (n \div Second) + Second
         /\ n \in Nat => n \div Second \in Nat
<1>1. Second \in Nat \ {0}
  BY RetryMessageAssumption
<1>2. /\ n \div Second \in Int /\ n = Second * (n \div Second) + (n % Second)
      /\ n % Second \in 0..(Second - 1)
  BY <1>1
<1>3. n \in Nat => n \div Second \in Nat
  BY <1>1, Quotient
<1> DEFINE q == n \div Second
           r == n % Second
<1> HIDE DEF q, r
<1>4. q \in Int /\ n = Second * q + r /\ r \in 0..(Second - 1)
  BY <1>2 DEF q, r
<1>5. Second * q \in Int
  BY <1>1, <1>4
<1>6. n < Second * q + Second
  BY <1>1, <1>4, <1>5
<1> QED
  BY <1>2, <1>3, <1>6 DEF q

\* How a redirection, and only it, changes the record.
LEMMA RedirectIs ==
  ASSUME RecordInv, topic # Nowhere, Redirect(Copy)
  PROVE  LET wait == NextDelay(cfg.backoff, hops) IN
         /\ hops < cfg.maxRetries /\ wait \in Int
         /\ topic' = RetryTopic(Main)
         /\ headers' = RetryHeaders(Acquired(Copy), wait)
         /\ hops' = hops + 1 /\ due' = now + wait /\ delay' = wait /\ first' = Failed
         /\ left' = left /\ dlq' = dlq
         /\ IF topic = Main THEN Lock(Acquired(Copy)) ELSE UNCHANGED <<held, count, ids>>
<1>1. /\ Attempt(Copy) = hops /\ OriginalTopic(Copy) = Main
      /\ topic = Main => ~InRetry(Copy)
      /\ topic = RetryTopic(Main) => InRetry(Copy)
  BY CopyMeets
<1>2. topic \in {Main, RetryTopic(Main)} /\ cfg \in Configs /\ hops \in Nat
  BY ConfigType DEF RecordInv, Headed, Numbers
<1>3. NextDelay(cfg.backoff, hops) \in Int
  BY <1>2, ConfigType
<1> QED
  BY <1>1, <1>2, <1>3, Topics DEF Redirect, Failed

LEMMA NumbersKept == ASSUME RecordInv, [Next]_vars PROVE Numbers'
<1> USE DEF RecordInv
<1>1. CASE UNCHANGED vars
  BY <1>1 DEF Numbers, vars, recordVars, lockVars
<1>2. CASE HandleOk
  BY <1>2 DEF HandleOk, Over, Unlock, Numbers
<1>3. CASE HandleFails
  <2>1. topic # Nowhere
    BY <1>3 DEF HandleFails, Delivered
  <2>2. CASE Redirect(Copy)
    <3>1. cfg.maxRetries \in Nat /\ Failed \in {-1} \cup Nat
      BY ConfigType, SecondsAre DEF Numbers, Failed
    <3>2. count' \in Nat /\ ids' \in Nat
      BY <2>1, <2>2, RedirectIs DEF Lock, Numbers
    <3>3. hops < cfg.maxRetries /\ hops' = hops + 1 /\ first' = Failed /\ due' \in Int /\ delay' \in Int
      BY <2>1, <2>2, RedirectIs DEF Numbers
    <3> QED BY <1>3, <3>1, <3>2, <3>3 DEF HandleFails, Numbers
  <2>3. CASE Exhaust(Copy)
    BY <1>3, <2>3 DEF HandleFails, Exhaust, Over, Stays, recordVars, Unlock, Numbers
  <2> QED BY <1>3, <2>2, <2>3 DEF HandleFails
<1>4. CASE HandleRejects
  BY <1>4 DEF HandleRejects, Reject, Over, Numbers
<1>5. CASE Fault
  <2>1. UNCHANGED recordVars /\ count' \in Nat /\ ids' \in Nat
    BY <1>5 DEF Fault, PublishFails, Stays, Lock, Unlock, lockVars, Numbers
  <2> QED BY <1>5, <2>1 DEF Fault, recordVars, Numbers
<1>6. CASE Replay
  <2>1. first' \in {-1} \cup Nat
    BY <1>6 DEF Replay, Reported, Replayable
  <2>2. cfg.maxRetries \in Nat
    BY ConfigType DEF Numbers
  <2> QED BY <1>6, <2>1, <2>2 DEF Replay, lockVars, Numbers
<1>7. CASE Tick
  BY <1>7 DEF Tick, recordVars, lockVars, Numbers
<1> QED
  BY <1>1, <1>2, <1>3, <1>4, <1>5, <1>6, <1>7 DEF Next

LEMMA HeadedStays ==
  ASSUME Headed, Stays, UNCHANGED <<written, cfg>>
  PROVE  Headed'
BY DEF Headed, Inside, Stays, recordVars

LEMMA HeadedOver ==
  ASSUME Over
  PROVE  Headed'
BY Topics DEF Headed, Over

LEMMA UniqueOrderly == ASSUME NEW h, IsList(h), Unique(h) PROVE Orderly(h)
BY UniqueOnce DEF Orderly

LEMMA HeadedRedirect ==
  ASSUME RecordInv, topic # Nowhere, Redirect(Copy), UNCHANGED <<written, cfg>>
  PROVE  Headed'
<1> DEFINE wait == NextDelay(cfg.backoff, hops)
           r == RetryHeaders(Acquired(Copy), wait)
<1>1. /\ topic' = RetryTopic(Main) /\ headers' = r
      /\ hops' = hops + 1 /\ due' = now + wait /\ delay' = wait /\ first' = Failed
  BY RedirectIs
<1>2. /\ IsList(r) /\ Unique(r)
      /\ UserPart(r) = UserPart(written)
      /\ \A m \in {"attempt", "original", "id", "topic", "next", "retry"} : Has(r, m)
      /\ Get(r, "attempt") = hops + 1
      /\ Get(r, "original") = Failed
      /\ Get(r, "topic") = Main
      /\ Get(r, "next") = (now + wait) \div Second
      /\ Get(r, "retry") = "true"
  BY RedirectedMeets
<1>3. hops \in Nat /\ Failed # -1
  BY ConfigType, SecondsAre DEF RecordInv, Numbers, Failed
<1> HIDE DEF r, wait
<1>4. Orderly(r)
  BY <1>2, UniqueOrderly
<1>5. Timed(r, Failed)
  BY <1>2, <1>3 DEF Timed
<1>6. Inside(headers)'
  BY <1>1, <1>2 DEF Inside
<1>7. hops' >= 1 /\ delay' = NextDelay(cfg'.backoff, hops' - 1)
  BY <1>1, <1>3 DEF wait
<1> QED
  BY <1>1, <1>2, <1>4, <1>5, <1>6, <1>7, Topics DEF Headed

LEMMA HeadedReplay == ASSUME RecordInv, Replay PROVE Headed'
<1>1. PICK record \in dlq : headers' = record.headers /\ first' = record.first
  BY DEF Replay
<1>2. Replayable(record)
  BY DEF RecordInv, Reported
<1>3. Orderly(record.headers)
  BY <1>2, UniqueOrderly DEF Replayable
<1> QED
  BY <1>1, <1>2, <1>3, Topics DEF Headed, Replay, Replayable

LEMMA HeadedKept == ASSUME RecordInv, [Next]_vars PROVE Headed'
<1>1. CASE UNCHANGED vars
  BY <1>1, HeadedStays DEF RecordInv, Stays, vars
<1>2. CASE HandleOk
  BY <1>2, HeadedOver DEF HandleOk
<1>3. CASE HandleFails
  <2>1. CASE Redirect(Copy)
    BY <1>3, <2>1, HeadedRedirect DEF HandleFails, Delivered
  <2>2. CASE Exhaust(Copy)
    <3>1. Over \/ Stays
      BY <2>2 DEF Exhaust
    <3> QED BY <1>3, <3>1, HeadedOver, HeadedStays DEF HandleFails, RecordInv
  <2> QED BY <1>3, <2>1, <2>2 DEF HandleFails
<1>4. CASE HandleRejects
  BY <1>4, HeadedOver DEF HandleRejects, Reject
<1>5. CASE Fault
  <2>1. Stays
    BY <1>5 DEF Fault, PublishFails
  <2> QED BY <1>5, <2>1, HeadedStays DEF Fault, RecordInv
<1>6. CASE Replay
  BY <1>6, HeadedReplay
<1>7. CASE Tick
  BY <1>7, HeadedStays DEF Tick, Stays, RecordInv
<1> QED
  BY <1>1, <1>2, <1>3, <1>4, <1>5, <1>6, <1>7 DEF Next

LEMMA ReportedSame ==
  ASSUME Reported, UNCHANGED <<dlq, written>> PROVE Reported'
BY DEF Reported, Replayable

LEMMA ReportedMore ==
  ASSUME RecordInv, topic # Nowhere, ToDLQ(Copy), UNCHANGED written
  PROVE  Reported'
<1> DEFINE new == [headers |-> DLQHeaders(Copy), hops |-> hops, first |-> first]
<1>1. dlq' = dlq \cup {new}
  BY DEF ToDLQ
<1>2. Replayable(new)
  BY ReportedMeets
<1> HIDE DEF new
<1>3. \A record \in dlq' : Replayable(record)
  BY <1>1, <1>2 DEF RecordInv, Reported
<1> QED
  BY <1>3 DEF Reported, Replayable

LEMMA ReportedKept == ASSUME RecordInv, [Next]_vars PROVE Reported'
<1>1. CASE UNCHANGED vars
  BY <1>1, ReportedSame DEF RecordInv, vars
<1>2. CASE HandleOk
  BY <1>2, ReportedSame DEF HandleOk, RecordInv
<1>3. CASE HandleFails
  <2>1. CASE Redirect(Copy)
    BY <1>3, <2>1, ReportedSame DEF HandleFails, Redirect, RecordInv
  <2>2. CASE Exhaust(Copy)
    BY <1>3, <2>2, ReportedMore DEF HandleFails, Exhaust, Delivered
  <2> QED BY <1>3, <2>1, <2>2 DEF HandleFails
<1>4. CASE HandleRejects
  BY <1>4, ReportedMore DEF HandleRejects, Reject, Delivered
<1>5. CASE Fault
  <2>1. topic # Nowhere /\ UNCHANGED written
    BY <1>5 DEF Fault, Delivered
  <2>2. dlq' = dlq \/ ToDLQ(Copy)
    BY <1>5 DEF Fault, PublishFails
  <2> QED BY <2>1, <2>2, ReportedSame, ReportedMore DEF RecordInv
<1>6. CASE Replay
  BY <1>6, ReportedSame DEF Replay, RecordInv
<1>7. CASE Tick
  BY <1>7, ReportedSame DEF Tick, RecordInv
<1> QED
  BY <1>1, <1>2, <1>3, <1>4, <1>5, <1>6, <1>7 DEF Next

\* A step that leaves the locks and the record.
LEMMA CountedSame ==
  ASSUME RecordInv, UNCHANGED <<topic, headers, held, count, ids, left>>,
         faults' = 0 => faults = 0
  PROVE  Counted'
BY DEF RecordInv, Counted

\* A record that leaves the main topic, or comes back to it, with no lock.
LEMMA CountedFree ==
  ASSUME RecordInv, topic # RetryTopic(Main), topic' # RetryTopic(Main),
         UNCHANGED <<held, count, ids, left, faults>>
  PROVE  Counted'
BY DEF RecordInv, Counted

\* A record that ends and leaves its lock.
LEMMA CountedLeft ==
  ASSUME RecordInv, topic = RetryTopic(Main), topic' = Nowhere,
         left' = left \cup {LockOf(headers)}, UNCHANGED <<held, count, ids, faults>>
  PROVE  Counted'
<1>1. LockOf(headers) \in held \cup left /\ held \subseteq left \cup {LockOf(headers)}
  BY DEF RecordInv, Counted
<1> QED
  BY <1>1, Topics DEF RecordInv, Counted

LEMMA CountedUnlock ==
  ASSUME RecordInv, topic = RetryTopic(Main), Unlock(Copy), ids' = ids,
         \/ topic' = Nowhere /\ left' = left /\ faults' = faults
         \/ /\ UNCHANGED <<topic, headers>>
            /\ left' = left \cup {LockOf(headers)} /\ faults' = faults + 1
  PROVE  Counted'
<1> DEFINE lock == LockOf(headers)
<1>1. /\ lock \in held \cup left /\ held \subseteq left \cup {lock}
      /\ IsFiniteSet(held)
      /\ \A l \in held \cup left : l[1] \in 0..(ids - 1) /\ l[2] = Main
      /\ faults = 0 => count = Cardinality(held) /\ lock \in held
      /\ faults \in Nat
  BY DEF RecordInv, Counted, Numbers
<1>2. held' = held \ {lock} /\ count' = IF count = 0 THEN 0 ELSE count - 1
  BY CopyMeets, Topics DEF Unlock
<1> HIDE DEF lock
<1>3. IsFiniteSet(held')
  BY <1>1, <1>2, FS_Subset
<1>4. faults' = 0 => count' = Cardinality(held')
  <2> SUFFICES ASSUME faults' = 0 PROVE count' = Cardinality(held')
    OBVIOUS
  <2>1. faults = 0
    BY <1>1
  <2>2. lock \in held /\ count = Cardinality(held)
    BY <1>1, <2>1
  <2>3. Cardinality(held \ {lock}) = Cardinality(held) - 1 /\ Cardinality(held) \in Nat
    BY <1>1, <2>2, FS_RemoveElement, FS_CardinalityType
  <2>4. Cardinality(held \ {lock}) \in Nat
    BY <1>1, <1>2, <1>3, FS_CardinalityType
  <2> QED BY <1>2, <2>2, <2>3, <2>4
<1>5. CASE topic' = Nowhere /\ left' = left /\ faults' = faults
  BY <1>1, <1>2, <1>3, <1>4, <1>5, Topics DEF Counted
<1>6. CASE /\ UNCHANGED <<topic, headers>>
           /\ left' = left \cup {LockOf(headers)} /\ faults' = faults + 1
  <2>1. LockOf(headers)' = lock /\ faults' # 0 /\ left' = left \cup {lock}
    BY <1>1, <1>6 DEF lock, LockOf
  <2> QED BY <1>1, <1>2, <1>3, <1>6, <2>1 DEF Counted
<1> QED
  BY <1>5, <1>6

LEMMA CountedLock ==
  ASSUME RecordInv, topic = Main, Lock(Acquired(Copy)),
         \/ /\ topic' = RetryTopic(Main) /\ LockOf(headers)' = ThisLock
            /\ left' = left /\ faults' = faults
         \/ /\ UNCHANGED <<topic, headers>>
            /\ left' = left \cup {ThisLock} /\ faults' = faults + 1
  PROVE  Counted'
<1> DEFINE lock == <<ids, Main>>
<1>1. /\ held \subseteq left /\ IsFiniteSet(held)
      /\ \A l \in held \cup left : l[1] \in 0..(ids - 1) /\ l[2] = Main
      /\ faults = 0 => count = Cardinality(held)
      /\ faults \in Nat /\ ids \in Nat
  BY Topics DEF RecordInv, Counted, Numbers
<1>2. ThisLock = lock
  BY DEF ThisLock
<1>3. LockOf(Acquired(Copy)) = lock
  BY <1>2, AcquiredMeets, Topics
<1>4. held' = held \cup {lock} /\ count' = count + 1 /\ ids' = ids + 1
  BY <1>3 DEF Lock
<1>5. lock[1] = ids /\ lock[2] = Main
  OBVIOUS
<1> HIDE DEF lock
<1>6. lock \notin held
  BY <1>1, <1>5
<1>7. IsFiniteSet(held') /\ Cardinality(held') = Cardinality(held) + 1
  BY <1>1, <1>4, <1>6, FS_AddElement
<1>8. \A l \in held' \cup left' : l[1] \in 0..(ids' - 1) /\ l[2] = Main
  <2>1. held' \cup left' \subseteq held \cup left \cup {lock}
    BY <1>2, <1>4
  <2> QED BY <1>1, <1>4, <1>5, <2>1
<1>9. CASE /\ topic' = RetryTopic(Main) /\ LockOf(headers)' = ThisLock
           /\ left' = left /\ faults' = faults
  BY <1>1, <1>2, <1>4, <1>7, <1>8, <1>9, Topics DEF Counted
<1>10. CASE /\ UNCHANGED <<topic, headers>>
            /\ left' = left \cup {ThisLock} /\ faults' = faults + 1
  <2>1. faults' # 0 /\ topic' # RetryTopic(Main)
    BY <1>1, <1>10, Topics
  <2> QED BY <1>1, <1>2, <1>4, <1>7, <1>8, <1>10, <2>1 DEF Counted
<1> QED
  BY <1>9, <1>10

LEMMA CountedRedirect ==
  ASSUME RecordInv, topic # Nowhere, Redirect(Copy), UNCHANGED faults
  PROVE  Counted'
<1> DEFINE wait == NextDelay(cfg.backoff, hops)
           r == RetryHeaders(Acquired(Copy), wait)
<1>1. /\ topic' = RetryTopic(Main) /\ headers' = r /\ left' = left
      /\ IF topic = Main THEN Lock(Acquired(Copy)) ELSE UNCHANGED <<held, count, ids>>
  BY RedirectIs
<1>2. LockOf(r) = ThisLock
  BY RedirectedMeets
<1> HIDE DEF r
<1>3. LockOf(headers)' = LockOf(r)
  BY <1>1 DEF LockOf
<1>4. LockOf(headers)' = ThisLock
  BY <1>2, <1>3
<1>5. CASE topic = Main
  BY <1>1, <1>4, <1>5, CountedLock
<1>6. CASE topic = RetryTopic(Main)
  <2>1. LockOf(headers)' = LockOf(headers)
    BY <1>4, <1>6, Topics DEF ThisLock
  <2>2. topic' = topic /\ UNCHANGED <<held, count, ids, left, faults>>
    BY <1>1, <1>6, Topics
  <2> QED BY <1>6, <2>1, <2>2 DEF RecordInv, Counted
<1> QED
  BY <1>5, <1>6 DEF RecordInv, Headed

\* A message given up with its lock, if it has one.
LEMMA CountedAbandon ==
  ASSUME RecordInv, topic # Nowhere, topic' = Nowhere, Abandon(Copy),
         UNCHANGED <<held, count, ids, faults>>
  PROVE  Counted'
<1>1. CASE topic = Main
  <2>1. ~Has(Copy, "id")
    BY <1>1, CopyMeets DEF Outside
  <2> QED BY <1>1, <2>1, CountedFree, Topics DEF Abandon
<1>2. CASE topic = RetryTopic(Main)
  <2>1. Has(Copy, "id") /\ LockOf(Copy) = LockOf(headers)
    BY <1>2, CopyMeets DEF Inside
  <2> QED BY <1>2, <2>1, CountedLeft DEF Abandon
<1> QED
  BY <1>1, <1>2 DEF RecordInv, Headed

LEMMA CountedExhaust ==
  ASSUME RecordInv, topic # Nowhere, Exhaust(Copy), UNCHANGED faults
  PROVE  Counted'
<1>1. CASE ~cfg.freeOnDLQ
  BY <1>1, CountedAbandon DEF Exhaust, Over
<1>2. CASE cfg.freeOnDLQ /\ Has(Copy, "id")
  <2>1. topic = RetryTopic(Main)
    BY <1>2, CopyMeets DEF RecordInv, Headed, Outside
  <2> QED BY <1>2, <2>1, CountedUnlock DEF Exhaust, Over
<1>3. CASE cfg.freeOnDLQ /\ ~Has(Copy, "id")
  BY <1>3, CountedSame DEF Exhaust, Stays, recordVars
<1> QED
  BY <1>1, <1>2, <1>3

LEMMA CountedFault == ASSUME RecordInv, Fault PROVE Counted'
<1>1. /\ topic # Nowhere /\ topic \in {Main, RetryTopic(Main)}
      /\ UNCHANGED <<topic, headers>> /\ faults' = faults + 1 /\ faults \in Nat
  BY DEF Fault, Delivered, PublishFails, Stays, recordVars, RecordInv, Headed, Numbers
<1>2. CASE UNCHANGED lockVars
  BY <1>1, <1>2, CountedSame DEF lockVars
<1>3. CASE PublishFails(Copy)
  <2>1. CASE topic = Main
    <3>1. ~InRetry(Copy)
      BY <2>1, CopyMeets, Topics
    <3>2. Has(Acquired(Copy), "id") /\ LockOf(Acquired(Copy)) = ThisLock
      BY <1>1, AcquiredMeets
    <3>3. Lock(Acquired(Copy)) /\ left' = left \cup {ThisLock}
      BY <1>3, <3>1, <3>2 DEF PublishFails, Abandon
    <3> QED BY <1>1, <2>1, <3>3, CountedLock
  <2>2. CASE topic = RetryTopic(Main)
    <3>1. InRetry(Copy) /\ Has(Copy, "id") /\ LockOf(Copy) = LockOf(headers)
      BY <2>2, CopyMeets, Topics DEF Inside
    <3>2. Unlock(Copy) /\ left' = left \cup {LockOf(headers)} /\ ids' = ids
      BY <1>3, <3>1 DEF PublishFails, Abandon
    <3> QED BY <1>1, <2>2, <3>2, CountedUnlock
  <2> QED BY <1>1, <2>1, <2>2
<1> QED
  BY <1>2, <1>3 DEF Fault

LEMMA CountedKept == ASSUME RecordInv, [Next]_vars PROVE Counted'
<1>1. CASE UNCHANGED vars
  BY <1>1, CountedSame DEF vars, recordVars, lockVars
<1>2. CASE HandleOk
  <2>1. CASE topic = Main
    BY <1>2, <2>1, CountedFree, Topics DEF HandleOk, Over
  <2>2. CASE topic = RetryTopic(Main)
    BY <1>2, <2>2, CountedUnlock, Topics DEF HandleOk, Over
  <2> QED BY <1>2, <2>1, <2>2 DEF HandleOk, Delivered, RecordInv, Headed
<1>3. CASE HandleFails
  BY <1>3, CountedRedirect, CountedExhaust DEF HandleFails, Delivered
<1>4. CASE HandleRejects
  BY <1>4, CountedAbandon DEF HandleRejects, Reject, Delivered, Over
<1>5. CASE Fault
  BY <1>5, CountedFault
<1>6. CASE Replay
  BY <1>6, CountedFree, Topics DEF Replay, lockVars
<1>7. CASE Tick
  BY <1>7, CountedSame DEF Tick, recordVars, lockVars
<1> QED
  BY <1>1, <1>2, <1>3, <1>4, <1>5, <1>6, <1>7 DEF Next

LEMMA InitRecord == ASSUME Init PROVE RecordInv
<1>1. IsList(written) /\ \A i \in DOMAIN written : NameOf(written[i]) \in UserNames
  BY RetryMessageAssumption DEF Init
<1>2. \A m : m \notin UserNames => ~Has(written, m) /\ Once(written, m)
  BY <1>1 DEF Has, Once
<1>3. Numbers
  <2>1. cfg.maxRetries \in Nat
    BY ConfigType DEF Init
  <2> QED BY <2>1 DEF Init, Numbers
<1>4. Orderly(written)
  BY <1>1, <1>2 DEF Orderly
<1>5. Outside(written) /\ Timed(written, -1)
  BY <1>2, OwnNames DEF Outside, Timed
<1>6. Headed
  BY <1>4, <1>5, Topics DEF Init, Headed
<1>7. Reported
  BY DEF Init, Reported
<1>8. Counted
  BY Topics, FS_EmptySet DEF Init, Counted
<1> QED
  BY <1>3, <1>6, <1>7, <1>8 DEF RecordInv

LEMMA InvariantRecord == Spec => []RecordInv
<1>1. RecordInv /\ [Next]_vars => RecordInv'
  BY NumbersKept, HeadedKept, ReportedKept, CountedKept DEF RecordInv
<1> QED
  BY <1>1, InitRecord, PTL DEF Spec

-----------------------------------------------------------------------------
(* The properties                                                          *)

\* Types; a record that the library has written repeats no header, and the
\* uuid of a lock is one that was drawn.
THEOREM RecordTypeCorrect == Spec => []TypeOK
<1>1. RecordInv => TypeOK
  <2> SUFFICES ASSUME RecordInv PROVE TypeOK
    OBVIOUS
  <2>1. ASSUME NEW i \in DOMAIN headers, NEW j \in DOMAIN headers,
               topic # Main, NameOf(headers[i]) = NameOf(headers[j])
        PROVE  i = j
    <3>1. CASE topic = Nowhere
      <4>1. headers = << >>
        BY <3>1 DEF RecordInv, Headed
      <4>2. ~Has(headers, NameOf(headers[i]))
        BY <4>1, EmptyList
      <4> QED BY <4>2 DEF Has
    <3>2. CASE topic = RetryTopic(Main)
      BY <2>1, <3>2 DEF RecordInv, Headed, Unique
    <3> QED BY <2>1, <3>1, <3>2 DEF RecordInv, Headed
  <2> QED BY <2>1 DEF RecordInv, Numbers, Headed, Counted, TypeOK
<1> QED
  BY <1>1, InvariantRecord, PTL

\* Whatever goes wrong and however often the message goes round, its user
\* headers stay, of a repeated one the last value (tracker.go:566-569,
\* 617-620).
THEOREM UserHeadersStay == Spec => []UserHeadersKept
<1>1. RecordInv => UserHeadersKept
  BY DEF RecordInv, Headed, Reported, Replayable, UserHeadersKept
<1> QED
  BY <1>1, InvariantRecord, PTL

\* Every lock is closed by the message it was taken for, but for those the
\* settings or a fault leave behind (tracker.go:520-521).
THEOREM LocksAreSettled == Spec => []LocksSettled
<1>1. RecordInv => LocksSettled
  BY DEF RecordInv, Counted, LocksSettled
<1> QED
  BY <1>1, InvariantRecord, PTL

\* The attempts on a record are the hops it made since the main topic, and
\* those the DLQ reports (tracker.go:634, 640-641).
THEOREM AttemptsAreCounted == Spec => []AttemptsCounted
<1>1. RecordInv => AttemptsCounted
  <2> SUFFICES ASSUME RecordInv PROVE AttemptsCounted
    OBVIOUS
  <2>1. CASE topic = Main
    BY <2>1, ConfigType, Topics
       DEF RecordInv, Numbers, Headed, Outside, Reported, Replayable, AttemptsCounted,
           Attempt, InRetry, GetOr
  <2>2. CASE topic = RetryTopic(Main)
    BY <2>2, ConfigType, Topics
       DEF RecordInv, Numbers, Headed, Inside, Reported, Replayable, AttemptsCounted,
           Attempt, GetOr
  <2>3. CASE topic = Nowhere
    BY <2>3, Topics DEF RecordInv, Reported, Replayable, AttemptsCounted
  <2> QED BY <2>1, <2>2, <2>3 DEF RecordInv, Headed
<1> QED
  BY <1>1, InvariantRecord, PTL

\* The time of the first failure never changes (message.go:29-30,
\* tracker.go:480-483).
THEOREM FirstFailureStays == Spec => []FirstFailureKept
<1>1. RecordInv => FirstFailureKept
  <2> SUFFICES ASSUME RecordInv PROVE FirstFailureKept
    OBVIOUS
  <2>1. topic = RetryTopic(Main) => Get(headers, "original") = first
    BY Topics DEF RecordInv, Headed, Timed, Inside
  <2>2. ASSUME NEW record \in dlq
        PROVE  GetOr(record.headers, "dlq-failed", -1) = record.first
    BY DEF RecordInv, Reported, Replayable, Timed, GetOr
  <2> QED BY <2>1, <2>2 DEF FirstFailureKept
<1> QED
  BY <1>1, InvariantRecord, PTL

\* The seconds on the record are rounded down, by less than one of them.
LEMMA RipeWaited ==
  ASSUME RecordInv, topic = RetryTopic(Main), Ripe
  PROVE  now + Second > due /\ delay <= Longest(cfg.backoff)
<1> DEFINE q == due \div Second
<1>1. q \in Int /\ due < Second * q + Second
  BY SecondsAre DEF RecordInv, Numbers
<1>2. now >= q * Second
  BY DEF RecordInv, Headed, Inside, Ripe
<1> HIDE DEF q
<1>3. now \in Nat /\ due \in Int /\ Second \in Nat
  BY RetryMessageAssumption DEF RecordInv, Numbers
<1>4. q * Second = Second * q /\ Second * q \in Int
  BY <1>1, <1>3
<1>5. hops - 1 \in Nat /\ delay = NextDelay(cfg.backoff, hops - 1) /\ Strategy(cfg.backoff)
  BY ConfigType DEF RecordInv, Headed, Numbers
<1>6. delay <= Longest(cfg.backoff)
  BY <1>5, DelayIsCapped
<1> QED
  BY <1>1, <1>2, <1>3, <1>4, <1>6

\* No record is taken from the retry topic earlier than a second before its
\* backoff ends, and no backoff exceeds the configured maximum (README.md:109,
\* tracker.go:752-806).
THEOREM NotEarly == Spec => NeverEarly
<1>1. ASSUME RecordInv, [Next]_vars, topic = RetryTopic(Main), headers' # headers
      PROVE  now + Second > due /\ delay <= Longest(cfg.backoff)
  <2>1. HandleOk \/ HandleFails \/ HandleRejects
    BY <1>1, Topics DEF Next, Fault, PublishFails, Stays, Replay, Tick, vars, recordVars
  <2>2. Ripe
    BY <1>1, <2>1, Topics DEF HandleOk, HandleFails, HandleRejects, Delivered
  <2> QED BY <1>1, <2>2, RipeWaited
<1> QED
  BY <1>1, InvariantRecord, PTL DEF Spec, NeverEarly

LEMMA NoOverflowBefore ==
  ASSUME NEW s, Strategy(s), NEW n \in Nat, NEW m \in 0..n, NoOverflow(s, n)
  PROVE  NoOverflow(s, m)
<1> SUFFICES ASSUME s.kind = "linear" PROVE s.initial + s.increment * m < Limit
  BY DEF NoOverflow
<1>1. /\ s.initial \in Int /\ s.increment \in Nat /\ Limit \in Int
      /\ s.initial + s.increment * n < Limit
  BY StrategyKinds, BackoffAssumption DEF Setting, Accepted, Durations, NoOverflow
<1>2. PICK k \in Nat : n = m + k
  <2>1. n = m + (n - m) /\ n - m \in Nat
    OBVIOUS
  <2> QED BY <2>1
<1>3. /\ s.increment * n = s.increment * m + s.increment * k
      /\ s.increment * k \in Nat /\ s.increment * m \in Nat
  BY <1>1, <1>2
<1> QED
  BY <1>1, <1>3

\* From one hop to the next the backoff does not get shorter, whatever the
\* strategy (tracker.go:472-474, backoff.go:60-144).
THEOREM BackoffsGrow == Spec => BackoffGrows
<1>1. ASSUME RecordInv, [Next]_vars, hops' > hops, NoOverflow(cfg.backoff, cfg.maxRetries)
      PROVE  delay' >= delay
  <2>1. hops \in Nat /\ cfg.maxRetries \in Nat /\ Strategy(cfg.backoff)
    BY <1>1, ConfigType DEF RecordInv, Numbers
  <2>2. hops' # hops /\ hops' # 0
    BY <1>1, <2>1
  <2>3. HandleFails /\ Redirect(Copy)
    BY <1>1, <2>2 DEF Next, HandleOk, HandleFails, Exhaust, HandleRejects, Reject, Over, Fault,
       PublishFails, Stays, Replay, Tick, vars, recordVars
  <2>4. hops < cfg.maxRetries /\ delay' = NextDelay(cfg.backoff, hops)
    BY <1>1, <2>3, RedirectIs DEF HandleFails, Delivered
  <2>5. \A k \in 0..cfg.maxRetries : NoOverflow(cfg.backoff, k)
    BY <1>1, <2>1, NoOverflowBefore
  <2>6. CASE topic = Main
    <3>1. delay = 0
      BY <1>1, <2>6 DEF RecordInv, Headed
    <3>2. 0 <= NextDelay(cfg.backoff, hops) /\ NextDelay(cfg.backoff, hops) \in Int
      BY <2>1, <2>4, <2>5, DelayGrows, ConfigType, <1>1 DEF RecordInv, Numbers
    <3> QED BY <2>4, <3>1, <3>2
  <2>7. CASE topic = RetryTopic(Main)
    <3>1. hops >= 1 /\ delay = NextDelay(cfg.backoff, hops - 1)
      BY <1>1, <2>7 DEF RecordInv, Headed
    <3>2. hops - 1 \in Nat /\ (hops - 1) + 1 = hops /\ hops \in 0..cfg.maxRetries
      BY <2>1, <2>4, <3>1
    <3>3. NextDelay(cfg.backoff, hops - 1) <= NextDelay(cfg.backoff, (hops - 1) + 1)
      BY <2>1, <2>5, <3>2, DelayGrows
    <3>4. NextDelay(cfg.backoff, hops) \in Int /\ NextDelay(cfg.backoff, hops - 1) \in Int
      BY <1>1, <2>1, <3>2, ConfigType DEF RecordInv, Numbers
    <3> QED BY <2>4, <3>1, <3>2, <3>3, <3>4
  <2> QED BY <1>1, <2>3, <2>6, <2>7 DEF HandleFails, Delivered, RecordInv, Headed
<1> QED
  BY <1>1, InvariantRecord, PTL DEF Spec, BackoffGrows
=============================================================================
