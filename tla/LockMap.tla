------------------------------ MODULE LockMap ------------------------------
(***************************************************************************)
(* The map behind the in-memory lock table of coordinator_local.go:        *)
(*   type lockMap map[string]map[string]int   (topic -> key -> count).     *)
(* A lock map is a function on the topics present in it; each of its       *)
(* values is a function on the keys present under that topic.  A topic or  *)
(* a key that is absent is not in the domain.  The operators are named     *)
(* for the methods and are total, like them.                               *)
(***************************************************************************)
EXTENDS Integers, Functions

Nothing == << >>    \* a map without entries

\* f is a function on some members of D.
IsMap(f, D) == DOMAIN f \subseteq D /\ f = [x \in DOMAIN f |-> f[x]]

IsLockMap(lm, Topics, Keys) ==
  /\ IsMap(lm, Topics)
  /\ \A t \in DOMAIN lm : IsMap(lm[t], Keys) /\ \A k \in DOMAIN lm[t] : lm[t][k] \in Nat

\* Every entry counts something and every topic has an entry.
IsClean(lm) ==
  \A t \in DOMAIN lm : /\ DOMAIN lm[t] # {}
                       /\ \A k \in DOMAIN lm[t] : lm[t][k] > 0

HasKey(lm, t, k) == t \in DOMAIN lm /\ k \in DOMAIN lm[t]

GetRefCount(lm, t, k) == IF HasKey(lm, t, k) THEN lm[t][k] ELSE 0

IsLocked(lm, t, k) == HasKey(lm, t, k) /\ GetRefCount(lm, t, k) > 0

\* The map f after the assignment f[x] = v, x present or not.
Put(f, x, v) == [y \in DOMAIN f \cup {x} |-> IF y = x THEN v ELSE f[y]]

IncrementRef(lm, t, k) ==
  LET keys == IF t \in DOMAIN lm THEN lm[t] ELSE Nothing
  IN  Put(lm, t, Put(keys, k, GetRefCount(lm, t, k) + 1))

DecrementRef(lm, t, k) ==
  IF HasKey(lm, t, k) THEN [lm EXCEPT ![t][k] = @ - 1] ELSE lm

RemoveKey(lm, t, k) ==
  IF t \in DOMAIN lm
  THEN [lm EXCEPT ![t] = Restrict(lm[t], DOMAIN lm[t] \ {k})]
  ELSE lm

RemoveTopic(lm, t) == Restrict(lm, DOMAIN lm \ {t})

IsTopicEmpty(lm, t) == t \in DOMAIN lm => DOMAIN lm[t] = {}

\* Mutants of ReleaseRef: entries are never dropped; a key is dropped
\* whatever its count; a topic is dropped with the first of its keys.
ReleaseRefKeeps(lm, t, k) == DecrementRef(lm, t, k)
ReleaseRefDropsKey(lm, t, k) == RemoveKey(lm, t, k)
ReleaseRefDropsTopic(lm, t, k) ==
  LET counted == DecrementRef(lm, t, k)
  IN  IF GetRefCount(counted, t, k) <= 0 THEN RemoveTopic(counted, t) ELSE counted

\* What Release does to the map: count down, drop a key whose count reached
\* zero, drop a topic left without keys; nothing when the key is absent.
ReleaseRef(lm, t, k) ==
  LET counted == DecrementRef(lm, t, k)
      kept    == IF GetRefCount(counted, t, k) <= 0
                 THEN RemoveKey(counted, t, k) ELSE counted
  IN  IF ~HasKey(lm, t, k) THEN lm
      ELSE IF IsTopicEmpty(kept, t) THEN RemoveTopic(kept, t)
      ELSE kept
=============================================================================
