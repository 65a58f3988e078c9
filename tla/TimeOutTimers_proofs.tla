------------------------ MODULE TimeOutTimers_proofs ------------------------
(***************************************************************************)
(* Proofs for TimeOutTimers, for any TIEs, time-outs and bounds: the linked*)
(* list of a track stays one chain in the order of the time-outs, and every*)
(* variable keeps its type.                                                *)
(***************************************************************************)
EXTENDS TimeOutTimers, SequenceTheorems, FiniteSetTheorems,
        WellFoundedInduction, TLAPS

-----------------------------------------------------------------------------
(* Chains *)

\* What belongs to a chain c of n entries of l, of which f is the first.
Chained(c, l, f, n) ==
  /\ n \in Nat /\ c \in [1 .. n -> DOMAIN l]
  /\ \A j, k \in 1 .. n : c[j] = c[k] => j = k
  /\ \A x \in DOMAIN l : \E k \in 1 .. n : c[k] = x
  /\ c[1] = f
  /\ \A k \in 1 .. n :
       /\ l[c[k]].previous = (IF k = 1 THEN c[k] ELSE c[k - 1])
       /\ l[c[k]].next = (IF k = n THEN c[k] ELSE c[k + 1])
       /\ k < n => l[c[k]].due =< l[c[k + 1]].due

\* All of it follows from the definition.
LEMMA ChainFacts ==
  ASSUME NEW l, IsFiniteSet(DOMAIN l), NEW f,
         NEW c \in Bijection(1 .. Cardinality(DOMAIN l), DOMAIN l), IsChain(c, l, f)
  PROVE  Chained(c, l, f, Cardinality(DOMAIN l))
<1>1. Cardinality(DOMAIN l) \in Nat
  BY FS_CardinalityType
<1>2. c \in [1 .. Cardinality(DOMAIN l) -> DOMAIN l]
  BY DEF Bijection, Injection
<1>3. /\ \A j, k \in 1 .. Cardinality(DOMAIN l) : c[j] = c[k] => j = k
      /\ \A x \in DOMAIN l : \E k \in 1 .. Cardinality(DOMAIN l) : c[k] = x
  BY <1>2 DEF Bijection, Injection, Surjection, IsInjective
<1> QED BY <1>1, <1>2, <1>3 DEF IsChain, Chained

\* A list with one more entry, after the entries that are not due later and
\* before those that are not due earlier, which its neighbours know.
InsertedAt(l, c, p, i, m) ==
  LET n == Cardinality(DOMAIN l)
  IN /\ i \notin DOMAIN l /\ DOMAIN m = DOMAIN l \cup {i}
     /\ m[i].due \in Nat /\ \A k \in DOMAIN l : l[k].due \in Nat /\ m[k].due = l[k].due
     /\ p > 1 => l[c[p - 1]].due =< m[i].due
     /\ p < n + 1 => m[i].due =< l[c[p]].due
     /\ m[i].previous = (IF p = 1 THEN i ELSE c[p - 1])
     /\ m[i].next = (IF p = n + 1 THEN i ELSE c[p])
     /\ \A k \in 1 .. n :
          /\ m[c[k]].previous = (IF k = p THEN i ELSE l[c[k]].previous)
          /\ m[c[k]].next = (IF k = p - 1 THEN i ELSE l[c[k]].next)

\* It has a chain.
LEMMA InsertAt ==
  ASSUME NEW l, IsFiniteSet(DOMAIN l), NEW f,
         NEW c \in Bijection(1 .. Cardinality(DOMAIN l), DOMAIN l), IsChain(c, l, f),
         NEW p \in 1 .. Cardinality(DOMAIN l) + 1, NEW i, NEW m, InsertedAt(l, c, p, i, m)
  PROVE  /\ IsFiniteSet(DOMAIN m)
         /\ \E d \in Bijection(1 .. Cardinality(DOMAIN m), DOMAIN m) :
              IsChain(d, m, IF p = 1 THEN i ELSE f)
<1> DEFINE n == Cardinality(DOMAIN l)
           d == [k \in 1 .. n + 1 |-> IF k < p THEN c[k] ELSE IF k = p THEN i ELSE c[k - 1]]
<1>0. /\ i \notin DOMAIN l /\ DOMAIN m = DOMAIN l \cup {i}
      /\ m[i].due \in Nat /\ \A k \in DOMAIN l : l[k].due \in Nat /\ m[k].due = l[k].due
      /\ p > 1 => l[c[p - 1]].due =< m[i].due
      /\ p < n + 1 => m[i].due =< l[c[p]].due
      /\ m[i].previous = (IF p = 1 THEN i ELSE c[p - 1])
      /\ m[i].next = (IF p = n + 1 THEN i ELSE c[p])
      /\ \A k \in 1 .. n :
           /\ m[c[k]].previous = (IF k = p THEN i ELSE l[c[k]].previous)
           /\ m[c[k]].next = (IF k = p - 1 THEN i ELSE l[c[k]].next)
  BY DEF InsertedAt
<1> USE <1>0
<1>1. /\ n \in Nat /\ c \in [1 .. n -> DOMAIN l]
      /\ \A j, k \in 1 .. n : c[j] = c[k] => j = k
      /\ \A x \in DOMAIN l : \E k \in 1 .. n : c[k] = x
      /\ c[1] = f
      /\ \A k \in 1 .. n :
           /\ l[c[k]].previous = (IF k = 1 THEN c[k] ELSE c[k - 1])
           /\ l[c[k]].next = (IF k = n THEN c[k] ELSE c[k + 1])
           /\ k < n => l[c[k]].due =< l[c[k + 1]].due
  <2>1. Chained(c, l, f, n)
    BY ChainFacts
  <2> QED BY <2>1 DEF Chained
<1>2. IsFiniteSet(DOMAIN m) /\ Cardinality(DOMAIN m) = n + 1
  BY FS_AddElement
<1>3. d \in [1 .. n + 1 -> DOMAIN m]
  <2> SUFFICES ASSUME NEW k \in 1 .. n + 1
               PROVE  (IF k < p THEN c[k] ELSE IF k = p THEN i ELSE c[k - 1]) \in DOMAIN m
    OBVIOUS
  <2>1. k < p => k \in 1 .. n
    BY <1>1
  <2>2. k > p => k - 1 \in 1 .. n
    BY <1>1
  <2>3. p \in Int /\ k \in Int /\ \A j \in 1 .. n : c[j] \in DOMAIN m
    BY <1>1
  <2> QED BY <2>1, <2>2, <2>3
<1>4. \A k \in 1 .. n + 1 :
        /\ k < p => k \in 1 .. n /\ d[k] = c[k]
        /\ k = p => d[k] = i
        /\ k > p => k - 1 \in 1 .. n /\ d[k] = c[k - 1]
  BY <1>1
<1>5. \A k \in 1 .. n : c[k] \in DOMAIN l /\ c[k] # i
  BY <1>1
<1>6. ASSUME NEW j \in 1 .. n + 1, NEW k \in 1 .. n + 1, d[j] = d[k]
      PROVE  j = k
  <2>1. (j < p \/ j = p \/ j > p) /\ (k < p \/ k = p \/ k > p)
    BY <1>1
  <2> QED BY <1>1, <1>4, <1>5, <1>6, <2>1
<1>7. ASSUME NEW x \in DOMAIN m
      PROVE  \E k \in 1 .. n + 1 : d[k] = x
  <2>1. CASE x = i
    BY <2>1, <1>4
  <2>2. CASE x # i
    <3>1. PICK k \in 1 .. n : c[k] = x
      BY <1>1, <2>2
    <3>2. CASE k < p
      BY <3>1, <3>2, <1>1
    <3>3. CASE k >= p
      <4>1. k + 1 \in 1 .. n + 1 /\ ~(k + 1 < p) /\ k + 1 # p /\ (k + 1) - 1 = k
        BY <3>3, <1>1
      <4>2. d[k + 1] = c[k]
        BY <4>1
      <4> QED BY <4>1, <4>2, <3>1
    <3> QED BY <3>2, <3>3, <1>1
  <2> QED BY <2>1, <2>2
<1>8. d \in Bijection(1 .. n + 1, DOMAIN m)
  <2> HIDE DEF d, n
  <2>1. \A j, k \in 1 .. n + 1 : d[j] = d[k] => j = k
    BY <1>6
  <2>2. \A x \in DOMAIN m : \E k \in 1 .. n + 1 : d[k] = x
    BY <1>7
  <2> QED BY <1>3, <2>1, <2>2 DEF Bijection, Injection, Surjection, IsInjective
<1>9. d[1] = IF p = 1 THEN i ELSE f
  BY <1>1
<1>10. ASSUME NEW k \in 1 .. n + 1
       PROVE  /\ m[d[k]].previous = (IF k = 1 THEN d[k] ELSE d[k - 1])
              /\ m[d[k]].next = (IF k = n + 1 THEN d[k] ELSE d[k + 1])
              /\ k < n + 1 => m[d[k]].due =< m[d[k + 1]].due
  <2> HIDE DEF d
  <2>0. k \in Int /\ p \in Int /\ n \in Nat /\ (k = 1 \/ k - 1 \in 1 .. n + 1)
        /\ (k = n + 1 \/ k + 1 \in 1 .. n + 1)
    BY <1>1
  <2>1. CASE k < p
    <3>1. k \in 1 .. n /\ d[k] = c[k]
      BY <2>1, <1>4
    <3>2. k # 1 => k - 1 \in 1 .. n /\ d[k - 1] = c[k - 1]
      BY <2>1, <2>0, <1>4
    <3>3. k # n + 1 /\ d[k + 1] = (IF k + 1 = p THEN i ELSE c[k + 1]) /\ (k + 1 # p => k + 1 \in 1 .. n)
      BY <2>1, <2>0, <1>4
    <3>4. m[d[k]].previous = (IF k = 1 THEN d[k] ELSE d[k - 1])
      BY <3>1, <3>2, <2>0, <2>1, <1>1
    <3>5. m[d[k]].next = d[k + 1]
      BY SMTT(30), <3>1, <3>3, <2>0, <2>1, <1>1
    <3>6. m[d[k]].due =< m[d[k + 1]].due
      <4>1. CASE k + 1 = p
        BY <4>1, <3>1, <3>3, <1>5, <2>0
      <4>2. CASE k + 1 # p
        BY <4>2, <3>1, <3>3, <1>1, <1>5, <2>0
      <4> QED BY <4>1, <4>2
    <3> QED BY <3>3, <3>4, <3>5, <3>6
  <2>2. CASE k = p
    <3>1. d[k] = i
      BY <2>2, <1>4
    <3>2. k # 1 => d[k - 1] = c[k - 1]
      BY <2>2, <2>0, <1>4
    <3>3. k # n + 1 => k + 1 \in 1 .. n + 1 /\ k \in 1 .. n /\ d[k + 1] = c[k]
      <4>1. k # n + 1 => k + 1 > p /\ (k + 1) - 1 = k
        BY SMTT(30), <2>2, <2>0
      <4> QED BY <4>1, <2>0, <1>4
    <3> QED BY <3>1, <3>2, <3>3, <2>0, <2>2, <1>5
  <2>3. CASE k > p
    <3>1. k - 1 \in 1 .. n /\ d[k] = c[k - 1]
      BY <2>3, <1>4
    <3>2. k # 1 /\ d[k - 1] = (IF k - 1 = p THEN i ELSE c[(k - 1) - 1])
      BY <2>3, <2>0, <1>4
    <3>3. k # n + 1 => k \in 1 .. n /\ d[k + 1] = c[k]
      <4>1. k # n + 1 => k + 1 > p /\ (k + 1) - 1 = k
        BY <2>3, <2>0
      <4> QED BY <4>1, <2>0, <1>4
    <3>4. m[d[k]].previous = d[k - 1]
      BY <3>1, <3>2, <2>0, <2>3, <1>1
    <3>5. m[d[k]].next = (IF k = n + 1 THEN d[k] ELSE d[k + 1])
      BY <3>1, <3>3, <2>0, <2>3, <1>1
    <3>6. k < n + 1 => m[d[k]].due =< m[d[k + 1]].due
      <4> SUFFICES ASSUME k < n + 1
                   PROVE  m[c[k - 1]].due =< m[c[k]].due
        BY <3>1, <3>3, <2>0
      <4>1. (k - 1) + 1 = k /\ k - 1 < n
        BY <2>0
      <4>2. l[c[k - 1]].due =< l[c[k]].due
        BY <4>1, <3>1, <1>1
      <4> QED BY <4>2, <3>1, <3>3, <1>5, <2>0
    <3> QED BY <3>2, <3>4, <3>5, <3>6
  <2> QED BY <2>0, <2>1, <2>2, <2>3
<1> HIDE DEF d, n
<1>11. IsChain(d, m, IF p = 1 THEN i ELSE f)
  BY <1>2, <1>9, <1>10 DEF IsChain
<1> QED BY <1>2, <1>8, <1>11

\* A list with one entry less, whose neighbours know each other.
RemovedAt(l, c, p, m) ==
  LET n == Cardinality(DOMAIN l)
  IN /\ n > 1 /\ DOMAIN m = DOMAIN l \ {c[p]}
     /\ \A k \in DOMAIN m : m[k].due = l[k].due
     /\ \A k \in DOMAIN l : l[k].due \in Nat
     /\ \A k \in 1 .. n : k # p =>
          /\ m[c[k]].previous = (IF k # p + 1 THEN l[c[k]].previous
                                 ELSE IF p = 1 THEN c[k] ELSE c[p - 1])
          /\ m[c[k]].next = (IF k # p - 1 THEN l[c[k]].next
                             ELSE IF p = n THEN c[k] ELSE c[p + 1])

\* It has a chain.
LEMMA RemoveAt ==
  ASSUME NEW l, IsFiniteSet(DOMAIN l), NEW f,
         NEW c \in Bijection(1 .. Cardinality(DOMAIN l), DOMAIN l), IsChain(c, l, f),
         NEW p \in 1 .. Cardinality(DOMAIN l), NEW m, RemovedAt(l, c, p, m)
  PROVE  /\ IsFiniteSet(DOMAIN m) /\ DOMAIN m # {}
         /\ \E d \in Bijection(1 .. Cardinality(DOMAIN m), DOMAIN m) :
              IsChain(d, m, IF p = 1 THEN c[2] ELSE f)
<1> DEFINE n == Cardinality(DOMAIN l)
           d == [k \in 1 .. n - 1 |-> IF k < p THEN c[k] ELSE c[k + 1]]
<1>0. /\ n > 1 /\ DOMAIN m = DOMAIN l \ {c[p]}
      /\ \A k \in DOMAIN m : l[k].due \in Nat /\ m[k].due = l[k].due
      /\ \A k \in DOMAIN l : l[k].due \in Nat
      /\ \A k \in 1 .. n : k # p =>
           /\ m[c[k]].previous = (IF k # p + 1 THEN l[c[k]].previous
                                  ELSE IF p = 1 THEN c[k] ELSE c[p - 1])
           /\ m[c[k]].next = (IF k # p - 1 THEN l[c[k]].next
                              ELSE IF p = n THEN c[k] ELSE c[p + 1])
  BY DEF RemovedAt
<1> USE <1>0
<1>1. /\ n \in Nat /\ c \in [1 .. n -> DOMAIN l]
      /\ \A j, k \in 1 .. n : c[j] = c[k] => j = k
      /\ \A x \in DOMAIN l : \E k \in 1 .. n : c[k] = x
      /\ c[1] = f
      /\ \A k \in 1 .. n :
           /\ l[c[k]].previous = (IF k = 1 THEN c[k] ELSE c[k - 1])
           /\ l[c[k]].next = (IF k = n THEN c[k] ELSE c[k + 1])
           /\ k < n => l[c[k]].due =< l[c[k + 1]].due
  <2>1. Chained(c, l, f, n)
    BY ChainFacts
  <2> QED BY <2>1 DEF Chained
<1>2. c[p] \in DOMAIN l /\ n > 1 /\ l[c[p]].due \in Nat
  BY <1>1
<1>3. IsFiniteSet(DOMAIN m) /\ Cardinality(DOMAIN m) = n - 1
  BY <1>2, FS_RemoveElement
<1>4. \A k \in 1 .. n - 1 :
        /\ k < p => k \in 1 .. n /\ d[k] = c[k]
        /\ k >= p => k + 1 \in 1 .. n /\ d[k] = c[k + 1]
  BY <1>1
<1>5. \A k \in 1 .. n : k # p => c[k] \in DOMAIN m
  BY <1>1
<1>6. d \in [1 .. n - 1 -> DOMAIN m]
  <2>1. \A k \in 1 .. n - 1 : d[k] \in DOMAIN m
    <3> TAKE k \in 1 .. n - 1
    <3>1. k < p \/ (k >= p /\ k + 1 # p)
      BY <1>1
    <3> HIDE DEF d
    <3> QED BY <3>1, <1>4, <1>5
  <2> QED BY <2>1
<1>7. \A j, k \in 1 .. n - 1 : d[j] = d[k] => j = k
  <2> HIDE DEF d
  <2> SUFFICES ASSUME NEW j \in 1 .. n - 1, NEW k \in 1 .. n - 1, d[j] = d[k]
               PROVE  j = k
    OBVIOUS
  <2>1. (j < p \/ j >= p) /\ (k < p \/ k >= p)
    BY <1>1
  <2> QED BY <1>1, <1>4, <2>1
<1>8. ASSUME NEW x \in DOMAIN m
      PROVE  \E k \in 1 .. n - 1 : d[k] = x
  <2>1. PICK k \in 1 .. n : c[k] = x
    BY <1>1
  <2>2. k # p
    BY <2>1
  <2>3. CASE k < p
    BY <2>1, <2>3, <1>1
  <2>4. CASE k > p
    <3>1. k - 1 \in 1 .. n - 1 /\ k - 1 >= p /\ (k - 1) + 1 = k
      BY <2>4, <1>1
    <3>2. d[k - 1] = c[k]
      BY <3>1, <1>4
    <3> QED BY <3>1, <3>2, <2>1
  <2> QED BY <2>2, <2>3, <2>4, <1>1
<1> HIDE DEF d
<1>9. d \in Bijection(1 .. n - 1, DOMAIN m)
  <2> HIDE DEF n
  <2>1. \A x \in DOMAIN m : \E k \in 1 .. n - 1 : d[k] = x
    BY <1>8
  <2> QED BY <1>6, <1>7, <2>1 DEF Bijection, Injection, Surjection, IsInjective
<1>10. d[1] = IF p = 1 THEN c[2] ELSE f
  BY <1>1, <1>2, <1>4
<1>11. ASSUME NEW k \in 1 .. n - 1
       PROVE  /\ m[d[k]].previous = (IF k = 1 THEN d[k] ELSE d[k - 1])
              /\ m[d[k]].next = (IF k = n - 1 THEN d[k] ELSE d[k + 1])
              /\ k < n - 1 => m[d[k]].due =< m[d[k + 1]].due
  <2>0. k \in Int /\ p \in Int /\ n \in Nat /\ (k = 1 \/ k - 1 \in 1 .. n - 1)
        /\ (k = n - 1 \/ k + 1 \in 1 .. n - 1)
    BY <1>1
  <2>1. CASE k < p
    <3>1. k \in 1 .. n /\ d[k] = c[k] /\ k # p /\ k # p + 1
      BY <2>0, <2>1, <1>4
    <3>2. k # 1 => k - 1 \in 1 .. n /\ d[k - 1] = c[k - 1]
      BY <2>1, <2>0, <1>4
    <3>3. m[d[k]].previous = (IF k = 1 THEN d[k] ELSE d[k - 1])
      BY <3>1, <3>2, <1>1
    <3>4. CASE k + 1 < p
      <4>1. k # n - 1 /\ k + 1 \in 1 .. n - 1 /\ d[k + 1] = c[k + 1] /\ k # p - 1 /\ k # n
            /\ k + 1 # p /\ k + 1 \in 1 .. n
        BY <3>4, <2>0, <1>4
      <4>2. m[d[k]].next = d[k + 1]
        BY <3>1, <4>1, <1>1
      <4>3. m[d[k]].due =< m[d[k + 1]].due
        BY <3>1, <4>1, <1>1, <1>5, <2>0
      <4> QED BY <4>1, <4>2, <4>3, <3>3
    <3>5. CASE k + 1 = p
      <4>1. k = p - 1 /\ p - 1 # p + 1
        BY <3>5, <2>0
      <4>2. p = n <=> k = n - 1
        BY <3>5, <2>0
      <4>3. k # n - 1 => d[k + 1] = c[p + 1] /\ p + 1 \in 1 .. n /\ p < n /\ p + 1 # p
        BY <3>5, <2>0, <1>4
      <4>4. m[d[k]].next = (IF k = n - 1 THEN d[k] ELSE d[k + 1])
        BY <3>1, <4>1, <4>2, <4>3, <1>1
      <4>5. k < n - 1 => m[d[k]].due =< m[d[k + 1]].due
        <5> SUFFICES ASSUME k < n - 1  PROVE m[c[k]].due =< m[c[p + 1]].due
          BY <3>1, <4>3, <2>0
        <5>1. l[c[k]].due =< l[c[p]].due /\ l[c[p]].due =< l[c[p + 1]].due
          BY <4>1, <4>2, <4>3, <3>1, <3>5, <1>1, <2>0
        <5>2. m[c[k]].due = l[c[k]].due /\ m[c[p + 1]].due = l[c[p + 1]].due
              /\ l[c[k]].due \in Nat /\ l[c[p + 1]].due \in Nat
          BY <4>3, <3>1, <1>5, <2>0
        <5> QED BY <5>1, <5>2, <1>2
      <4> QED BY <4>4, <4>5, <3>3
    <3> QED BY <2>0, <2>1, <3>4, <3>5
  <2>2. CASE k >= p
    <3>1. k + 1 \in 1 .. n /\ d[k] = c[k + 1] /\ k + 1 # p /\ k + 1 # p - 1 /\ k + 1 # 1
      BY <2>0, <2>2, <1>4
    <3>2. k # n - 1 => d[k + 1] = c[k + 2] /\ k + 2 \in 1 .. n /\ k + 2 # p /\ k + 1 < n
      BY <2>2, <2>0, <1>4
    <3>3. m[d[k]].next = (IF k = n - 1 THEN d[k] ELSE d[k + 1])
      BY <3>1, <3>2, <1>1, <2>0
    <3>4. k < n - 1 => m[d[k]].due =< m[d[k + 1]].due
      <4> SUFFICES ASSUME k < n - 1  PROVE m[c[k + 1]].due =< m[c[k + 2]].due
        BY <3>1, <3>2, <2>0
      <4>1. l[c[k + 1]].due =< l[c[(k + 1) + 1]].due /\ (k + 1) + 1 = k + 2
        BY <3>1, <3>2, <1>1, <2>0
      <4> QED BY <4>1, <3>1, <3>2, <1>5, <2>0
    <3>5. m[d[k]].previous = (IF k = 1 THEN d[k] ELSE d[k - 1])
      <4>1. CASE k = p
        <5>1. k # 1 => d[k - 1] = c[p - 1]
          BY <4>1, <2>0, <1>4
        <5> QED BY <4>1, <5>1, <3>1, <2>0
      <4>2. CASE k > p
        <5>1. k # 1 /\ d[k - 1] = c[k] /\ k + 1 # p + 1 /\ (k + 1) - 1 = k
          BY <4>2, <2>0, <1>4
        <5> QED BY <5>1, <3>1, <1>1
      <4> QED BY <2>0, <2>2, <4>1, <4>2
    <3> QED BY <3>3, <3>4, <3>5
  <2> QED BY <2>0, <2>1, <2>2
<1>12. DOMAIN m # {}
  BY <1>1, <1>2, <1>5
<1> HIDE DEF n
<1>13. IsChain(d, m, IF p = 1 THEN c[2] ELSE f)
  BY <1>3, <1>10, <1>11 DEF IsChain
<1> QED BY <1>3, <1>9, <1>12, <1>13

\* A chain is one of every list with the same links and time-outs.
LEMMA SameLinks ==
  ASSUME NEW l, IsFiniteSet(DOMAIN l), NEW f,
         NEW c \in Bijection(1 .. Cardinality(DOMAIN l), DOMAIN l), IsChain(c, l, f),
         NEW m, DOMAIN m = DOMAIN l,
         \A k \in DOMAIN l : m[k].previous = l[k].previous /\ m[k].next = l[k].next
                             /\ m[k].due = l[k].due
  PROVE  IsChain(c, m, f)
<1> DEFINE n == Cardinality(DOMAIN l)
<1>1. n \in Nat /\ c \in [1 .. n -> DOMAIN l]
  <2>1. Chained(c, l, f, n)
    BY ChainFacts
  <2> QED BY <2>1 DEF Chained
<1>2. \A k \in 1 .. n : c[k] \in DOMAIN l /\ (k < n => c[k + 1] \in DOMAIN l)
  BY <1>1
<1> QED BY <1>2 DEF IsChain

-----------------------------------------------------------------------------
(* Lists *)

\* The parts of TypeOK that are about the list.
ListType(l) ==
  /\ DOMAIN l \subseteq TIE /\ IsFiniteSet(DOMAIN l) /\ l \in [DOMAIN l -> Entries]
  /\ \A i \in DOMAIN l : {l[i].previous, l[i].next} \subseteq DOMAIN l

TimersKnown(l, ts) ==
  \A i \in DOMAIN l : l[i].timer # NoTimer =>
    l[i].timer \in DOMAIN ts /\ ts[l[i].timer].state # "new"

\* An entry stays one when it is given other neighbours, or a timer.
LEMMA EntryFacts ==
  ASSUME NEW e \in Entries
  PROVE  /\ e = [previous |-> e.previous, next |-> e.next, due |-> e.due, timer |-> e.timer]
         /\ e.previous \in TIE /\ e.next \in TIE /\ e.due \in Nat /\ e.timer \in Nat
         /\ \A x \in TIE :
              /\ [e EXCEPT !.previous = x] =
                   [previous |-> x, next |-> e.next, due |-> e.due, timer |-> e.timer]
              /\ [e EXCEPT !.next = x] =
                   [previous |-> e.previous, next |-> x, due |-> e.due, timer |-> e.timer]
         /\ \A t \in Nat : [e EXCEPT !.timer = t] =
                   [previous |-> e.previous, next |-> e.next, due |-> e.due, timer |-> t]
  BY DEF Entries

\* The walk for a new time-out ends at an entry of the chain; what is before it
\* is not due later, and it is due later itself or the last one.
LEMMA PlaceIsRight ==
  ASSUME TypeOK, NEW due \in Nat, NEW x \in PlaceFor(due), DOMAIN list # {},
         NEW c \in Bijection(1 .. Cardinality(DOMAIN list), DOMAIN list),
         IsChain(c, list, first)
  PROVE  \E p \in 1 .. Cardinality(DOMAIN list) :
           /\ c[p] = x
           /\ p > 1 => list[c[p - 1]].due =< due
           /\ due >= list[x].due => p = Cardinality(DOMAIN list)
<1> DEFINE n == Cardinality(DOMAIN list)
           stops == {y \in DOMAIN list : due < list[y].due \/ IsLast(y)}
<1>1. /\ n \in Nat /\ c \in [1 .. n -> DOMAIN list]
      /\ \A j, k \in 1 .. n : c[j] = c[k] => j = k
      /\ \A y \in DOMAIN list : \E k \in 1 .. n : c[k] = y
      /\ c[1] = first
      /\ \A k \in 1 .. n :
           /\ list[c[k]].previous = (IF k = 1 THEN c[k] ELSE c[k - 1])
           /\ list[c[k]].next = (IF k = n THEN c[k] ELSE c[k + 1])
           /\ k < n => list[c[k]].due =< list[c[k + 1]].due
  <2>1. Chained(c, list, first, n)
    BY ChainFacts DEF TypeOK
  <2> QED BY <2>1 DEF Chained
<1>2. PICK m \in 1 .. n : \E walk \in [1 .. m -> DOMAIN list] :
        /\ walk[1] = first /\ walk[m] = x
        /\ \A k \in 1 .. m - 1 : walk[k] \notin stops /\ walk[k + 1] = list[walk[k]].next
  BY DEF PlaceFor, FirstOf
<1>3. PICK walk \in [1 .. m -> DOMAIN list] :
        /\ walk[1] = first /\ walk[m] = x
        /\ \A k \in 1 .. m - 1 : walk[k] \notin stops /\ walk[k + 1] = list[walk[k]].next
  BY <1>2
<1>4. x \in DOMAIN list /\ (due < list[x].due \/ list[x].next = x)
  BY DEF PlaceFor, FirstOf, IsLast
<1>5. PICK p \in 1 .. n : c[p] = x
  BY <1>1, <1>4
<1>6. \A y \in DOMAIN list : list[y].due \in Nat
  BY EntryFacts DEF TypeOK
<1>7. due >= list[x].due => p = n
  <2> SUFFICES ASSUME due >= list[x].due, p # n PROVE FALSE
    OBVIOUS
  <2>1. list[x].next = x
    BY <1>4, <1>6
  <2>2. list[x].next = c[p + 1] /\ p + 1 \in 1 .. n /\ p + 1 # p
    BY <1>1, <1>5
  <2> QED BY <1>1, <1>5, <2>1, <2>2
<1>8. p > 1 => list[c[p - 1]].due =< due
  <2> SUFFICES ASSUME p > 1 PROVE list[c[p - 1]].due =< due
    OBVIOUS
  <2>1. m # 1
    BY <1>1, <1>3, <1>5
  <2>2. m - 1 \in 1 .. m - 1 /\ m - 1 \in 1 .. m /\ (m - 1) + 1 = m
    BY <2>1, <1>1
  <2>3. walk[m - 1] \in DOMAIN list /\ walk[m - 1] \notin stops
        /\ x = list[walk[m - 1]].next
    BY <2>2, <1>3
  <2>4. PICK q \in 1 .. n : c[q] = walk[m - 1]
    BY <2>3, <1>1
  <2>5. ~(due < list[c[q]].due) /\ list[c[q]].next # c[q]
    BY <2>3, <2>4 DEF IsLast
  <2>6. q # n /\ q + 1 \in 1 .. n /\ c[q + 1] = x
    BY <2>3, <2>4, <2>5, <1>1
  <2>7. q = p - 1
    BY <2>6, <1>1, <1>5
  <2>8. list[c[q]].due \in Nat
    BY <2>3, <2>4, <1>6
  <2> QED BY <2>5, <2>7, <2>8
<1> QED BY <1>5, <1>7, <1>8

\* The walk ends, at one entry: the recursion of the code comes to an end.
LEMMA PlaceIsFound ==
  ASSUME TypeOK, ListIsOrdered, DOMAIN list # {}, NEW due \in Nat
  PROVE  \E x \in DOMAIN list : PlaceFor(due) = {x}
<1> DEFINE n == Cardinality(DOMAIN list)
           stops == {y \in DOMAIN list : due < list[y].due \/ IsLast(y)}
<1>0. PICK c \in Bijection(1 .. n, DOMAIN list) : IsChain(c, list, first)
  BY DEF ListIsOrdered
<1>1. /\ n \in Nat /\ c \in [1 .. n -> DOMAIN list]
      /\ \A j, k \in 1 .. n : c[j] = c[k] => j = k
      /\ \A y \in DOMAIN list : \E k \in 1 .. n : c[k] = y
      /\ c[1] = first
      /\ \A k \in 1 .. n :
           /\ list[c[k]].previous = (IF k = 1 THEN c[k] ELSE c[k - 1])
           /\ list[c[k]].next = (IF k = n THEN c[k] ELSE c[k + 1])
           /\ k < n => list[c[k]].due =< list[c[k + 1]].due
  <2>1. Chained(c, list, first, n)
    BY <1>0, ChainFacts DEF TypeOK
  <2> QED BY <2>1 DEF Chained
<1>2. n \in 1 .. n /\ c[n] \in stops
  BY <1>1 DEF IsLast
<1>3. PICK p \in 1 .. n : c[p] \in stops /\ \A k \in 1 .. p - 1 : c[k] \notin stops
  <2> DEFINE P == {k \in 1 .. n : c[k] \in stops}
  <2>1. P # {} /\ P \subseteq Nat
    BY <1>1, <1>2
  <2> HIDE DEF P
  <2>2. PICK p \in P : \A k \in P : <<k, p>> \notin OpToRel(<, Nat)
    BY <2>1, NatLessThanWellFounded, WFMin
  <2> USE DEF P
  <2>3. p \in 1 .. n /\ c[p] \in stops
    OBVIOUS
  <2>4. \A k \in 1 .. p - 1 : c[k] \notin stops
    <3> SUFFICES ASSUME NEW k \in 1 .. p - 1, c[k] \in stops PROVE FALSE
      OBVIOUS
    <3>1. k \in P /\ k \in Nat /\ p \in Nat /\ k < p
      BY <1>1
    <3>2. <<k, p>> \in OpToRel(<, Nat)
      BY <3>1 DEF OpToRel
    <3> QED BY <2>2, <3>1, <3>2
  <2> QED BY <2>3, <2>4
<1>4. c[p] \in PlaceFor(due)
  <2> DEFINE walk == [k \in 1 .. p |-> c[k]]
  <2>1. walk \in [1 .. p -> DOMAIN list] /\ walk[1] = first /\ walk[p] = c[p]
    BY <1>1
  <2>2. \A k \in 1 .. p - 1 : walk[k] \notin stops /\ walk[k + 1] = list[walk[k]].next
    BY <1>1, <1>3
  <2> QED BY <1>3, <2>1, <2>2 DEF PlaceFor, FirstOf
<1>5. ASSUME NEW x \in PlaceFor(due)
      PROVE  x = c[p]
  <2>1. PICK m \in 1 .. n : \E walk \in [1 .. m -> DOMAIN list] :
          /\ walk[1] = first /\ walk[m] = x
          /\ \A k \in 1 .. m - 1 : walk[k] \notin stops /\ walk[k + 1] = list[walk[k]].next
    BY DEF PlaceFor, FirstOf
  <2>2. PICK walk \in [1 .. m -> DOMAIN list] :
          /\ walk[1] = first /\ walk[m] = x
          /\ \A k \in 1 .. m - 1 : walk[k] \notin stops /\ walk[k + 1] = list[walk[k]].next
    BY <2>1
  <2>3. \A k \in 1 .. m : walk[k] = c[k]
    <3> DEFINE D == {k \in 1 .. m : walk[k] # c[k]}
    <3> SUFFICES ASSUME D # {} PROVE FALSE
      OBVIOUS
    <3>1. D \subseteq Nat
      BY <1>1
    <3> HIDE DEF D
    <3>2. PICK k \in D : \A j \in D : <<j, k>> \notin OpToRel(<, Nat)
      BY <3>1, NatLessThanWellFounded, WFMin
    <3> USE DEF D
    <3>3. k \in 1 .. m /\ walk[k] # c[k] /\ k # 1
      BY <1>1, <2>2
    <3>4. k - 1 \in 1 .. m /\ k - 1 \in 1 .. m - 1 /\ (k - 1) + 1 = k
      BY <3>3, <1>1
    <3>5. k - 1 \notin D
      <4>1. <<k - 1, k>> \in OpToRel(<, Nat)
        BY <3>4, <1>1 DEF OpToRel
      <4> QED BY <4>1, <3>2
    <3>6. walk[k - 1] = c[k - 1]
      BY <3>4, <3>5
    <3>7. walk[k] = list[c[k - 1]].next /\ ~IsLast(c[k - 1])
      <4>1. walk[k - 1] \notin stops /\ walk[k] = list[walk[k - 1]].next
        BY <3>4, <2>2
      <4>2. walk[k - 1] \in DOMAIN list
        BY <3>4
      <4> QED BY <4>1, <4>2, <3>6
    <3>8. k - 1 \in 1 .. n
      BY <3>4, <1>1
    <3>9. list[c[k - 1]].next = c[k]
      BY <3>7, <3>8, <3>4, <1>1 DEF IsLast
    <3> QED BY <3>3, <3>7, <3>9
  <2>4. m \in 1 .. m /\ c[m] = x /\ x \in stops
    BY <1>1, <2>2, <2>3 DEF PlaceFor, FirstOf
  <2>5. \A k \in 1 .. m - 1 : c[k] \notin stops
    <3> TAKE k \in 1 .. m - 1
    <3>1. k \in 1 .. m
      BY <1>1
    <3> QED BY <3>1, <2>2, <2>3
  <2>6. ~(p < m) /\ ~(m < p)
    <3>1. p < m => p \in 1 .. m - 1
      BY <1>1
    <3>2. m < p => m \in 1 .. p - 1
      BY <1>1
    <3> QED BY <3>1, <3>2, <1>3, <2>4, <2>5
  <2> QED BY <2>4, <2>6
<1> QED BY <1>1, <1>3, <1>4, <1>5

\* What is added at the place the walk finds is added in order, whichever of the
\* three ways it is linked in.
LEMMA InsertKeeps ==
  ASSUME TypeOK, ListIsOrdered, DOMAIN list # {},
         NEW i \in TIE, i \notin DOMAIN list, NEW due \in Nat, NEW x \in PlaceFor(due),
         \/ due >= list[x].due /\ InsertLast(i, due, x)
         \/ due < list[x].due /\ list[x].previous = x /\ InsertFirst(i, due, x)
         \/ due < list[x].due /\ list[x].previous # x /\ InsertBefore(i, due, x)
  PROVE  /\ ListType(list') /\ ListIsOrdered' /\ first' \in TIE
         /\ DOMAIN list' = DOMAIN list \cup {i} /\ list'[i].timer = NoTimer
         /\ \A y \in DOMAIN list : list'[y].timer = list[y].timer
<1> DEFINE n == Cardinality(DOMAIN list)
<1>0. PICK c \in Bijection(1 .. n, DOMAIN list) : IsChain(c, list, first)
  BY DEF ListIsOrdered
<1>1. Chained(c, list, first, n)
  BY <1>0, ChainFacts DEF TypeOK
<1>a. n \in Nat /\ c \in [1 .. n -> DOMAIN list] /\ c[1] = first
  BY <1>1 DEF Chained
<1>b. /\ \A j, k \in 1 .. n : c[j] = c[k] => j = k
      /\ \A k \in 1 .. n : list[c[k]].previous = IF k = 1 THEN c[k] ELSE c[k - 1]
  BY <1>1 DEF Chained
<1>2. PICK q \in 1 .. n :
        /\ c[q] = x
        /\ q > 1 => list[c[q - 1]].due =< due
        /\ due >= list[x].due => q = n
  BY <1>0, PlaceIsRight
<1>3. \A y \in DOMAIN list :
        /\ list[y] \in Entries /\ list[y].previous \in DOMAIN list /\ list[y].next \in DOMAIN list
        /\ list[y].due \in Nat
  BY EntryFacts DEF TypeOK
<1>4. x \in DOMAIN list /\ i # x /\ DOMAIN list \subseteq TIE /\ IsFiniteSet(DOMAIN list)
  BY <1>a, <1>2 DEF TypeOK
<1> HIDE DEF n
<1>5. PICK p \in 1 .. n + 1 :
        (due >= list[x].due => p = n + 1) /\ (due < list[x].due => p = q)
  <2>1. n \in Nat /\ q \in 1 .. n
    BY <1>a, <1>2
  <2>2. n + 1 \in 1 .. n + 1 /\ q \in 1 .. n + 1
    BY <2>1
  <2>3. list[x].due \in Nat
    BY <1>3, <1>4
  <2> QED BY <2>2, <2>3
<1>6. p > 1 => list[c[p - 1]].due =< due
  <2>1. CASE due >= list[x].due
    BY <2>1, <1>a, <1>2, <1>5
  <2>2. CASE due < list[x].due
    BY <2>2, <1>a, <1>2, <1>5
  <2> QED BY <2>1, <2>2, <1>3, <1>4
<1>7. p < n + 1 => due =< list[c[p]].due
  <2>1. due \in Nat /\ list[x].due \in Nat /\ n \in Nat
    BY <1>a, <1>3, <1>4
  <2>2. CASE due >= list[x].due
    BY <2>1, <2>2, <1>5
  <2>3. CASE due < list[x].due
    BY <2>1, <2>3, <1>2, <1>5
  <2> QED BY <2>1, <2>2, <2>3
<1>8. list[x].previous = IF q = 1 THEN x ELSE c[q - 1]
  BY <1>2, <1>b
<1>8a. list[x].previous = x <=> q = 1
  <2>1. ASSUME q # 1
        PROVE  c[q - 1] # c[q]
    <3>1. q - 1 \in 1 .. n /\ q - 1 # q
      BY <1>a, <2>1
    <3> QED BY <3>1, <1>b
  <2> QED BY <1>2, <1>8, <2>1
<1> DEFINE b == IF p = 1 THEN i ELSE c[p - 1]
           a == IF p = n + 1 THEN i ELSE c[p]
<1>9. /\ p # 1 => p - 1 \in 1 .. n /\ b = c[p - 1] /\ b \in DOMAIN list
      /\ p # n + 1 => p \in 1 .. n /\ a = c[p] /\ a \in DOMAIN list
      /\ p = 1 => b = i
      /\ p = n + 1 => a = i
  <2>1. (p # 1 => p - 1 \in 1 .. n) /\ (p # n + 1 => p \in 1 .. n)
    BY <1>a
  <2> QED BY <2>1, <1>a
<1> HIDE DEF a, b
<1>10. a \in TIE /\ b \in TIE
  BY <1>4, <1>9
<1>11. /\ DOMAIN list' = DOMAIN list \cup {i} /\ list' = [y \in DOMAIN list' |-> list'[y]]
       /\ list'[i] = Entry(b, a, due)
       /\ \A y \in DOMAIN list :
            list'[y] = [previous |-> IF p # n + 1 /\ y = a THEN i ELSE list[y].previous,
                        next     |-> IF p # 1 /\ y = b THEN i ELSE list[y].next,
                        due |-> list[y].due, timer |-> list[y].timer]
       /\ first' = IF p = 1 THEN i ELSE first
  <2>0. /\ list[x].due \in Nat /\ n \in Nat /\ n # 0 /\ q \in Int
        /\ \A y \in DOMAIN list : y # i /\ list[y] \in Entries
    <3>1. list[x].due \in Nat /\ n \in Nat /\ n # 0 /\ q \in Int
      BY <1>a, <1>2, <1>3, <1>4
    <3>2. \A y \in DOMAIN list : y # i /\ list[y] \in Entries
      BY <1>3
    <3> QED BY <3>1, <3>2
  <2>1. CASE due >= list[x].due
    <3>1. p = n + 1 /\ p # 1 /\ a = i /\ b = x
      BY <2>0, <2>1, <1>2, <1>5, <1>9
    <3>2. ~(due < list[x].due)
      BY <2>0, <2>1
    <3>3. list' = [With(i, Entry(x, i, due)) EXCEPT ![x].next = i] /\ first' = first
      BY <3>2 DEF InsertLast
    <3>4. \A y \in DOMAIN list :
            list'[y] = IF y = x THEN [list[y] EXCEPT !.next = i] ELSE list[y]
      BY <3>3, <2>0 DEF With
    <3>5. DOMAIN list' = DOMAIN list \cup {i} /\ list' = [y \in DOMAIN list' |-> list'[y]]
          /\ list'[i] = Entry(x, i, due)
      BY <3>3, <1>4 DEF With
    <3> QED BY <2>0, <3>1, <3>3, <3>4, <3>5, EntryFacts
  <2>2. CASE due < list[x].due /\ q = 1
    <3>1. p = 1 /\ p # n + 1 /\ a = x /\ b = i
      BY <2>0, <2>2, <1>2, <1>5, <1>9
    <3>2. ~(due >= list[x].due) /\ list[x].previous = x
      BY <2>0, <2>2, <1>8a
    <3>3. list' = [With(i, Entry(i, x, due)) EXCEPT ![x].previous = i] /\ first' = i
      BY <3>2 DEF InsertFirst
    <3>4. \A y \in DOMAIN list :
            list'[y] = IF y = x THEN [list[y] EXCEPT !.previous = i] ELSE list[y]
      BY <3>3, <2>0 DEF With
    <3>5. DOMAIN list' = DOMAIN list \cup {i} /\ list' = [y \in DOMAIN list' |-> list'[y]]
          /\ list'[i] = Entry(i, x, due)
      BY <3>3, <1>4 DEF With
    <3> QED BY <2>0, <3>1, <3>3, <3>4, <3>5, EntryFacts
  <2>3. CASE due < list[x].due /\ q # 1
    <3>0. p = q /\ q \in 1 .. n /\ p # 1 /\ p # n + 1
      BY <2>0, <2>3, <1>5
    <3>1. p # 1 /\ p # n + 1 /\ a = x /\ b = list[x].previous /\ b \in DOMAIN list
      BY <3>0, <1>2, <1>3, <1>4, <1>8, <1>9
    <3>2. ~(due >= list[x].due) /\ list[x].previous # x
      BY <2>0, <2>3, <1>8a
    <3>3. list' = [With(i, Entry(b, x, due)) EXCEPT ![b].next = i, ![x].previous = i]
          /\ first' = first
      BY <3>1, <3>2 DEF InsertBefore
    <3>4. b # x /\ b # i
      BY <3>1, <3>2, <2>0
    <3>5. \A y \in DOMAIN list :
            list'[y] = IF y = x THEN [list[y] EXCEPT !.previous = i]
                       ELSE IF y = b THEN [list[y] EXCEPT !.next = i] ELSE list[y]
      BY <3>3, <3>4, <2>0 DEF With
    <3>6. DOMAIN list' = DOMAIN list \cup {i} /\ list' = [y \in DOMAIN list' |-> list'[y]]
          /\ list'[i] = Entry(b, x, due)
      BY <3>3, <3>4, <1>4 DEF With
    <3>7. ASSUME NEW y \in DOMAIN list
          PROVE  list'[y] = [previous |-> IF p # n + 1 /\ y = a THEN i ELSE list[y].previous,
                             next     |-> IF p # 1 /\ y = b THEN i ELSE list[y].next,
                             due |-> list[y].due, timer |-> list[y].timer]
      <4>1. list[y] \in Entries
        BY <2>0
      <4>2. CASE y = x
        BY <4>1, <4>2, <3>1, <3>4, <3>5, EntryFacts
      <4>3. CASE y # x /\ y = b
        <5>1. list'[y] = [list[y] EXCEPT !.next = i]
          BY <4>3, <3>5
        <5> QED BY <4>1, <4>3, <5>1, <3>1, EntryFacts
      <4>4. CASE y # x /\ y # b
        BY <4>1, <4>4, <3>1, <3>5, EntryFacts
      <4> QED BY <4>2, <4>3, <4>4
    <3> QED BY <3>0, <3>1, <3>3, <3>6, <3>7
  <2> QED BY <2>0, <2>1, <2>2, <2>3
<1>12. \A y \in DOMAIN list : list'[y].due = list[y].due /\ list[y].due \in Nat
                              /\ list'[y].timer = list[y].timer
  <2> TAKE y \in DOMAIN list
  <2>1. list[y].due \in Nat
    BY <1>3
  <2>2. list'[y] = [previous |-> IF p # n + 1 /\ y = a THEN i ELSE list[y].previous,
                    next     |-> IF p # 1 /\ y = b THEN i ELSE list[y].next,
                    due |-> list[y].due, timer |-> list[y].timer]
    BY <1>11
  <2> QED BY <2>1, <2>2
<1>13. list' \in [DOMAIN list' -> Entries]
       /\ \A y \in DOMAIN list' : {list'[y].previous, list'[y].next} \subseteq DOMAIN list'
  <2>1. list'[i] \in Entries /\ list'[i].previous = b /\ list'[i].next = a
    BY <1>10, <1>11 DEF Entry, Entries, NoTimer
  <2>2. {a, b} \subseteq DOMAIN list'
    BY <1>4, <1>9, <1>11
  <2>3. ASSUME NEW y \in DOMAIN list
        PROVE  list'[y] \in Entries /\ {list'[y].previous, list'[y].next} \subseteq DOMAIN list'
    <3>1. list[y].previous \in DOMAIN list' /\ list[y].next \in DOMAIN list' /\ i \in DOMAIN list'
          /\ list[y].due \in Nat /\ list[y].timer \in Nat /\ DOMAIN list' \subseteq TIE
      BY <1>3, <1>4, <1>11, EntryFacts
    <3> QED BY <3>1, <1>11 DEF Entries
  <2> QED BY <2>1, <2>2, <2>3, <1>11
<1>14. \A k \in 1 .. n :
         /\ list'[c[k]].previous = (IF k = p THEN i ELSE list[c[k]].previous)
         /\ list'[c[k]].next = (IF k = p - 1 THEN i ELSE list[c[k]].next)
  <2> SUFFICES ASSUME NEW k \in 1 .. n
               PROVE  /\ list'[c[k]].previous = (IF k = p THEN i ELSE list[c[k]].previous)
                      /\ list'[c[k]].next = (IF k = p - 1 THEN i ELSE list[c[k]].next)
    OBVIOUS
  <2>0. n \in Nat /\ k \in Int /\ p \in Int
    BY <1>a
  <2>1. c[k] \in DOMAIN list
    BY <1>a
  <2>2. (p # n + 1 /\ c[k] = a) <=> k = p
    BY <2>0, <1>b, <1>9
  <2>3. (p # 1 /\ c[k] = b) <=> k = p - 1
    BY <2>0, <1>b, <1>9
  <2> QED BY <2>1, <2>2, <2>3, <1>11
<1>15. /\ IsFiniteSet(DOMAIN list')
       /\ \E d \in Bijection(1 .. Cardinality(DOMAIN list'), DOMAIN list') :
            IsChain(d, list', IF p = 1 THEN i ELSE first)
  <2>1. list'[i].due = due /\ list'[i].previous = b /\ list'[i].next = a
    BY <1>11 DEF Entry
  <2>2. /\ b = (IF p = 1 THEN i ELSE c[p - 1])
        /\ a = (IF p = Cardinality(DOMAIN list) + 1 THEN i ELSE c[p])
    BY DEF a, b, n
  <2>3. p \in 1 .. Cardinality(DOMAIN list) + 1
    BY <1>5 DEF n
  <2>4. InsertedAt(list, c, p, i, list')
    BY <1>6, <1>7, <1>11, <1>12, <1>14, <2>1, <2>2 DEF n, InsertedAt
  <2>5. c \in Bijection(1 .. Cardinality(DOMAIN list), DOMAIN list) /\ IsChain(c, list, first)
    BY <1>0 DEF n
  <2> QED BY <1>4, <2>3, <2>4, <2>5, InsertAt
<1>16. ListIsOrdered'
  BY <1>11, <1>15 DEF ListIsOrdered
<1>17. first \in TIE
  BY <1>a, <1>2, <1>4
<1>18. list'[i].timer = NoTimer /\ \A y \in DOMAIN list : list'[y].timer = list[y].timer
  BY <1>11, <1>12 DEF Entry
<1> QED BY <1>4, <1>11, <1>12, <1>13, <1>15, <1>16, <1>17, <1>18 DEF ListType

\* A timer that was started for an entry finds it gone.
LEMMA OrphanedFacts ==
  ASSUME NEW i, NEW ts \in Seq(Timers)
  PROVE  /\ Orphaned(i, ts) \in Seq(Timers) /\ Len(Orphaned(i, ts)) = Len(ts)
         /\ DOMAIN Orphaned(i, ts) = 1 .. Len(ts) /\ Len(ts) \in Nat
         /\ DOMAIN ts = 1 .. Len(ts)
         /\ \A t \in DOMAIN ts : Orphaned(i, ts)[t].state = ts[t].state
<1>1. Len(ts) \in Nat /\ DOMAIN ts = 1 .. Len(ts)
  BY LenProperties
<1>2. \A t \in DOMAIN ts :
        LET e == IF ts[t].of = i THEN [ts[t] EXCEPT !.of = None] ELSE ts[t]
        IN e \in Timers /\ e.state = ts[t].state
  <2> TAKE t \in DOMAIN ts
  <2>1. ts[t] \in Timers
    BY <1>1, ElementOfSeq
  <2> QED BY <2>1 DEF Timers
<1>3. Orphaned(i, ts) \in [1 .. Len(ts) -> Timers]
      /\ \A t \in DOMAIN ts : Orphaned(i, ts)[t].state = ts[t].state
  BY <1>1, <1>2 DEF Orphaned
<1>4. Orphaned(i, ts) \in Seq(Timers)
  BY <1>1, <1>3, SeqDef
<1> QED BY <1>1, <1>3, <1>4, LenProperties

\* A new timer has the type of one.
LEMMA TimerType ==
  ASSUME TimersAssumption, NEW x \in TIE, NEW due \in Nat, NEW i \in TIE
  PROVE  Timer(x, due, i) \in Timers
<1>1. due + Margin \in Nat
  BY DEF TimersAssumption
<1> QED BY <1>1 DEF Timer, Timers

\* A timer is put at the end.
LEMMA AppendedFacts ==
  ASSUME NEW ts \in Seq(Timers), NEW t \in Timers
  PROVE  /\ Append(ts, t) \in Seq(Timers)
         /\ \A k \in DOMAIN ts : k \in DOMAIN Append(ts, t) /\ Append(ts, t)[k] = ts[k]
  BY LenProperties

\* What is removed is removed in order, whichever of the four ways its neighbours
\* are linked.
LEMMA UnlinkKeeps ==
  ASSUME TimersAssumption, TypeOK, ListIsOrdered, NEW i \in DOMAIN list,
         NEW ts \in Seq(Timers), TimersKnown(list, ts), Unlink(i, ts)
  PROVE  /\ ListType(list') /\ ListIsOrdered' /\ first' \in TIE \cup {None}
         /\ timers' \in Seq(Timers) /\ TimersKnown(list', timers')
<1> DEFINE n == Cardinality(DOMAIN list)
<1>0. PICK c \in Bijection(1 .. n, DOMAIN list) : IsChain(c, list, first)
  BY DEF ListIsOrdered
<1>1. /\ n \in Nat /\ c \in [1 .. n -> DOMAIN list]
      /\ \A j, k \in 1 .. n : c[j] = c[k] => j = k
      /\ \A y \in DOMAIN list : \E k \in 1 .. n : c[k] = y
      /\ c[1] = first
      /\ \A k \in 1 .. n :
           /\ list[c[k]].previous = (IF k = 1 THEN c[k] ELSE c[k - 1])
           /\ list[c[k]].next = (IF k = n THEN c[k] ELSE c[k + 1])
           /\ k < n => list[c[k]].due =< list[c[k + 1]].due
  <2>1. Chained(c, list, first, n)
    BY <1>0, ChainFacts DEF TypeOK
  <2> QED BY <2>1 DEF Chained
<1>2. PICK p \in 1 .. n : c[p] = i
  BY <1>1
<1>3. /\ DOMAIN list \subseteq TIE /\ IsFiniteSet(DOMAIN list) /\ list \in [DOMAIN list -> Entries]
      /\ \A y \in DOMAIN list :
           /\ list[y] \in Entries /\ list[y].previous \in DOMAIN list /\ list[y].next \in DOMAIN list
           /\ list[y].due \in Nat
  BY EntryFacts DEF TypeOK
<1>4. \A t \in DOMAIN ts : t \in DOMAIN Orphaned(i, ts) /\ Orphaned(i, ts)[t].state = ts[t].state
  BY OrphanedFacts
<1>5. Orphaned(i, ts) \in Seq(Timers)
  BY OrphanedFacts
<1>6. p \in Int /\ (p = 1 => list[i].previous = i) /\ (p # 1 => list[i].previous = c[p - 1])
      /\ (p = n => list[i].next = i) /\ (p # n => list[i].next = c[p + 1])
  BY <1>1, <1>2
<1>7. /\ p # 1 => p - 1 \in 1 .. n /\ c[p - 1] # i /\ c[p - 1] \in DOMAIN list
      /\ p # n => p + 1 \in 1 .. n /\ c[p + 1] # i /\ c[p + 1] \in DOMAIN list
  <2>1. (p # 1 => p - 1 \in 1 .. n) /\ (p # n => p + 1 \in 1 .. n)
        /\ p - 1 # p /\ p + 1 # p
    BY <1>1, <1>2
  <2> QED BY <2>1, <1>1, <1>2
<1> HIDE DEF n
<1>8. CASE DOMAIN list = {i}
  <2>1. list' = Without(i) /\ first' = None /\ timers' = Orphaned(i, ts)
    BY <1>8 DEF Unlink
  <2>2. DOMAIN list' = {} /\ list' \in [DOMAIN list' -> Entries]
    BY <2>1, <1>8 DEF Without
  <2>3. ListType(list') /\ TimersKnown(list', timers')
    BY <2>2, FS_EmptySet DEF ListType, TimersKnown
  <2> QED BY <2>1, <2>2, <2>3, <1>5 DEF ListIsOrdered
<1>9. CASE DOMAIN list # {i}
  <2>1. n > 1
    <3>1. PICK y \in DOMAIN list : y # i
      BY <1>9
    <3>2. PICK k \in 1 .. n : c[k] = y
      BY <1>1 DEF n
    <3>3. k # p /\ k \in 1 .. n /\ p \in 1 .. n
      BY <3>1, <3>2, <1>2
    <3> QED BY <3>3, <1>1
  <2>2. /\ DOMAIN list' = DOMAIN list \ {i} /\ list' = [y \in DOMAIN list' |-> list'[y]]
        /\ \A y \in DOMAIN list' :
             list'[y] = [previous |-> IF p # n /\ y = c[p + 1]
                                      THEN (IF p = 1 THEN y ELSE c[p - 1])
                                      ELSE list[y].previous,
                         next |-> IF p # 1 /\ y = c[p - 1]
                                  THEN (IF p = n THEN y ELSE c[p + 1])
                                  ELSE list[y].next,
                         due |-> list[y].due, timer |-> list[y].timer]
    <3>1. CASE p = 1
      <4>1. p # n /\ list[i].previous = i /\ list[i].next = c[p + 1]
        BY <2>1, <3>1, <1>6
      <4>2. list' = [Without(i) EXCEPT ![c[p + 1]].previous = c[p + 1]]
        BY <4>1, <1>9 DEF Unlink, UnlinkFirst
      <4>3. \A y \in DOMAIN list \ {i} :
              list'[y] = IF y = c[p + 1] THEN [list[y] EXCEPT !.previous = y] ELSE list[y]
        BY <4>2 DEF Without
      <4>4. DOMAIN list' = DOMAIN list \ {i} /\ list' = [y \in DOMAIN list' |-> list'[y]]
        BY <4>2 DEF Without
      <4>5. \A y \in DOMAIN list : list[y] \in Entries /\ y \in TIE
        BY <1>3
      <4> QED BY <3>1, <4>1, <4>3, <4>4, <4>5, EntryFacts
    <3>2. CASE p # 1 /\ p = n
      <4>1. list[i].previous = c[p - 1] /\ list[i].next = i /\ c[p - 1] # i
        BY <3>2, <1>6, <1>7
      <4>2. list' = [Without(i) EXCEPT ![c[p - 1]].next = c[p - 1]]
        BY <4>1, <1>9 DEF Unlink
      <4>3. \A y \in DOMAIN list \ {i} :
              list'[y] = IF y = c[p - 1] THEN [list[y] EXCEPT !.next = y] ELSE list[y]
        BY <4>2 DEF Without
      <4>4. DOMAIN list' = DOMAIN list \ {i} /\ list' = [y \in DOMAIN list' |-> list'[y]]
        BY <4>2 DEF Without
      <4>5. \A y \in DOMAIN list : list[y] \in Entries /\ y \in TIE
        BY <1>3
      <4> QED BY <3>2, <4>1, <4>3, <4>4, <4>5, EntryFacts
    <3>3. CASE p # 1 /\ p # n
      <4>1. list[i].previous = c[p - 1] /\ list[i].next = c[p + 1]
            /\ c[p - 1] # i /\ c[p + 1] # i
            /\ c[p - 1] \in DOMAIN list /\ c[p + 1] \in DOMAIN list
        BY <3>3, <1>6, <1>7
      <4>2. list' = [Without(i) EXCEPT ![c[p - 1]].next = c[p + 1],
                                       ![c[p + 1]].previous = c[p - 1]]
        BY <4>1, <1>9 DEF Unlink
      <4>3. c[p - 1] # c[p + 1]
        <5>1. p - 1 \in 1 .. n /\ p + 1 \in 1 .. n /\ p - 1 # p + 1
          BY <3>3, <1>6, <1>7
        <5> QED BY <5>1, <1>1 DEF n
      <4>4. \A y \in DOMAIN list \ {i} :
              list'[y] = IF y = c[p - 1] THEN [list[y] EXCEPT !.next = c[p + 1]]
                         ELSE IF y = c[p + 1] THEN [list[y] EXCEPT !.previous = c[p - 1]]
                         ELSE list[y]
        BY <4>1, <4>2, <4>3 DEF Without
      <4>5. DOMAIN list' = DOMAIN list \ {i} /\ list' = [y \in DOMAIN list' |-> list'[y]]
        BY <4>2 DEF Without
      <4>6. \A y \in DOMAIN list : list[y] \in Entries /\ y \in TIE
        BY <1>3
      <4>7. ASSUME NEW y \in DOMAIN list'
            PROVE  list'[y] = [previous |-> IF y = c[p + 1] THEN c[p - 1] ELSE list[y].previous,
                               next |-> IF y = c[p - 1] THEN c[p + 1] ELSE list[y].next,
                               due |-> list[y].due, timer |-> list[y].timer]
        <5>1. y \in DOMAIN list \ {i} /\ list[y] \in Entries
          BY <4>5, <4>6
        <5>2. c[p - 1] \in TIE /\ c[p + 1] \in TIE
          BY <4>1, <4>6
        <5>3. CASE y = c[p - 1]
          <6>1. list'[y] = [list[y] EXCEPT !.next = c[p + 1]]
            BY <5>1, <5>3, <4>4
          <6> QED BY <6>1, <5>1, <5>2, <5>3, <4>3, EntryFacts
        <5>4. CASE y # c[p - 1] /\ y = c[p + 1]
          <6>1. list'[y] = [list[y] EXCEPT !.previous = c[p - 1]]
            BY <5>1, <5>4, <4>4
          <6> QED BY <6>1, <5>1, <5>2, <5>4, EntryFacts
        <5>5. CASE y # c[p - 1] /\ y # c[p + 1]
          BY <5>1, <5>5, <4>4, EntryFacts
        <5> QED BY <5>3, <5>4, <5>5
      <4> QED BY <3>3, <4>5, <4>7
    <3> QED BY <3>1, <3>2, <3>3
  <2>3. \A y \in DOMAIN list' : list'[y].due = list[y].due /\ list'[y].timer = list[y].timer
    BY <2>2
  <2>4. ASSUME NEW k \in 1 .. n, k # p
        PROVE  /\ list'[c[k]].previous = (IF k # p + 1 THEN list[c[k]].previous
                                          ELSE IF p = 1 THEN c[k] ELSE c[p - 1])
               /\ list'[c[k]].next = (IF k # p - 1 THEN list[c[k]].next
                                      ELSE IF p = n THEN c[k] ELSE c[p + 1])
    <3>0. n \in Nat /\ k \in Int /\ p \in Int /\ p \in 1 .. n
      BY <1>1, <1>2 DEF n
    <3>1. c[k] \in DOMAIN list'
      BY <2>2, <2>4, <1>1, <1>2 DEF n
    <3>a. \A j \in 1 .. n : c[j] = c[k] => j = k
      BY <1>1 DEF n
    <3>2. (p # n /\ c[k] = c[p + 1]) <=> k = p + 1
      BY <3>0, <3>a, <1>7
    <3>3. (p # 1 /\ c[k] = c[p - 1]) <=> k = p - 1
      BY <3>0, <3>a, <1>7
    <3>4. list'[c[k]].previous = IF p # n /\ c[k] = c[p + 1]
                                 THEN (IF p = 1 THEN c[k] ELSE c[p - 1])
                                 ELSE list[c[k]].previous
      BY <3>1, <2>2
    <3>5. list'[c[k]].next = IF p # 1 /\ c[k] = c[p - 1]
                             THEN (IF p = n THEN c[k] ELSE c[p + 1])
                             ELSE list[c[k]].next
      BY <3>1, <2>2
    <3> QED BY <3>2, <3>3, <3>4, <3>5
  <2>5. RemovedAt(list, c, p, list')
    BY <1>2, <1>3, <2>1, <2>2, <2>3, <2>4 DEF RemovedAt, n
  <2>6. /\ IsFiniteSet(DOMAIN list') /\ DOMAIN list' # {}
        /\ \E d \in Bijection(1 .. Cardinality(DOMAIN list'), DOMAIN list') :
             IsChain(d, list', IF p = 1 THEN c[2] ELSE first)
    <3>1. c \in Bijection(1 .. Cardinality(DOMAIN list), DOMAIN list) /\ IsChain(c, list, first)
          /\ p \in 1 .. Cardinality(DOMAIN list)
      BY <1>0, <1>2 DEF n
    <3> QED BY <3>1, <2>5, <1>3, RemoveAt
  <2>7. first' = IF p = 1 THEN c[2] ELSE first
    <3>1. CASE p = 1
      <4>1. p # n /\ list[i].previous = i /\ list[i].next = c[2]
        BY <2>1, <3>1, <1>6
      <4> QED BY <4>1, <3>1, <1>9 DEF Unlink, UnlinkFirst
    <3>2. CASE p # 1
      <4>1. list[i].previous # i
        BY <3>2, <1>6, <1>7
      <4> QED BY <4>1, <3>2, <1>9 DEF Unlink
    <3> QED BY <3>1, <3>2
  <2>8. first' \in TIE
    <3>1. 1 \in 1 .. n /\ 2 \in 1 .. n
      BY <2>1, <1>1 DEF n
    <3>2. c[1] \in DOMAIN list /\ c[2] \in DOMAIN list
      BY <3>1, <1>1 DEF n
    <3> QED BY <3>2, <2>7, <1>1, <1>3
  <2>9. ListIsOrdered'
    BY <2>6, <2>7 DEF ListIsOrdered
  <2>10. ListType(list')
    <3>1. ASSUME NEW y \in DOMAIN list'
          PROVE  list'[y] \in Entries /\ {list'[y].previous, list'[y].next} \subseteq DOMAIN list'
      <4>1. y \in DOMAIN list /\ y # i /\ list[y].due \in Nat /\ list[y].timer \in Nat
            /\ list[y].previous \in DOMAIN list /\ list[y].next \in DOMAIN list
        BY <2>2, <1>3, EntryFacts
      <4>2. PICK k \in 1 .. n : c[k] = y
        BY <4>1, <1>1 DEF n
      <4>3. k # p /\ n \in Nat /\ k \in Int
        BY <4>1, <4>2, <1>1, <1>2 DEF n
      <4>a. \A j \in 1 .. n : c[j] = i => j = p
        BY <1>1, <1>2 DEF n
      <4>4. list[y].previous = i => k = p + 1
        <5>1. list[y].previous = IF k = 1 THEN c[k] ELSE c[k - 1]
          BY <4>2, <1>1 DEF n
        <5>2. k # 1 => k - 1 \in 1 .. n
          BY <4>2, <4>3
        <5> QED BY <5>1, <5>2, <4>a, <4>1, <4>2, <4>3, <1>6
      <4>5. list[y].next = i => k = p - 1
        <5>1. list[y].next = IF k = n THEN c[k] ELSE c[k + 1]
          BY <4>2, <1>1 DEF n
        <5>2. k # n => k + 1 \in 1 .. n
          BY <4>2, <4>3
        <5> QED BY <5>1, <5>2, <4>a, <4>1, <4>2, <4>3, <1>6
      <4>6. list'[y].previous \in DOMAIN list'
        <5>1. CASE k = p + 1
          BY <5>1, <2>2, <2>4, <4>1, <4>2, <4>3, <1>6, <1>7
        <5>2. CASE k # p + 1
          BY <5>2, <2>2, <2>4, <4>1, <4>2, <4>3, <4>4
        <5> QED BY <5>1, <5>2
      <4>7. list'[y].next \in DOMAIN list'
        <5>1. CASE k = p - 1
          BY <5>1, <2>2, <2>4, <4>1, <4>2, <4>3, <1>6, <1>7
        <5>2. CASE k # p - 1
          BY <5>2, <2>2, <2>4, <4>1, <4>2, <4>3, <4>5
        <5> QED BY <5>1, <5>2
      <4>8. list'[y].previous \in TIE /\ list'[y].next \in TIE
        BY <4>6, <4>7, <2>2, <1>3
      <4>9. list'[y] = [previous |-> list'[y].previous, next |-> list'[y].next,
                        due |-> list[y].due, timer |-> list[y].timer]
        BY <2>2
      <4> QED BY <4>1, <4>6, <4>7, <4>8, <4>9 DEF Entries
    <3> QED BY <3>1, <2>2, <2>6, <1>3 DEF ListType
  <2>11. timers' \in Seq(Timers) /\ \A t \in DOMAIN ts : t \in DOMAIN timers'
                                                        /\ timers'[t].state = ts[t].state
    <3>1. CASE p = 1
      <4>1. p # n /\ list[i].previous = i /\ list[i].next = c[p + 1] /\ c[p + 1] \in DOMAIN list
        BY <2>1, <3>1, <1>6, <1>7
      <4>2. timers' = Append(Orphaned(i, ts), Timer(c[p + 1], list[c[p + 1]].due, i))
        BY <4>1, <1>9 DEF Unlink, UnlinkFirst
      <4>3. Timer(c[p + 1], list[c[p + 1]].due, i) \in Timers
        <5>1. c[p + 1] \in TIE /\ i \in TIE /\ list[c[p + 1]].due \in Nat
          BY <4>1, <1>3
        <5> QED BY <5>1, TimerType
      <4> QED BY <4>2, <4>3, <1>4, <1>5, AppendedFacts
    <3>2. CASE p # 1
      <4>1. list[i].previous # i
        BY <3>2, <1>6, <1>7
      <4>2. timers' = Orphaned(i, ts)
        BY <4>1, <1>9 DEF Unlink
      <4> QED BY <4>2, <1>4, <1>5
    <3> QED BY <3>1, <3>2
  <2>12. TimersKnown(list', timers')
    BY ZenonT(30), <2>2, <2>3, <2>11 DEF TimersKnown
  <2> QED BY <2>8, <2>9, <2>10, <2>11, <2>12
<1> QED BY <1>8, <1>9

-----------------------------------------------------------------------------
(* The invariant *)

\* What TypeOK says, part by part.
LEMMA TypeParts ==
  TypeOK <=> /\ ListType(list) /\ TimersKnown(list, timers)
             /\ first \in TIE \cup {None} /\ timedOut \subseteq TIE
             /\ timers \in Seq(Timers)
             /\ channel \in Seq(Commands) /\ Len(channel) =< ChannelSize
             /\ reader \in {"reads", "cancelled", "waits", "crashed"} /\ awaited \in Nat
             /\ now \in 0 .. MaxTime
             /\ phase \in [TIE -> Phases] /\ calls \in [TIE -> 0 .. MaxCalls]
             /\ reported \subseteq [tie : TIE, at : 0 .. MaxTime]
  BY DEF TypeOK, ListType, TimersKnown

\* The first command of the channel, and what is left when it is taken.
LEMMA ChannelFacts ==
  ASSUME channel \in Seq(Commands), Len(channel) =< ChannelSize, ChannelSize \in Nat,
         channel # <<>>
  PROVE  /\ Head(channel) \in Commands
         /\ Tail(channel) \in Seq(Commands) /\ Len(Tail(channel)) =< ChannelSize
<1>1. Len(channel) \in Nat \ {0} /\ Head(channel) = channel[1]
  BY EmptySeq, LenProperties
<1>2. Head(channel) \in Commands /\ Tail(channel) \in Seq(Commands)
      /\ Len(Tail(channel)) = Len(channel) - 1
  BY HeadTailProperties
<1> QED BY <1>1, <1>2

\* A command put at the end leaves the first one where it is.
LEMMA SendFacts ==
  ASSUME TimersAssumption, channel \in Seq(Commands), Len(channel) < ChannelSize,
         NEW command \in Commands
  PROVE  /\ Append(channel, command) \in Seq(Commands)
         /\ Len(Append(channel, command)) =< ChannelSize
         /\ channel # <<>> => Append(channel, command) # <<>>
                              /\ Head(Append(channel, command)) = Head(channel)
<1>1. Len(channel) \in Nat /\ ChannelSize \in Nat
  BY LenProperties DEF TimersAssumption
<1>2. Append(channel, command) \in Seq(Commands)
      /\ Len(Append(channel, command)) = Len(channel) + 1
      /\ \A k \in 1 .. Len(channel) : Append(channel, command)[k] = channel[k]
  BY LenProperties
<1>3. ASSUME channel # <<>>
      PROVE  Append(channel, command) # <<>> /\ Head(Append(channel, command)) = Head(channel)
  <2>1. Len(channel) >= 1
    BY <1>1, <1>3, EmptySeq
  <2>2. Append(channel, command) # <<>>
    BY <1>1, <1>2, EmptySeq
  <2>3. Head(channel) = channel[1] /\ Head(Append(channel, command)) = Append(channel, command)[1]
    BY <1>2, <1>3, <2>2, HeadTailProperties, LenProperties
  <2> QED BY <1>1, <1>2, <2>1, <2>2, <2>3
<1> QED BY <1>1, <1>2, <1>3

\* Whatever is sent, the reader finds what it needs.
LEMMA SendKeeps ==
  ASSUME TimersAssumption, IInv, NEW command \in Commands, Len(channel) < ChannelSize,
         channel' = Append(channel, command),
         UNCHANGED <<theList, theReader>>,
         DOMAIN timers \subseteq DOMAIN timers'
  PROVE  /\ channel' \in Seq(Commands) /\ Len(channel') =< ChannelSize
         /\ ListIsOrdered' /\ Cancelling'
<1>1. channel \in Seq(Commands)
  BY DEF IInv, TypeOK
<1>2. channel' \in Seq(Commands) /\ Len(channel') =< ChannelSize
      /\ (channel # <<>> => channel' # <<>> /\ Head(channel') = Head(channel))
  BY <1>1, SendFacts
<1>3. ListIsOrdered'
  BY DEF IInv, ListIsOrdered, theList
<1>4. Cancelling'
  BY <1>2 DEF IInv, Cancelling, theList, theReader
<1> QED BY <1>2, <1>3, <1>4

\* The execution engine's steps.
LEMMA EngineKeeps ==
  ASSUME TimersAssumption, IInv, NEW i \in TIE, Engine(i)
  PROVE  IInv'
<1>0. /\ TypeOK /\ now \in Nat /\ Temporary \in Nat /\ Durations \subseteq Nat /\ MaxCalls \in Nat
      /\ phase \in [TIE -> Phases] /\ calls \in [TIE -> 0 .. MaxCalls]
  BY DEF IInv, TypeOK, TimersAssumption
<1>1. ASSUME NEW command \in Commands, Send(command),
             NEW p \in Phases, Becomes(i, p), calls' \in [TIE -> 0 .. MaxCalls]
      PROVE  IInv'
  <2>1. phase' \in [TIE -> Phases]
    BY <1>0, <1>1 DEF Becomes
  <2>2. /\ channel' \in Seq(Commands) /\ Len(channel') =< ChannelSize
        /\ ListIsOrdered' /\ Cancelling'
    BY <1>1, SendKeeps DEF Send
  <2>3. TypeOK'
    BY <1>0, <1>1, <2>1, <2>2, TypeParts DEF Send, TypeOK, theList, theReader
  <2> QED BY <2>2, <2>3 DEF IInv
<1>2. CASE CallWorker(i)
  <2>1. AddCommand(i, now + Temporary) \in Commands
    BY <1>0 DEF AddCommand, Commands
  <2>2. calls' \in [TIE -> 0 .. MaxCalls]
    BY <1>0, <1>2 DEF CallWorker
  <2> QED BY <1>1, <1>2, <2>1, <2>2 DEF CallWorker, Phases
<1>3. CASE WorkerRefuses(i)
  <2>1. RemoveCommand(i, "refused") \in Commands
    BY DEF RemoveCommand, Commands
  <2> QED BY <1>0, <1>1, <1>3, <2>1 DEF WorkerRefuses, Phases
<1>4. CASE ConnectorAnswers(i)
  <2>1. RemoveCommand(i, "answer") \in Commands
    BY DEF RemoveCommand, Commands
  <2> QED BY <1>0, <1>1, <1>4, <2>1 DEF ConnectorAnswers, Phases
<1>5. CASE SetTimeOutTimer(i)
  <2>1. PICK d \in Durations : Send(AddCommand(i, now + d))
    BY <1>5 DEF SetTimeOutTimer
  <2>2. AddCommand(i, now + d) \in Commands
    BY <1>0 DEF AddCommand, Commands
  <2> QED BY <1>0, <1>1, <1>5, <2>1, <2>2 DEF SetTimeOutTimer, Phases
<1>6. CASE ResultIsStored(i)
  <2>1. RemoveCommand(i, "result") \in Commands
    BY DEF RemoveCommand, Commands
  <2> QED BY <1>0, <1>1, <1>6, <2>1 DEF ResultIsStored, Phases
<1> QED BY <1>2, <1>3, <1>4, <1>5, <1>6 DEF Engine

\* A timer that changes its state, or is cancelled, is a timer still.
LEMMA TimerSteps ==
  ASSUME NEW ts \in Seq(Timers), NEW t \in DOMAIN ts,
         NEW s \in {"runs", "fired", "done", "closed"}
  PROVE  /\ [ts EXCEPT ![t].state = s] \in Seq(Timers)
         /\ DOMAIN [ts EXCEPT ![t].state = s] = DOMAIN ts
         /\ [ts EXCEPT ![t].state = s][t].state = s
         /\ \A k \in DOMAIN ts : ts[k].state # "new" => [ts EXCEPT ![t].state = s][k].state # "new"
         /\ [ts EXCEPT ![t].cancelled = TRUE] \in Seq(Timers)
         /\ DOMAIN [ts EXCEPT ![t].cancelled = TRUE] = DOMAIN ts
         /\ \A k \in DOMAIN ts : [ts EXCEPT ![t].cancelled = TRUE][k].state = ts[k].state
<1>1. Len(ts) \in Nat /\ DOMAIN ts = 1 .. Len(ts) /\ ts \in [1 .. Len(ts) -> Timers]
  BY LenProperties
<1>2. \A k \in DOMAIN ts : ts[k] \in Timers
  BY <1>1
<1>3. /\ [ts[t] EXCEPT !.state = s] \in Timers /\ [ts[t] EXCEPT !.state = s].state = s
      /\ [ts[t] EXCEPT !.cancelled = TRUE] \in Timers
      /\ [ts[t] EXCEPT !.cancelled = TRUE].state = ts[t].state
  BY <1>2 DEF Timers
<1>4. /\ [ts EXCEPT ![t] = [ts[t] EXCEPT !.state = s]] \in [1 .. Len(ts) -> Timers]
      /\ [ts EXCEPT ![t] = [ts[t] EXCEPT !.cancelled = TRUE]] \in [1 .. Len(ts) -> Timers]
  BY <1>1, <1>3
<1>5. /\ [ts EXCEPT ![t].state = s] \in Seq(Timers)
      /\ [ts EXCEPT ![t].cancelled = TRUE] \in Seq(Timers)
  BY <1>1, <1>4, SeqDef
<1> QED BY <1>1, <1>3, <1>5

\* The steps of a timer's goroutine.
LEMMA GoroutineKeeps ==
  ASSUME TimersAssumption, IInv, NEW t \in DOMAIN timers, Goroutine(t)
  PROVE  IInv'
<1>0. /\ TypeOK /\ timers \in Seq(Timers) /\ TimersKnown(list, timers) /\ ListType(list)
      /\ Len(timers) \in Nat /\ DOMAIN timers = 1 .. Len(timers)
  BY TypeParts, LenProperties DEF IInv
<1>1. timers[t] \in Timers /\ timers[t].reports \in TIE
  <2>1. timers[t] \in Timers
    BY <1>0, ElementOfSeq
  <2> QED BY <2>1 DEF Timers
<1>2. ASSUME NEW s \in {"runs", "fired", "done", "closed"}, SetState(t, s)
      PROVE  /\ timers' \in Seq(Timers) /\ DOMAIN timers' = DOMAIN timers
             /\ timers'[t].state # "new"
             /\ \A k \in DOMAIN timers : timers[k].state # "new" => timers'[k].state # "new"
  BY <1>0, <1>2, TimerSteps DEF SetState
<1>3. CASE StartTimer(t)
  <2>1. /\ timers' \in Seq(Timers) /\ DOMAIN timers' = DOMAIN timers
        /\ timers'[t].state # "new"
        /\ \A k \in DOMAIN timers : timers[k].state # "new" => timers'[k].state # "new"
    BY <1>2, <1>3 DEF StartTimer
  <2>2. /\ DOMAIN list' = DOMAIN list /\ list' = [i \in DOMAIN list' |-> list'[i]]
        /\ \A i \in DOMAIN list :
             list'[i] = IF i = timers[t].of THEN [list[i] EXCEPT !.timer = t] ELSE list[i]
    BY <1>3 DEF StartTimer
  <2>3. t \in Nat /\ t # NoTimer
    BY <1>0 DEF NoTimer
  <2>4. \A i \in DOMAIN list :
          /\ list'[i] \in Entries
          /\ list'[i].previous = list[i].previous /\ list'[i].next = list[i].next
          /\ list'[i].due = list[i].due /\ list'[i].timer \in {list[i].timer, t}
    <3> SUFFICES ASSUME NEW i \in DOMAIN list
                 PROVE  /\ list'[i] \in Entries
                        /\ list'[i].previous = list[i].previous /\ list'[i].next = list[i].next
                        /\ list'[i].due = list[i].due /\ list'[i].timer \in {list[i].timer, t}
      OBVIOUS
    <3>1. list[i] \in Entries
      BY <1>0 DEF ListType
    <3>2. [list[i] EXCEPT !.timer = t] = [previous |-> list[i].previous, next |-> list[i].next,
                                          due |-> list[i].due, timer |-> t]
          /\ list[i].previous \in TIE /\ list[i].next \in TIE /\ list[i].due \in Nat
      BY <2>3, <3>1, EntryFacts
    <3>3. [list[i] EXCEPT !.timer = t] \in Entries
      BY <2>3, <3>2 DEF Entries
    <3> QED BY <2>2, <3>1, <3>2, <3>3
  <2>5. ListType(list')
    BY <1>0, <2>2, <2>4 DEF ListType
  <2>6. TimersKnown(list', timers')
    BY <1>0, <2>1, <2>2, <2>4 DEF TimersKnown
  <2>7. first' = first /\ channel' = channel /\ reader' = reader /\ awaited' = awaited
    BY <1>3 DEF StartTimer, theReader
  <2>8. ListIsOrdered'
    <3>1. CASE DOMAIN list = {}
      BY <3>1, <2>2, <2>7 DEF IInv, ListIsOrdered
    <3>2. CASE DOMAIN list # {}
      <4>1. PICK c \in Bijection(1 .. Cardinality(DOMAIN list), DOMAIN list) :
              IsChain(c, list, first)
        BY <3>2 DEF IInv, ListIsOrdered
      <4>2. IsFiniteSet(DOMAIN list)
        BY <1>0 DEF ListType
      <4>3. IsChain(c, list', first)
        BY <2>2, <2>4, <4>1, <4>2, SameLinks
      <4> QED BY <2>2, <2>7, <3>2, <4>1, <4>3 DEF ListIsOrdered
    <3> QED BY <3>1, <3>2
  <2>9. Cancelling'
    <3>1. ASSUME first \in DOMAIN list, list[first].timer # NoTimer
          PROVE  list'[first].timer # NoTimer
      BY <3>1, <2>3, <2>4
    <3> QED BY <2>1, <2>2, <2>7, <3>1 DEF IInv, Cancelling
  <2>10. TypeOK'
    <3>1. UNCHANGED <<timedOut, channel, reader, awaited, now, phase, calls, reported>>
      BY <1>3 DEF StartTimer, theReader
    <3> QED BY <1>0, <2>1, <2>5, <2>6, <2>7, <3>1 DEF TypeOK, ListType, TimersKnown
  <2> QED BY <2>8, <2>9, <2>10 DEF IInv
<1>4. ASSUME timers' \in Seq(Timers), DOMAIN timers' = DOMAIN timers,
             \A k \in DOMAIN timers : timers[k].state # "new" => timers'[k].state # "new",
             UNCHANGED <<theList, theReader, now, phase, calls>>
      PROVE  /\ ListIsOrdered'
             /\ ListType(list') /\ TimersKnown(list', timers')
             /\ list' = list /\ first' = first /\ timedOut' = timedOut
             /\ reader' = reader /\ awaited' = awaited
  BY <1>0, <1>4 DEF theList, theReader, IInv, ListIsOrdered, TimersKnown
<1>5. CASE Fire(t)
  <2>1. /\ timers' \in Seq(Timers) /\ DOMAIN timers' = DOMAIN timers
        /\ \A k \in DOMAIN timers : timers[k].state # "new" => timers'[k].state # "new"
    BY <1>2, <1>5 DEF Fire
  <2>2. UNCHANGED <<theList, theReader, now, phase, calls>> /\ channel' = channel
    BY <1>5 DEF Fire
  <2>3. reported' \subseteq [tie : TIE, at : 0 .. MaxTime]
    BY <1>0, <1>1, <1>5 DEF Fire, TypeOK
  <2>4. TypeOK' /\ Cancelling'
    BY ZenonT(30), <1>0, <1>4, <2>1, <2>2, <2>3, TypeParts DEF TypeOK, IInv, Cancelling
  <2> QED BY <1>4, <2>1, <2>2, <2>4 DEF IInv
<1>6. CASE Close(t)
  <2>1. /\ timers' \in Seq(Timers) /\ DOMAIN timers' = DOMAIN timers
        /\ \A k \in DOMAIN timers : timers[k].state # "new" => timers'[k].state # "new"
    BY <1>2, <1>6 DEF Close
  <2>2. UNCHANGED <<theList, theReader, now, phase, calls>> /\ channel' = channel
        /\ reported' = reported
    BY <1>6 DEF Close
  <2>3. TypeOK' /\ Cancelling'
    BY ZenonT(30), <1>0, <1>4, <2>1, <2>2, TypeParts DEF TypeOK, IInv, Cancelling
  <2> QED BY <1>4, <2>1, <2>2, <2>3 DEF IInv
<1>7. CASE SendRemoval(t)
  <2>1. /\ timers' \in Seq(Timers) /\ DOMAIN timers' = DOMAIN timers
        /\ \A k \in DOMAIN timers : timers[k].state # "new" => timers'[k].state # "new"
    BY <1>2, <1>7 DEF SendRemoval
  <2>2. UNCHANGED <<theList, theReader, now, phase, calls>> /\ reported' = reported
    BY <1>7 DEF SendRemoval
  <2>3. RemoveCommand(timers[t].reports, "timeout") \in Commands
    BY <1>1 DEF RemoveCommand, Commands
  <2>4. /\ channel' \in Seq(Commands) /\ Len(channel') =< ChannelSize /\ Cancelling'
    BY <1>7, <2>1, <2>2, <2>3, SendKeeps DEF SendRemoval
  <2>5. TypeOK'
    BY <1>0, <1>4, <2>1, <2>2, <2>4, TypeParts DEF TypeOK
  <2> QED BY <1>4, <2>1, <2>2, <2>4, <2>5 DEF IInv
<1> QED BY <1>3, <1>5, <1>6, <1>7 DEF Goroutine

\* The reader adds.
LEMMA AddKeeps ==
  ASSUME TimersAssumption, IInv, reader = "reads", channel # <<>>,
         NEW i \in TIE, NEW due \in Nat, AddTimeOut(i, due),
         UNCHANGED <<awaited, now, phase, calls, reported>>
  PROVE  IInv'
<1>0. /\ TypeOK /\ ListIsOrdered /\ timers \in Seq(Timers) /\ TimersKnown(list, timers)
      /\ ListType(list) /\ first \in TIE \cup {None}
  BY TypeParts DEF IInv
<1>1. channel' \in Seq(Commands) /\ Len(channel') =< ChannelSize /\ timedOut' = timedOut
  BY <1>0, ChannelFacts DEF TypeOK, TimersAssumption, AddTimeOut
<1>2. ASSUME ListType(list'), ListIsOrdered', first' \in TIE \cup {None},
             timers' \in Seq(Timers), TimersKnown(list', timers'),
             reader' \in {"reads", "crashed"}
      PROVE  IInv'
  <2>1. TypeOK'
    BY <1>0, <1>1, <1>2 DEF TypeOK, ListType, TimersKnown
  <2>2. Cancelling'
    BY <1>2 DEF Cancelling
  <2> QED BY <1>2, <2>1, <2>2 DEF IInv
<1>3. CASE i \in DOMAIN list
  <2>1. UNCHANGED <<list, first, timers, reader>>
    BY <1>3 DEF AddTimeOut
  <2> QED BY <1>0, <1>2, <2>1 DEF ListIsOrdered
<1>4. CASE i \notin DOMAIN list /\ DOMAIN list = {}
  <2>1. /\ list' = With(i, Entry(i, i, due)) /\ first' = i
        /\ timers' = Append(timers, Timer(i, due, i)) /\ reader' = reader
    BY <1>4 DEF AddTimeOut
  <2>2. DOMAIN list' = {i} /\ list' \in [DOMAIN list' -> Entries]
        /\ list'[i] = [previous |-> i, next |-> i, due |-> due, timer |-> NoTimer]
    <3>1. Entry(i, i, due) \in Entries
      BY DEF Entry, Entries, NoTimer
    <3> QED BY <1>4, <2>1, <3>1 DEF With, Entry
  <2>3. IsFiniteSet(DOMAIN list') /\ Cardinality(DOMAIN list') = 1
    BY <2>2, FS_Singleton
  <2>4. ListType(list')
    BY <2>2, <2>3 DEF ListType
  <2>5. TimersKnown(list', timers')
    BY <2>2 DEF TimersKnown
  <2>6. ListIsOrdered'
    <3> DEFINE c == [k \in 1 .. 1 |-> i]
    <3>1. c \in Bijection(1 .. 1, {i})
      BY DEF Bijection, Injection, Surjection, IsInjective
    <3>2. IsChain(c, list', i)
      BY <2>2, <2>3 DEF IsChain
    <3> HIDE DEF c
    <3> QED BY <2>1, <2>2, <2>3, <3>1, <3>2 DEF ListIsOrdered
  <2>7. timers' \in Seq(Timers)
    BY <1>0, <2>1, TimerType, AppendedFacts
  <2> QED BY <1>2, <2>1, <2>4, <2>5, <2>6, <2>7
<1>5. CASE i \notin DOMAIN list /\ DOMAIN list # {}
  <2>1. PICK x \in PlaceFor(due) :
          \/ due >= list[x].due /\ InsertLast(i, due, x)
          \/ due < list[x].due /\ list[x].previous = x /\ InsertFirst(i, due, x)
          \/ due < list[x].due /\ list[x].previous # x /\ InsertBefore(i, due, x)
    <3>1. PICK x \in PlaceFor(due) :
            IF due >= list[x].due THEN InsertLast(i, due, x)
            ELSE IF list[x].previous = x THEN InsertFirst(i, due, x)
            ELSE InsertBefore(i, due, x)
      BY <1>5 DEF AddTimeOut
    <3>2. x \in DOMAIN list
      BY DEF PlaceFor, FirstOf
    <3>3. list[x] \in Entries /\ list[x].due \in Nat
      BY <1>0, <3>2, EntryFacts DEF ListType
    <3>4. due >= list[x].due \/ due < list[x].due
      BY <3>3
    <3> QED BY <3>1, <3>3, <3>4
  <2>2. /\ ListType(list') /\ ListIsOrdered' /\ first' \in TIE
        /\ DOMAIN list' = DOMAIN list \cup {i} /\ list'[i].timer = NoTimer
        /\ \A y \in DOMAIN list : list'[y].timer = list[y].timer
    BY <1>0, <1>5, <2>1, InsertKeeps
  <2>3. /\ timers' \in Seq(Timers) /\ reader' \in {"reads", "crashed"}
        /\ \A t \in DOMAIN timers : t \in DOMAIN timers' /\ timers'[t].state = timers[t].state
    <3>1. CASE UNCHANGED timers /\ reader' \in {"reads", "crashed"}
      BY <1>0, <3>1
    <3>2. CASE InsertFirst(i, due, x) /\ list[x].timer # NoTimer
      <4>1. /\ timers' = Append(Cancelled(list[x].timer), Timer(i, due, i))
            /\ reader' = reader
        BY <3>2 DEF InsertFirst
      <4>2. list[x].timer \in DOMAIN timers
        <5>1. x \in DOMAIN list
          BY DEF PlaceFor, FirstOf
        <5> QED BY <1>0, <3>2, <5>1 DEF TimersKnown
      <4>3. /\ Cancelled(list[x].timer) \in Seq(Timers)
            /\ DOMAIN Cancelled(list[x].timer) = DOMAIN timers
            /\ \A k \in DOMAIN timers : Cancelled(list[x].timer)[k].state = timers[k].state
        BY <1>0, <4>2, TimerSteps DEF Cancelled
      <4>4. Timer(i, due, i) \in Timers
        BY TimerType
      <4> QED BY <4>1, <4>3, <4>4, AppendedFacts
    <3> QED BY <2>1, <3>1, <3>2 DEF InsertFirst, InsertLast, InsertBefore
  <2>4. TimersKnown(list', timers')
    BY <1>0, <2>2, <2>3 DEF TimersKnown
  <2> QED BY <1>2, <2>2, <2>3, <2>4
<1> QED BY <1>3, <1>4, <1>5

\* The reader removes, or begins to cancel.
LEMMA RemoveKeeps ==
  ASSUME TimersAssumption, IInv, reader = "reads", channel # <<>>,
         NEW i \in TIE, NEW why, RemoveTimeOut(i, why),
         Head(channel).do = "remove", Head(channel).tie = i,
         UNCHANGED <<awaited, now, phase, calls, reported>>
  PROVE  IInv'
<1>0. /\ TypeOK /\ ListIsOrdered /\ timers \in Seq(Timers) /\ TimersKnown(list, timers)
      /\ ListType(list) /\ first \in TIE \cup {None}
      /\ Tail(channel) \in Seq(Commands) /\ Len(Tail(channel)) =< ChannelSize
  BY TypeParts, ChannelFacts DEF IInv, TimersAssumption
<1>1. CASE channel' = Tail(channel) /\ UNCHANGED <<theList, timers, reader>>
  <2>1. ListIsOrdered' /\ Cancelling'
    BY <1>0, <1>1 DEF ListIsOrdered, Cancelling, theList
  <2>2. TypeOK'
    BY <1>0, <1>1 DEF TypeOK, theList
  <2> QED BY <2>1, <2>2 DEF IInv
<1>2. CASE /\ i \in DOMAIN list /\ Cancels(i, why) /\ UNCHANGED <<theList, channel>>
           /\ IF list[i].timer = NoTimer THEN reader' = "crashed" /\ UNCHANGED timers
              ELSE reader' = "cancelled" /\ timers' = Cancelled(list[i].timer)
  <2>1. ListIsOrdered'
    BY <1>0, <1>2 DEF ListIsOrdered, theList
  <2>2. /\ timers' \in Seq(Timers) /\ reader' \in {"cancelled", "crashed"}
        /\ \A t \in DOMAIN timers : t \in DOMAIN timers' /\ timers'[t].state = timers[t].state
    <3>1. CASE list[i].timer = NoTimer
      BY <1>0, <1>2, <3>1
    <3>2. CASE list[i].timer # NoTimer
      <4>1. list[i].timer \in DOMAIN timers
        BY <1>0, <1>2, <3>2 DEF TimersKnown
      <4>2. timers' = Cancelled(list[i].timer) /\ reader' = "cancelled"
        BY <1>2, <3>2
      <4>3. /\ Cancelled(list[i].timer) \in Seq(Timers)
            /\ DOMAIN Cancelled(list[i].timer) = DOMAIN timers
            /\ \A k \in DOMAIN timers : Cancelled(list[i].timer)[k].state = timers[k].state
        BY <1>0, <4>1, TimerSteps DEF Cancelled
      <4> QED BY <4>2, <4>3
    <3> QED BY <3>1, <3>2
  <2>3. TimersKnown(list', timers')
    BY <1>0, <1>2, <2>2 DEF TimersKnown, theList
  <2>4. TypeOK'
    BY <1>0, <1>2, <2>2, <2>3 DEF TypeOK, TimersKnown, theList
  <2>5. i = first
    <3>1. PICK c \in Bijection(1 .. Cardinality(DOMAIN list), DOMAIN list) :
            IsChain(c, list, first)
      BY <1>0, <1>2 DEF ListIsOrdered
    <3>2. /\ IsFiniteSet(DOMAIN list) /\ list[i].previous = i
      BY <1>0, <1>2 DEF ListType, Cancels
    <3> DEFINE n == Cardinality(DOMAIN list)
    <3>3. /\ n \in Nat /\ c[1] = first
          /\ \A j, k \in 1 .. n : c[j] = c[k] => j = k
          /\ \A x \in DOMAIN list : \E k \in 1 .. n : c[k] = x
          /\ \A k \in 1 .. n :
               /\ list[c[k]].previous = (IF k = 1 THEN c[k] ELSE c[k - 1])
               /\ list[c[k]].next = (IF k = n THEN c[k] ELSE c[k + 1])
               /\ k < n => list[c[k]].due =< list[c[k + 1]].due
      <4>1. Chained(c, list, first, n)
        BY <3>1, <3>2, ChainFacts
      <4> QED BY <4>1 DEF Chained
    <3> HIDE DEF n
    <3>4. PICK k \in 1 .. n : c[k] = i
      BY <1>2, <3>3
    <3>5. ASSUME k # 1
          PROVE  FALSE
      <4>1. k - 1 \in 1 .. n /\ k - 1 # k
        BY <3>3, <3>4, <3>5
      <4>2. c[k - 1] = c[k]
        BY <3>2, <3>3, <3>4, <3>5
      <4> QED BY <3>3, <3>4, <4>1, <4>2
    <3> QED BY <3>3, <3>4, <3>5
  <2>6. Cancelling'
    BY <1>2, <2>2, <2>5 DEF Cancelling, theList
  <2> QED BY <2>1, <2>4, <2>6 DEF IInv
<1>3. CASE /\ i \in DOMAIN list /\ Unlink(i, timers)
           /\ timedOut' = timedOut \cup (IF why = "timeout" THEN {i} ELSE {})
           /\ channel' = Tail(channel) /\ reader' = reader
  <2>1. /\ ListType(list') /\ ListIsOrdered' /\ first' \in TIE \cup {None}
        /\ timers' \in Seq(Timers) /\ TimersKnown(list', timers')
    <3>1. PICK ts : ts = timers
      OBVIOUS
    <3>2. Unlink(i, ts)
      BY <1>3, <3>1
    <3> QED BY <1>0, <1>3, <3>1, <3>2, UnlinkKeeps
  <2>2. TypeOK'
    BY <1>0, <1>3, <2>1 DEF TypeOK, ListType, TimersKnown
  <2> QED BY <1>3, <2>1, <2>2 DEF IInv, Cancelling
<1> QED BY <1>1, <1>2, <1>3 DEF RemoveTimeOut

\* A step keeps the invariant.
LEMMA StepKeeps ==
  ASSUME TimersAssumption, IInv, [Next]_vars
  PROVE  IInv'
<1>0. /\ TypeOK /\ ListIsOrdered /\ Cancelling /\ timers \in Seq(Timers)
      /\ TimersKnown(list, timers) /\ channel \in Seq(Commands) /\ Len(channel) =< ChannelSize
  BY TypeParts DEF IInv
<1>1. CASE \E i \in TIE : Engine(i)
  BY <1>1, EngineKeeps
<1>2. CASE \E t \in DOMAIN timers : Goroutine(t)
  BY <1>2, GoroutineKeeps
<1>3. CASE Read
  <2>1. Head(channel) \in Commands /\ reader = "reads" /\ channel # <<>>
        /\ UNCHANGED <<awaited, now, phase, calls, reported>>
    BY <1>0, <1>3, ChannelFacts DEF Read, TimersAssumption
  <2>2. CASE Head(channel).do = "add"
    <3>1. Head(channel).tie \in TIE /\ Head(channel).due \in Nat
      BY <2>1, <2>2 DEF Commands
    <3>2. PICK i \in TIE, due \in Nat : i = Head(channel).tie /\ due = Head(channel).due
      BY <3>1
    <3>3. AddTimeOut(i, due)
      BY <1>3, <2>2, <3>2 DEF Read
    <3> QED BY <2>1, <3>3, AddKeeps
  <2>3. CASE Head(channel).do # "add"
    <3>1. Head(channel).tie \in TIE /\ Head(channel).do = "remove"
      BY <2>1, <2>3 DEF Commands
    <3>2. PICK i \in TIE : i = Head(channel).tie
      BY <3>1
    <3>3. PICK why : why = Head(channel).why
      OBVIOUS
    <3>4. RemoveTimeOut(i, why)
      BY <1>3, <2>3, <3>2, <3>3 DEF Read
    <3> QED BY <2>1, <3>1, <3>2, <3>4, RemoveKeeps
  <2> QED BY <2>2, <2>3
<1>4. CASE Await
  <2>1. /\ reader = "cancelled" /\ reader' = "waits"
        /\ awaited' = list[Head(channel).tie].timer
        /\ UNCHANGED <<list, first, timedOut, timers, channel, now, phase, calls, reported>>
    BY <1>4 DEF Await, theList
  <2>2. /\ channel # <<>> /\ Head(channel).do = "remove"
        /\ Head(channel).tie \in DOMAIN list /\ Head(channel).tie = first
        /\ list[first].timer # NoTimer
    BY <1>0, <2>1 DEF Cancelling
  <2>3. awaited' \in DOMAIN timers
    BY <1>0, <2>1, <2>2 DEF TimersKnown
  <2>4. DOMAIN timers \subseteq Nat
    BY <1>0, LenProperties
  <2>5. TypeOK'
    BY <1>0, <2>1, <2>3, <2>4 DEF TypeOK
  <2>6. ListIsOrdered' /\ Cancelling'
    BY <1>0, <2>1, <2>2, <2>3 DEF ListIsOrdered, Cancelling
  <2> QED BY <2>5, <2>6 DEF IInv
<1>5. CASE TimerHasBeenClosed
  <2>1. /\ reader = "waits" /\ reader' = "reads" /\ awaited' = NoTimer
        /\ channel' = Tail(channel)
        /\ Unlink(Head(channel).tie, [timers EXCEPT ![awaited].state = "done"])
        /\ UNCHANGED <<timedOut, now, phase, calls, reported>>
    BY <1>5 DEF TimerHasBeenClosed
  <2>2. channel # <<>> /\ Head(channel).tie \in DOMAIN list /\ awaited \in DOMAIN timers
    BY <1>0, <2>1 DEF Cancelling
  <2>3. PICK ts : ts = [timers EXCEPT ![awaited].state = "done"]
    OBVIOUS
  <2>4. /\ ts \in Seq(Timers) /\ DOMAIN ts = DOMAIN timers
        /\ \A k \in DOMAIN timers : timers[k].state # "new" => ts[k].state # "new"
    BY <1>0, <2>2, <2>3, TimerSteps
  <2>5. TimersKnown(list, ts)
    BY <1>0, <2>4 DEF TimersKnown
  <2>6. PICK i \in DOMAIN list : i = Head(channel).tie
    BY <2>2
  <2>7. Unlink(i, ts)
    BY <2>1, <2>3, <2>6
  <2>8. /\ ListType(list') /\ ListIsOrdered' /\ first' \in TIE \cup {None}
        /\ timers' \in Seq(Timers) /\ TimersKnown(list', timers')
    BY <1>0, <2>4, <2>5, <2>7, UnlinkKeeps
  <2>9. Tail(channel) \in Seq(Commands) /\ Len(Tail(channel)) =< ChannelSize
    BY <1>0, <2>2, ChannelFacts DEF TimersAssumption
  <2>10. TypeOK'
    BY <1>0, <2>1, <2>8, <2>9 DEF TypeOK, ListType, TimersKnown, NoTimer
  <2> QED BY <2>1, <2>8, <2>10 DEF IInv, Cancelling
<1>6. CASE Tick
  <2>1. now' \in 0 .. MaxTime
    <3>1. MaxTime \in Nat /\ now \in 0 .. MaxTime
      BY <1>0 DEF TypeOK, TimersAssumption
    <3> QED BY <1>6, <3>1 DEF Tick
  <2>2. UNCHANGED <<list, first, timedOut, timers, channel, reader, awaited, phase, calls, reported>>
    BY <1>6 DEF Tick, theList, theReader
  <2> QED BY <1>0, <2>1, <2>2 DEF IInv, TypeOK, ListIsOrdered, Cancelling
<1>7. CASE UNCHANGED vars
  BY <1>0, <1>7 DEF vars, theList, theReader, IInv, TypeOK, ListIsOrdered, Cancelling
<1> QED BY <1>1, <1>2, <1>3, <1>4, <1>5, <1>6, <1>7 DEF Next

\* In the beginning there is nothing.
LEMMA InitKeeps ==
  ASSUME TimersAssumption, Init
  PROVE  IInv
<1>1. DOMAIN list = {} /\ IsFiniteSet(DOMAIN list) /\ list \in [DOMAIN list -> Entries]
  <2>1. DOMAIN list = {} /\ list \in [{} -> Entries]
    BY DEF Init
  <2> QED BY <2>1, FS_EmptySet
<1>2. timers \in Seq(Timers) /\ channel \in Seq(Commands) /\ Len(channel) = 0
  BY EmptySeq DEF Init
<1>3. ChannelSize \in Nat /\ MaxTime \in Nat /\ MaxCalls \in Nat
  BY DEF TimersAssumption
<1> QED BY <1>1, <1>2, <1>3
        DEF Init, IInv, TypeOK, ListIsOrdered, Cancelling, NoTimer, Phases

-----------------------------------------------------------------------------
(* Theorems *)

\* Whatever the execution engine, the timers and the reader do, in whatever
\* order: every step keeps the types, the chain, and what the reader needs.
THEOREM InvariantHolds == Spec => []IInv
<1>1. TimersAssumption
  BY TimersAssumption
<1>2. Init => IInv
  BY <1>1, InitKeeps
<1>3. IInv /\ [Next]_vars => IInv'
  BY <1>1, StepKeeps
<1> QED BY <1>2, <1>3, PTL DEF Spec

\* Every variable has its type; the neighbours of an entry are entries, and the
\* timer of an entry was started.
THEOREM TypeCorrect == Spec => []TypeOK
<1>1. IInv => TypeOK
  BY DEF IInv
<1> QED BY <1>1, InvariantHolds, PTL

\* The list of a track is one chain of all its entries, linked both ways, from
\* the first to the last time-out.
THEOREM OrderedAlways == Spec => []ListIsOrdered
<1>1. IInv => ListIsOrdered
  BY DEF IInv
<1> QED BY <1>1, InvariantHolds, PTL

\* The reader that waits for a timer handles the removal of the first entry, and
\* nothing takes entry, command or timer from it.
THEOREM CancellingAlways == Spec => []Cancelling
<1>1. IInv => Cancelling
  BY DEF IInv
<1> QED BY <1>1, InvariantHolds, PTL

=============================================================================
