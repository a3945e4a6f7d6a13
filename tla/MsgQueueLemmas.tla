---------------------------- MODULE MsgQueueLemmas ----------------------------
(***************************************************************************)
(* The inductive invariant of MsgQueue, the lemmas about its parts, and    *)
(* that senders, timers, signals, and what ends the messages and the       *)
(* senders of a dying port keep it.  The rest of the proof and the theorems*)
(* are in MsgQueueProofs.                                                  *)
(***************************************************************************)
EXTENDS MsgQueue, Integers, Sequences, SequencesExt, SequenceTheorems, FiniteSetTheorems,
        WellFoundedInduction, TLAPS

-----------------------------------------------------------------------------
(* Sequences as queues: what they hold, and that nothing is in one twice.  *)

\* Every set of natural numbers has a least element.
LEMMA Least ==
  ASSUME NEW T \in SUBSET Nat, T # {}
  PROVE  \E m \in T : \A k \in T : m <= k
<1> DEFINE Segments == {0 .. k : k \in T}
<1>1. IsWellFoundedOn(StrictSubsetOrdering(Nat), FiniteSubsetsOf(Nat))
  BY FS_StrictSubsetOrderingWellFounded
<1>2. Segments \subseteq FiniteSubsetsOf(Nat)
  <2>1. \A k \in T : 0 .. k \subseteq Nat /\ IsFiniteSet(0 .. k)
    BY FS_Interval
  <2> QED
    BY <2>1 DEF FiniteSubsetsOf
<1>3. Segments # {}
  OBVIOUS
<1> HIDE DEF Segments
<1>4. PICK s \in Segments :
        \A r \in Segments : ~ (<<r, s>> \in StrictSubsetOrdering(Nat))
  BY <1>1, <1>2, <1>3, WFMin
<1>5. PICK m \in T : s = 0 .. m
  BY DEF Segments
<1>6. ASSUME NEW k \in T, k < m
      PROVE  FALSE
  <2>1. 0 .. k \in Segments
    BY DEF Segments
  <2>2. 0 .. k \subseteq Nat /\ 0 .. m \subseteq Nat
    OBVIOUS
  <2>3. 0 .. k \subseteq 0 .. m /\ 0 .. k # 0 .. m
    <3>1. m \in 0 .. m /\ ~ (m \in 0 .. k)
      BY <1>6
    <3> QED
      BY <1>6, <3>1
  <2>4. <<0 .. k, 0 .. m>> \in StrictSubsetOrdering(Nat)
    BY <2>2, <2>3 DEF StrictSubsetOrdering
  <2> QED
    BY <1>4, <1>5, <2>1, <2>4
<1> QED
  BY <1>5, <1>6

\* Induction on the numbers up to N, for a set.
LEMMA UpTo ==
  ASSUME NEW N \in Nat, NEW A \in SUBSET (0 .. N), 0 \in A,
         \A n \in 0 .. N : n + 1 \in 0 .. N /\ n \in A => n + 1 \in A
  PROVE  A = 0 .. N
<1> SUFFICES ASSUME NEW n \in 0 .. N, n \notin A
             PROVE  FALSE
  OBVIOUS
<1> DEFINE T == {i \in 0 .. N : i \notin A}
<1>1. T \in SUBSET Nat /\ T # {}
  OBVIOUS
<1>2. PICK m \in T : \A k \in T : m <= k
  BY <1>1, Least
<1>3. m # 0 /\ m - 1 \in 0 .. N /\ m - 1 \notin T
  BY <1>2
<1> QED
  BY <1>3

\* What Append does to a queue.
LEMMA QueueAppend ==
  ASSUME NEW S, NEW seq \in Seq(S), NEW x \in S
  PROVE  /\ Append(seq, x) \in Seq(S)
         /\ ToSet(Append(seq, x)) = ToSet(seq) \cup {x}
         /\ IsInjective(seq) /\ x \notin ToSet(seq) => IsInjective(Append(seq, x))
<1>1. /\ Append(seq, x) \in Seq(S)
      /\ Len(Append(seq, x)) = Len(seq) + 1
      /\ \A i \in 1 .. Len(seq) : Append(seq, x)[i] = seq[i]
      /\ Append(seq, x)[Len(seq) + 1] = x
  BY AppendProperties
<1>2. Len(seq) \in Nat /\ DOMAIN seq = 1 .. Len(seq)
      /\ DOMAIN Append(seq, x) = 1 .. Len(seq) + 1
  BY <1>1, LenProperties
<1> QED
  BY <1>1, <1>2 DEF ToSet, IsInjective

\* What Tail leaves of a queue.
LEMMA QueueTail ==
  ASSUME NEW S, NEW seq \in Seq(S), seq # <<>>
  PROVE  /\ Head(seq) \in ToSet(seq) /\ Head(seq) \in S
         /\ Tail(seq) \in Seq(S)
         /\ ToSet(Tail(seq)) \subseteq ToSet(seq)
         /\ IsInjective(seq) => /\ IsInjective(Tail(seq))
                                /\ ToSet(Tail(seq)) = ToSet(seq) \ {Head(seq)}
<1>1. /\ Len(seq) \in Nat \ {0} /\ DOMAIN seq = 1 .. Len(seq)
      /\ Tail(seq) \in Seq(S)
      /\ Len(Tail(seq)) = Len(seq) - 1
      /\ DOMAIN Tail(seq) = 1 .. Len(seq) - 1
      /\ \A i \in 1 .. Len(seq) - 1 : Tail(seq)[i] = seq[i + 1]
  BY HeadTailProperties, LenProperties, EmptySeq
<1>2. Head(seq) = seq[1] /\ seq[1] \in S
  BY <1>1
<1>3. ASSUME IsInjective(seq) PROVE IsInjective(Tail(seq))
  BY <1>1, <1>3 DEF IsInjective
<1>4. ToSet(Tail(seq)) \subseteq ToSet(seq)
  BY <1>1 DEF ToSet
<1>5. \A y \in ToSet(seq) : y = seq[1] \/ y \in ToSet(Tail(seq))
  <2> SUFFICES ASSUME NEW i \in 1 .. Len(seq), seq[i] # seq[1]
               PROVE  seq[i] \in ToSet(Tail(seq))
    BY <1>1 DEF ToSet
  <2>1. i - 1 \in 1 .. Len(seq) - 1 /\ Tail(seq)[i - 1] = seq[i]
    BY <1>1
  <2> QED
    BY <1>1, <2>1 DEF ToSet
<1>6. ASSUME IsInjective(seq) PROVE seq[1] \notin ToSet(Tail(seq))
  BY <1>1, <1>6 DEF ToSet, IsInjective
<1> QED
  BY <1>1, <1>2, <1>3, <1>4, <1>5, <1>6 DEF ToSet

\* What RemoveFirst leaves of a queue.
LEMMA QueueRemove ==
  ASSUME NEW S, NEW seq \in Seq(S), NEW x
  PROVE  /\ RemoveFirst(seq, x) \in Seq(S)
         /\ IsInjective(seq) => /\ IsInjective(RemoveFirst(seq, x))
                                /\ ToSet(RemoveFirst(seq, x)) = ToSet(seq) \ {x}
<1>1. Len(seq) \in Nat /\ DOMAIN seq = 1 .. Len(seq)
  BY LenProperties
<1>2. CASE ~ \E i \in 1 .. Len(seq) : seq[i] = x
  BY <1>1, <1>2 DEF RemoveFirst, ToSet
<1>3. CASE \E i \in 1 .. Len(seq) : seq[i] = x
  <2> DEFINE I == {i \in 1 .. Len(seq) : seq[i] = x}
             n == SelectInSeq(seq, LAMBDA v : v = x)
             a == SubSeq(seq, 1, n - 1)
             b == SubSeq(seq, n + 1, Len(seq))
             r == RemoveFirst(seq, x)
  <2>1. I \in SUBSET Nat /\ I # {}
    BY <1>1, <1>3
  <2>2. n = Min(I)
    BY <2>1 DEF SelectInSeq
  <2>3. n \in I
    BY <2>1, <2>2, Least DEF Min
  <2>4. r = a \o b
    BY <1>3 DEF RemoveFirst, RemoveAt
  <2> HIDE DEF n, r
  <2>5. /\ a \in Seq(S) /\ Len(a) = n - 1
        /\ \A i \in 1 .. n - 1 : a[i] = seq[i]
    <3>1. \A i \in 1 .. n - 1 : seq[i] \in S
      BY <1>1, <2>3, ElementOfSeq
    <3> QED
      BY <1>1, <2>3, <3>1, SubSeqProperties
  <2>6. /\ b \in Seq(S) /\ Len(b) = Len(seq) - n
        /\ \A i \in 1 .. Len(seq) - n : b[i] = seq[n + i]
    <3>1. \A i \in n + 1 .. Len(seq) : seq[i] \in S
      BY <1>1, <2>3, ElementOfSeq
    <3>2. /\ b \in Seq(S)
          /\ Len(b) = IF n + 1 <= Len(seq) THEN Len(seq) - (n + 1) + 1 ELSE 0
          /\ \A i \in 1 .. Len(seq) - (n + 1) + 1 : b[i] = seq[(n + 1) + i - 1]
      <4>1. n + 1 \in Int /\ Len(seq) \in Int
        BY <1>1, <2>3
      <4> QED
        BY <3>1, <4>1, SubSeqProperties
    <3>3. /\ Len(seq) - (n + 1) + 1 = Len(seq) - n
          /\ (IF n + 1 <= Len(seq) THEN Len(seq) - (n + 1) + 1 ELSE 0) = Len(seq) - n
          /\ \A i \in Int : (n + 1) + i - 1 = n + i
      <4>1. n \in Int /\ Len(seq) \in Int /\ n <= Len(seq)
        BY <1>1, <2>3
      <4> QED
        BY <4>1
    <3> HIDE DEF b
    <3>4. Len(b) = Len(seq) - n
      BY <3>2, <3>3
    <3>5. ASSUME NEW i \in 1 .. Len(seq) - n PROVE b[i] = seq[n + i]
      <4>1. i \in Int /\ i \in 1 .. Len(seq) - (n + 1) + 1
        BY <3>3
      <4>2. b[i] = seq[(n + 1) + i - 1] /\ (n + 1) + i - 1 = n + i
        BY <3>2, <3>3, <4>1
      <4> QED
        BY <4>2
    <3> QED
      BY <3>2, <3>4, <3>5
  <2> HIDE DEF a, b
  <2>7. /\ r \in Seq(S) /\ Len(r) = Len(seq) - 1
        /\ \A i \in 1 .. Len(seq) - 1 : r[i] = IF i <= n - 1 THEN a[i] ELSE b[i - (n - 1)]
    <3>1. /\ r \in Seq(S)
          /\ Len(r) = Len(a) + Len(b)
          /\ \A i \in 1 .. Len(a) + Len(b) : r[i] = IF i <= Len(a) THEN a[i] ELSE b[i - Len(a)]
      BY <2>4, <2>5, <2>6, ConcatProperties
    <3>2. Len(a) + Len(b) = Len(seq) - 1
      BY <1>1, <2>3, <2>5, <2>6
    <3> QED
      BY <2>5, <3>1, <3>2
  <2>8. /\ DOMAIN r = 1 .. Len(seq) - 1
        /\ \A i \in 1 .. Len(seq) - 1 : r[i] = IF i < n THEN seq[i] ELSE seq[i + 1]
    <3>1. DOMAIN r = 1 .. Len(seq) - 1
      BY <2>7, LenProperties
    <3>2. ASSUME NEW i \in 1 .. Len(seq) - 1, i < n PROVE r[i] = seq[i]
      BY <1>1, <2>3, <2>5, <2>7, <3>2
    <3>3. ASSUME NEW i \in 1 .. Len(seq) - 1, ~ (i < n) PROVE r[i] = seq[i + 1]
      <4>1. i - (n - 1) \in 1 .. Len(seq) - n /\ n + (i - (n - 1)) = i + 1
        BY <1>1, <2>3, <3>3
      <4> QED
        BY <1>1, <2>3, <2>6, <2>7, <3>3, <4>1
    <3> QED
      BY <3>1, <3>2, <3>3
  <2>9. ASSUME IsInjective(seq) PROVE IsInjective(r)
    <3> SUFFICES ASSUME NEW i \in 1 .. Len(seq) - 1, NEW j \in 1 .. Len(seq) - 1, r[i] = r[j]
                 PROVE  i = j
      BY <2>8 DEF IsInjective
    <3> QED
      BY <1>1, <2>3, <2>8, <2>9 DEF IsInjective
  <2>10. ASSUME IsInjective(seq) PROVE ToSet(r) = ToSet(seq) \ {x}
    <3>1. ASSUME NEW i \in 1 .. Len(seq) - 1 PROVE r[i] \in ToSet(seq) /\ r[i] # x
      BY <1>1, <2>3, <2>8, <2>10 DEF IsInjective, ToSet
    <3>2. ASSUME NEW i \in 1 .. Len(seq), seq[i] # x PROVE seq[i] \in ToSet(r)
      <4>1. CASE i < n
        BY <1>1, <2>3, <2>8, <4>1 DEF ToSet
      <4>2. CASE ~ (i < n)
        <5>1. i - 1 \in 1 .. Len(seq) - 1 /\ r[i - 1] = seq[i]
          BY <1>1, <2>3, <2>8, <3>2, <4>2
        <5> QED
          BY <2>8, <5>1 DEF ToSet
      <4> QED
        BY <4>1, <4>2
    <3> QED
      BY <1>1, <2>8, <3>1, <3>2 DEF ToSet
  <2> QED
    BY <2>7, <2>9, <2>10 DEF r
<1> QED
  BY <1>2, <1>3

\* The empty queue.
LEMMA QueueEmpty ==
  ASSUME NEW S, NEW seq \in Seq(S)
  PROVE  ToSet(seq) = {} <=> seq = <<>>
<1>1. seq # <<>> => ToSet(seq) # {}
  BY QueueTail
<1>2. seq = <<>> => ToSet(seq) = {}
  BY DEF ToSet
<1> QED
  BY <1>1, <1>2

\* The first n of a queue and the rest.
LEMMA QueueSplit ==
  ASSUME NEW S, NEW seq \in Seq(S), NEW n \in 0 .. Len(seq)
  PROVE  LET a == SubSeq(seq, 1, n)
             b == SubSeq(seq, n + 1, Len(seq))
         IN  /\ a \in Seq(S) /\ b \in Seq(S)
             /\ Len(a) = n /\ Len(b) = Len(seq) - n
             /\ \A i \in 1 .. n : a[i] = seq[i]
             /\ \A i \in 1 .. Len(seq) - n : b[i] = seq[n + i]
             /\ ToSet(seq) = ToSet(a) \cup ToSet(b)
             /\ IsInjective(seq) => /\ IsInjective(a) /\ IsInjective(b)
                                    /\ ToSet(a) \cap ToSet(b) = {}
<1> DEFINE a == SubSeq(seq, 1, n)
           b == SubSeq(seq, n + 1, Len(seq))
<1>1. /\ Len(seq) \in Nat /\ DOMAIN seq = 1 .. Len(seq)
      /\ n \in Nat /\ n <= Len(seq) /\ Len(seq) - n \in Nat
  BY LenProperties
<1>2. /\ a \in Seq(S) /\ Len(a) = n
      /\ \A i \in 1 .. n : a[i] = seq[i]
  <2>1. \A i \in 1 .. n : seq[i] \in S
    BY <1>1, ElementOfSeq
  <2> QED
    BY <1>1, <2>1, SubSeqProperties
<1>3. /\ b \in Seq(S) /\ Len(b) = Len(seq) - n
      /\ \A i \in 1 .. Len(seq) - n : b[i] = seq[n + i]
  <2>1. \A i \in n + 1 .. Len(seq) : seq[i] \in S
    BY <1>1, ElementOfSeq
  <2>2. /\ b \in Seq(S)
        /\ Len(b) = IF n + 1 <= Len(seq) THEN Len(seq) - (n + 1) + 1 ELSE 0
        /\ \A i \in 1 .. Len(seq) - (n + 1) + 1 : b[i] = seq[(n + 1) + i - 1]
    <3>1. n + 1 \in Int /\ Len(seq) \in Int
      BY <1>1
    <3> QED
      BY <2>1, <3>1, SubSeqProperties
  <2>3. /\ Len(seq) - (n + 1) + 1 = Len(seq) - n
        /\ (IF n + 1 <= Len(seq) THEN Len(seq) - (n + 1) + 1 ELSE 0) = Len(seq) - n
        /\ \A i \in Int : (n + 1) + i - 1 = n + i
    <3>1. n \in Int /\ Len(seq) \in Int /\ n <= Len(seq)
      BY <1>1
    <3> QED
      BY <3>1
  <2> HIDE DEF b
  <2>4. Len(b) = Len(seq) - n
    BY <2>2, <2>3
  <2>5. ASSUME NEW i \in 1 .. Len(seq) - n PROVE b[i] = seq[n + i]
    <3>1. i \in 1 .. Len(seq) - (n + 1) + 1
      BY <2>3
    <3>2. i \in Int
      OBVIOUS
    <3>3. b[i] = seq[(n + 1) + i - 1] /\ (n + 1) + i - 1 = n + i
      BY <2>2, <2>3, <3>1, <3>2
    <3> QED
      BY <3>3
  <2> QED
    BY <2>2, <2>4, <2>5
<1> HIDE DEF a, b
<1>4. DOMAIN a = 1 .. n /\ DOMAIN b = 1 .. Len(seq) - n
  BY <1>2, <1>3, LenProperties
<1>5. ToSet(seq) = ToSet(a) \cup ToSet(b)
  <2>1. \A i \in 1 .. Len(seq) : i \in 1 .. n \/ (i - n \in 1 .. Len(seq) - n /\ n + (i - n) = i)
    BY <1>1
  <2>2. \A i \in 1 .. n : i \in 1 .. Len(seq)
    BY <1>1
  <2>3. \A i \in 1 .. Len(seq) - n : n + i \in 1 .. Len(seq)
    BY <1>1
  <2>4. ToSet(a) \subseteq ToSet(seq) /\ ToSet(b) \subseteq ToSet(seq)
    <3>1. \A i \in 1 .. n : a[i] \in ToSet(seq)
      BY <1>1, <1>2, <2>2 DEF ToSet
    <3>2. \A i \in 1 .. Len(seq) - n : b[i] \in ToSet(seq)
      BY <1>1, <1>3, <2>3 DEF ToSet
    <3> QED
      BY <1>4, <3>1, <3>2 DEF ToSet
  <2>5. ASSUME NEW i \in 1 .. Len(seq) PROVE seq[i] \in ToSet(a) \cup ToSet(b)
    <3>1. CASE i \in 1 .. n
      BY <1>2, <1>4, <3>1 DEF ToSet
    <3>2. CASE i - n \in 1 .. Len(seq) - n /\ n + (i - n) = i
      <4>1. seq[i] = b[i - n]
        BY <1>3, <3>2
      <4> QED
        BY <1>4, <3>2, <4>1 DEF ToSet
    <3> QED
      BY <2>1, <3>1, <3>2
  <2> QED
    BY <1>1, <2>4, <2>5 DEF ToSet
<1>6. ASSUME IsInjective(seq)
      PROVE  IsInjective(a) /\ IsInjective(b) /\ ToSet(a) \cap ToSet(b) = {}
  <2>1. IsInjective(a)
    BY <1>1, <1>2, <1>4, <1>6 DEF IsInjective
  <2>2. IsInjective(b)
    <3>1. ASSUME NEW i \in 1 .. Len(seq) - n, NEW j \in 1 .. Len(seq) - n, b[i] = b[j]
          PROVE  i = j
      <4>1. seq[n + i] = seq[n + j] /\ n + i \in 1 .. Len(seq) /\ n + j \in 1 .. Len(seq)
        BY <1>1, <1>3, <3>1
      <4>2. n + i = n + j
        BY <1>1, <1>6, <4>1 DEF IsInjective
      <4> QED
        BY <1>1, <4>2
    <3> QED
      BY <1>4, <3>1 DEF IsInjective
  <2>3. ASSUME NEW i \in 1 .. n, NEW j \in 1 .. Len(seq) - n PROVE a[i] # b[j]
    <3>1. a[i] = seq[i] /\ b[j] = seq[n + j]
      BY <1>2, <1>3
    <3>2. i \in 1 .. Len(seq) /\ n + j \in 1 .. Len(seq) /\ i # n + j
      BY <1>1
    <3> QED
      BY <1>1, <1>6, <3>1, <3>2 DEF IsInjective
  <2> QED
    BY <1>4, <2>1, <2>2, <2>3 DEF ToSet
<1> QED
  BY <1>2, <1>3, <1>5, <1>6 DEF a, b

\* What two queues make.
LEMMA QueueConcat ==
  ASSUME NEW S, NEW a \in Seq(S), NEW b \in Seq(S)
  PROVE  /\ a \o b \in Seq(S)
         /\ ToSet(a \o b) = ToSet(a) \cup ToSet(b)
         /\ IsInjective(a) /\ IsInjective(b) /\ ToSet(a) \cap ToSet(b) = {}
                => IsInjective(a \o b)
<1> DEFINE c == a \o b
<1>1. /\ c \in Seq(S)
      /\ Len(c) = Len(a) + Len(b)
      /\ \A i \in 1 .. Len(a) + Len(b) : c[i] = IF i <= Len(a) THEN a[i] ELSE b[i - Len(a)]
  BY ConcatProperties
<1> HIDE DEF c
<1>2. /\ Len(a) \in Nat /\ Len(b) \in Nat
      /\ DOMAIN a = 1 .. Len(a) /\ DOMAIN b = 1 .. Len(b) /\ DOMAIN c = 1 .. Len(a) + Len(b)
  BY <1>1, LenProperties
<1>3. /\ \A i \in 1 .. Len(a) : i \in 1 .. Len(a) + Len(b) /\ c[i] = a[i]
      /\ \A i \in 1 .. Len(b) : /\ Len(a) + i \in 1 .. Len(a) + Len(b)
                                /\ c[Len(a) + i] = b[i]
      /\ \A i \in 1 .. Len(a) + Len(b) :
            i \in 1 .. Len(a) \/ (i - Len(a) \in 1 .. Len(b) /\ Len(a) + (i - Len(a)) = i)
  <2>1. ASSUME NEW i \in 1 .. Len(a) PROVE i \in 1 .. Len(a) + Len(b) /\ c[i] = a[i]
    <3>1. i \in 1 .. Len(a) + Len(b) /\ i <= Len(a)
      BY <1>2
    <3> QED
      BY <1>1, <3>1
  <2>2. ASSUME NEW i \in 1 .. Len(b)
        PROVE  Len(a) + i \in 1 .. Len(a) + Len(b) /\ c[Len(a) + i] = b[i]
    <3>1. /\ Len(a) + i \in 1 .. Len(a) + Len(b) /\ ~ (Len(a) + i <= Len(a))
          /\ (Len(a) + i) - Len(a) = i
      BY <1>2
    <3> QED
      BY <1>1, <3>1
  <2>3. ASSUME NEW i \in 1 .. Len(a) + Len(b)
        PROVE  i \in 1 .. Len(a) \/ (i - Len(a) \in 1 .. Len(b) /\ Len(a) + (i - Len(a)) = i)
    BY <1>2
  <2> QED
    BY <2>1, <2>2, <2>3
<1>4. ToSet(c) = ToSet(a) \cup ToSet(b)
  <2>1. ToSet(a) \subseteq ToSet(c) /\ ToSet(b) \subseteq ToSet(c)
    BY <1>2, <1>3 DEF ToSet
  <2>2. \A i \in 1 .. Len(a) + Len(b) : c[i] \in ToSet(a) \cup ToSet(b)
    BY <1>2, <1>3 DEF ToSet
  <2> QED
    BY <1>2, <2>1, <2>2 DEF ToSet
<1>5. ASSUME IsInjective(a), IsInjective(b), ToSet(a) \cap ToSet(b) = {}
      PROVE  IsInjective(c)
  <2>1. \A i \in 1 .. Len(a), j \in 1 .. Len(b) : a[i] # b[j]
    BY <1>2, <1>5 DEF ToSet
  <2>2. ASSUME NEW i \in 1 .. Len(a) + Len(b), NEW j \in 1 .. Len(a) + Len(b), c[i] = c[j]
        PROVE  i = j
    <3>1. CASE i \in 1 .. Len(a) /\ j \in 1 .. Len(a)
      BY <1>2, <1>3, <1>5, <2>2, <3>1 DEF IsInjective
    <3>2. CASE i \notin 1 .. Len(a) /\ j \notin 1 .. Len(a)
      <4>1. /\ i - Len(a) \in 1 .. Len(b) /\ c[i] = b[i - Len(a)]
            /\ j - Len(a) \in 1 .. Len(b) /\ c[j] = b[j - Len(a)]
        BY <1>3, <3>2
      <4>2. i - Len(a) = j - Len(a)
        BY <1>2, <1>5, <2>2, <4>1 DEF IsInjective
      <4> QED
        BY <1>2, <4>2
    <3>3. CASE i \in 1 .. Len(a) /\ j \notin 1 .. Len(a)
      <4>1. j - Len(a) \in 1 .. Len(b) /\ c[j] = b[j - Len(a)] /\ c[i] = a[i]
        BY <1>3, <3>3
      <4> QED
        BY <2>1, <2>2, <3>3, <4>1
    <3>4. CASE j \in 1 .. Len(a) /\ i \notin 1 .. Len(a)
      <4>1. i - Len(a) \in 1 .. Len(b) /\ c[i] = b[i - Len(a)] /\ c[j] = a[j]
        BY <1>3, <3>4
      <4> QED
        BY <2>1, <2>2, <3>4, <4>1
    <3> QED
      BY <3>1, <3>2, <3>3, <3>4
  <2> QED
    BY <1>2, <2>2 DEF IsInjective
<1> QED
  BY <1>1, <1>4, <1>5 DEF c

\* A function on 0 .. N is defined by its first value and what follows each.
Computes(r, N, V, c, G) ==
    r \in [0 .. N -> V] /\ r[0] = c /\ \A n \in 1 .. N : r[n] = G[n][r[n - 1]]

\* The steps G lead somewhere.
LEMMA Recursion ==
  ASSUME NEW N \in Nat, NEW V, NEW c \in V, NEW G \in [1 .. N -> [V -> V]]
  PROVE  \E r : Computes(r, N, V, c, G)
<1> DEFINE Good(r, m) == r[0] = c /\ \A n \in 1 .. m : r[n] = G[n][r[n - 1]]
           A == {m \in 0 .. N : \E r \in [0 .. N -> V] : Good(r, m)}
<1>1. 0 \in A
  <2> DEFINE r == [n \in 0 .. N |-> c]
  <2>1. r \in [0 .. N -> V] /\ r[0] = c /\ \A n \in 1 .. 0 : FALSE
    OBVIOUS
  <2> HIDE DEF r
  <2>2. Good(r, 0)
    BY <2>1
  <2> HIDE DEF Good
  <2> QED
    BY <2>1, <2>2
<1>2. ASSUME NEW m \in 0 .. N, m + 1 \in 0 .. N, m \in A PROVE m + 1 \in A
  <2>1. PICK r \in [0 .. N -> V] : Good(r, m)
    BY <1>2
  <2> DEFINE v == G[m + 1][r[m]]
             g == [r EXCEPT ![m + 1] = v]
  <2>2. v \in V
    <3>1. m + 1 \in 1 .. N
      BY <1>2
    <3> QED
      BY <3>1
  <2> HIDE DEF v
  <2>3. g \in [0 .. N -> V] /\ g[m + 1] = v /\ \A n \in 0 .. m : g[n] = r[n]
    BY <1>2, <2>2
  <2> HIDE DEF g
  <2>4. ASSUME NEW n \in 1 .. m + 1 PROVE g[n] = G[n][g[n - 1]]
    <3>1. CASE n = m + 1
      <4>1. n - 1 = m /\ m \in 0 .. m
        BY <1>2, <3>1
      <4>2. g[n - 1] = r[m]
        BY <2>3, <4>1
      <4> QED
        BY <2>3, <3>1, <4>2 DEF v
    <3>2. CASE n # m + 1
      <4>1. n \in 1 .. m /\ n \in 0 .. m /\ n - 1 \in 0 .. m
        BY <1>2, <3>2
      <4>2. r[n] = G[n][r[n - 1]]
        BY <2>1, <4>1
      <4> QED
        BY <2>3, <4>1, <4>2
    <3> QED
      BY <3>1, <3>2
  <2>5. g[0] = c
    BY <1>2, <2>1, <2>3
  <2>6. Good(g, m + 1)
    BY <2>4, <2>5
  <2> HIDE DEF Good
  <2> QED
    BY <1>2, <2>3, <2>6
<1> HIDE DEF Good
<1>3. A = 0 .. N
  <2> HIDE DEF A
  <2>1. A \in SUBSET (0 .. N)
    BY DEF A
  <2> QED
    BY <1>1, <1>2, <2>1, UpTo
<1>4. N \in A
  BY <1>3
<1> QED
  BY <1>4 DEF Good, Computes

-----------------------------------------------------------------------------
(* What the theorems assume of the callers.                                *)

\* A thread that sends to a port that may die is not in a hurry: no timer or
\* signal ends its sends to such ports or its receives.  (port_destroy wakes
\* the sleeping senders without a lock, so that one who has given up meanwhile
\* would be woken, as if by RCV_SUCCESS, in another wait.)
NobodyHurries ==
    \A c \in MaySend : c.port \in MayDie =>
        /\ "TIMEOUT" \notin c.option
        /\ c.thread \notin MayInterrupt
        /\ \A d \in MayReceive : d.thread = c.thread => d.timeout # "some"

-----------------------------------------------------------------------------
(* Types.                                                                  *)

Backlogs == {Backlog} \cup {c[2] : c \in MayBacklog}

PortRecord == [in_use: BOOLEAN, receiver: {"task", "transit", "dead"}, count: Int,
               backlog: Backlogs, set: Sets \cup {Nil}, blocked: Seq(Threads)]
SetRecord == [in_use: BOOLEAN, traversal: Ports \cup {Nil}, next: Ports \cup {Nil}]
QueueRecord == [messages: Seq(Msgs), blocked: Seq(Threads), lock: Threads \cup {Nil}]
ThreadRecord ==
    [at: {"idle", "send", "send_wait", "deliver", "go", "reply", "recv_wait",
          "account", "notify"},
     msg: Msgs \cup {Nil}, obj: Queues \cup {Nil}, option: SUBSET Options,
     tout: BOOLEAN, reply: Ports \cup {Nil}, large: BOOLEAN,
     go: Threads \cup {Nil}, wait: BOOLEAN, timer: BOOLEAN,
     ipc_state: {"none", "SEND_IN_PROGRESS", "RCV_IN_PROGRESS", "SUCCESS",
                 "RCV_TOO_LARGE", "RCV_PORT_CHANGE", "RCV_INVALID_PORT"},
     result: {"none", "AWAKENED", "TIMED_OUT", "INTERRUPTED"}]
MessageRecord == [at: {"new", "sending", "live", "received", "returned", "destroyed"},
                  to: Ports \cup {Nil}, sender_entry: BOOLEAN]
DyingRecord == [at: {"no", "drain", "poke", "rights"}, poked: Threads \cup {Nil}]

Typed(P, S, Q, T) ==
    /\ P \in [Ports -> PortRecord]
    /\ S \in [Sets -> SetRecord]
    /\ Q \in [Queues -> QueueRecord]
    /\ T \in [Threads -> ThreadRecord]

TypedMore(M, E, N, D) ==
    /\ M \in [Msgs -> MessageRecord]
    /\ E \in [Ports -> Msgs \cup {Nil, Gone, Deleted}]
    /\ N \in [Msgs -> {"none", "WILL_NOTIFY", "MSG_ACCEPTED"}]
    /\ D \in [Ports -> DyingRecord]

-----------------------------------------------------------------------------
(* The inductive invariant, on the ports P, sets S, queues Q, threads T,   *)
(* messages M, translations E, notices N and deaths D.                     *)

\* What a thread has to do with a message: it brings it to a queue or has it
\* from one, it is about to tell its sender, or it has yet to send it.
Handed(r) == r.at = "recv_wait" /\ r.ipc_state = "SUCCESS"
Carries(r, m) == r.msg = m /\ (r.at \in {"deliver", "account"} \/ Handed(r))
Tells(r, m) == r.msg = m /\ r.at = "notify"
Sends(r, m) == r.msg = m /\ r.at \in {"send", "send_wait"}
Keeps(r, m) == Carries(r, m) \/ Tells(r, m) \/ Sends(r, m)

\* The fields of a thread, where it is.
Local(r) ==
    /\ r.wait => r.at \in {"send_wait", "recv_wait"}
    /\ r.wait => r.ipc_state \in {"SEND_IN_PROGRESS", "RCV_IN_PROGRESS"} \/ Handed(r)
    /\ r.timer => r.wait /\ r.tout
    /\ r.at \in {"send", "send_wait", "deliver", "account", "notify"} \/ Handed(r)
            => r.msg \in Msgs
    /\ r.at \in {"deliver", "recv_wait"} => r.obj \in Queues
    /\ r.at = "reply" => r.obj \in Ports /\ ~r.tout
    /\ r.at = "go" => r.go \in Threads
    /\ r.at = "send_wait" => /\ r.ipc_state \in {"SEND_IN_PROGRESS", "SUCCESS"}
                             /\ "ALWAYS" \notin r.option
    /\ r.at = "recv_wait" => r.ipc_state \notin {"none", "SEND_IN_PROGRESS"}

Locals(T) == \A t \in Threads : Local(T[t])

\* How far a message is, and that one thread has to do with it.
Stages(T, M) ==
    /\ \A t \in Threads, m \in Msgs :
        /\ Sends(T[t], m) => M[m].at = "sending"
        /\ Carries(T[t], m) => M[m].at = "live"
        /\ Tells(T[t], m) => M[m].at = "live" /\ M[m].sender_entry
    /\ \A t, u \in Threads, m \in Msgs : Keeps(T[t], m) /\ Keeps(T[u], m) => t = u

Addressed(M) == \A m \in Msgs : M[m].at # "new" => M[m].to \in Ports

\* A message is in one queue, once: that of its port or of its port's set.
Queued(P, Q, T, M) ==
    /\ \A q \in Queues : IsInjective(Q[q].messages)
    /\ \A q \in Queues, m \in Msgs : m \in ToSet(Q[q].messages) =>
        /\ M[m].at = "live"
        /\ q = M[m].to \/ q = P[M[m].to].set
        /\ \A t \in Threads : ~ Keeps(T[t], m)
        /\ \A q2 \in Queues : m \in ToSet(Q[q2].messages) => q2 = q

CountedIn(Q, T, M, p) ==
    {m \in Msgs : M[m].to = p /\
        \/ \E q \in Queues : m \in ToSet(Q[q].messages)
        \/ \E t \in Threads : Carries(T[t], m)}

\* The count of a port that has died is not brought up to date any more.
CountOf(pr, counted) ==
    /\ pr.count <= Cardinality(Msgs)
    /\ Cardinality(counted) <= pr.count
    /\ pr.in_use => pr.count = Cardinality(counted)

Counts(P, Q, T, M) == \A p \in Ports : CountOf(P[p], CountedIn(Q, T, M, p))

\* Who is on which list.
SleepsAt(r, M, p) ==
    r.at = "send_wait" /\ M[r.msg].to = p /\ r.ipc_state = "SEND_IN_PROGRESS"
ReceivesAt(r, q) == r.at = "recv_wait" /\ r.obj = q /\ r.ipc_state = "RCV_IN_PROGRESS"

SendLists(P, T, M, D) ==
    \A p \in Ports :
        /\ IsInjective(P[p].blocked)
        /\ \A t \in Threads :
            t \in ToSet(P[p].blocked) <=> SleepsAt(T[t], M, p) /\ D[p].poked # t

ReceiveLists(Q, T) ==
    \A q \in Queues :
        /\ IsInjective(Q[q].blocked)
        /\ \A t \in Threads : t \in ToSet(Q[q].blocked) <=> ReceivesAt(T[t], q)

\* The state of a port, its death and its own queue.
PortFits(pr, qr, d, p) ==
    /\ pr.in_use <=> pr.receiver # "dead"
    /\ pr.in_use <=> d.at = "no"
    /\ ~pr.in_use => p \in MayDie
    /\ pr.set # Nil => pr.receiver = "task"
    /\ qr.blocked # <<>> => pr.receiver = "task"
    /\ d.poked # Nil => d.at = "poke"
    /\ pr.blocked # <<>> => /\ d.at # "rights"
                            /\ pr.in_use /\ ~WWA => pr.count > 0

\* A port that is in a set uses the set's queue.
Joined(pr, qr) == pr.set # Nil => qr.blocked = <<>> /\ qr.messages = <<>>

PortsFit(P, Q, D) == \A p \in Ports : PortFits(P[p], Q[p], D[p], p)
AllJoined(P, Q) == \A p \in Ports : Joined(P[p], Q[p])

\* Where set_destroy is.
SetFits(P, sr, qr, s) ==
    /\ sr.in_use => sr.next = Nil
    /\ sr.next = Nil => sr.traversal = Nil
    /\ sr.traversal # Nil => sr.traversal = sr.next /\ P[sr.next].set = s
    /\ sr.next # Nil /\ sr.traversal = Nil => P[sr.next].set # s
    /\ ~sr.in_use /\ sr.next = Nil =>
            qr.blocked = <<>> /\ \A p \in Ports : P[p].set # s

SetsFit(P, S, Q) == \A s \in Sets : SetFits(P, S[s], Q[s], s)

\* The lock of a queue is held by the sender that brings it a message.
Locks(P, Q, T, M) ==
    /\ \A q \in Queues : Q[q].lock # Nil =>
            T[Q[q].lock].at = "deliver" /\ T[Q[q].lock].obj = q
    /\ \A t \in Threads : T[t].at = "deliver" =>
            LET p == M[T[t].msg].to
            IN  /\ Q[T[t].obj].lock = t
                /\ T[t].obj = IF P[p].set # Nil THEN P[p].set ELSE p

\* u is about to wake t, to which it handed a message.
GoesTo(T, u, t) == T[u].at = "go" /\ T[u].go = t

\* Receivers sleep at empty queues; one that was handed a message is woken.
Sleeping(Q, T) ==
    /\ \A q \in Queues : Q[q].blocked = <<>> \/ Q[q].messages = <<>>
    /\ \A t \in Threads : Handed(T[t]) /\ T[t].wait => \E u \in Threads : GoesTo(T, u, t)

\* The translation of a port waits for the message that points to it.
Waited(T, M, m) ==
    /\ M[m].at = "live"
    /\ M[m].sender_entry
    /\ \A t \in Threads : ~ Tells(T[t], m)

Marks(T, M, E) ==
    /\ \A m \in Msgs, p \in Ports : E[p] = m <=> M[m].to = p /\ Waited(T, M, m)
    /\ \A m \in Msgs : M[m].at \in {"new", "sending"} => ~ M[m].sender_entry

\* A promise to notify is kept while the port and the translation last.
Promises(P, T, M, E, N) ==
    \A m \in Msgs : N[m] = "WILL_NOTIFY" =>
        /\ M[m].at # "new" /\ M[m].to \in Ports
        /\ \/ M[m].sender_entry /\ E[M[m].to] = m
           \/ \E t \in Threads : Tells(T[t], m)
           \/ E[M[m].to] \in {Gone, Deleted}
           \/ ~P[M[m].to].in_use

\* Those whom port_destroy may poke are patient.
MayBePoked(t) == \E c \in MaySend : c.thread = t /\ c.port \in MayDie

Calm(r, M, t) ==
    /\ \A m \in Msgs : Sends(r, m) /\ "ALWAYS" \notin r.option /\ M[m].to \in MayDie
            => /\ MayBePoked(t)
               /\ ~r.tout
               /\ r.at = "send_wait" => r.wait \/ r.ipc_state = "SUCCESS"
    /\ MayBePoked(t) /\ r.at = "recv_wait" => ~r.tout
    /\ MayBePoked(t) /\ r.at = "recv_wait" /\ r.ipc_state = "RCV_IN_PROGRESS" => r.wait

Patient(T, M, t) ==
    /\ Calm(T[t], M, t)
    /\ MayBePoked(t) => \A u \in Threads : GoesTo(T, u, t) =>
            /\ Handed(T[t]) /\ T[t].wait
            /\ \A v \in Threads : GoesTo(T, v, t) => v = u

Pokes(T, M, D) ==
    \A p \in Ports : D[p].poked # Nil =>
        SleepsAt(T[D[p].poked], M, p) /\ T[D[p].poked].wait

Patience(T, M, D) == Pokes(T, M, D) /\ \A t \in Threads : Patient(T, M, t)

\* All of it but that members of sets use the sets' queues.
Base(P, S, Q, T, M, E, N, D) ==
    /\ Typed(P, S, Q, T) /\ TypedMore(M, E, N, D)
    /\ Locals(T) /\ Stages(T, M) /\ Addressed(M)
    /\ Queued(P, Q, T, M) /\ Counts(P, Q, T, M)
    /\ SendLists(P, T, M, D) /\ ReceiveLists(Q, T)
    /\ PortsFit(P, Q, D) /\ SetsFit(P, S, Q) /\ Locks(P, Q, T, M)
    /\ Sleeping(Q, T) /\ Marks(T, M, E) /\ Promises(P, T, M, E, N)
    /\ Patience(T, M, D)

Inv(P, S, Q, T, M, E, N, D) == Base(P, S, Q, T, M, E, N, D) /\ AllJoined(P, Q)

IInv == Inv(port, set, queue, thread, kmsg, entry, notice, dying) /\ failed = "no"

-----------------------------------------------------------------------------
(* One thread's step.                                                      *)

\* The types of a thread's fields.
LEMMA ThreadFields ==
  ASSUME NEW r \in ThreadRecord
  PROVE  /\ r.msg \in Msgs \cup {Nil} /\ r.obj \in Queues \cup {Nil}
         /\ r.option \in SUBSET Options /\ r.tout \in BOOLEAN
         /\ r.reply \in Ports \cup {Nil} /\ r.large \in BOOLEAN
         /\ r.go \in Threads \cup {Nil} /\ r.wait \in BOOLEAN /\ r.timer \in BOOLEAN
BY DEF ThreadRecord

\* r2 has to do with the messages that r has to do with, and is where it is.
SameWork(r, r2) ==
    \A m \in Msgs : /\ Sends(r2, m) <=> Sends(r, m)
                    /\ Carries(r2, m) <=> Carries(r, m)
                    /\ Tells(r2, m) <=> Tells(r, m)

SameLists(r, r2, M) ==
    /\ \A p \in Ports : SleepsAt(r2, M, p) <=> SleepsAt(r, M, p)
    /\ \A q \in Queues : ReceivesAt(r2, q) <=> ReceivesAt(r, q)

\* Parts that depend on the threads' work only.
WorkParts(P, Q, T, M, E, N) ==
    /\ Stages(T, M) /\ Queued(P, Q, T, M) /\ Counts(P, Q, T, M)
    /\ Marks(T, M, E) /\ Promises(P, T, M, E, N)

\* Threads whose messages stay as they are disturb no message.
LEMMA SameWorkKeeps ==
  ASSUME NEW P, NEW Q, NEW T, NEW T2, NEW M, NEW E, NEW N,
         WorkParts(P, Q, T, M, E, N),
         \A t \in Threads : SameWork(T[t], T2[t])
  PROVE  WorkParts(P, Q, T2, M, E, N)
<1>1. \A t \in Threads, m \in Msgs :
        /\ Sends(T2[t], m) <=> Sends(T[t], m)
        /\ Carries(T2[t], m) <=> Carries(T[t], m)
        /\ Tells(T2[t], m) <=> Tells(T[t], m)
        /\ Keeps(T2[t], m) <=> Keeps(T[t], m)
  BY DEF SameWork, Keeps
<1>2. Stages(T2, M)
  BY <1>1 DEF WorkParts, Stages
<1>3. Queued(P, Q, T2, M)
  BY <1>1 DEF WorkParts, Queued
<1>4. Counts(P, Q, T2, M)
  <2>1. \A p \in Ports : CountedIn(Q, T2, M, p) = CountedIn(Q, T, M, p)
    BY <1>1 DEF CountedIn
  <2> QED
    BY <2>1 DEF WorkParts, Counts
<1>5. Marks(T2, M, E)
  <2>1. \A m \in Msgs : Waited(T2, M, m) <=> Waited(T, M, m)
    BY <1>1 DEF Waited
  <2> QED
    BY <2>1 DEF WorkParts, Marks
<1>6. Promises(P, T2, M, E, N)
  BY <1>1 DEF WorkParts, Promises
<1> QED
  BY <1>2, <1>3, <1>4, <1>5, <1>6 DEF WorkParts

\* A thread that brings a message to a queue is left alone.
SameDelivery(r, r2) ==
    /\ r2.at = "deliver" <=> r.at = "deliver"
    /\ r.at = "deliver" => r2.obj = r.obj /\ r2.msg = r.msg

\* Nor do they disturb the queues' locks, if they deliver as before.
LEMMA LocksStay ==
  ASSUME NEW P, NEW Q, NEW T, NEW T2, NEW M, NEW S,
         Typed(P, S, Q, T), Locks(P, Q, T, M),
         \A t \in Threads : SameDelivery(T[t], T2[t])
  PROVE  Locks(P, Q, T2, M)
<1>1. \A q \in Queues : Q[q].lock \in Threads \cup {Nil}
  BY DEF Typed, QueueRecord
<1>2. \A q \in Queues : Q[q].lock # Nil =>
            T2[Q[q].lock].at = "deliver" /\ T2[Q[q].lock].obj = q
  BY <1>1 DEF Locks, SameDelivery
<1>3. ASSUME NEW t \in Threads, T2[t].at = "deliver"
      PROVE  LET p == M[T2[t].msg].to
             IN  /\ Q[T2[t].obj].lock = t
                 /\ T2[t].obj = IF P[p].set # Nil THEN P[p].set ELSE p
  BY <1>3 DEF Locks, SameDelivery
<1> QED
  BY <1>2, <1>3 DEF Locks

\* Threads that turn to something else without messages, lists or locks.
LEMMA TurnKeeps ==
  ASSUME NEW P, NEW S, NEW Q, NEW T, NEW M, NEW E, NEW N, NEW D, NEW T2,
         Base(P, S, Q, T, M, E, N, D),
         T2 \in [Threads -> ThreadRecord], Locals(T2),
         \A t \in Threads : /\ SameWork(T[t], T2[t]) /\ SameLists(T[t], T2[t], M)
                            /\ SameDelivery(T[t], T2[t]),
         Sleeping(Q, T2), Patience(T2, M, D)
  PROVE  Base(P, S, Q, T2, M, E, N, D)
<1>1. WorkParts(P, Q, T2, M, E, N)
  BY SameWorkKeeps DEF Base, WorkParts
<1>2. SendLists(P, T2, M, D)
  BY DEF Base, SendLists, SameLists
<1>3. ReceiveLists(Q, T2)
  BY DEF Base, ReceiveLists, SameLists
<1>4. Locks(P, Q, T2, M)
  BY LocksStay DEF Base
<1>5. Typed(P, S, Q, T2)
  BY DEF Base, Typed
<1> QED
  BY <1>1, <1>2, <1>3, <1>4, <1>5 DEF Base, WorkParts

\* What TurnKeeps needs of one thread.
Turns(r, r2, M) ==
    /\ r2 \in ThreadRecord /\ Local(r2)
    /\ SameWork(r, r2) /\ SameLists(r, r2, M) /\ SameDelivery(r, r2)

\* A thread that does nothing changes nothing.
LEMMA Unchanged ==
  ASSUME NEW r, NEW M
  PROVE  SameWork(r, r) /\ SameLists(r, r, M) /\ SameDelivery(r, r)
BY DEF SameWork, SameLists, SameDelivery

\* One thread turns, and nobody was about to wake it.
LEMMA OneTurns ==
  ASSUME NEW P, NEW S, NEW Q, NEW T, NEW M, NEW E, NEW N, NEW D, NEW t \in Threads, NEW r2,
         Base(P, S, Q, T, M, E, N, D), Turns(T[t], r2, M),
         T[t].at # "go", r2.at # "go",
         Handed(r2) /\ r2.wait => Handed(T[t]) /\ T[t].wait,
         \A p \in Ports : D[p].poked # t,
         Calm(r2, M, t), MayBePoked(t) => ~ (Handed(T[t]) /\ T[t].wait)
  PROVE  Base(P, S, Q, [T EXCEPT ![t] = r2], M, E, N, D)
<1> DEFINE T2 == [T EXCEPT ![t] = r2]
<1>1. T \in [Threads -> ThreadRecord]
  BY DEF Base, Typed
<1>2. T2 \in [Threads -> ThreadRecord] /\ T2[t] = r2 /\ \A u \in Threads \ {t} : T2[u] = T[u]
  BY <1>1 DEF Turns
<1>3. Locals(T2)
  BY <1>2 DEF Base, Locals, Turns
<1>4. \A u \in Threads : /\ SameWork(T[u], T2[u]) /\ SameLists(T[u], T2[u], M)
                         /\ SameDelivery(T[u], T2[u])
  BY <1>2, Unchanged DEF Turns
<1>5. \A v : \A u \in Threads : GoesTo(T2, u, v) <=> GoesTo(T, u, v)
  BY <1>2 DEF GoesTo
<1>6. Sleeping(Q, T2)
  <2>1. ASSUME NEW u \in Threads, Handed(T2[u]), T2[u].wait
        PROVE  \E v \in Threads : GoesTo(T2, v, u)
    <3>1. Handed(T[u]) /\ T[u].wait
      BY <1>2, <2>1
    <3> QED
      BY <1>5, <3>1 DEF Base, Sleeping
  <2> QED
    BY <2>1 DEF Base, Sleeping
<1>7. \A u \in Threads : Patient(T2, M, u)
  BY <1>2, <1>5 DEF Base, Patience, Patient
<1>8. Pokes(T2, M, D)
  <2>1. \A p \in Ports : D[p].poked # Nil => D[p].poked \in Threads \ {t}
    BY DEF Base, TypedMore, DyingRecord
  <2> QED
    BY <1>2, <2>1 DEF Base, Patience, Pokes
<1>9. Patience(T2, M, D)
  BY <1>7, <1>8 DEF Patience
<1> HIDE DEF T2
<1>10. Base(P, S, Q, T2, M, E, N, D)
  BY <1>2, <1>3, <1>4, <1>6, <1>9, TurnKeeps
<1> QED
  BY <1>10 DEF T2

\* thread_go, a timer or a signal wakes a thread.
Woken(r, r2) ==
    /\ r2 \in ThreadRecord /\ ~r2.wait /\ ~r2.timer
    /\ r2.at = r.at /\ r2.msg = r.msg /\ r2.obj = r.obj /\ r2.option = r.option
    /\ r2.tout = r.tout /\ r2.reply = r.reply /\ r2.large = r.large /\ r2.go = r.go

\* A thread that was woken by a timer, a signal or thread_go turns.
LEMMA CalmedTurns ==
  ASSUME NEW r, NEW r2, NEW M, Local(r), Woken(r, r2), r2.ipc_state = r.ipc_state
  PROVE  Turns(r, r2, M)
<1>1. r2 \in ThreadRecord
  BY DEF Woken
<1>2. Local(r2)
  BY DEF Local, Woken, Handed
<1>3. SameWork(r, r2)
  BY DEF SameWork, Woken, Sends, Carries, Tells, Handed
<1>4. SameLists(r, r2, M)
  BY DEF SameLists, Woken, SleepsAt, ReceivesAt
<1>5. SameDelivery(r, r2)
  BY DEF SameDelivery, Woken
<1> QED
  BY <1>1, <1>2, <1>3, <1>4, <1>5 DEF Turns

\* A thread that is awake and in nobody's way goes on to a place where it has
\* nothing to do with a message.
LEMMA IdleIs ==
  ASSUME NEW r, r = Idle \/ \E p \in Ports : r = [Idle EXCEPT !.at = "reply", !.obj = p]
  PROVE  /\ r \in ThreadRecord /\ Local(r) /\ r.at \notin {"go", "deliver", "send", "send_wait", "recv_wait"}
         /\ \A m : ~ Sends(r, m) /\ ~ Carries(r, m) /\ ~ Tells(r, m)
         /\ \A M, t : Calm(r, M, t)
         /\ \A M, p : ~ SleepsAt(r, M, p)
         /\ \A q : ~ ReceivesAt(r, q)
         /\ ~ Handed(r)
<1>1. Idle \in ThreadRecord
  BY DEF Idle, ThreadRecord
<1>2. CASE r = Idle
  <2>1. r.at = "idle" /\ ~r.wait /\ ~r.timer /\ ~r.tout
    BY <1>2 DEF Idle
  <2> QED
    BY <1>1, <1>2, <2>1 DEF Local, Sends, Carries, Tells, Calm, SleepsAt, ReceivesAt, Handed
<1>3. CASE \E p \in Ports : r = [Idle EXCEPT !.at = "reply", !.obj = p]
  <2>1. PICK p \in Ports : r = [Idle EXCEPT !.at = "reply", !.obj = p]
    BY <1>3
  <2>2. r \in ThreadRecord
    BY <1>1, <2>1 DEF ThreadRecord, Queues
  <2>3. r.at = "reply" /\ ~r.wait /\ ~r.timer /\ ~r.tout /\ r.obj = p
    BY <2>1 DEF Idle
  <2> QED
    BY <2>2, <2>3 DEF Local, Sends, Carries, Tells, Calm, SleepsAt, ReceivesAt, Handed
<1> QED
  BY <1>2, <1>3

\* Whom port_destroy is about to wake.
LEMMA PokedIs ==
  ASSUME NEW P, NEW S, NEW Q, NEW T, NEW M, NEW E, NEW N, NEW D,
         Base(P, S, Q, T, M, E, N, D),
         NEW p \in Ports, D[p].poked # Nil
  PROVE  LET t == D[p].poked
         IN  /\ t \in Threads /\ p \in MayDie /\ MayBePoked(t)
             /\ SleepsAt(T[t], M, p) /\ T[t].at = "send_wait" /\ T[t].wait /\ ~T[t].tout /\ ~T[t].timer
             /\ \A u \in Threads : ~ GoesTo(T, u, t)
<1> DEFINE t == D[p].poked
<1>1. t \in Threads
  BY DEF Base, TypedMore, DyingRecord
<1>2. PortFits(P[p], Q[p], D[p], p)
  BY DEF Base, PortsFit
<1>3. p \in MayDie
  BY <1>2 DEF PortFits
<1>4. SleepsAt(T[t], M, p) /\ T[t].wait
  BY DEF Base, Patience, Pokes
<1>5. Local(T[t]) /\ Patient(T, M, t)
  BY <1>1 DEF Base, Locals, Patience
<1>6. T[t].msg \in Msgs /\ Sends(T[t], T[t].msg) /\ "ALWAYS" \notin T[t].option
      /\ M[T[t].msg].to = p /\ T[t].at = "send_wait"
  BY <1>4, <1>5 DEF Local, Sends, SleepsAt
<1>7. MayBePoked(t) /\ ~T[t].tout
  BY <1>3, <1>5, <1>6 DEF Patient, Calm
<1>8. ~T[t].timer
  BY <1>5, <1>7 DEF Local
<1>9. ~ Handed(T[t])
  BY <1>6 DEF Handed
<1> HIDE DEF t
<1>10. \A u \in Threads : ~ GoesTo(T, u, t)
  BY <1>5, <1>7, <1>9 DEF Patient
<1> QED
  BY <1>1, <1>3, <1>4, <1>6, <1>7, <1>8, <1>10 DEF t

\* The parts of the inductive invariant.
LEMMA InvParts ==
  ASSUME IInv
  PROVE  /\ Base(port, set, queue, thread, kmsg, entry, notice, dying)
         /\ AllJoined(port, queue) /\ failed = "no"
         /\ thread \in [Threads -> ThreadRecord]
         /\ \A t \in Threads : thread[t] \in ThreadRecord /\ Local(thread[t])
BY DEF IInv, Inv, Base, Typed, Locals

-----------------------------------------------------------------------------
(* Timers, signals and the wakeup after a message was handed over.         *)

\* A woken thread is still in no hurry, if it had no reason to be patient.
LEMMA CalmStays ==
  ASSUME NEW r, NEW r2, NEW M, NEW t, Calm(r, M, t), Woken(r, r2), r2.ipc_state = r.ipc_state,
         r.at = "send_wait" =>
            \A m \in Msgs : Sends(r, m) /\ "ALWAYS" \notin r.option => M[m].to \notin MayDie,
         MayBePoked(t) /\ r.at = "recv_wait" => r.ipc_state # "RCV_IN_PROGRESS"
  PROVE  Calm(r2, M, t)
BY DEF Calm, Woken, Sends

\* clear_wait.
LEMMA WakeIs ==
  ASSUME NEW r \in ThreadRecord, NEW x \in {"none", "AWAKENED", "TIMED_OUT", "INTERRUPTED"}
  PROVE  LET r2 == [r EXCEPT !.wait = FALSE, !.timer = FALSE, !.result = x]
         IN  Woken(r, r2) /\ r2.ipc_state = r.ipc_state
<1> DEFINE r2 == [r EXCEPT !.wait = FALSE, !.timer = FALSE, !.result = x]
<1>1. r2 \in ThreadRecord
  BY DEF ThreadRecord
<1>2. /\ ~r2.wait /\ ~r2.timer /\ r2.ipc_state = r.ipc_state
      /\ r2.at = r.at /\ r2.msg = r.msg /\ r2.obj = r.obj /\ r2.option = r.option
      /\ r2.tout = r.tout /\ r2.reply = r.reply /\ r2.large = r.large /\ r2.go = r.go
  BY DEF ThreadRecord
<1> QED
  BY <1>1, <1>2 DEF Woken

\* thread_go.
LEMMA GoIs ==
  ASSUME NEW r \in ThreadRecord
  PROVE  Woken(r, thread_go(r)) /\ thread_go(r).ipc_state = r.ipc_state
<1> DEFINE q(x) == [r EXCEPT !.wait = FALSE, !.timer = FALSE, !.result = x]
<1>1. r.wait \in BOOLEAN /\ r.result \in {"none", "AWAKENED", "TIMED_OUT", "INTERRUPTED"}
  BY DEF ThreadRecord
<1>2. r.wait => thread_go(r) = q("AWAKENED")
  BY DEF thread_go
<1>3. ~r.wait => thread_go(r) = q(r.result)
  BY DEF thread_go
<1>4. \A x \in {"none", "AWAKENED", "TIMED_OUT", "INTERRUPTED"} :
        Woken(r, q(x)) /\ q(x).ipc_state = r.ipc_state
  BY WakeIs
<1> HIDE DEF q
<1> QED
  BY <1>1, <1>2, <1>3, <1>4

IPCStates == {"none", "SEND_IN_PROGRESS", "RCV_IN_PROGRESS", "SUCCESS",
              "RCV_TOO_LARGE", "RCV_PORT_CHANGE", "RCV_INVALID_PORT"}

\* thread_go by one who has set the IPC state.
LEMMA AwakenedIs ==
  ASSUME NEW r \in ThreadRecord, NEW x \in IPCStates
  PROVE  Woken(r, Awakened(r, x)) /\ Awakened(r, x).ipc_state = x
<1> DEFINE r1 == thread_go(r)
           r2 == [r1 EXCEPT !.ipc_state = x]
<1>1. Woken(r, r1)
  BY GoIs
<1>2. r1 \in ThreadRecord
  BY <1>1 DEF Woken
<1> HIDE DEF r1
<1>3. r2 \in ThreadRecord
  BY <1>2 DEF ThreadRecord, IPCStates
<1>4. /\ r2.wait = r1.wait /\ r2.timer = r1.timer /\ r2.ipc_state = x
      /\ r2.at = r1.at /\ r2.msg = r1.msg /\ r2.obj = r1.obj /\ r2.option = r1.option
      /\ r2.tout = r1.tout /\ r2.reply = r1.reply /\ r2.large = r1.large /\ r2.go = r1.go
  BY <1>2 DEF ThreadRecord
<1>5. Woken(r, r2)
  BY <1>1, <1>3, <1>4 DEF Woken
<1> QED
  BY <1>4, <1>5 DEF Awakened, r1

\* The timer of a wait goes off.
LEMMA TimeoutKeeps ==
  ASSUME IInv, NobodyHurries, NEW t \in Threads, Timeout(t)
  PROVE  IInv'
<1> DEFINE r == thread[t]
           r2 == [r EXCEPT !.wait = FALSE, !.timer = FALSE, !.result = "TIMED_OUT"]
<1>1. Base(port, set, queue, thread, kmsg, entry, notice, dying)
  BY InvParts
<1>2. r \in ThreadRecord /\ Local(r) /\ Patient(thread, kmsg, t)
  BY <1>1, InvParts DEF Base, Patience
<1>3. r.timer /\ r.tout /\ r.wait /\ r.at \in {"send_wait", "recv_wait"}
  BY <1>2 DEF Timeout, Local
<1>4. Woken(r, r2) /\ r2.ipc_state = r.ipc_state
  BY <1>2, WakeIs
<1>5. thread' = [thread EXCEPT ![t] = r2]
  BY <1>2, InvParts DEF Timeout
<1>6. MayBePoked(t) => ~ Handed(r)
  BY <1>2, <1>3 DEF Patient, Calm, Handed
<1>7. \A p \in Ports : dying[p].poked # t
  BY <1>1, <1>3, PokedIs, Names
<1>8. Calm(r2, kmsg, t)
  <2>1. \A m \in Msgs : Sends(r, m) /\ "ALWAYS" \notin r.option => kmsg[m].to \notin MayDie
    BY <1>2, <1>3 DEF Patient, Calm
  <2>2. ~ (MayBePoked(t) /\ r.at = "recv_wait")
    BY <1>2, <1>3 DEF Patient, Calm
  <2> QED
    BY <1>2, <1>4, <2>1, <2>2, CalmStays DEF Patient
<1>9. Turns(r, r2, kmsg) /\ r.at # "go" /\ r2.at # "go" /\ ~r2.wait
  BY <1>2, <1>3, <1>4, CalmedTurns DEF Woken
<1> HIDE DEF r2
<1>10. Base(port, set, queue, thread', kmsg, entry, notice, dying)
  BY <1>1, <1>5, <1>6, <1>7, <1>8, <1>9, OneTurns
<1> QED
  BY <1>10, InvParts DEF IInv, Inv, Timeout

\* A signal ends a wait.
LEMMA InterruptKeeps ==
  ASSUME IInv, NobodyHurries, NEW t \in Threads, Interrupt(t)
  PROVE  IInv'
<1> DEFINE r == thread[t]
           r2 == [r EXCEPT !.wait = FALSE, !.timer = FALSE, !.result = "INTERRUPTED"]
<1>1. Base(port, set, queue, thread, kmsg, entry, notice, dying)
  BY InvParts
<1>2. r \in ThreadRecord /\ Local(r) /\ Patient(thread, kmsg, t)
  BY <1>1, InvParts DEF Base, Patience
<1>3. r.wait /\ r.at \in {"send_wait", "recv_wait"}
  BY <1>2 DEF Interrupt, Local
<1>4. Woken(r, r2) /\ r2.ipc_state = r.ipc_state
  BY <1>2, WakeIs
<1>5. thread' = [thread EXCEPT ![t] = r2]
  BY <1>2, InvParts DEF Interrupt
<1>6. ~ MayBePoked(t)
  BY DEF MayBePoked, NobodyHurries, Interrupt
<1>7. \A p \in Ports : dying[p].poked # t
  BY <1>1, <1>6, PokedIs, Names
<1>8. Calm(r2, kmsg, t)
  <2>1. \A m \in Msgs : Sends(r, m) /\ "ALWAYS" \notin r.option => kmsg[m].to \notin MayDie
    BY <1>2, <1>6 DEF Patient, Calm
  <2> QED
    BY <1>2, <1>4, <1>6, <2>1, CalmStays DEF Patient
<1>9. Turns(r, r2, kmsg) /\ r.at # "go" /\ r2.at # "go" /\ ~r2.wait
  BY <1>2, <1>3, <1>4, CalmedTurns DEF Woken
<1> HIDE DEF r2
<1>10. Base(port, set, queue, thread', kmsg, entry, notice, dying)
  BY <1>1, <1>5, <1>6, <1>7, <1>8, <1>9, OneTurns
<1> QED
  BY <1>10, InvParts DEF IInv, Inv, Interrupt

-----------------------------------------------------------------------------
(* Messages that move, and one thread that has to do with one message.     *)

\* A message counts for its port.
InTransit(Q, T, m) ==
    \/ \E q \in Queues : m \in ToSet(Q[q].messages)
    \/ \E t \in Threads : Carries(T[t], m)

\* Nothing is in two places.
Apart(P, Q, T, M) ==
    /\ \A q \in Queues : IsInjective(Q[q].messages)
    /\ \A q \in Queues, m \in Msgs : m \in ToSet(Q[q].messages) =>
        /\ q = M[m].to \/ q = P[M[m].to].set
        /\ \A t \in Threads : ~ Keeps(T[t], m)
        /\ \A q2 \in Queues : m \in ToSet(Q[q2].messages) => q2 = q
    /\ \A t, u \in Threads, m \in Msgs : Keeps(T[t], m) /\ Keeps(T[u], m) => t = u

\* Messages move between the queues and the threads that carry them.
LEMMA WorkMoves ==
  ASSUME NEW P, NEW Q, NEW T, NEW M, NEW E, NEW N, NEW P2, NEW Q2, NEW T2,
         WorkParts(P, Q, T, M, E, N), Apart(P2, Q2, T2, M), Addressed(M),
         \A p \in Ports : P2[p].count = P[p].count /\ P2[p].in_use = P[p].in_use,
         \A m \in Msgs : /\ InTransit(Q2, T2, m) <=> InTransit(Q, T, m)
                         /\ \A t \in Threads : /\ Sends(T2[t], m) <=> Sends(T[t], m)
                                               /\ Tells(T2[t], m) <=> Tells(T[t], m)
  PROVE  WorkParts(P2, Q2, T2, M, E, N)
<1>1. \A m \in Msgs : InTransit(Q2, T2, m) => M[m].at = "live"
  BY DEF WorkParts, InTransit, Queued, Stages
<1>2. Stages(T2, M)
  BY <1>1 DEF WorkParts, InTransit, Stages, Apart
<1>3. Queued(P2, Q2, T2, M)
  BY <1>1 DEF Queued, Apart, InTransit
<1>4. Counts(P2, Q2, T2, M)
  <2>1. \A p \in Ports : CountedIn(Q2, T2, M, p) = CountedIn(Q, T, M, p)
    BY DEF CountedIn, InTransit
  <2> QED
    BY <2>1 DEF WorkParts, Counts, CountOf
<1>5. Marks(T2, M, E)
  <2>1. \A m \in Msgs : Waited(T2, M, m) <=> Waited(T, M, m)
    BY DEF Waited
  <2> QED
    BY <2>1 DEF WorkParts, Marks
<1>6. Promises(P2, T2, M, E, N)
  BY DEF WorkParts, Promises
<1> QED
  BY <1>2, <1>3, <1>4, <1>5, <1>6 DEF WorkParts

\* The threads' and the queues' messages are apart.
LEMMA ApartIs ==
  ASSUME NEW P, NEW Q, NEW T, NEW M, NEW E, NEW N, WorkParts(P, Q, T, M, E, N)
  PROVE  Apart(P, Q, T, M)
BY DEF WorkParts, Stages, Queued, Apart

\* A thread has to do with one message at a time.
LEMMA OneMessage ==
  ASSUME NEW r, NEW m
  PROVE  r.msg = m => \A m2 : m2 # m => ~ Keeps(r, m2)
BY DEF Keeps, Carries, Tells, Sends

\* Others(T, T2, t): all but t are as they were.
Others(T, T2, t) == \A u \in Threads \ {t} : T2[u] = T[u]

\* m is in no queue and with no thread but t.
Alone(Q, T, m, t) ==
    /\ \A q \in Queues : m \notin ToSet(Q[q].messages)
    /\ \A u \in Threads \ {t} : ~ Keeps(T[u], m)

\* A message that a thread has to do with, or that is not under way, is nowhere else.
LEMMA AloneIs ==
  ASSUME NEW P, NEW Q, NEW T, NEW M, NEW E, NEW N, NEW t \in Threads, NEW m \in Msgs,
         WorkParts(P, Q, T, M, E, N),
         Keeps(T[t], m) \/ M[m].at \notin {"live", "sending"}
  PROVE  Alone(Q, T, m, t)
BY DEF WorkParts, Stages, Queued, Alone, Keeps

\* t goes on with m, from r to r2.
OneWorks(T, T2, t, m) ==
    /\ Others(T, T2, t)
    /\ \A m2 \in Msgs \ {m} : ~ Keeps(T[t], m2) /\ ~ Keeps(T2[t], m2)

OnlyMessage(M, M2, m) == \A m2 \in Msgs \ {m} : M2[m2] = M[m2]

WorkedOn(P2, Q, T, T2, M, M2, t, m) ==
    /\ Stages(T2, M2) /\ Queued(P2, Q, T2, M2)
    /\ \A p \in Ports :
            /\ M2[m].to # p \/ ~ Carries(T2[t], m) =>
                    CountedIn(Q, T2, M2, p) = CountedIn(Q, T, M, p) \ {m}
            /\ M2[m].to = p /\ Carries(T2[t], m) =>
                    CountedIn(Q, T2, M2, p) = CountedIn(Q, T, M, p) \cup {m}

\* One thread and one message that is with nobody else act.
LEMMA WorkOne ==
  ASSUME NEW P, NEW Q, NEW T, NEW T2, NEW M, NEW M2, NEW P2, NEW t \in Threads, NEW m \in Msgs,
         Stages(T, M), Queued(P, Q, T, M),
         Alone(Q, T, m, t), OneWorks(T, T2, t, m), OnlyMessage(M, M2, m),
         \A p \in Ports : P2[p].set = P[p].set, Addressed(M),
         Sends(T2[t], m) => M2[m].at = "sending",
         Carries(T2[t], m) => M2[m].at = "live",
         Tells(T2[t], m) => M2[m].at = "live" /\ M2[m].sender_entry
  PROVE  WorkedOn(P2, Q, T, T2, M, M2, t, m)
<1>1. \A u \in Threads, m2 \in Msgs \ {m} :
            /\ Sends(T2[u], m2) <=> Sends(T[u], m2)
            /\ Carries(T2[u], m2) <=> Carries(T[u], m2)
            /\ Tells(T2[u], m2) <=> Tells(T[u], m2)
            /\ Keeps(T2[u], m2) <=> Keeps(T[u], m2)
  BY DEF OneWorks, Others, Keeps
<1>2. \A u \in Threads \ {t} : ~ Keeps(T2[u], m)
  BY DEF OneWorks, Others, Alone
<1>3. \A u \in Threads \ {t} : ~ Sends(T2[u], m) /\ ~ Carries(T2[u], m) /\ ~ Tells(T2[u], m)
  BY <1>2 DEF Keeps
<1>4. Stages(T2, M2)
  <2>1. ASSUME NEW u \in Threads, NEW m2 \in Msgs
        PROVE  /\ Sends(T2[u], m2) => M2[m2].at = "sending"
               /\ Carries(T2[u], m2) => M2[m2].at = "live"
               /\ Tells(T2[u], m2) => M2[m2].at = "live" /\ M2[m2].sender_entry
    <3>1. CASE m2 = m
      BY <1>3, <3>1
    <3>2. CASE m2 # m
      BY <1>1, <3>2 DEF Stages, OnlyMessage
    <3> QED
      BY <3>1, <3>2
  <2>2. ASSUME NEW u \in Threads, NEW v \in Threads, NEW m2 \in Msgs,
               Keeps(T2[u], m2), Keeps(T2[v], m2)
        PROVE  u = v
    BY <1>1, <1>2, <2>2 DEF Stages
  <2> QED
    BY <2>1, <2>2 DEF Stages
<1>5. Queued(P2, Q, T2, M2)
  <2>1. ASSUME NEW q \in Queues, NEW m2 \in Msgs, m2 \in ToSet(Q[q].messages)
        PROVE  /\ M2[m2].at = "live"
               /\ q = M2[m2].to \/ q = P2[M2[m2].to].set
               /\ \A u \in Threads : ~ Keeps(T2[u], m2)
               /\ \A q2 \in Queues : m2 \in ToSet(Q[q2].messages) => q2 = q
    <3>1. m2 # m /\ M2[m2] = M[m2]
      BY <2>1 DEF Alone, OnlyMessage
    <3>2. M[m2].at = "live" /\ M[m2].to \in Ports
      BY <2>1 DEF Queued, Addressed
    <3> QED
      BY <1>1, <2>1, <3>1, <3>2 DEF Queued
  <2> QED
    BY <2>1 DEF Queued
<1>6. ASSUME NEW p \in Ports, NEW m2 \in Msgs \ {m}
      PROVE  m2 \in CountedIn(Q, T2, M2, p) <=> m2 \in CountedIn(Q, T, M, p)
  BY <1>1 DEF CountedIn, OnlyMessage
<1>7. ASSUME NEW p \in Ports
      PROVE  m \in CountedIn(Q, T2, M2, p) <=> M2[m].to = p /\ Carries(T2[t], m)
  BY <1>3 DEF CountedIn, Alone
<1>8. \A p \in Ports : CountedIn(Q, T2, M2, p) \subseteq Msgs /\ CountedIn(Q, T, M, p) \subseteq Msgs
  BY DEF CountedIn
<1> QED
  BY <1>4, <1>5, <1>6, <1>7, <1>8 DEF WorkedOn

\* The counts of the other ports, and of this one.
LEMMA CountSets ==
  ASSUME NEW Q, NEW T, NEW M, NEW p \in Ports, NEW m \in Msgs
  PROVE  LET c == CountedIn(Q, T, M, p)
         IN  /\ Cardinality(Msgs) \in Nat /\ Cardinality(c) \in Nat
             /\ Cardinality(c) <= Cardinality(Msgs)
             /\ Cardinality(c \cup {m}) <= Cardinality(Msgs)
             /\ m \notin c => Cardinality(c \cup {m}) = Cardinality(c) + 1 /\ c \ {m} = c
             /\ m \in c => Cardinality(c \ {m}) = Cardinality(c) - 1 /\ c \cup {m} = c
<1> DEFINE c == CountedIn(Q, T, M, p)
<1>1. c \subseteq Msgs /\ IsFiniteSet(Msgs)
  BY Names DEF CountedIn
<1> HIDE DEF c
<1>2. IsFiniteSet(c) /\ c \cup {m} \subseteq Msgs
  BY <1>1, FS_Subset
<1>3. /\ Cardinality(Msgs) \in Nat /\ Cardinality(c) \in Nat
      /\ Cardinality(c) <= Cardinality(Msgs) /\ Cardinality(c \cup {m}) <= Cardinality(Msgs)
  BY <1>1, <1>2, FS_Subset, FS_CardinalityType
<1>4. m \notin c => Cardinality(c \cup {m}) = Cardinality(c) + 1
  BY <1>2, FS_AddElement
<1>5. m \in c => Cardinality(c \ {m}) = Cardinality(c) - 1
  BY <1>2, FS_RemoveElement
<1> QED
  BY <1>3, <1>4, <1>5 DEF c

\* The marks and promises of the other messages are what they were.
LEMMA MarksOne ==
  ASSUME NEW Q, NEW T, NEW T2, NEW M, NEW M2, NEW E, NEW E2, NEW t \in Threads, NEW m \in Msgs,
         Marks(T, M, E), Alone(Q, T, m, t), OneWorks(T, T2, t, m), OnlyMessage(M, M2, m),
         \A p \in Ports, m2 \in Msgs \ {m} : E2[p] = m2 <=> E[p] = m2,
         \A p \in Ports : E2[p] = m <=> M2[m].to = p /\ Waited(T2, M2, m),
         M2[m].at \in {"new", "sending"} => ~ M2[m].sender_entry
  PROVE  Marks(T2, M2, E2)
<1>1. \A u \in Threads, m2 \in Msgs \ {m} : Tells(T2[u], m2) <=> Tells(T[u], m2)
  BY DEF OneWorks, Others, Keeps
<1>2. \A m2 \in Msgs \ {m} : Waited(T2, M2, m2) <=> Waited(T, M, m2)
  BY <1>1 DEF Waited, OnlyMessage
<1> QED
  BY <1>2 DEF Marks, OnlyMessage

Promised(P, r, M, E, N, m) ==
    N[m] = "WILL_NOTIFY" =>
        /\ M[m].at # "new" /\ M[m].to \in Ports
        /\ \/ M[m].sender_entry /\ E[M[m].to] = m
           \/ Tells(r, m)
           \/ E[M[m].to] \in {Gone, Deleted}
           \/ ~P[M[m].to].in_use

\* Nothing that matters to the promise of another message has changed.
SamePromises(P, P2, E, E2, N, N2, m) ==
    /\ \A p \in Ports : P2[p].in_use = P[p].in_use
    /\ \A p \in Ports, m2 \in Msgs \ {m} : E2[p] = m2 <=> E[p] = m2
    /\ \A p \in Ports : E[p] \in {Gone, Deleted} => E2[p] \in {Gone, Deleted}
    /\ \A m2 \in Msgs \ {m} : N2[m2] = N[m2]

\* The promises to notify are kept if that of the message concerned is.
LEMMA PromisesOne ==
  ASSUME NEW P, NEW P2, NEW T, NEW T2, NEW M, NEW M2, NEW E, NEW E2, NEW N, NEW N2,
         NEW t \in Threads, NEW m \in Msgs,
         Promises(P, T, M, E, N), OneWorks(T, T2, t, m), OnlyMessage(M, M2, m),
         SamePromises(P, P2, E, E2, N, N2, m),
         Promised(P2, T2[t], M2, E2, N2, m)
  PROVE  Promises(P2, T2, M2, E2, N2)
<1>1. \A u \in Threads, m2 \in Msgs \ {m} : Tells(T2[u], m2) <=> Tells(T[u], m2)
  BY DEF OneWorks, Others, Keeps
<1>2. ASSUME NEW m2 \in Msgs \ {m}, N2[m2] = "WILL_NOTIFY"
      PROVE  /\ M2[m2].at # "new" /\ M2[m2].to \in Ports
             /\ \/ M2[m2].sender_entry /\ E2[M2[m2].to] = m2
                \/ \E u \in Threads : Tells(T2[u], m2)
                \/ E2[M2[m2].to] \in {Gone, Deleted}
                \/ ~P2[M2[m2].to].in_use
  <2>1. N[m2] = "WILL_NOTIFY" /\ M2[m2] = M[m2]
    BY <1>2 DEF OnlyMessage, SamePromises
  <2>2. M[m2].at # "new" /\ M[m2].to \in Ports
    BY <2>1 DEF Promises
  <2> QED
    BY <1>1, <2>1, <2>2 DEF Promises, SamePromises
<1> QED
  BY <1>2 DEF Promises, Promised

\* A message keeps its port.
SameTo(M, M2) == \A m \in Msgs : M[m].at # "new" => M2[m].to = M[m].to

\* What the list of a port's sleepers, and the wakeup of port_destroy, know of
\* a thread stays as it is.
LEMMA SleeperStays ==
  ASSUME NEW r, NEW M, NEW M2, Local(r), SameTo(M, M2),
         \A m \in Msgs : Sends(r, m) => M[m].at = "sending"
  PROVE  /\ \A p \in Ports : SleepsAt(r, M2, p) <=> SleepsAt(r, M, p)
         /\ \A t : Calm(r, M, t) => Calm(r, M2, t)
<1>1. \A m \in Msgs : Sends(r, m) => M2[m].to = M[m].to
  BY DEF SameTo
<1>2. r.at = "send_wait" => r.msg \in Msgs /\ Sends(r, r.msg)
  BY DEF Local, Sends
<1> QED
  BY <1>1, <1>2 DEF SleepsAt, Calm

Changed(f, f2, x, v) == f2 = [f EXCEPT ![x] = v]

\* One thread turns from what it was to r2.
Acted(T, T2, M, M2, D, t, r2) ==
    /\ T2 \in [Threads -> ThreadRecord] /\ T2[t] = r2 /\ Others(T, T2, t)
    /\ Locals(T2) /\ Patience(T2, M2, D)
    /\ \A u \in Threads : Handed(T2[u]) /\ T2[u].wait => \E v \in Threads : GoesTo(T2, v, u)
    /\ \A u \in Threads \ {t} : \A p \in Ports : SleepsAt(T2[u], M2, p) <=> SleepsAt(T[u], M, p)

\* It is nobody's business that t turns from r to r2.
MayAct(r, r2, M2, D, t) ==
    /\ r2 \in ThreadRecord /\ Local(r2)
    /\ r.at # "go" /\ r2.at # "go"
    /\ Handed(r2) /\ r2.wait => Handed(r) /\ r.wait
    /\ \A p \in Ports : D[p].poked # t
    /\ Calm(r2, M2, t)
    /\ MayBePoked(t) => ~ (Handed(r) /\ r.wait)

\* One thread acts: who is patient, who sleeps and who is woken.
LEMMA OneActs ==
  ASSUME NEW P, NEW S, NEW Q, NEW T, NEW M, NEW E, NEW N, NEW D, NEW M2, NEW T2,
         NEW t \in Threads, NEW r2,
         Base(P, S, Q, T, M, E, N, D), Changed(T, T2, t, r2), SameTo(M, M2),
         MayAct(T[t], r2, M2, D, t)
  PROVE  Acted(T, T2, M, M2, D, t, r2)
<1>1. T \in [Threads -> ThreadRecord]
  BY DEF Base, Typed
<1>2. T2 \in [Threads -> ThreadRecord] /\ T2[t] = r2 /\ \A u \in Threads \ {t} : T2[u] = T[u]
  BY <1>1 DEF Changed, MayAct
<1>3. Locals(T2)
  BY <1>2 DEF Base, Locals, MayAct
<1>4. \A v : \A u \in Threads : GoesTo(T2, u, v) <=> GoesTo(T, u, v)
  BY <1>2 DEF GoesTo, MayAct
<1>5. ASSUME NEW u \in Threads, Handed(T2[u]), T2[u].wait
      PROVE  \E v \in Threads : GoesTo(T2, v, u)
  <2>1. Handed(T[u]) /\ T[u].wait
    BY <1>2, <1>5 DEF MayAct
  <2> QED
    BY <1>4, <2>1 DEF Base, Sleeping
<1>6. \A u \in Threads : /\ Local(T[u])
                         /\ \A m \in Msgs : Sends(T[u], m) => M[m].at = "sending"
  BY DEF Base, Locals, Stages
<1>7. \A u \in Threads : /\ \A p \in Ports : SleepsAt(T[u], M2, p) <=> SleepsAt(T[u], M, p)
                         /\ Calm(T[u], M, u) => Calm(T[u], M2, u)
  BY <1>6, SleeperStays
<1>8. \A u \in Threads : Patient(T2, M2, u)
  BY <1>2, <1>4, <1>7 DEF Base, Patience, Patient, MayAct
<1>9. Pokes(T2, M2, D)
  <2>1. \A p \in Ports : D[p].poked # Nil => D[p].poked \in Threads \ {t}
    BY DEF Base, TypedMore, DyingRecord, MayAct
  <2> QED
    BY <1>2, <1>7, <2>1 DEF Base, Patience, Pokes
<1> QED
  BY <1>2, <1>3, <1>5, <1>7, <1>8, <1>9 DEF Patience, Others, Acted

\* The locks, when neither the ports' sets nor a thread that delivers change.
LEMMA LocksOne ==
  ASSUME NEW P, NEW S, NEW Q, NEW T, NEW M, NEW E, NEW N, NEW D, NEW P2, NEW Q2, NEW T2, NEW M2,
         NEW t \in Threads,
         Base(P, S, Q, T, M, E, N, D), Others(T, T2, t), SameTo(M, M2),
         \A p \in Ports : P2[p].set = P[p].set, \A q \in Queues : Q2[q].lock = Q[q].lock,
         T[t].at # "deliver", T2[t].at # "deliver"
  PROVE  Locks(P2, Q2, T2, M2)
<1>1. \A q \in Queues : Q[q].lock \in Threads \cup {Nil}
  BY DEF Base, Typed, QueueRecord
<1>2. \A q \in Queues : Q2[q].lock # Nil =>
            T2[Q2[q].lock].at = "deliver" /\ T2[Q2[q].lock].obj = q
  BY <1>1 DEF Base, Locks, Others
<1>3. ASSUME NEW u \in Threads, T2[u].at = "deliver"
      PROVE  LET p == M2[T2[u].msg].to
             IN  /\ Q2[T2[u].obj].lock = u
                 /\ T2[u].obj = IF P2[p].set # Nil THEN P2[p].set ELSE p
  <2>1. T2[u] = T[u]
    BY <1>3 DEF Others
  <2>2. T[u].msg \in Msgs /\ T[u].obj \in Queues /\ Carries(T[u], T[u].msg)
    BY <1>3, <2>1 DEF Base, Locals, Local, Carries
  <2>3. M[T[u].msg].at = "live"
    BY <2>2 DEF Base, Stages
  <2>4. M2[T[u].msg].to = M[T[u].msg].to /\ M[T[u].msg].to \in Ports
    BY <2>2, <2>3 DEF Base, SameTo, Addressed
  <2> QED
    BY <1>3, <2>1, <2>2, <2>4 DEF Base, Locks
<1> QED
  BY <1>2, <1>3 DEF Locks

\* A thread that is on no list and carries no message begins to send, or is
\* done with its message.
Elsewhere(r) == r.at \notin {"go", "deliver", "send_wait", "recv_wait", "account"}

\* What a thread that is elsewhere is not.
LEMMA ElsewhereIs ==
  ASSUME NEW r, Elsewhere(r)
  PROVE  /\ ~ Handed(r) /\ r.at # "go" /\ r.at # "deliver"
         /\ \A m : ~ Carries(r, m)
         /\ \A M, p : ~ SleepsAt(r, M, p)
         /\ \A q : ~ ReceivesAt(r, q)
BY DEF Elsewhere, Handed, Carries, SleepsAt, ReceivesAt

\* A thread begins or ends its work with a message.
LEMMA BeginsOrEnds ==
  ASSUME NEW P, NEW S, NEW Q, NEW T, NEW M, NEW E, NEW N, NEW D,
         NEW t \in Threads, NEW m \in Msgs, NEW r2 \in ThreadRecord, NEW mr \in MessageRecord,
         NEW N2, NEW T2, NEW M2,
         Base(P, S, Q, T, M, E, N, D), Changed(T, T2, t, r2), Changed(M, M2, m, mr),
         Local(r2), Elsewhere(T[t]), Elsewhere(r2), Calm(r2, M2, t),
         Alone(Q, T, m, t), OneWorks(T, T2, t, m),
         Sends(r2, m) => mr.at = "sending", ~ Tells(r2, m), ~ Waited(T, M, m),
         mr.at \in {"sending", "returned", "received"}, mr.to \in Ports,
         M[m].at # "new" => mr.to = M[m].to,
         mr.at = "sending" => ~ mr.sender_entry,
         N2 \in [Msgs -> {"none", "WILL_NOTIFY", "MSG_ACCEPTED"}],
         \A m2 \in Msgs \ {m} : N2[m2] = N[m2],
         N2[m] = "WILL_NOTIFY" => N[m] = "WILL_NOTIFY" /\ ~ Tells(T[t], m)
  PROVE  Base(P, S, Q, T2, M2, E, N2, D)
<1>1. M \in [Msgs -> MessageRecord]
  BY DEF Base, TypedMore
<1>2. M2 \in [Msgs -> MessageRecord] /\ M2[m] = mr /\ OnlyMessage(M, M2, m)
  BY <1>1 DEF OnlyMessage, Changed
<1>3. SameTo(M, M2) /\ Addressed(M2)
  BY <1>2 DEF Base, SameTo, Addressed, OnlyMessage
<1>4. /\ T[t].at # "go" /\ r2.at # "go" /\ T[t].at # "deliver" /\ r2.at # "deliver"
      /\ ~ Handed(T[t]) /\ ~ Handed(r2) /\ ~ Carries(T[t], m) /\ ~ Carries(r2, m)
      /\ \A p : ~ SleepsAt(T[t], M, p) /\ ~ SleepsAt(r2, M2, p)
      /\ \A q : ~ ReceivesAt(T[t], q) /\ ~ ReceivesAt(r2, q)
  BY ElsewhereIs
<1>5. \A p \in Ports : D[p].poked # t
  BY PokedIs, Names DEF Elsewhere
<1>6. /\ T2 \in [Threads -> ThreadRecord] /\ T2[t] = r2 /\ Others(T, T2, t)
      /\ Locals(T2) /\ Patience(T2, M2, D)
      /\ \A u \in Threads : Handed(T2[u]) /\ T2[u].wait => \E v \in Threads : GoesTo(T2, v, u)
      /\ \A u \in Threads \ {t} : \A p \in Ports : SleepsAt(T2[u], M2, p) <=> SleepsAt(T[u], M, p)
  <2>1. MayAct(T[t], r2, M2, D, t)
    BY <1>4, <1>5 DEF MayAct
  <2>2. Acted(T, T2, M, M2, D, t, r2)
    BY <1>3, <2>1, OneActs
  <2> QED
    BY <2>2 DEF Acted
<1>7. /\ Stages(T2, M2) /\ Queued(P, Q, T2, M2)
      /\ \A p \in Ports : CountedIn(Q, T2, M2, p) = CountedIn(Q, T, M, p) \ {m}
  <2>1. WorkedOn(P, Q, T, T2, M, M2, t, m)
    <3>1. Stages(T, M) /\ Queued(P, Q, T, M) /\ Addressed(M)
      BY DEF Base
    <3> QED
      BY <1>2, <1>4, <1>6, <3>1, WorkOne
  <2> QED
    BY <1>4, <1>6, <2>1 DEF WorkedOn
<1>8. Counts(P, Q, T2, M2)
  <2>1. \A p \in Ports : m \notin CountedIn(Q, T, M, p)
    <3>1. \A u \in Threads : ~ Carries(T[u], m)
      BY <1>4 DEF Alone, Keeps
    <3> QED
      BY <3>1 DEF CountedIn, Alone
  <2>2. \A p \in Ports : CountedIn(Q, T2, M2, p) = CountedIn(Q, T, M, p)
    BY <1>7, <2>1
  <2> QED
    BY <2>2 DEF Base, Counts
<1>9. SendLists(P, T2, M2, D)
  BY <1>4, <1>6 DEF Base, SendLists
<1>10. ReceiveLists(Q, T2)
  BY <1>4, <1>6 DEF Base, ReceiveLists, Others
<1>11. Locks(P, Q, T2, M2)
  BY <1>3, <1>4, <1>6, LocksOne
<1>12. Sleeping(Q, T2)
  BY <1>6 DEF Base, Sleeping
<1>13. Marks(T2, M2, E)
  <2>1. \A p \in Ports : E[p] # m
    BY DEF Base, Marks
  <2>2. ~ Waited(T2, M2, m)
    BY <1>2 DEF Waited
  <2> QED
    BY <1>2, <2>1, <2>2, MarksOne DEF Base
<1>14. Promises(P, T2, M2, E, N2)
  <2>1. Promised(P, T2[t], M2, E, N2, m)
    <3> SUFFICES ASSUME N2[m] = "WILL_NOTIFY"
                 PROVE  E[mr.to] \in {Gone, Deleted} \/ ~P[mr.to].in_use
      BY <1>2 DEF Promised
    <3>1. \A p \in Ports : E[p] # m
      BY DEF Base, Marks
    <3>2. \A u \in Threads : ~ Tells(T[u], m)
      BY DEF Alone, Keeps
    <3>3. M[m].at # "new"
      BY DEF Base, Promises
    <3> QED
      BY <3>1, <3>2, <3>3 DEF Base, Promises
  <2> QED
    BY <1>2, <2>1, PromisesOne DEF Base, SamePromises
<1>15. Typed(P, S, Q, T2) /\ TypedMore(M2, E, N2, D)
  BY <1>2, <1>6 DEF Base, Typed, TypedMore
<1> QED
  BY <1>3, <1>6, <1>7, <1>8, <1>9, <1>10, <1>11, <1>12, <1>13, <1>14, <1>15 DEF Base

\* The parts of Base that most lemmas use.
LEMMA Exactly ==
  ASSUME NEW P, NEW S, NEW Q, NEW T, NEW M, NEW E, NEW N, NEW D, Base(P, S, Q, T, M, E, N, D)
  PROVE  /\ P \in [Ports -> PortRecord] /\ S \in [Sets -> SetRecord]
         /\ Q \in [Queues -> QueueRecord] /\ T \in [Threads -> ThreadRecord]
         /\ M \in [Msgs -> MessageRecord] /\ E \in [Ports -> Msgs \cup {Nil, Gone, Deleted}]
         /\ N \in [Msgs -> {"none", "WILL_NOTIFY", "MSG_ACCEPTED"}]
         /\ D \in [Ports -> DyingRecord]
         /\ WorkParts(P, Q, T, M, E, N)
         /\ \A t \in Threads : Local(T[t])
BY DEF Base, Typed, TypedMore, WorkParts, Locals

\* A thread that is idle, or waits for a reply, has to do with no message.
LEMMA FreeIs ==
  ASSUME NEW r, r.at \in {"idle", "reply"}
  PROVE  Elsewhere(r) /\ (\A m : ~ Keeps(r, m)) /\ (\A m : ~ Tells(r, m))
BY DEF Elsewhere, Keeps, Carries, Handed, Tells, Sends

\* An idle thread begins to send m.
LEMMA Begins ==
  ASSUME NEW P, NEW S, NEW Q, NEW T, NEW M, NEW E, NEW N, NEW D,
         NEW t \in Threads, NEW m \in Msgs, NEW p \in Ports, NEW r2 \in ThreadRecord,
         Base(P, S, Q, T, M, E, N, D), T[t].at = "idle", M[m].at = "new",
         r2.at = "send", r2.msg = m, ~r2.wait, ~r2.timer,
         "ALWAYS" \notin r2.option /\ p \in MayDie => MayBePoked(t) /\ ~r2.tout
  PROVE  Base(P, S, Q, [T EXCEPT ![t] = r2],
              [M EXCEPT ![m] = [M[m] EXCEPT !.at = "sending", !.to = p]], E, N, D)
<1> DEFINE mr == [M[m] EXCEPT !.at = "sending", !.to = p]
           T2 == [T EXCEPT ![t] = r2]
           M2 == [M EXCEPT ![m] = mr]
<1>1. M[m] \in MessageRecord /\ T \in [Threads -> ThreadRecord] /\ M \in [Msgs -> MessageRecord]
      /\ N \in [Msgs -> {"none", "WILL_NOTIFY", "MSG_ACCEPTED"}]
  BY Exactly
<1>2. mr \in MessageRecord /\ mr.at = "sending" /\ mr.to = p /\ mr.sender_entry = M[m].sender_entry
  BY <1>1 DEF MessageRecord
<1>3. Changed(T, T2, t, r2) /\ Changed(M, M2, m, mr)
  BY DEF Changed
<1>4. T2[t] = r2 /\ Others(T, T2, t) /\ M2[m] = mr
  BY <1>1, <1>2 DEF Others
<1> HIDE DEF T2, M2, mr
<1>5. Local(r2)
  BY DEF Local, Handed
<1>6. Elsewhere(T[t]) /\ (\A m2 : ~ Keeps(T[t], m2)) /\ (\A m2 : ~ Tells(T[t], m2))
  BY FreeIs
<1>7. Elsewhere(r2) /\ ~ Tells(r2, m)
  BY DEF Elsewhere, Tells
<1>8. Calm(r2, M2, t)
  BY <1>2, <1>4 DEF Calm, Sends
<1>9. Alone(Q, T, m, t)
  <2>1. WorkParts(P, Q, T, M, E, N)
    BY Exactly
  <2> QED
    BY <2>1, AloneIs
<1>10. OneWorks(T, T2, t, m)
  BY <1>4, <1>6, OneMessage DEF OneWorks
<1>11. ~ Waited(T, M, m) /\ ~ mr.sender_entry
  BY <1>2 DEF Waited, Base, Marks
<1>12. N[m] # "WILL_NOTIFY"
  BY DEF Base, Promises
<1>13. Base(P, S, Q, T2, M2, E, N, D)
  BY <1>1, <1>2, <1>3, <1>5, <1>6, <1>7, <1>8, <1>9, <1>10, <1>11, <1>12, BeginsOrEnds
<1> QED
  BY <1>13 DEF T2, M2, mr

\* A thread is done with its message.
LEMMA Ends ==
  ASSUME NEW P, NEW S, NEW Q, NEW T, NEW M, NEW E, NEW N, NEW D,
         NEW t \in Threads, NEW r2 \in ThreadRecord, NEW N2, NEW x \in {"returned", "received"},
         Base(P, S, Q, T, M, E, N, D), T[t].at \in {"send", "notify"},
         r2.at \in {"idle", "reply"}, Local(r2), Calm(r2, [M EXCEPT ![T[t].msg].at = x], t),
         T[t].at = "send" => N2 = N,
         T[t].at = "notify" => N2 = [N EXCEPT ![T[t].msg] = "MSG_ACCEPTED"]
  PROVE  Base(P, S, Q, [T EXCEPT ![t] = r2], [M EXCEPT ![T[t].msg].at = x], E, N2, D)
<1> DEFINE m == T[t].msg
           mr == [M[m] EXCEPT !.at = x]
           T2 == [T EXCEPT ![t] = r2]
           M2 == [M EXCEPT ![m].at = x]
<1>1. /\ T \in [Threads -> ThreadRecord] /\ M \in [Msgs -> MessageRecord]
      /\ N \in [Msgs -> {"none", "WILL_NOTIFY", "MSG_ACCEPTED"}]
      /\ WorkParts(P, Q, T, M, E, N)
  BY Exactly
<1>2. m \in Msgs
  BY Exactly DEF Local
<1>3. M[m] \in MessageRecord
  BY <1>1, <1>2
<1>4. mr \in MessageRecord /\ mr.at = x /\ mr.to = M[m].to
  BY <1>3 DEF MessageRecord
<1>5. Changed(T, T2, t, r2) /\ Changed(M, M2, m, mr)
  BY <1>1 DEF Changed
<1>6. T2[t] = r2 /\ Others(T, T2, t)
  BY <1>1 DEF Others
<1>7. Keeps(T[t], m) /\ (Sends(T[t], m) \/ Tells(T[t], m))
  BY DEF Keeps, Sends, Tells
<1>8. (\A m2 : ~ Keeps(r2, m2)) /\ Elsewhere(r2) /\ Elsewhere(T[t])
      /\ ~ Sends(r2, m) /\ ~ Tells(r2, m)
  BY FreeIs DEF Elsewhere, Keeps
<1>9. M[m].at \in {"sending", "live"} /\ M[m].to \in Ports
  BY <1>2, <1>7 DEF Base, Stages, Addressed
<1>10. OneWorks(T, T2, t, m)
  BY <1>6, <1>8, OneMessage DEF OneWorks
<1>11. Alone(Q, T, m, t)
  BY <1>1, <1>2, <1>7, AloneIs
<1>12. ~ Waited(T, M, m)
  BY <1>2, <1>7 DEF Waited, Base, Stages
<1>13. /\ N2 \in [Msgs -> {"none", "WILL_NOTIFY", "MSG_ACCEPTED"}]
       /\ \A m2 \in Msgs \ {m} : N2[m2] = N[m2]
       /\ N2[m] = "WILL_NOTIFY" => N[m] = "WILL_NOTIFY" /\ ~ Tells(T[t], m)
  <2>1. CASE T[t].at = "send"
    BY <1>1, <2>1 DEF Tells
  <2>2. CASE T[t].at = "notify"
    BY <1>1, <1>2, <2>2
  <2> QED
    BY <2>1, <2>2
<1>14. Calm(r2, M2, t)
  OBVIOUS
<1> HIDE DEF T2, M2, mr, m
<1>15. /\ mr.to \in Ports /\ mr.at \in {"sending", "returned", "received"} /\ mr.at # "sending"
  BY <1>4, <1>9
<1>16. Base(P, S, Q, T2, M2, E, N2, D)
  BY <1>2, <1>4, <1>5, <1>8, <1>10, <1>11, <1>12, <1>13, <1>14, <1>15, BeginsOrEnds
<1> QED
  BY <1>16 DEF T2, M2, m

-----------------------------------------------------------------------------
(* Actions with one thread and one message that change no list or lock.    *)

\* msg_send begins.
LEMMA SendKeeps ==
  ASSUME IInv, NobodyHurries, NEW c \in MaySend, msg_send(c)
  PROVE  IInv'
<1> DEFINE t == c.thread
           m == c.msg
           r == thread[t]
           timed == "TIMEOUT" \in c.option
           r2 == [r EXCEPT !.at = "send", !.msg = m, !.option = c.option, !.reply = c.reply,
                           !.tout = timed]
<1>1. /\ t \in Threads /\ m \in Msgs /\ c.port \in Ports /\ c.option \in SUBSET Options
      /\ c.reply \in Ports \cup {Nil}
  BY SendCalls DEF SendCall
<1>2. Base(port, set, queue, thread, kmsg, entry, notice, dying)
      /\ thread \in [Threads -> ThreadRecord] /\ kmsg \in [Msgs -> MessageRecord]
      /\ r \in ThreadRecord /\ Local(r)
  BY <1>1, InvParts, Exactly
<1>3. r.at = "idle" /\ kmsg[m].at = "new"
  BY DEF msg_send
<1>4. ~r.wait /\ ~r.timer
  BY <1>2, <1>3 DEF Local
<1>5. r2 \in ThreadRecord
  <2>1. timed \in BOOLEAN
    OBVIOUS
  <2> HIDE DEF timed, t, m
  <2> QED
    BY <1>1, <1>2, <2>1 DEF ThreadRecord
<1>6. /\ r2.at = "send" /\ r2.msg = m /\ r2.option = c.option
      /\ r2.wait = r.wait /\ r2.timer = r.timer /\ r2.tout = ("TIMEOUT" \in c.option)
  BY <1>2 DEF ThreadRecord
<1>7. c.port \in MayDie => MayBePoked(t) /\ ~r2.tout
  BY <1>6 DEF NobodyHurries, MayBePoked
<1>8. thread' = [thread EXCEPT ![t] = r2]
      /\ kmsg' = [kmsg EXCEPT ![m] = [kmsg[m] EXCEPT !.at = "sending", !.to = c.port]]
  BY <1>1, <1>2 DEF msg_send
<1> HIDE DEF r2, t, m
<1>9. Base(port, set, queue, thread', kmsg', entry, notice, dying)
  BY <1>1, <1>2, <1>3, <1>4, <1>5, <1>6, <1>7, <1>8, Begins
<1> QED
  BY <1>9, InvParts DEF IInv, Inv, msg_send

\* The thread that received a message sends NOTIFY_MSG_ACCEPTED.
LEMMA NoticeKeeps ==
  ASSUME IInv, NEW t \in Threads, SendsNotice(t)
  PROVE  IInv'
<1> DEFINE m == thread[t].msg
<1>1. Base(port, set, queue, thread, kmsg, entry, notice, dying)
  BY InvParts
<1>2. thread[t].at = "notify"
  BY DEF SendsNotice
<1>3. Idle \in ThreadRecord /\ Local(Idle) /\ Idle.at = "idle" /\ \A M : Calm(Idle, M, t)
  <2>1. Idle.at = "idle"
    BY DEF Idle
  <2> QED
    BY <2>1, IdleIs
<1>4. Base(port, set, queue, [thread EXCEPT ![t] = Idle], [kmsg EXCEPT ![m].at = "received"],
           entry, [notice EXCEPT ![m] = "MSG_ACCEPTED"], dying)
  BY <1>1, <1>2, <1>3, Ends
<1> QED
  BY <1>4, InvParts DEF IInv, Inv, SendsNotice

\* The kernel's reply without the port: it is new, and received at once.
LEMMA RepliesAtOnce ==
  ASSUME NEW P, NEW S, NEW Q, NEW T, NEW M, NEW E, NEW N, NEW D,
         NEW t \in Threads, NEW m \in Msgs, NEW p \in Ports,
         Base(P, S, Q, T, M, E, N, D), T[t].at = "idle", M[m].at = "new"
  PROVE  Base(P, S, Q, T, [M EXCEPT ![m] = [M[m] EXCEPT !.at = "received", !.to = p]], E, N, D)
<1> DEFINE mr == [M[m] EXCEPT !.at = "received", !.to = p]
           M2 == [M EXCEPT ![m] = mr]
           r == T[t]
<1>1. /\ T \in [Threads -> ThreadRecord] /\ M \in [Msgs -> MessageRecord]
      /\ N \in [Msgs -> {"none", "WILL_NOTIFY", "MSG_ACCEPTED"}]
      /\ WorkParts(P, Q, T, M, E, N) /\ Local(r)
  BY Exactly
<1>2. M[m] \in MessageRecord /\ r \in ThreadRecord
  BY <1>1
<1>3. mr \in MessageRecord /\ mr.at = "received" /\ mr.to = p
  BY <1>2 DEF MessageRecord
<1>4. Changed(T, T, t, r) /\ Changed(M, M2, m, mr)
  BY <1>1 DEF Changed
<1>5. Elsewhere(r) /\ (\A m2 : ~ Keeps(r, m2)) /\ (\A m2 : ~ Tells(r, m2))
  BY FreeIs
<1>6. OneWorks(T, T, t, m) /\ ~ Sends(r, m)
  BY <1>5 DEF OneWorks, Others, Keeps
<1>7. Alone(Q, T, m, t)
  BY <1>1, AloneIs
<1>8. ~ Waited(T, M, m) /\ N[m] # "WILL_NOTIFY"
  BY DEF Waited, Base, Promises
<1>9. Calm(r, M2, t)
  BY <1>5 DEF Calm, Keeps
<1> HIDE DEF M2, mr, r
<1>10. Base(P, S, Q, T, M2, E, N, D)
  <2>1. mr.at \in {"sending", "returned", "received"} /\ mr.at # "sending" /\ mr.to \in Ports
    BY <1>3
  <2>2. Elsewhere(T[t]) /\ ~ Tells(r, m)
    BY <1>5 DEF r
  <2> QED
    BY <1>1, <1>2, <1>3, <1>4, <1>5, <1>6, <1>7, <1>8, <1>9, <2>1, <2>2, BeginsOrEnds
<1> QED
  BY <1>10 DEF M2, mr

\* The kernel replies to msg_rpc.
LEMMA KernelRepliesKeeps ==
  ASSUME IInv, NEW t \in Threads, NEW m \in Msgs, NEW p \in Ports, KernelReplies(t, m, p)
  PROVE  IInv'
<1> DEFINE r == thread[t]
           r2 == [r EXCEPT !.at = "send", !.msg = m, !.option = {"ALWAYS"}, !.reply = p]
<1>1. Base(port, set, queue, thread, kmsg, entry, notice, dying)
      /\ thread \in [Threads -> ThreadRecord] /\ kmsg \in [Msgs -> MessageRecord]
      /\ r \in ThreadRecord /\ Local(r)
  BY InvParts, Exactly
<1>2. r.at = "idle" /\ kmsg[m].at = "new"
  BY DEF KernelReplies
<1>3. CASE thread' = thread
  <2>1. kmsg' = [kmsg EXCEPT ![m] = [kmsg[m] EXCEPT !.at = "received", !.to = p]]
        \/ (kmsg' = [kmsg EXCEPT ![m] = [kmsg[m] EXCEPT !.at = "sending", !.to = p]]
            /\ thread' = [thread EXCEPT ![t] = r2])
    BY <1>1 DEF KernelReplies
  <2>2. thread' # [thread EXCEPT ![t] = r2]
    <3>1. r2.at = "send"
      BY <1>1 DEF ThreadRecord
    <3> HIDE DEF r2
    <3> QED
      BY <1>1, <1>2, <1>3, <3>1
  <2>3. kmsg' = [kmsg EXCEPT ![m] = [kmsg[m] EXCEPT !.at = "received", !.to = p]]
    BY <2>1, <2>2
  <2>4. Base(port, set, queue, thread, kmsg', entry, notice, dying)
    BY <1>1, <1>2, <2>3, RepliesAtOnce
  <2>5. Base(port, set, queue, thread', kmsg', entry, notice, dying)
    BY <1>3, <2>4
  <2> QED
    BY <2>5, InvParts DEF IInv, Inv, KernelReplies
<1>4. CASE thread' = [thread EXCEPT ![t] = r2]
           /\ kmsg' = [kmsg EXCEPT ![m] = [kmsg[m] EXCEPT !.at = "sending", !.to = p]]
  <2>1. ~r.wait /\ ~r.timer
    BY <1>1, <1>2 DEF Local
  <2>2. r2 \in ThreadRecord
    BY <1>1 DEF ThreadRecord, Options
  <2>3. /\ r2.at = "send" /\ r2.msg = m /\ r2.option = {"ALWAYS"}
        /\ r2.wait = r.wait /\ r2.timer = r.timer
    BY <1>1 DEF ThreadRecord
  <2> HIDE DEF r2
  <2>4. Base(port, set, queue, thread', kmsg', entry, notice, dying)
    BY <1>1, <1>2, <1>4, <2>1, <2>2, <2>3, Begins
  <2> QED
    BY <2>4, InvParts DEF IInv, Inv, KernelReplies
<1> QED
  BY <1>1, <1>3, <1>4 DEF KernelReplies

-----------------------------------------------------------------------------
(* One thread goes on a list, or leaves it.                                *)

\* The ports and queues are what they were but for the lists of the waiting.
Relisted(P, P2) ==
    /\ P2 \in [Ports -> PortRecord]
    /\ \A p \in Ports : /\ P2[p].in_use = P[p].in_use /\ P2[p].receiver = P[p].receiver
                        /\ P2[p].count = P[p].count /\ P2[p].set = P[p].set

Requeued(Q, Q2) ==
    /\ Q2 \in [Queues -> QueueRecord]
    /\ \A q \in Queues : Q2[q].messages = Q[q].messages /\ Q2[q].lock = Q[q].lock

\* The lists of the blocked say nothing of the messages.
LEMMA ListsDoNotMatter ==
  ASSUME NEW P, NEW Q, NEW T, NEW M, NEW E, NEW N, NEW P2, NEW Q2,
         WorkParts(P, Q, T, M, E, N), Addressed(M), Relisted(P, P2), Requeued(Q, Q2)
  PROVE  WorkParts(P2, Q2, T, M, E, N)
<1>1. Apart(P, Q, T, M)
  BY ApartIs
<1>2. \A m \in Msgs, q \in Queues : m \in ToSet(Q[q].messages) => M[m].to \in Ports
  BY DEF WorkParts, Queued, Addressed
<1>3. Apart(P2, Q2, T, M)
  BY <1>1, <1>2 DEF Apart, Relisted, Requeued
<1>4. \A m \in Msgs : InTransit(Q2, T, m) <=> InTransit(Q, T, m)
  BY DEF InTransit, Requeued
<1> QED
  BY <1>3, <1>4, WorkMoves DEF Relisted

\* One thread goes on a list, or off it.
LEMMA OneLists ==
  ASSUME NEW P, NEW S, NEW Q, NEW T, NEW M, NEW E, NEW N, NEW D, NEW P2, NEW Q2, NEW T2,
         NEW t \in Threads, NEW r2,
         Base(P, S, Q, T, M, E, N, D), Changed(T, T2, t, r2), MayAct(T[t], r2, M, D, t),
         SameWork(T[t], r2), T[t].at # "deliver", r2.at # "deliver",
         Relisted(P, P2), Requeued(Q, Q2),
         SendLists(P2, T2, M, D), ReceiveLists(Q2, T2), PortsFit(P2, Q2, D), SetsFit(P2, S, Q2),
         \A q \in Queues : Q2[q].blocked = <<>> \/ Q2[q].messages = <<>>
  PROVE  Base(P2, S, Q2, T2, M, E, N, D)
<1>1. SameTo(M, M)
  BY DEF SameTo
<1>2. Acted(T, T2, M, M, D, t, r2)
  BY <1>1, OneActs
<1>3. WorkParts(P2, Q2, T2, M, E, N)
  <2>1. \A u \in Threads : SameWork(T[u], T2[u])
    BY <1>2, Unchanged DEF Acted, Others
  <2>2. WorkParts(P, Q, T2, M, E, N)
    BY <2>1, Exactly, SameWorkKeeps
  <2> QED
    BY <2>2, ListsDoNotMatter DEF Base
<1>4. Locks(P2, Q2, T2, M)
  BY <1>1, <1>2, LocksOne DEF Acted, Relisted, Requeued
<1>5. Sleeping(Q2, T2)
  BY <1>2 DEF Sleeping, Acted
<1>6. Typed(P2, S, Q2, T2)
  BY <1>2 DEF Base, Typed, Relisted, Requeued, Acted
<1> QED
  BY <1>2, <1>3, <1>4, <1>5, <1>6 DEF Base, Acted, WorkParts

\* A thread that turns to r2 is on a port's list if the list says so.
LEMMA SendListsOne ==
  ASSUME NEW P, NEW T, NEW M, NEW D, NEW P2, NEW T2, NEW t \in Threads, NEW p \in Ports,
         SendLists(P, T, M, D), Others(T, T2, t),
         \A x \in Ports \ {p} : /\ P2[x].blocked = P[x].blocked
                                /\ SleepsAt(T2[t], M, x) <=> SleepsAt(T[t], M, x),
         IsInjective(P2[p].blocked),
         ToSet(P2[p].blocked) \ {t} = ToSet(P[p].blocked) \ {t},
         t \in ToSet(P2[p].blocked) <=> SleepsAt(T2[t], M, p) /\ D[p].poked # t
  PROVE  SendLists(P2, T2, M, D)
<1>1. ASSUME NEW x \in Ports \ {p}, NEW u \in Threads
      PROVE  u \in ToSet(P2[x].blocked) <=> SleepsAt(T2[u], M, x) /\ D[x].poked # u
  BY DEF SendLists, Others
<1>2. ASSUME NEW u \in Threads
      PROVE  u \in ToSet(P2[p].blocked) <=> SleepsAt(T2[u], M, p) /\ D[p].poked # u
  BY DEF SendLists, Others
<1> QED
  BY <1>1, <1>2 DEF SendLists

\* Only t's place on the list of q changes.
LEMMA ReceiveListsOne ==
  ASSUME NEW Q, NEW T, NEW Q2, NEW T2, NEW t \in Threads, NEW q \in Queues,
         ReceiveLists(Q, T), Others(T, T2, t),
         \A x \in Queues \ {q} : /\ Q2[x].blocked = Q[x].blocked
                                 /\ ReceivesAt(T2[t], x) <=> ReceivesAt(T[t], x),
         IsInjective(Q2[q].blocked),
         ToSet(Q2[q].blocked) \ {t} = ToSet(Q[q].blocked) \ {t},
         t \in ToSet(Q2[q].blocked) <=> ReceivesAt(T2[t], q)
  PROVE  ReceiveLists(Q2, T2)
<1>1. ASSUME NEW x \in Queues \ {q}, NEW u \in Threads
      PROVE  u \in ToSet(Q2[x].blocked) <=> ReceivesAt(T2[u], x)
  BY DEF ReceiveLists, Others
<1>2. ASSUME NEW u \in Threads
      PROVE  u \in ToSet(Q2[q].blocked) <=> ReceivesAt(T2[u], q)
  BY DEF ReceiveLists, Others
<1> QED
  BY <1>1, <1>2 DEF ReceiveLists

\* Nothing changes in the queues.
LEMMA SameQueues ==
  ASSUME NEW P, NEW S, NEW Q, NEW T, NEW M, NEW E, NEW N, NEW D, Base(P, S, Q, T, M, E, N, D)
  PROVE  Relisted(P, P) /\ Requeued(Q, Q)
         /\ \A q \in Queues : Q[q].blocked = <<>> \/ Q[q].messages = <<>>
BY DEF Base, Typed, Relisted, Requeued, Sleeping

\* The sets do not look at anything but who is in them.
LEMMA SameMembers ==
  ASSUME NEW P, NEW S, NEW Q, NEW T, NEW M, NEW E, NEW N, NEW D, NEW P2,
         Base(P, S, Q, T, M, E, N, D), \A p \in Ports : P2[p].set = P[p].set
  PROVE  SetsFit(P2, S, Q)
<1>1. \A s \in Sets : S[s] \in SetRecord
  BY Exactly
<1>2. \A s \in Sets : S[s].next \in Ports \cup {Nil}
  BY <1>1 DEF SetRecord
<1> QED
  BY <1>2 DEF Base, SetsFit, SetFits

\* The places of the messages depend on the queues' messages alone.
LEMMA SameMessages ==
  ASSUME NEW P, NEW Q, NEW Q2, NEW T, NEW M, \A q \in Queues : Q2[q].messages = Q[q].messages,
         Queued(P, Q, T, M)
  PROVE  Queued(P, Q2, T, M)
BY DEF Queued

\* So do the counts.
LEMMA SameCounted ==
  ASSUME NEW Q, NEW Q2, NEW T, NEW M, \A q \in Queues : Q2[q].messages = Q[q].messages
  PROVE  \A p \in Ports : CountedIn(Q2, T, M, p) = CountedIn(Q, T, M, p)
BY DEF CountedIn

\* What depends on the queues' receivers alone.
LEMMA SameBlocked ==
  ASSUME NEW P, NEW S, NEW Q, NEW Q2, \A q \in Queues : Q2[q].blocked = Q[q].blocked
  PROVE  /\ \A D : PortsFit(P, Q, D) => PortsFit(P, Q2, D)
         /\ SetsFit(P, S, Q) => SetsFit(P, S, Q2)
         /\ \A T : ReceiveLists(Q, T) => ReceiveLists(Q2, T)
<1>1. \A D : PortsFit(P, Q, D) => PortsFit(P, Q2, D)
  BY DEF PortsFit, PortFits, Queues
<1>2. SetsFit(P, S, Q) => SetsFit(P, S, Q2)
  BY DEF SetsFit, SetFits, Queues
<1>3. \A T : ReceiveLists(Q, T) => ReceiveLists(Q2, T)
  BY DEF ReceiveLists
<1> QED
  BY <1>1, <1>2, <1>3

\* A thread that is about to send goes to sleep at the port.
LEMMA BlocksKeeps ==
  ASSUME NEW P, NEW S, NEW Q, NEW T, NEW M, NEW E, NEW N, NEW D,
         NEW t \in Threads, NEW r2 \in ThreadRecord, NEW p \in Ports,
         Base(P, S, Q, T, M, E, N, D), T[t].at = "send", M[T[t].msg].to = p,
         r2.at = "send_wait", r2.ipc_state = "SEND_IN_PROGRESS", r2.wait, r2.timer => r2.tout,
         r2.msg = T[t].msg, r2.option = T[t].option, r2.tout = T[t].tout,
         "ALWAYS" \notin r2.option, P[p].in_use, P[p].count > 0
  PROVE  Base([P EXCEPT ![p].blocked = Append(@, t)], S, Q, [T EXCEPT ![t] = r2], M, E, N, D)
<1> DEFINE b == Append(P[p].blocked, t)
           P2 == [P EXCEPT ![p].blocked = b]
           T2 == [T EXCEPT ![t] = r2]
           r == T[t]
<1>1. P \in [Ports -> PortRecord] /\ T \in [Threads -> ThreadRecord] /\ Local(r)
  BY Exactly
<1>2. P[p] \in PortRecord /\ P[p].blocked \in Seq(Threads)
  BY <1>1 DEF PortRecord
<1>3. r.msg \in Msgs
  BY <1>1 DEF Local
<1>4. Local(r2)
  BY <1>3 DEF Local, Handed
<1>5. \A x \in Ports : D[x].poked # t
  BY PokedIs, Names
<1>6. Calm(r2, M, t)
  <2>1. Calm(r, M, t)
    BY DEF Base, Patience, Patient
  <2> QED
    BY <2>1 DEF Calm, Sends
<1>7. MayAct(r, r2, M, D, t)
  BY <1>4, <1>5, <1>6 DEF MayAct, Handed
<1>8. Changed(T, T2, t, r2) /\ T2[t] = r2 /\ Others(T, T2, t)
  BY <1>1 DEF Changed, Others
<1>9. SameWork(r, r2)
  BY DEF SameWork, Sends, Carries, Tells, Handed
<1>10. b \in Seq(Threads) /\ ToSet(b) = ToSet(P[p].blocked) \cup {t}
       /\ (IsInjective(P[p].blocked) /\ t \notin ToSet(P[p].blocked) => IsInjective(b))
  BY <1>2, QueueAppend
<1> HIDE DEF b
<1>11. [P[p] EXCEPT !.blocked = b] \in PortRecord
  BY <1>2, <1>10 DEF PortRecord
<1>12. /\ P2 \in [Ports -> PortRecord]
       /\ P2[p].blocked = b
       /\ \A x \in Ports \ {p} : P2[x] = P[x]
       /\ P2[p].in_use = P[p].in_use /\ P2[p].receiver = P[p].receiver
       /\ P2[p].count = P[p].count /\ P2[p].set = P[p].set
  BY <1>1, <1>2, <1>11 DEF PortRecord
<1>13. \A x \in Ports : ~ SleepsAt(r, M, x) /\ (SleepsAt(r2, M, x) <=> x = p)
  BY DEF SleepsAt
<1> HIDE DEF P2, T2, r
<1>14. Relisted(P, P2) /\ \A x \in Ports : P2[x].set = P[x].set
  BY <1>12 DEF Relisted
<1>15. SendLists(P2, T2, M, D)
  <2>1. SendLists(P, T, M, D) /\ t \notin ToSet(P[p].blocked) /\ IsInjective(P[p].blocked)
    BY <1>13 DEF Base, SendLists, r
  <2> QED
    BY <1>5, <1>8, <1>10, <1>12, <1>13, <2>1, SendListsOne DEF r
<1>16. ReceiveLists(Q, T2)
  <2>1. \A q \in Queues : ~ ReceivesAt(T[t], q) /\ ~ ReceivesAt(r2, q)
    BY DEF ReceivesAt
  <2> QED
    BY <1>8, <2>1 DEF Base, ReceiveLists, Others
<1>17. PortsFit(P2, Q, D)
  <2>1. PortFits(P[p], Q[p], D[p], p)
    BY DEF Base, PortsFit
  <2>2. PortFits(P2[p], Q[p], D[p], p)
    BY <1>12, <2>1 DEF PortFits
  <2> QED
    BY <1>12, <2>2 DEF Base, PortsFit
<1>18. SetsFit(P2, S, Q)
  BY <1>14, SameMembers
<1>19. Base(P2, S, Q, T2, M, E, N, D)
  BY <1>7, <1>8, <1>9, <1>14, <1>15, <1>16, <1>17, <1>18, OneLists, SameQueues DEF r
<1> QED
  BY <1>19 DEF P2, T2, b

\* A sender that is awake takes itself off the port's list, if it is on it.
LEMMA LeavesPort ==
  ASSUME NEW P, NEW S, NEW Q, NEW T, NEW M, NEW E, NEW N, NEW D,
         NEW t \in Threads, NEW r2 \in ThreadRecord, NEW p \in Ports, NEW b \in Seq(Threads),
         Base(P, S, Q, T, M, E, N, D), T[t].at = "send_wait", ~T[t].wait, M[T[t].msg].to = p,
         r2.at = "send", ~r2.wait, ~r2.timer,
         r2.msg = T[t].msg, r2.option = T[t].option, r2.tout => T[t].tout,
         IsInjective(P[p].blocked) => IsInjective(b) /\ ToSet(b) = ToSet(P[p].blocked) \ {t}
  PROVE  Base([P EXCEPT ![p].blocked = b], S, Q, [T EXCEPT ![t] = r2], M, E, N, D)
<1> DEFINE P2 == [P EXCEPT ![p].blocked = b]
           T2 == [T EXCEPT ![t] = r2]
           r == T[t]
<1>1. P \in [Ports -> PortRecord] /\ T \in [Threads -> ThreadRecord] /\ Local(r)
  BY Exactly
<1>2. P[p] \in PortRecord /\ P[p].blocked \in Seq(Threads)
  BY <1>1 DEF PortRecord
<1>3. r.msg \in Msgs
  BY <1>1 DEF Local
<1>4. Local(r2)
  BY <1>3 DEF Local, Handed
<1>5. \A x \in Ports : D[x].poked # t
  BY PokedIs, Names
<1>6. Calm(r2, M, t)
  <2>1. Calm(r, M, t)
    BY DEF Base, Patience, Patient
  <2> QED
    BY <2>1 DEF Calm, Sends
<1>7. MayAct(r, r2, M, D, t)
  BY <1>4, <1>5, <1>6 DEF MayAct, Handed
<1>8. Changed(T, T2, t, r2) /\ T2[t] = r2 /\ Others(T, T2, t)
  BY <1>1 DEF Changed, Others
<1>9. SameWork(r, r2)
  BY DEF SameWork, Sends, Carries, Tells, Handed
<1>10. IsInjective(P[p].blocked) /\ IsInjective(b) /\ ToSet(b) = ToSet(P[p].blocked) \ {t}
  BY DEF Base, SendLists
<1>11. [P[p] EXCEPT !.blocked = b] \in PortRecord
  BY <1>2 DEF PortRecord
<1>12. /\ P2 \in [Ports -> PortRecord]
       /\ P2[p].blocked = b
       /\ \A x \in Ports \ {p} : P2[x] = P[x]
       /\ P2[p].in_use = P[p].in_use /\ P2[p].receiver = P[p].receiver
       /\ P2[p].count = P[p].count /\ P2[p].set = P[p].set
  BY <1>1, <1>2, <1>11 DEF PortRecord
<1>13. \A x \in Ports : ~ SleepsAt(r2, M, x) /\ (SleepsAt(r, M, x) => x = p)
  BY DEF SleepsAt
<1> HIDE DEF P2, T2, r
<1>14. Relisted(P, P2) /\ \A x \in Ports : P2[x].set = P[x].set
  BY <1>12 DEF Relisted
<1>15. SendLists(P2, T2, M, D)
  <2>1. SendLists(P, T, M, D)
    BY DEF Base
  <2> QED
    BY <1>5, <1>8, <1>10, <1>12, <1>13, <2>1, SendListsOne DEF r
<1>16. ReceiveLists(Q, T2)
  <2>1. \A q \in Queues : ~ ReceivesAt(T[t], q) /\ ~ ReceivesAt(r2, q)
    BY DEF ReceivesAt
  <2> QED
    BY <1>8, <2>1 DEF Base, ReceiveLists, Others
<1>17. PortsFit(P2, Q, D)
  <2>1. PortFits(P[p], Q[p], D[p], p)
    BY DEF Base, PortsFit
  <2>2. b # <<>> => P[p].blocked # <<>>
    BY <1>2, <1>10, QueueEmpty
  <2>3. PortFits(P2[p], Q[p], D[p], p)
    BY <1>12, <2>1, <2>2 DEF PortFits
  <2> QED
    BY <1>12, <2>3 DEF Base, PortsFit
<1>18. SetsFit(P2, S, Q)
  BY <1>14, SameMembers
<1>19. Base(P2, S, Q, T2, M, E, N, D)
  BY <1>7, <1>8, <1>9, <1>14, <1>15, <1>16, <1>17, <1>18, OneLists, SameQueues DEF r
<1> QED
  BY <1>19 DEF P2, T2

\* The list of a queue changes by one thread, which leaves it or joins it.
LEMMA QueueListKeeps ==
  ASSUME NEW P, NEW S, NEW Q, NEW T, NEW M, NEW E, NEW N, NEW D,
         NEW t \in Threads, NEW r2 \in ThreadRecord, NEW q \in Queues, NEW b \in Seq(Threads),
         Base(P, S, Q, T, M, E, N, D), MayAct(T[t], r2, M, D, t), SameWork(T[t], r2),
         T[t].at \in {"idle", "reply", "recv_wait"}, r2.at \in {"idle", "recv_wait"},
         \A x \in Queues \ {q} : ~ ReceivesAt(T[t], x) /\ ~ ReceivesAt(r2, x),
         IsInjective(Q[q].blocked) => IsInjective(b),
         ToSet(b) \ {t} = ToSet(Q[q].blocked) \ {t},
         t \in ToSet(b) <=> ReceivesAt(r2, q),
         b # <<>> /\ q \in Ports => P[q].receiver = "task",
         b # <<>> /\ q \in Sets => S[q].in_use \/ S[q].next # Nil,
         b = <<>> \/ Q[q].messages = <<>>
  PROVE  Base(P, S, [Q EXCEPT ![q].blocked = b], [T EXCEPT ![t] = r2], M, E, N, D)
<1> DEFINE Q2 == [Q EXCEPT ![q].blocked = b]
           T2 == [T EXCEPT ![t] = r2]
           r == T[t]
<1>1. Q \in [Queues -> QueueRecord] /\ T \in [Threads -> ThreadRecord]
  BY Exactly
<1>2. Q[q] \in QueueRecord
  BY <1>1
<1>3. Changed(T, T2, t, r2) /\ T2[t] = r2 /\ Others(T, T2, t)
  BY <1>1 DEF Changed, Others
<1>4. [Q[q] EXCEPT !.blocked = b] \in QueueRecord
  BY <1>2 DEF QueueRecord
<1>5. /\ Q2 \in [Queues -> QueueRecord]
      /\ Q2[q].blocked = b
      /\ \A x \in Queues \ {q} : Q2[x] = Q[x]
      /\ Q2[q].messages = Q[q].messages /\ Q2[q].lock = Q[q].lock
  BY <1>1, <1>2, <1>4 DEF QueueRecord
<1>6. \A x : ~ SleepsAt(T[t], M, x) /\ ~ SleepsAt(r2, M, x)
  BY DEF SleepsAt
<1>7. T[t].at # "deliver" /\ r2.at # "deliver"
  OBVIOUS
<1> HIDE DEF Q2, T2, r
<1>8. Requeued(Q, Q2)
  BY <1>5 DEF Requeued
<1>9. SendLists(P, T2, M, D)
  BY <1>3, <1>6 DEF Base, SendLists, Others
<1>10. ReceiveLists(Q2, T2)
  <2>1. ReceiveLists(Q, T) /\ IsInjective(b)
    BY DEF Base, ReceiveLists
  <2> QED
    BY <1>3, <1>5, <2>1, ReceiveListsOne
<1>11. PortsFit(P, Q2, D)
  <2>1. ASSUME NEW p \in Ports PROVE PortFits(P[p], Q2[p], D[p], p)
    <3>1. PortFits(P[p], Q[p], D[p], p) /\ p \in Queues
      BY DEF Base, PortsFit, Queues
    <3> QED
      BY <1>5, <3>1 DEF PortFits
  <2> QED
    BY <2>1 DEF PortsFit
<1>12. SetsFit(P, S, Q2)
  <2>1. ASSUME NEW s \in Sets PROVE SetFits(P, S[s], Q2[s], s)
    <3>1. SetFits(P, S[s], Q[s], s) /\ s \in Queues
      BY DEF Base, SetsFit, Queues
    <3> QED
      BY <1>5, <3>1 DEF SetFits
  <2> QED
    BY <2>1 DEF SetsFit
<1>13. \A x \in Queues : Q2[x].blocked = <<>> \/ Q2[x].messages = <<>>
  BY <1>5 DEF Base, Sleeping
<1>14. Base(P, S, Q2, T2, M, E, N, D)
  BY <1>3, <1>7, <1>8, <1>9, <1>10, <1>11, <1>12, <1>13, OneLists, SameQueues
<1> QED
  BY <1>14 DEF Q2, T2

-----------------------------------------------------------------------------
(* A sender's message is accepted.                                         *)

\* What the sender and its translation are told.
MarksIt(marked, E, N, E2, N2, p, m) ==
    IF marked
    THEN /\ E[p] = Nil
         /\ E2 = [E EXCEPT ![p] = m]
         /\ N2 = [N EXCEPT ![m] = "WILL_NOTIFY"]
    ELSE E2 = E /\ N2 = N

\* t, with the lock of p, is about to accept m for the queue q.
Acceptable(P, Q, T, M, E, N, t, r2, m, p, q, mr, marked, E2, N2) ==
    /\ t \in Threads /\ r2 \in ThreadRecord /\ m \in Msgs /\ p \in Ports
    /\ q \in Queues /\ mr \in MessageRecord /\ marked \in BOOLEAN
    /\ T[t].at = "send" /\ T[t].msg = m /\ M[m].to = p /\ P[p].in_use
    /\ q = IF P[p].set # Nil THEN P[p].set ELSE p
    /\ Q[q].lock = Nil
    /\ r2.at = "deliver" /\ r2.msg = m /\ r2.obj = q /\ ~r2.wait /\ ~r2.timer
    /\ mr.at = "live" /\ mr.to = p /\ (mr.sender_entry <=> marked)
    /\ MarksIt(marked, E, N, E2, N2, p, m)

\* A message is accepted: the count goes up and the queue is locked.
LEMMA AcceptsKeeps ==
  ASSUME NEW P, NEW S, NEW Q, NEW T, NEW M, NEW E, NEW N, NEW D,
         NEW t, NEW r2, NEW m, NEW p, NEW q, NEW mr, NEW marked, NEW E2, NEW N2,
         Base(P, S, Q, T, M, E, N, D),
         Acceptable(P, Q, T, M, E, N, t, r2, m, p, q, mr, marked, E2, N2)
  PROVE  Base([P EXCEPT ![p].count = @ + 1], S, [Q EXCEPT ![q].lock = t],
              [T EXCEPT ![t] = r2], [M EXCEPT ![m] = mr], E2, N2, D)
<1> USE DEF Acceptable
<1> DEFINE n == P[p].count + 1
           P2 == [P EXCEPT ![p].count = n]
           Q2 == [Q EXCEPT ![q].lock = t]
           T2 == [T EXCEPT ![t] = r2]
           M2 == [M EXCEPT ![m] = mr]
<1>1. /\ P \in [Ports -> PortRecord] /\ Q \in [Queues -> QueueRecord]
      /\ T \in [Threads -> ThreadRecord] /\ M \in [Msgs -> MessageRecord]
      /\ E \in [Ports -> Msgs \cup {Nil, Gone, Deleted}]
      /\ N \in [Msgs -> {"none", "WILL_NOTIFY", "MSG_ACCEPTED"}]
      /\ WorkParts(P, Q, T, M, E, N) /\ Local(T[t])
  BY Exactly
<1>2. P[p] \in PortRecord /\ Q[q] \in QueueRecord /\ P[p].count \in Int
  <2>1. P[p] \in PortRecord /\ Q[q] \in QueueRecord
    BY <1>1
  <2> QED
    BY <2>1 DEF PortRecord
<1>3. [P[p] EXCEPT !.count = n] \in PortRecord /\ [Q[q] EXCEPT !.lock = t] \in QueueRecord
  <2>1. n \in Int
    BY <1>2
  <2> HIDE DEF n
  <2> QED
    BY <1>2, <2>1 DEF PortRecord, QueueRecord
<1>4. /\ P2 \in [Ports -> PortRecord]
      /\ P2[p].count = P[p].count + 1
      /\ \A x \in Ports \ {p} : P2[x] = P[x]
      /\ P2[p].in_use = P[p].in_use /\ P2[p].receiver = P[p].receiver
      /\ P2[p].blocked = P[p].blocked /\ P2[p].set = P[p].set
  BY <1>1, <1>2, <1>3 DEF PortRecord
<1>5. /\ Q2 \in [Queues -> QueueRecord] /\ Q2[q].lock = t
      /\ \A x \in Queues \ {q} : Q2[x] = Q[x]
      /\ Q2[q].messages = Q[q].messages /\ Q2[q].blocked = Q[q].blocked
  BY <1>1, <1>2, <1>3 DEF QueueRecord
<1>6. Changed(T, T2, t, r2) /\ OnlyMessage(M, M2, m) /\ M2[m] = mr
      /\ M2 \in [Msgs -> MessageRecord]
  BY <1>1 DEF Changed, OnlyMessage
<1>7. Sends(T[t], m) /\ Keeps(T[t], m) /\ ~ Carries(T[t], m)
  BY DEF Sends, Keeps, Carries, Handed
<1>8. M[m].at = "sending" /\ ~ M[m].sender_entry
  BY <1>7 DEF Base, Stages, Marks
<1>9. Carries(r2, m) /\ ~ Sends(r2, m) /\ ~ Tells(r2, m)
  BY DEF Sends, Tells, Carries
<1> HIDE DEF P2, Q2, T2, M2
<1>10. SameTo(M, M2) /\ Addressed(M2)
  BY <1>6, <1>8 DEF SameTo, Addressed, Base, OnlyMessage
<1>11. Acted(T, T2, M, M2, D, t, r2)
  <2>1. Local(r2)
    BY DEF Local, Handed
  <2>2. \A x \in Ports : D[x].poked # t
    BY PokedIs, Names
  <2>3. Calm(r2, M2, t)
    BY DEF Calm, Sends
  <2>4. MayAct(T[t], r2, M2, D, t)
    BY <2>1, <2>2, <2>3 DEF MayAct, Handed
  <2> QED
    BY <1>6, <1>10, <2>4, OneActs
<1>12. T2[t] = r2 /\ Others(T, T2, t)
  BY <1>11 DEF Acted
<1>13. Alone(Q, T, m, t)
  BY <1>1, <1>7, AloneIs
<1>14. OneWorks(T, T2, t, m)
  BY <1>12, OneMessage DEF OneWorks
<1>15. \A x \in Ports : P2[x].set = P[x].set /\ P2[x].in_use = P[x].in_use
  BY <1>4
<1>16. WorkedOn(P2, Q, T, T2, M, M2, t, m)
  <2>1. Stages(T, M) /\ Queued(P, Q, T, M) /\ Addressed(M)
    BY DEF Base
  <2> QED
    BY <1>6, <1>9, <1>12, <1>13, <1>14, <1>15, <2>1, WorkOne
<1>17. \A x \in Queues : Q2[x].messages = Q[x].messages /\ Q2[x].blocked = Q[x].blocked
  BY <1>5
<1>18. Stages(T2, M2) /\ Queued(P2, Q2, T2, M2)
  BY <1>16, <1>17, SameMessages DEF WorkedOn
<1>19. Counts(P2, Q2, T2, M2)
  <2>0. \A x \in Ports : CountedIn(Q2, T2, M2, x) = CountedIn(Q, T2, M2, x)
    BY <1>17, SameCounted
  <2>1. \A x \in Ports : m \notin CountedIn(Q, T, M, x)
    <3>1. \A u \in Threads : ~ Carries(T[u], m)
      BY <1>7, <1>13 DEF Alone, Keeps
    <3> QED
      BY <1>13, <3>1 DEF CountedIn, Alone
  <2>2. \A x \in Ports \ {p} : CountedIn(Q2, T2, M2, x) = CountedIn(Q, T, M, x)
    <3>1. \A x \in Ports \ {p} : CountedIn(Q, T2, M2, x) = CountedIn(Q, T, M, x) \ {m}
      BY <1>6, <1>16 DEF WorkedOn
    <3>2. \A x \in Ports \ {p} : CountedIn(Q, T, M, x) \ {m} = CountedIn(Q, T, M, x)
      BY <2>1
    <3> QED
      BY <2>0, <3>1, <3>2
  <2>3. CountedIn(Q2, T2, M2, p) = CountedIn(Q, T, M, p) \cup {m}
    <3>1. CountedIn(Q, T2, M2, p) = CountedIn(Q, T, M, p) \cup {m}
      BY <1>6, <1>9, <1>12, <1>16 DEF WorkedOn
    <3> QED
      BY <2>0, <3>1
  <2>4. CountOf(P2[p], CountedIn(Q2, T2, M2, p))
    <3>1. P[p].count = Cardinality(CountedIn(Q, T, M, p))
      BY DEF Base, Counts, CountOf
    <3>2. /\ Cardinality(CountedIn(Q2, T2, M2, p)) = Cardinality(CountedIn(Q, T, M, p)) + 1
          /\ Cardinality(CountedIn(Q2, T2, M2, p)) <= Cardinality(Msgs)
      <4>1. /\ Cardinality(CountedIn(Q, T, M, p) \cup {m}) = Cardinality(CountedIn(Q, T, M, p)) + 1
            /\ Cardinality(CountedIn(Q, T, M, p) \cup {m}) <= Cardinality(Msgs)
        BY <2>1, CountSets
      <4> QED
        BY <2>3, <4>1
    <3>3. Cardinality(CountedIn(Q2, T2, M2, p)) \in Nat
      BY CountSets
    <3> QED
      BY <1>4, <3>1, <3>2, <3>3 DEF CountOf
  <2>5. \A x \in Ports \ {p} : CountOf(P2[x], CountedIn(Q2, T2, M2, x))
    BY <1>4, <2>2 DEF Base, Counts
  <2> QED
    BY <2>4, <2>5 DEF Counts
<1>20. SendLists(P2, T2, M2, D)
  <2>1. \A x \in Ports : ~ SleepsAt(T[t], M, x) /\ ~ SleepsAt(r2, M2, x)
    BY DEF SleepsAt
  <2>2. \A x \in Ports : P2[x].blocked = P[x].blocked
    BY <1>4
  <2> QED
    BY <1>11, <2>1, <2>2 DEF Base, SendLists, Acted
<1>21. ReceiveLists(Q2, T2)
  <2>1. \A x \in Queues : ~ ReceivesAt(T[t], x) /\ ~ ReceivesAt(r2, x)
    BY DEF ReceivesAt
  <2>2. ReceiveLists(Q, T2)
    BY <1>12, <2>1 DEF Base, ReceiveLists, Others
  <2> QED
    BY <1>17, <2>2, SameBlocked
<1>22. PortsFit(P2, Q2, D) /\ SetsFit(P2, S, Q2)
  <2>1. PortsFit(P2, Q, D)
    <3>1. PortFits(P[p], Q[p], D[p], p) /\ 0 <= P[p].count
      <4>1. Cardinality(CountedIn(Q, T, M, p)) \in Nat
        BY CountSets
      <4> QED
        BY <1>2, <4>1 DEF Base, PortsFit, Counts, CountOf
    <3>2. PortFits(P2[p], Q[p], D[p], p)
      BY <1>2, <1>4, <3>1 DEF PortFits
    <3> QED
      BY <1>4, <3>2 DEF Base, PortsFit
  <2>2. SetsFit(P2, S, Q)
    BY <1>15, SameMembers
  <2> QED
    BY <1>17, <2>1, <2>2, SameBlocked
<1>23. Locks(P2, Q2, T2, M2)
  <2>1. \A x \in Queues : Q[x].lock \in Threads \cup {Nil}
    BY <1>1 DEF QueueRecord
  <2>2. ASSUME NEW x \in Queues, Q2[x].lock # Nil
        PROVE  T2[Q2[x].lock].at = "deliver" /\ T2[Q2[x].lock].obj = x
    <3>1. CASE x = q
      BY <1>5, <1>12, <3>1
    <3>2. CASE x # q
      <4>1. Q2[x].lock = Q[x].lock /\ Q[x].lock \in Threads \ {t}
        BY <1>5, <2>1, <2>2, <3>2 DEF Base, Locks
      <4> QED
        BY <1>12, <2>2, <4>1 DEF Base, Locks, Others
    <3> QED
      BY <3>1, <3>2
  <2>3. ASSUME NEW u \in Threads, T2[u].at = "deliver"
        PROVE  LET y == M2[T2[u].msg].to
               IN  /\ Q2[T2[u].obj].lock = u
                   /\ T2[u].obj = IF P2[y].set # Nil THEN P2[y].set ELSE y
    <3>1. CASE u = t
      BY <1>4, <1>5, <1>6, <1>12, <3>1
    <3>2. CASE u # t
      <4>1. T2[u] = T[u]
        BY <1>12, <3>2 DEF Others
      <4>2. T[u].msg \in Msgs /\ T[u].obj \in Queues /\ Carries(T[u], T[u].msg)
        BY <2>3, <4>1 DEF Base, Locals, Local, Carries
      <4>3. M[T[u].msg].at = "live"
        BY <4>2 DEF Base, Stages
      <4>4. M2[T[u].msg].to = M[T[u].msg].to /\ M[T[u].msg].to \in Ports
        BY <1>10, <4>2, <4>3 DEF Base, SameTo, Addressed
      <4>5. Q[T[u].obj].lock = u /\ T[u].obj # q
        BY <2>3, <4>1, Names DEF Base, Locks
      <4> QED
        BY <1>5, <1>15, <2>3, <4>1, <4>2, <4>4, <4>5 DEF Base, Locks
    <3> QED
      BY <3>1, <3>2
  <2> QED
    BY <2>2, <2>3 DEF Locks
<1>24. Sleeping(Q2, T2)
  BY <1>11, <1>17 DEF Base, Sleeping, Acted
<1>25. \A x \in Ports : E[x] # m
  BY <1>8 DEF Base, Marks, Waited
<1>26. /\ \A x \in Ports, m2 \in Msgs \ {m} : E2[x] = m2 <=> E[x] = m2
       /\ \A x \in Ports : E[x] \in {Gone, Deleted} => E2[x] \in {Gone, Deleted}
       /\ \A x \in Ports : E2[x] = m <=> marked /\ x = p
       /\ E2 \in [Ports -> Msgs \cup {Nil, Gone, Deleted}]
  <2>1. CASE marked
    BY <1>1, <1>25, <2>1, Names DEF Gone, Deleted, MarksIt
  <2>2. CASE ~ marked
    BY <1>1, <1>25, <2>2 DEF MarksIt
  <2> QED
    BY <2>1, <2>2
<1>27. Waited(T2, M2, m) <=> marked
  <2>1. \A u \in Threads : ~ Tells(T2[u], m)
    BY <1>9, <1>12, <1>13 DEF Alone, Others, Keeps
  <2> QED
    BY <1>6, <2>1 DEF Waited
<1>28. Marks(T2, M2, E2)
  BY <1>6, <1>13, <1>14, <1>26, <1>27, MarksOne DEF Base
<1>29. Promises(P2, T2, M2, E2, N2)
  <2>1. \A m2 \in Msgs \ {m} : N2[m2] = N[m2]
    BY <1>1 DEF MarksIt
  <2>2. M2[m].at # "new" /\ M2[m].to = p
    BY <1>6
  <2>3. Promised(P2, T2[t], M2, E2, N2, m)
    <3>1. CASE marked
      BY <1>6, <1>26, <2>2, <3>1 DEF Promised
    <3>2. CASE ~ marked /\ N2[m] = "WILL_NOTIFY"
      <4>1. \A u \in Threads : ~ Tells(T[u], m)
        BY <1>8 DEF Base, Stages
      <4>2. E[p] \in {Gone, Deleted} \/ ~P[p].in_use
        BY <1>25, <3>2, <4>1 DEF Base, Promises, MarksIt
      <4> QED
        BY <1>15, <1>26, <2>2, <4>2 DEF Promised
    <3> QED
      BY <3>1, <3>2 DEF Promised
  <2> QED
    <3>1. Promises(P, T, M, E, N) /\ OnlyMessage(M, M2, m)
      BY <1>6 DEF Base
    <3>2. SamePromises(P, P2, E, E2, N, N2, m)
      BY <1>15, <1>26, <2>1 DEF SamePromises
    <3> QED
      BY <1>14, <2>3, <3>1, <3>2, PromisesOne
<1>30. Typed(P2, S, Q2, T2) /\ TypedMore(M2, E2, N2, D)
  <2>1. N2 \in [Msgs -> {"none", "WILL_NOTIFY", "MSG_ACCEPTED"}]
    BY <1>1 DEF MarksIt
  <2> QED
    BY <1>4, <1>5, <1>6, <1>11, <1>26, <2>1 DEF Base, Typed, TypedMore, Acted
<1>31. Locals(T2) /\ Patience(T2, M2, D)
  BY <1>11 DEF Acted
<1>32. Base(P2, S, Q2, T2, M2, E2, N2, D)
  BY <1>10, <1>18, <1>19, <1>20, <1>21, <1>22, <1>23, <1>24, <1>28, <1>29, <1>30, <1>31 DEF Base
<1> QED
  BY <1>32 DEF P2, Q2, T2, M2

\* What thread t, about to send with port P[p] as pr, does next; r is the thread
\* as the code has it, which T has at "send".
Retries(P, T, t, r, m, p, pr) ==
    /\ P = [port EXCEPT ![p] = pr]
    /\ pr.set = port[p].set
    /\ m = r.msg /\ p = kmsg[m].to
    /\ r \in ThreadRecord /\ ~r.wait /\ ~r.timer
    /\ Changed(thread, T, t, T[t])
    /\ T[t].at = "send" /\ T[t].msg = r.msg /\ T[t].option = r.option /\ T[t].tout = r.tout

RetryFacts(P, T, t, m, p, pr) ==
    /\ m \in Msgs /\ p \in Ports /\ pr \in PortRecord /\ P[p] = pr
    /\ kmsg[m].at = "sending" /\ ~ kmsg[m].sender_entry /\ kmsg[m] \in MessageRecord
    /\ \A x \in Ports : P[x].set = port[x].set
    /\ \A x : [port EXCEPT ![p] = x] = [P EXCEPT ![p] = x]
    /\ \A x : [thread EXCEPT ![t] = x] = [T EXCEPT ![t] = x]

\* What a sender that tries, for the first time or again, finds.
LEMMA RetryIs ==
  ASSUME IInv, NEW P, NEW T, NEW t \in Threads, NEW r, NEW m, NEW p, NEW pr,
         Retries(P, T, t, r, m, p, pr),
         Base(P, set, queue, T, kmsg, entry, notice, dying)
  PROVE  RetryFacts(P, T, t, m, p, pr)
<1>1. /\ port \in [Ports -> PortRecord] /\ thread \in [Threads -> ThreadRecord]
      /\ P \in [Ports -> PortRecord] /\ T \in [Threads -> ThreadRecord]
      /\ kmsg \in [Msgs -> MessageRecord] /\ Local(T[t])
  BY InvParts, Exactly
<1>2. m \in Msgs
  BY <1>1 DEF Local, Retries
<1>3. Sends(T[t], m)
  BY DEF Sends, Retries
<1>4. kmsg[m].at = "sending" /\ ~ kmsg[m].sender_entry /\ kmsg[m].to \in Ports
  BY <1>2, <1>3 DEF Base, Stages, Marks, Addressed
<1>5. p \in Ports
  BY <1>4 DEF Retries
<1>6. P[p] = pr
  BY <1>1, <1>5 DEF Retries
<1>7. \A x \in Ports : P[x].set = port[x].set
  BY <1>1, <1>5 DEF Retries
<1>8. \A x : [port EXCEPT ![p] = x] = [P EXCEPT ![p] = x]
  BY <1>1, <1>5 DEF Retries
<1>9. \A x : [thread EXCEPT ![t] = x] = [T EXCEPT ![t] = x]
  BY <1>1 DEF Retries, Changed
<1> QED
  BY <1>1, <1>2, <1>4, <1>5, <1>6, <1>7, <1>8, <1>9 DEF RetryFacts

\* The sender gives up: its message is returned.
LEMMA GiveUpKeeps ==
  ASSUME IInv, NEW P, NEW T, NEW t \in Threads, NEW r, NEW m, NEW p, NEW pr,
         Retries(P, T, t, r, m, p, pr),
         Base(P, set, queue, T, kmsg, entry, notice, dying), GiveUp(t, pr, r)
  PROVE  IInv'
<1>1. /\ m \in Msgs /\ p \in Ports
      /\ \A x \in Ports : P[x].set = port[x].set
      /\ \A x : [port EXCEPT ![p] = x] = [P EXCEPT ![p] = x]
      /\ \A x : [thread EXCEPT ![t] = x] = [T EXCEPT ![t] = x]
  <2>1. RetryFacts(P, T, t, m, p, pr)
    BY RetryIs
  <2> QED
    BY <2>1 DEF RetryFacts
<1>2. T[t].at = "send" /\ T[t].msg = m /\ r.msg = m /\ kmsg[m].to = p
  BY DEF Retries
<1>3. Idle \in ThreadRecord /\ Local(Idle) /\ Idle.at = "idle" /\ \A M : Calm(Idle, M, t)
  <2>1. Idle.at = "idle"
    BY DEF Idle
  <2> QED
    BY <2>1, IdleIs
<1>4. Base(P, set, queue, [T EXCEPT ![t] = Idle], [kmsg EXCEPT ![m].at = "returned"],
           entry, notice, dying)
  BY <1>1, <1>2, <1>3, Ends
<1>5. port' = P /\ thread' = [T EXCEPT ![t] = Idle] /\ kmsg' = [kmsg EXCEPT ![m].at = "returned"]
  BY <1>1, <1>2 DEF GiveUp, Retries
<1>6. Base(port', set, queue, thread', kmsg', entry, notice, dying)
  BY <1>4, <1>5
<1>7. AllJoined(port', queue)
  BY <1>1, <1>5, InvParts DEF AllJoined, Joined
<1> QED
  BY <1>6, <1>7, InvParts DEF IInv, Inv, GiveUp

\* The sender goes to sleep.
LEMMA BlocksInvKeeps ==
  ASSUME IInv, NEW P, NEW T, NEW t \in Threads, NEW r, NEW m, NEW p, NEW pr,
         Retries(P, T, t, r, m, p, pr),
         Base(P, set, queue, T, kmsg, entry, notice, dying), Blocks(t, pr, r),
         pr.in_use, Full(pr, r)
  PROVE  IInv'
<1> DEFINE w == Waits(r, "SEND_IN_PROGRESS", r.tout)
           r2 == [w EXCEPT !.at = "send_wait"]
           b == Append(pr.blocked, t)
           pr2 == [pr EXCEPT !.blocked = b]
<1>1. /\ m \in Msgs /\ p \in Ports /\ P[p] = pr /\ pr \in PortRecord
      /\ \A x \in Ports : P[x].set = port[x].set
      /\ \A x : [port EXCEPT ![p] = x] = [P EXCEPT ![p] = x]
      /\ \A x : [thread EXCEPT ![t] = x] = [T EXCEPT ![t] = x]
  <2>1. RetryFacts(P, T, t, m, p, pr)
    BY RetryIs
  <2> QED
    BY <2>1 DEF RetryFacts
<1>2. /\ T[t].at = "send" /\ T[t].msg = m /\ r.msg = m /\ kmsg[m].to = p
      /\ T[t].option = r.option /\ T[t].tout = r.tout /\ r \in ThreadRecord
  BY DEF Retries
<1>3. r.tout \in BOOLEAN
  BY <1>2, ThreadFields
<1>4. /\ w \in ThreadRecord /\ w.ipc_state = "SEND_IN_PROGRESS" /\ w.wait /\ w.timer = r.tout
      /\ w.msg = r.msg /\ w.option = r.option /\ w.tout = r.tout
  BY <1>2, <1>3 DEF Waits, ThreadRecord
<1> HIDE DEF w
<1>5. /\ r2 \in ThreadRecord /\ r2.at = "send_wait"
      /\ r2.ipc_state = "SEND_IN_PROGRESS" /\ r2.wait /\ r2.timer = r.tout
      /\ r2.msg = r.msg /\ r2.option = r.option /\ r2.tout = r.tout
  BY <1>4 DEF ThreadRecord
<1> HIDE DEF r2
<1>6. pr.count > 0 /\ "ALWAYS" \notin r.option
  <2>1. pr.backlog \in Nat \ {0} /\ pr.count \in Int
    BY <1>1, BacklogsPositive DEF PortRecord, Backlogs
  <2> QED
    BY <2>1 DEF Full
<1>7. Base([P EXCEPT ![p].blocked = Append(@, t)], set, queue, [T EXCEPT ![t] = r2],
           kmsg, entry, notice, dying)
  <2>1. /\ kmsg[T[t].msg].to = p /\ (r2.timer => r2.tout) /\ r2.msg = T[t].msg
        /\ r2.option = T[t].option /\ r2.tout = T[t].tout /\ "ALWAYS" \notin r2.option
        /\ P[p].in_use /\ P[p].count > 0
    BY <1>1, <1>2, <1>3, <1>5, <1>6
  <2> QED
    BY <1>1, <1>2, <1>5, <2>1, BlocksKeeps
<1>8. port' = [port EXCEPT ![p] = pr2] /\ thread' = [thread EXCEPT ![t] = r2]
  BY <1>2 DEF Blocks, r2, w
<1>9. [P EXCEPT ![p].blocked = Append(@, t)] = [P EXCEPT ![p] = pr2]
  BY <1>1
<1>10. Base(port', set, queue, thread', kmsg, entry, notice, dying)
  BY <1>1, <1>7, <1>8, <1>9
<1>11. AllJoined(port', queue)
  <2>1. pr2.set = pr.set
    BY <1>1 DEF PortRecord
  <2>2. port \in [Ports -> PortRecord]
    BY InvParts, Exactly
  <2> HIDE DEF pr2
  <2>3. \A x \in Ports : port'[x].set = port[x].set
    BY <1>1, <1>8, <2>1, <2>2
  <2> QED
    BY <2>3, InvParts DEF AllJoined, Joined
<1> QED
  BY <1>10, <1>11, InvParts DEF IInv, Inv, Blocks

\* The sender's message is accepted.
LEMMA AcceptsInvKeeps ==
  ASSUME IInv, NEW P, NEW T, NEW t \in Threads, NEW r, NEW m, NEW p, NEW pr,
         Retries(P, T, t, r, m, p, pr),
         Base(P, set, queue, T, kmsg, entry, notice, dying), Accepts(t, pr, r),
         pr.in_use, Full(pr, r) => entry[p] = Nil
  PROVE  IInv'
<1> DEFINE q == IF pr.set # Nil THEN pr.set ELSE p
           full == Full(pr, r)
           reply == IF full THEN Nil ELSE r.reply
           r2 == [r EXCEPT !.at = "deliver", !.obj = q, !.reply = reply]
           n == pr.count + 1
           pr2 == [pr EXCEPT !.count = n]
           mr == IF full THEN [kmsg[m] EXCEPT !.at = "live", !.sender_entry = TRUE]
                         ELSE [kmsg[m] EXCEPT !.at = "live"]
<1>1. /\ m \in Msgs /\ p \in Ports /\ P[p] = pr /\ pr \in PortRecord
      /\ kmsg[m] \in MessageRecord /\ ~ kmsg[m].sender_entry
      /\ \A x \in Ports : P[x].set = port[x].set
      /\ \A x : [port EXCEPT ![p] = x] = [P EXCEPT ![p] = x]
      /\ \A x : [thread EXCEPT ![t] = x] = [T EXCEPT ![t] = x]
  <2>1. RetryFacts(P, T, t, m, p, pr)
    BY RetryIs
  <2> QED
    BY <2>1 DEF RetryFacts
<1>2. /\ T[t].at = "send" /\ T[t].msg = m /\ r.msg = m /\ kmsg[m].to = p
      /\ r \in ThreadRecord /\ ~r.wait /\ ~r.timer
  BY DEF Retries
<1>3. q \in Queues
  <2>1. pr.set \in Sets \cup {Nil}
    BY <1>1 DEF PortRecord
  <2> QED
    BY <1>1, <2>1 DEF Queues
<1>4. full \in BOOLEAN
  BY DEF Full
<1>5. reply \in Ports \cup {Nil}
  BY <1>2, ThreadFields
<1>6. mr \in MessageRecord /\ mr.at = "live" /\ mr.to = p /\ mr.sender_entry = full
  <2>1. CASE full
    <3>1. mr = [kmsg[m] EXCEPT !.at = "live", !.sender_entry = TRUE]
      BY <2>1
    <3> HIDE DEF mr
    <3> QED
      BY <1>1, <1>2, <2>1, <3>1 DEF MessageRecord
  <2>2. CASE ~ full
    <3>1. mr = [kmsg[m] EXCEPT !.at = "live"]
      BY <2>2
    <3>2. kmsg[m].sender_entry = FALSE
      BY <1>1 DEF MessageRecord
    <3> HIDE DEF mr, full
    <3> QED
      BY <1>1, <1>2, <1>4, <2>2, <3>1, <3>2 DEF MessageRecord
  <2> QED
    BY <1>4, <2>1, <2>2
<1>7. /\ queue[q].lock = Nil
      /\ queue' = [queue EXCEPT ![q].lock = t]
      /\ port' = [port EXCEPT ![p] = pr2]
      /\ thread' = [thread EXCEPT ![t] = r2]
      /\ kmsg' = [kmsg EXCEPT ![m] = mr]
      /\ MarksIt(full, entry, notice, entry', notice', p, m)
  <2>1. kmsg \in [Msgs -> MessageRecord]
    BY InvParts, Exactly
  <2>2. /\ queue[q].lock = Nil
        /\ queue' = [queue EXCEPT ![q].lock = t]
        /\ port' = [port EXCEPT ![p] = pr2]
        /\ thread' = [thread EXCEPT ![t] = r2]
    BY <1>2 DEF Accepts, Unlocked
  <2>3. kmsg' = [kmsg EXCEPT ![m] = mr]
    <3>1. CASE full
      <4>1. kmsg' = [kmsg EXCEPT ![m].at = "live", ![m].sender_entry = TRUE]
        BY <1>2, <3>1 DEF Accepts
      <4>2. mr = [kmsg[m] EXCEPT !.at = "live", !.sender_entry = TRUE]
        BY <3>1
      <4> QED
        BY <1>1, <2>1, <4>1, <4>2
    <3>2. CASE ~ full
      <4>1. kmsg' = [kmsg EXCEPT ![m].at = "live"]
        BY <1>2, <3>2 DEF Accepts
      <4>2. mr = [kmsg[m] EXCEPT !.at = "live"]
        BY <3>2
      <4> QED
        BY <1>1, <2>1, <4>1, <4>2
    <3> QED
      BY <3>1, <3>2
  <2>4. MarksIt(full, entry, notice, entry', notice', p, m)
    BY <1>2 DEF Accepts, MarksIt
  <2> QED
    BY <2>2, <2>3, <2>4
<1> HIDE DEF full, reply, mr
<1>8. r2 \in ThreadRecord
  <2> HIDE DEF q
  <2> QED
    BY <1>2, <1>3, <1>5 DEF ThreadRecord
<1>9. r2.at = "deliver" /\ r2.msg = m /\ r2.obj = q /\ r2.wait = r.wait /\ r2.timer = r.timer
  <2> HIDE DEF q
  <2> QED
    BY <1>2 DEF ThreadRecord
<1> HIDE DEF r2
<1>10. q = IF P[p].set # Nil THEN P[p].set ELSE p
  BY <1>1
<1>11. P[p].in_use
  BY <1>1
<1>12. Base([P EXCEPT ![p].count = @ + 1], set, [queue EXCEPT ![q].lock = t],
            [T EXCEPT ![t] = r2], [kmsg EXCEPT ![m] = mr], entry', notice', dying)
  <2> HIDE DEF q
  <2>1. /\ m \in Msgs /\ p \in Ports /\ T[t].at = "send" /\ T[t].msg = m /\ kmsg[m].to = p
        /\ queue[q].lock = Nil /\ ~r2.wait /\ ~r2.timer
    BY <1>1, <1>2, <1>7, <1>9
  <2>2. MarksIt(full, entry, notice, entry', notice', p, m)
    BY <1>7
  <2>3. r2.at = "deliver" /\ r2.msg = m /\ r2.obj = q
    BY <1>9
  <2>4. mr \in MessageRecord /\ mr.at = "live" /\ mr.to = p /\ (mr.sender_entry <=> full)
    BY <1>6
  <2>5. Acceptable(P, queue, T, kmsg, entry, notice, t, r2, m, p, q, mr, full, entry', notice')
    BY <1>3, <1>4, <1>8, <1>10, <1>11, <2>1, <2>2, <2>3, <2>4 DEF Acceptable
  <2> QED
    BY <2>5, AcceptsKeeps
<1>13. [P EXCEPT ![p].count = @ + 1] = [P EXCEPT ![p] = pr2]
  BY <1>1
<1>14. Base(port', set, queue', thread', kmsg', entry', notice', dying)
  BY <1>1, <1>7, <1>12, <1>13
<1>15. AllJoined(port', queue')
  <2>1. pr2.set = pr.set
    BY <1>1 DEF PortRecord
  <2>2. port \in [Ports -> PortRecord] /\ queue \in [Queues -> QueueRecord]
    BY InvParts, Exactly
  <2> HIDE DEF pr2, q
  <2>3. \A x \in Ports : port'[x].set = port[x].set
    BY <1>1, <1>7, <2>1, <2>2
  <2>4. \A x \in Queues : queue'[x].blocked = queue[x].blocked /\ queue'[x].messages = queue[x].messages
    BY <1>7, <2>2 DEF QueueRecord
  <2> QED
    BY <2>3, <2>4, InvParts DEF AllJoined, Joined, Queues
<1> QED
  BY <1>14, <1>15, InvParts DEF IInv, Inv, Accepts

\* One pass of mach_msg_enqueue's loop.
LEMMA TriesToQueueKeeps ==
  ASSUME IInv, NEW P, NEW T, NEW t \in Threads, NEW r, NEW m, NEW p, NEW pr,
         Retries(P, T, t, r, m, p, pr),
         Base(P, set, queue, T, kmsg, entry, notice, dying), TriesToQueue(t, pr, r)
  PROVE  IInv'
<1>1. p = kmsg[r.msg].to
  BY DEF Retries
<1>2. \/ GiveUp(t, pr, r)
      \/ pr.in_use /\ (Full(pr, r) => entry[p] = Nil) /\ Accepts(t, pr, r)
      \/ pr.in_use /\ Full(pr, r) /\ Blocks(t, pr, r)
  BY <1>1 DEF TriesToQueue
<1>3. CASE GiveUp(t, pr, r)
  BY <1>3, GiveUpKeeps
<1>4. CASE pr.in_use /\ (Full(pr, r) => entry[p] = Nil) /\ Accepts(t, pr, r)
  BY <1>4, AcceptsInvKeeps
<1>5. CASE pr.in_use /\ Full(pr, r) /\ Blocks(t, pr, r)
  BY <1>5, BlocksInvKeeps
<1> QED
  BY <1>2, <1>3, <1>4, <1>5

\* The first pass of mach_msg_enqueue.
LEMMA SendFirstKeeps ==
  ASSUME IInv, NEW t \in Threads, SendFirst(t)
  PROVE  IInv'
<1> DEFINE r == thread[t]
           m == r.msg
           p == kmsg[m].to
           pr == port[p]
<1>1. /\ Base(port, set, queue, thread, kmsg, entry, notice, dying)
      /\ thread \in [Threads -> ThreadRecord] /\ r \in ThreadRecord /\ Local(r)
      /\ port \in [Ports -> PortRecord]
  BY InvParts, Exactly
<1>2. r.at = "send" /\ TriesToQueue(t, pr, r)
  BY DEF SendFirst
<1>3. Retries(port, thread, t, r, m, p, pr)
  <2>1. ~r.wait /\ ~r.timer
    BY <1>1, <1>2 DEF Local
  <2>2. port = [port EXCEPT ![p] = pr] /\ Changed(thread, thread, t, r)
    BY <1>1 DEF Changed
  <2> QED
    BY <1>1, <1>2, <2>1, <2>2 DEF Retries
<1> HIDE DEF r, m, p, pr
<1> QED
  BY <1>1, <1>2, <1>3, TriesToQueueKeeps

\* Back at the loop of msg_queue, off the list of the port.
LEMMA SendAgainKeeps ==
  ASSUME IInv, NEW t \in Threads, NEW b \in Seq(Threads), NEW timed \in BOOLEAN,
         thread[t].at = "send_wait", ~thread[t].wait, timed => thread[t].tout,
         LET p == kmsg[thread[t].msg].to
         IN  /\ IsInjective(port[p].blocked) =>
                    IsInjective(b) /\ ToSet(b) = ToSet(port[p].blocked) \ {t}
             /\ \/ TriesToQueue(t, [port[p] EXCEPT !.blocked = b], [thread[t] EXCEPT !.tout = timed])
                \/ GiveUp(t, [port[p] EXCEPT !.blocked = b], [thread[t] EXCEPT !.tout = timed])
  PROVE  IInv'
<1> DEFINE r == thread[t]
           m == r.msg
           p == kmsg[m].to
           pr == [port[p] EXCEPT !.blocked = b]
           rt == [r EXCEPT !.tout = timed]
           r1 == [r EXCEPT !.tout = timed, !.at = "send"]
           P == [port EXCEPT ![p] = pr]
           T == [thread EXCEPT ![t] = r1]
<1>1. /\ Base(port, set, queue, thread, kmsg, entry, notice, dying)
      /\ thread \in [Threads -> ThreadRecord] /\ r \in ThreadRecord /\ Local(r)
      /\ port \in [Ports -> PortRecord] /\ kmsg \in [Msgs -> MessageRecord]
  BY InvParts, Exactly
<1>2. r.at = "send_wait" /\ ~r.wait /\ ~r.timer
  BY <1>1 DEF Local
<1>3. m \in Msgs /\ p \in Ports
  <2>1. m \in Msgs
    BY <1>1, <1>2 DEF Local
  <2>2. Sends(r, m)
    BY <1>2 DEF Sends
  <2> QED
    BY <1>1, <2>1, <2>2 DEF Base, Stages, Addressed
<1>4. port[p] \in PortRecord
  BY <1>1, <1>3
<1>5. /\ r1 \in ThreadRecord /\ r1.at = "send" /\ ~r1.wait /\ ~r1.timer
      /\ r1.msg = r.msg /\ r1.option = r.option /\ r1.tout = timed
      /\ rt \in ThreadRecord /\ ~rt.wait /\ ~rt.timer
      /\ rt.msg = r.msg /\ rt.option = r.option /\ rt.tout = timed
  <2> HIDE DEF r
  <2> QED
    BY <1>1, <1>2 DEF ThreadRecord
<1>6. pr.set = port[p].set
  BY <1>4 DEF PortRecord
<1>7. T[t] = r1 /\ Changed(thread, T, t, T[t])
  BY <1>1 DEF Changed
<1>8. IsInjective(port[p].blocked) =>
        IsInjective(b) /\ ToSet(b) = ToSet(port[p].blocked) \ {t}
  OBVIOUS
<1>9. TriesToQueue(t, pr, rt) \/ GiveUp(t, pr, rt)
  OBVIOUS
<1> HIDE DEF r1
<1>10. Base([port EXCEPT ![p].blocked = b], set, queue, T, kmsg, entry, notice, dying)
  <2>1. r1.msg = thread[t].msg /\ r1.option = thread[t].option /\ (r1.tout => thread[t].tout)
    BY <1>5
  <2>2. kmsg[thread[t].msg].to = p
    OBVIOUS
  <2> HIDE DEF p, m, r, rt, pr
  <2> QED
    BY <1>1, <1>3, <1>5, <1>8, <2>1, <2>2, LeavesPort
<1>11. P = [port EXCEPT ![p].blocked = b]
  OBVIOUS
<1> HIDE DEF T, P, pr, rt
<1>12. Base(P, set, queue, T, kmsg, entry, notice, dying)
  BY <1>10, <1>11
<1>13. Retries(P, T, t, rt, m, p, pr)
  BY <1>5, <1>6, <1>7 DEF Retries, P
<1> HIDE DEF p, m, r
<1> QED
  BY <1>9, <1>12, <1>13, TriesToQueueKeeps, GiveUpKeeps

\* The sender is awake again.
LEMMA SendAwakeKeeps ==
  ASSUME IInv, NEW t \in Threads, SendAwake(t)
  PROVE  IInv'
<1> DEFINE r == thread[t]
           m == r.msg
           p == kmsg[m].to
           b == RemoveFirst(port[p].blocked, t)
<1>1. /\ Base(port, set, queue, thread, kmsg, entry, notice, dying)
      /\ r \in ThreadRecord /\ Local(r)
      /\ port \in [Ports -> PortRecord]
  BY InvParts, Exactly
<1>2. r.at = "send_wait" /\ ~r.wait /\ r.tout \in BOOLEAN
  BY <1>1, ThreadFields DEF SendAwake
<1>3. p \in Ports /\ port[p].blocked \in Seq(Threads) /\ port[p] \in PortRecord
  <2>1. m \in Msgs /\ Sends(r, m)
    BY <1>1, <1>2 DEF Local, Sends
  <2>2. p \in Ports
    BY <1>1, <2>1 DEF Base, Stages, Addressed
  <2> QED
    BY <1>1, <2>2 DEF PortRecord
<1>4. CASE r.ipc_state = "SUCCESS" /\ TriesToQueue(t, port[p], r)
  <2>1. port[p] = [port[p] EXCEPT !.blocked = port[p].blocked]
    BY <1>3 DEF PortRecord
  <2>2. r = [r EXCEPT !.tout = r.tout]
    BY <1>1 DEF ThreadRecord
  <2>3. t \notin ToSet(port[p].blocked)
    BY <1>1, <1>3, <1>4 DEF Base, SendLists, SleepsAt
  <2>4. TriesToQueue(t, [port[p] EXCEPT !.blocked = port[p].blocked], [r EXCEPT !.tout = r.tout])
    BY <1>4, <2>1, <2>2
  <2> QED
    BY <1>2, <1>3, <2>3, <2>4, SendAgainKeeps
<1>5. CASE /\ r.ipc_state = "SEND_IN_PROGRESS"
           /\ r.result = "INTERRUPTED"
           /\ GiveUp(t, [port[p] EXCEPT !.blocked = b], r)
  <2>1. r = [r EXCEPT !.tout = r.tout]
    BY <1>1 DEF ThreadRecord
  <2>2. GiveUp(t, [port[p] EXCEPT !.blocked = b], [r EXCEPT !.tout = r.tout])
    BY <1>5, <2>1
  <2>3. b \in Seq(Threads) /\ (IsInjective(port[p].blocked) =>
                    IsInjective(b) /\ ToSet(b) = ToSet(port[p].blocked) \ {t})
    BY <1>3, QueueRemove
  <2> HIDE DEF b
  <2> QED
    BY <1>2, <2>2, <2>3, SendAgainKeeps
<1>6. CASE TriesToQueue(t, [port[p] EXCEPT !.blocked = b],
                        [r EXCEPT !.tout = @ /\ r.result # "TIMED_OUT"])
  <2> DEFINE timed == r.tout /\ r.result # "TIMED_OUT"
  <2>1. timed \in BOOLEAN /\ (timed => r.tout)
    BY <1>2
  <2>2. TriesToQueue(t, [port[p] EXCEPT !.blocked = b], [r EXCEPT !.tout = timed])
    BY <1>6
  <2>3. b \in Seq(Threads) /\ (IsInjective(port[p].blocked) =>
                    IsInjective(b) /\ ToSet(b) = ToSet(port[p].blocked) \ {t})
    BY <1>3, QueueRemove
  <2> HIDE DEF b, timed
  <2> QED
    BY <1>2, <2>1, <2>2, <2>3, SendAgainKeeps
<1> QED
  BY <1>4, <1>5, <1>6 DEF SendAwake

-----------------------------------------------------------------------------
(* Several threads are woken and leave a list.                             *)

\* A sender is let go, or a receiver is told why it gets no message.
Rouses(r, r2, x) ==
    /\ Woken(r, r2) /\ r2.ipc_state = x
    /\ \/ x = "SUCCESS" /\ r.at = "send_wait" /\ r.ipc_state = "SEND_IN_PROGRESS"
       \/ /\ x \in {"RCV_TOO_LARGE", "RCV_PORT_CHANGE", "RCV_INVALID_PORT"}
          /\ r.at = "recv_wait" /\ r.ipc_state = "RCV_IN_PROGRESS"

\* What a woken thread is.
LEMMA RousesIs ==
  ASSUME NEW r, NEW r2, NEW x, NEW M, Local(r), Rouses(r, r2, x)
  PROVE  /\ r2 \in ThreadRecord /\ Local(r2) /\ SameWork(r, r2) /\ SameDelivery(r, r2)
         /\ ~ Handed(r) /\ ~ Handed(r2) /\ r.at # "go" /\ r2.at # "go"
         /\ \A t : Calm(r, M, t) => Calm(r2, M, t)
         /\ \A p : ~ SleepsAt(r2, M, p)
         /\ \A q : ~ ReceivesAt(r2, q)
<1>1. r2 \in ThreadRecord
  BY DEF Rouses, Woken
<1>2. Local(r2)
  BY DEF Rouses, Woken, Local, Handed
<1>3. SameWork(r, r2) /\ SameDelivery(r, r2)
  BY DEF Rouses, Woken, SameWork, SameDelivery, Sends, Carries, Tells, Handed
<1>4. ~ Handed(r) /\ ~ Handed(r2) /\ r.at # "go" /\ r2.at # "go"
  BY DEF Rouses, Woken, Handed
<1>5. \A t : Calm(r, M, t) => Calm(r2, M, t)
  BY DEF Rouses, Woken, Calm, Sends
<1>6. (\A p : ~ SleepsAt(r2, M, p)) /\ (\A q : ~ ReceivesAt(r2, q))
  BY DEF Rouses, Woken, SleepsAt, ReceivesAt
<1> QED
  BY <1>1, <1>2, <1>3, <1>4, <1>5, <1>6

Roused(T, T2, W, x) ==
    /\ W \subseteq Threads
    /\ T2 \in [Threads -> ThreadRecord]
    /\ \A u \in Threads \ W : T2[u] = T[u]
    /\ \A u \in W : Rouses(T[u], T2[u], x)

\* Many threads are woken, and taken off their lists.
LEMMA ManyWake ==
  ASSUME NEW P, NEW S, NEW Q, NEW T, NEW M, NEW E, NEW N, NEW D, NEW P2, NEW Q2, NEW T2,
         NEW W, NEW x, NEW D2 \in [Ports -> DyingRecord], Base(P, S, Q, T, M, E, N, D), Roused(T, T2, W, x),
         \A p \in Ports : D2[p].poked \in {D[p].poked, Nil} \ W,
         Relisted(P, P2), Requeued(Q, Q2),
         SendLists(P2, T2, M, D2), ReceiveLists(Q2, T2), PortsFit(P2, Q2, D2), SetsFit(P2, S, Q2),
         \A q \in Queues : Q2[q].blocked = <<>> \/ Q2[q].messages = <<>>
  PROVE  Base(P2, S, Q2, T2, M, E, N, D2)
<1>1. ASSUME NEW u \in Threads
      PROVE  /\ T2[u] \in ThreadRecord /\ Local(T2[u]) /\ SameWork(T[u], T2[u])
             /\ SameDelivery(T[u], T2[u])
             /\ Handed(T2[u]) => T2[u] = T[u]
             /\ u \notin W => T2[u] = T[u]
             /\ u \in W => ~ Handed(T[u])
             /\ \A v \in Threads : GoesTo(T2, u, v) <=> GoesTo(T, u, v)
             /\ Calm(T[u], M, u) => Calm(T2[u], M, u)
  <2>1. Local(T[u])
    BY DEF Base, Locals
  <2>2. CASE u \in W
    <3>1. Rouses(T[u], T2[u], x)
      BY <2>2 DEF Roused
    <3>2. /\ T2[u] \in ThreadRecord /\ Local(T2[u]) /\ SameWork(T[u], T2[u])
          /\ SameDelivery(T[u], T2[u])
          /\ ~ Handed(T[u]) /\ ~ Handed(T2[u]) /\ T[u].at # "go" /\ T2[u].at # "go"
          /\ \A t : Calm(T[u], M, t) => Calm(T2[u], M, t)
      BY <2>1, <3>1, RousesIs
    <3> QED
      BY <2>2, <3>2 DEF GoesTo
  <2>3. CASE u \notin W
    <3>1. T2[u] = T[u] /\ T2[u] \in ThreadRecord
      BY <2>3 DEF Roused
    <3> QED
      BY <2>1, <2>3, <3>1, Unchanged DEF GoesTo
  <2> QED
    BY <2>2, <2>3
<1>2. WorkParts(P2, Q2, T2, M, E, N)
  <2>1. WorkParts(P, Q, T2, M, E, N)
    BY <1>1, Exactly, SameWorkKeeps
  <2> QED
    BY <2>1, ListsDoNotMatter DEF Base
<1>3. Locks(P2, Q2, T2, M)
  <2>1. Locks(P, Q, T2, M)
    BY <1>1, LocksStay DEF Base
  <2>2. ASSUME NEW t \in Threads, T2[t].at = "deliver"
        PROVE  LET p == M[T2[t].msg].to
               IN  /\ Q2[T2[t].obj].lock = t
                   /\ T2[t].obj = IF P2[p].set # Nil THEN P2[p].set ELSE p
    <3>1. T2[t].msg \in Msgs /\ Carries(T2[t], T2[t].msg) /\ T2[t].obj \in Queues
      BY <1>1, <2>2 DEF Local, Carries
    <3>2. M[T2[t].msg].to \in Ports
      BY <1>2, <3>1 DEF WorkParts, Stages, Base, Addressed
    <3> QED
      BY <2>1, <2>2, <3>1, <3>2 DEF Locks, Relisted, Requeued
  <2> QED
    BY <2>1, <2>2 DEF Locks, Requeued
<1>4. Sleeping(Q2, T2)
  BY <1>1 DEF Base, Sleeping
<1>5. Patience(T2, M, D2)
  <2>1. Pokes(T2, M, D2)
    <3>1. \A p \in Ports : D2[p].poked # Nil => D2[p].poked = D[p].poked /\ D[p].poked \in Threads \ W
      BY DEF Base, TypedMore, DyingRecord
    <3> QED
      BY <1>1, <3>1 DEF Base, Patience, Pokes
  <2>2. ASSUME NEW t \in Threads PROVE Patient(T2, M, t)
    <3>1. Patient(T, M, t)
      BY DEF Base, Patience
    <3>2. Calm(T2[t], M, t)
      BY <1>1, <3>1 DEF Patient
    <3>3. \A u \in Threads : GoesTo(T2, u, t) <=> GoesTo(T, u, t)
      BY <1>1
    <3> QED
      BY <1>1, <3>1, <3>2, <3>3 DEF Patient
  <2> QED
    BY <2>1, <2>2 DEF Patience
<1>6. Typed(P2, S, Q2, T2) /\ TypedMore(M, E, N, D2)
  BY DEF Base, Typed, TypedMore, Relisted, Requeued, Roused
<1>7. Locals(T2)
  BY <1>1 DEF Locals
<1> QED
  BY <1>2, <1>3, <1>4, <1>5, <1>6, <1>7 DEF Base, WorkParts

\* WakeAll, and which of the woken there are.
LEMMA WakeAllIs ==
  ASSUME NEW T \in [Threads -> ThreadRecord], NEW w \in Seq(Threads), NEW x \in IPCStates,
         \A u \in ToSet(w) : Rouses(T[u], Awakened(T[u], x), x)
  PROVE  Roused(T, WakeAll(T, w, x), ToSet(w), x)
<1>1. ToSet(w) \subseteq Threads
  BY DEF ToSet
<1>2. \A u \in Threads : T[u] \in ThreadRecord /\ Awakened(T[u], x) \in ThreadRecord
  BY AwakenedIs DEF Woken
<1>3. WakeAll(T, w, x) \in [Threads -> ThreadRecord]
  BY <1>2 DEF WakeAll
<1> QED
  BY <1>1, <1>3 DEF Roused, WakeAll

\* Senders that sleep at p are let go.
LEMMA WakeSendersKeeps ==
  ASSUME NEW P, NEW S, NEW Q, NEW T, NEW M, NEW E, NEW N, NEW D,
         NEW p \in Ports, NEW w \in Seq(Threads), NEW b \in Seq(Threads),
         Base(P, S, Q, T, M, E, N, D), ToSet(w) \subseteq ToSet(P[p].blocked),
         IsInjective(P[p].blocked) => IsInjective(b) /\ ToSet(b) = ToSet(P[p].blocked) \ ToSet(w)
  PROVE  Base([P EXCEPT ![p].blocked = b], S, Q, WakeAll(T, w, "SUCCESS"), M, E, N, D)
<1> DEFINE P2 == [P EXCEPT ![p].blocked = b]
           T2 == WakeAll(T, w, "SUCCESS")
           W == ToSet(w)
<1>1. P \in [Ports -> PortRecord] /\ T \in [Threads -> ThreadRecord] /\ \A t \in Threads : Local(T[t])
  BY Exactly
<1>2. P[p] \in PortRecord /\ P[p].blocked \in Seq(Threads)
  BY <1>1 DEF PortRecord
<1>3. [P[p] EXCEPT !.blocked = b] \in PortRecord
  BY <1>2 DEF PortRecord
<1>4. /\ P2 \in [Ports -> PortRecord]
      /\ P2[p].blocked = b
      /\ \A x \in Ports \ {p} : P2[x] = P[x]
      /\ P2[p].in_use = P[p].in_use /\ P2[p].receiver = P[p].receiver
      /\ P2[p].count = P[p].count /\ P2[p].set = P[p].set
  BY <1>1, <1>2, <1>3 DEF PortRecord
<1>5. SendLists(P, T, M, D) /\ IsInjective(b) /\ W \subseteq Threads
  BY DEF Base, SendLists, ToSet
<1>6. ToSet(b) = ToSet(P[p].blocked) \ W
  BY <1>5 DEF SendLists
<1>7. \A u \in W : u \in Threads /\ SleepsAt(T[u], M, p) /\ D[p].poked # u
  BY <1>5 DEF SendLists
<1>8. \A u \in W : Rouses(T[u], Awakened(T[u], "SUCCESS"), "SUCCESS")
  <2>1. \A u \in W : Woken(T[u], Awakened(T[u], "SUCCESS"))
                     /\ Awakened(T[u], "SUCCESS").ipc_state = "SUCCESS"
    BY <1>1, <1>7, AwakenedIs DEF IPCStates
  <2> QED
    BY <1>7, <2>1 DEF Rouses, SleepsAt
<1>9. Roused(T, T2, W, "SUCCESS")
  BY <1>1, <1>8, WakeAllIs DEF IPCStates
<1>10. D \in [Ports -> DyingRecord] /\ \A x \in Ports : D[x].poked \in {D[x].poked, Nil} \ W
  <2>1. ASSUME NEW x \in Ports, D[x].poked \in W PROVE FALSE
    <3>1. D[x].poked # Nil
      BY <1>5, <2>1, Names
    <3>2. SleepsAt(T[D[x].poked], M, x)
      BY <3>1, PokedIs
    <3>3. x = p
      BY <1>7, <2>1, <3>2 DEF SleepsAt
    <3> QED
      BY <1>7, <2>1, <3>3
  <2> QED
    BY <2>1, Exactly
<1> HIDE DEF P2, T2, W
<1>11. Relisted(P, P2) /\ \A x \in Ports : P2[x].set = P[x].set
  BY <1>4 DEF Relisted
<1>12. \A u \in W : (\A x : ~ SleepsAt(T2[u], M, x)) /\ (\A q : ~ ReceivesAt(T2[u], q) /\ ~ ReceivesAt(T[u], q))
  <2>1. ASSUME NEW u \in W
        PROVE  (\A x : ~ SleepsAt(T2[u], M, x)) /\ (\A q : ~ ReceivesAt(T2[u], q))
    <3>1. Rouses(T[u], T2[u], "SUCCESS") /\ Local(T[u])
      BY <1>1, <1>7, <1>9 DEF Roused
    <3> QED
      BY <3>1, RousesIs
  <2>2. \A u \in W : \A q : ~ ReceivesAt(T[u], q)
    BY <1>7 DEF SleepsAt, ReceivesAt
  <2> QED
    BY <2>1, <2>2
<1>13. \A u \in Threads \ W : T2[u] = T[u]
  BY <1>9 DEF Roused
<1>14. SendLists(P2, T2, M, D)
  <2>1. ASSUME NEW x \in Ports, NEW u \in Threads
        PROVE  u \in ToSet(P2[x].blocked) <=> SleepsAt(T2[u], M, x) /\ D[x].poked # u
    <3>1. CASE u \in W
      <4>1. u \notin ToSet(P2[x].blocked)
        <5>1. CASE x = p
          BY <1>4, <1>6, <3>1, <5>1
        <5>2. CASE x # p
          <6>1. ~ SleepsAt(T[u], M, x)
            BY <1>7, <3>1, <5>2 DEF SleepsAt
          <6> QED
            BY <1>4, <1>5, <5>2, <6>1 DEF SendLists
        <5> QED
          BY <5>1, <5>2
      <4> QED
        BY <1>12, <3>1, <4>1
    <3>2. CASE u \notin W
      <4>1. u \in ToSet(P2[x].blocked) <=> u \in ToSet(P[x].blocked)
        BY <1>4, <1>6, <3>2
      <4> QED
        BY <1>5, <1>13, <3>2, <4>1 DEF SendLists
    <3> QED
      BY <3>1, <3>2
  <2>2. \A x \in Ports : IsInjective(P2[x].blocked)
    BY <1>4, <1>5 DEF SendLists
  <2> QED
    BY <2>1, <2>2 DEF SendLists
<1>15. ReceiveLists(Q, T2)
  <2>1. \A u \in Threads : \A q : ReceivesAt(T2[u], q) <=> ReceivesAt(T[u], q)
    BY <1>12, <1>13
  <2> QED
    BY <2>1 DEF Base, ReceiveLists
<1>16. PortsFit(P2, Q, D)
  <2>1. PortFits(P[p], Q[p], D[p], p)
    BY DEF Base, PortsFit
  <2>2. b # <<>> => P[p].blocked # <<>>
    BY <1>2, <1>6, QueueEmpty
  <2>3. PortFits(P2[p], Q[p], D[p], p)
    BY <1>4, <2>1, <2>2 DEF PortFits
  <2> QED
    BY <1>4, <2>3 DEF Base, PortsFit
<1>17. SetsFit(P2, S, Q)
  BY <1>11, SameMembers
<1>18. Base(P2, S, Q, T2, M, E, N, D)
  BY <1>9, <1>10, <1>11, <1>14, <1>15, <1>16, <1>17, ManyWake, SameQueues
<1> QED
  BY <1>18 DEF P2, T2

\* Receivers that sleep at q are told why they get no message.
LEMMA WakeReceiversKeeps ==
  ASSUME NEW P, NEW S, NEW Q, NEW T, NEW M, NEW E, NEW N, NEW D,
         NEW q \in Queues, NEW w \in Seq(Threads), NEW b \in Seq(Threads),
         NEW x \in {"RCV_TOO_LARGE", "RCV_PORT_CHANGE", "RCV_INVALID_PORT"},
         Base(P, S, Q, T, M, E, N, D), ToSet(w) \subseteq ToSet(Q[q].blocked),
         IsInjective(Q[q].blocked) => IsInjective(b) /\ ToSet(b) = ToSet(Q[q].blocked) \ ToSet(w)
  PROVE  Base(P, S, [Q EXCEPT ![q].blocked = b], WakeAll(T, w, x), M, E, N, D)
<1> DEFINE Q2 == [Q EXCEPT ![q].blocked = b]
           T2 == WakeAll(T, w, x)
           W == ToSet(w)
<1>1. Q \in [Queues -> QueueRecord] /\ T \in [Threads -> ThreadRecord] /\ \A t \in Threads : Local(T[t])
  BY Exactly
<1>2. Q[q] \in QueueRecord /\ Q[q].blocked \in Seq(Threads)
  BY <1>1 DEF QueueRecord
<1>3. [Q[q] EXCEPT !.blocked = b] \in QueueRecord
  BY <1>2 DEF QueueRecord
<1>4. /\ Q2 \in [Queues -> QueueRecord]
      /\ Q2[q].blocked = b
      /\ \A y \in Queues \ {q} : Q2[y] = Q[y]
      /\ Q2[q].messages = Q[q].messages /\ Q2[q].lock = Q[q].lock
  BY <1>1, <1>2, <1>3 DEF QueueRecord
<1>5. ReceiveLists(Q, T) /\ IsInjective(b) /\ W \subseteq Threads
  BY DEF Base, ReceiveLists, ToSet
<1>6. ToSet(b) = ToSet(Q[q].blocked) \ W
  BY <1>5 DEF ReceiveLists
<1>7. \A u \in W : u \in Threads /\ ReceivesAt(T[u], q)
  BY <1>5 DEF ReceiveLists
<1>8. \A u \in W : Rouses(T[u], Awakened(T[u], x), x)
  <2>1. \A u \in W : Woken(T[u], Awakened(T[u], x)) /\ Awakened(T[u], x).ipc_state = x
    BY <1>1, <1>7, AwakenedIs DEF IPCStates
  <2> QED
    BY <1>7, <2>1 DEF Rouses, ReceivesAt
<1>9. Roused(T, T2, W, x)
  BY <1>1, <1>8, WakeAllIs DEF IPCStates
<1>10. D \in [Ports -> DyingRecord] /\ \A y \in Ports : D[y].poked \in {D[y].poked, Nil} \ W
  <2>1. ASSUME NEW y \in Ports, D[y].poked \in W PROVE FALSE
    <3>1. D[y].poked # Nil
      BY <1>5, <2>1, Names
    <3>2. SleepsAt(T[D[y].poked], M, y)
      BY <3>1, PokedIs
    <3> QED
      BY <1>7, <2>1, <3>2 DEF SleepsAt, ReceivesAt
  <2> QED
    BY <2>1, Exactly
<1> HIDE DEF Q2, T2, W
<1>11. Requeued(Q, Q2)
  BY <1>4 DEF Requeued
<1>12. \A u \in W : (\A y : ~ SleepsAt(T2[u], M, y) /\ ~ SleepsAt(T[u], M, y)) /\ (\A y : ~ ReceivesAt(T2[u], y))
  <2>1. ASSUME NEW u \in W
        PROVE  (\A y : ~ SleepsAt(T2[u], M, y)) /\ (\A y : ~ ReceivesAt(T2[u], y))
    <3>1. Rouses(T[u], T2[u], x) /\ Local(T[u])
      BY <1>1, <1>7, <1>9 DEF Roused
    <3> QED
      BY <3>1, RousesIs
  <2>2. \A u \in W : \A y : ~ SleepsAt(T[u], M, y)
    BY <1>7 DEF SleepsAt, ReceivesAt
  <2> QED
    BY <2>1, <2>2
<1>13. \A u \in Threads \ W : T2[u] = T[u]
  BY <1>9 DEF Roused
<1>14. SendLists(P, T2, M, D)
  <2>1. \A u \in Threads : \A y : SleepsAt(T2[u], M, y) <=> SleepsAt(T[u], M, y)
    BY <1>12, <1>13
  <2> QED
    BY <2>1 DEF Base, SendLists
<1>15. ReceiveLists(Q2, T2)
  <2>1. ASSUME NEW y \in Queues, NEW u \in Threads
        PROVE  u \in ToSet(Q2[y].blocked) <=> ReceivesAt(T2[u], y)
    <3>1. CASE u \in W
      <4>1. u \notin ToSet(Q2[y].blocked)
        <5>1. CASE y = q
          BY <1>4, <1>6, <3>1, <5>1
        <5>2. CASE y # q
          <6>1. ~ ReceivesAt(T[u], y)
            BY <1>7, <3>1, <5>2 DEF ReceivesAt
          <6> QED
            BY <1>4, <1>5, <5>2, <6>1 DEF ReceiveLists
        <5> QED
          BY <5>1, <5>2
      <4> QED
        BY <1>12, <3>1, <4>1
    <3>2. CASE u \notin W
      <4>1. u \in ToSet(Q2[y].blocked) <=> u \in ToSet(Q[y].blocked)
        BY <1>4, <1>6, <3>2
      <4> QED
        BY <1>5, <1>13, <3>2, <4>1 DEF ReceiveLists
    <3> QED
      BY <3>1, <3>2
  <2>2. \A y \in Queues : IsInjective(Q2[y].blocked)
    BY <1>4, <1>5 DEF ReceiveLists
  <2> QED
    BY <2>1, <2>2 DEF ReceiveLists
<1>16. b # <<>> => Q[q].blocked # <<>>
  BY <1>2, <1>6, QueueEmpty
<1>17. PortsFit(P, Q2, D)
  <2>1. ASSUME NEW p \in Ports PROVE PortFits(P[p], Q2[p], D[p], p)
    <3>1. PortFits(P[p], Q[p], D[p], p) /\ p \in Queues
      BY DEF Base, PortsFit, Queues
    <3> QED
      BY <1>4, <1>16, <3>1 DEF PortFits
  <2> QED
    BY <2>1 DEF PortsFit
<1>18. SetsFit(P, S, Q2)
  <2>1. ASSUME NEW s \in Sets PROVE SetFits(P, S[s], Q2[s], s)
    <3>1. SetFits(P, S[s], Q[s], s) /\ s \in Queues
      BY DEF Base, SetsFit, Queues
    <3> QED
      BY <1>4, <1>16, <3>1 DEF SetFits
  <2> QED
    BY <2>1 DEF SetsFit
<1>19. \A y \in Queues : Q2[y].blocked = <<>> \/ Q2[y].messages = <<>>
  BY <1>4, <1>16 DEF Base, Sleeping
<1>20. Base(P, S, Q2, T2, M, E, N, D)
  BY <1>9, <1>10, <1>11, <1>14, <1>15, <1>17, <1>18, <1>19, ManyWake, SameQueues
<1> QED
  BY <1>20 DEF Q2, T2

-----------------------------------------------------------------------------
(* The first of a list, and the rest.                                      *)

\* What is left of a list without its first elements.
LEMMA PrefixIs ==
  ASSUME NEW S, NEW seq \in Seq(S), NEW f \in Seq(S), Len(f) <= Len(seq),
         \A i \in 1 .. Len(f) : f[i] = seq[i]
  PROVE  LET rest == SubSeq(seq, Len(f) + 1, Len(seq))
         IN  /\ rest \in Seq(S) /\ ToSet(f) \subseteq ToSet(seq)
             /\ IsInjective(seq) => IsInjective(rest) /\ ToSet(rest) = ToSet(seq) \ ToSet(f)
<1> DEFINE n == Len(f)
           a == SubSeq(seq, 1, n)
           rest == SubSeq(seq, n + 1, Len(seq))
<1>1. n \in 0 .. Len(seq)
  BY LenProperties
<1>2. /\ a \in Seq(S) /\ rest \in Seq(S) /\ Len(a) = n
      /\ \A i \in 1 .. n : a[i] = seq[i]
      /\ ToSet(seq) = ToSet(a) \cup ToSet(rest)
      /\ IsInjective(seq) => IsInjective(rest) /\ ToSet(a) \cap ToSet(rest) = {}
  BY <1>1, QueueSplit
<1> HIDE DEF a, rest
<1>3. DOMAIN a = 1 .. n /\ DOMAIN f = 1 .. n
  BY <1>2
<1>4. ToSet(a) = ToSet(f)
  BY <1>2, <1>3 DEF ToSet
<1> HIDE DEF n
<1>5. /\ rest \in Seq(S) /\ ToSet(f) \subseteq ToSet(seq)
      /\ IsInjective(seq) => IsInjective(rest) /\ ToSet(rest) = ToSet(seq) \ ToSet(f)
  BY <1>2, <1>4
<1> QED
  BY <1>5 DEF rest, n

\* The first elements of a list.
LEMMA FirstOfIs ==
  ASSUME NEW S, NEW seq \in Seq(S), NEW n \in Int
  PROVE  /\ FirstOf(seq, n) \in Seq(S) /\ Len(FirstOf(seq, n)) <= Len(seq)
         /\ \A i \in 1 .. Len(FirstOf(seq, n)) : FirstOf(seq, n)[i] = seq[i]
<1>1. CASE n >= Len(seq)
  BY <1>1, LenProperties DEF FirstOf
<1>2. CASE n < Len(seq) /\ n >= 0
  <2>1. n \in 0 .. Len(seq)
    BY <1>2
  <2>2. /\ SubSeq(seq, 1, n) \in Seq(S) /\ Len(SubSeq(seq, 1, n)) = n
        /\ \A i \in 1 .. n : SubSeq(seq, 1, n)[i] = seq[i]
    BY <2>1, QueueSplit
  <2>3. FirstOf(seq, n) = SubSeq(seq, 1, n)
    BY <1>2 DEF FirstOf
  <2> QED
    BY <1>2, <2>2, <2>3
<1>3. CASE n < 0
  <2>1. FirstOf(seq, n) = SubSeq(seq, 1, n)
    BY <1>3, LenProperties DEF FirstOf
  <2>2. SubSeq(seq, 1, n) = <<>>
    BY <1>3
  <2>3. FirstOf(seq, n) = <<>>
    BY <2>1, <2>2
  <2>4. <<>> \in Seq(S) /\ Len(<<>>) = 0 /\ Len(seq) \in Nat
    BY LenProperties
  <2> HIDE DEF FirstOf
  <2>5. Len(FirstOf(seq, n)) = 0
    BY <2>3, <2>4
  <2>6. \A i \in 1 .. Len(FirstOf(seq, n)) : FALSE
    BY <2>5
  <2> QED
    BY <2>3, <2>4, <2>5, <2>6
<1> QED
  BY <1>1, <1>2, <1>3, LenProperties

-----------------------------------------------------------------------------
(* The right, the backlog and the death of a port.                         *)

\* What only the port itself and its death are concerned with.
PortTurned(P, P2, D, D2) ==
    /\ P2 \in [Ports -> PortRecord] /\ D2 \in [Ports -> DyingRecord]
    /\ \A p \in Ports : /\ P2[p].count = P[p].count /\ P2[p].set = P[p].set
                        /\ P2[p].blocked = P[p].blocked
                        /\ P2[p].in_use => P[p].in_use
                        /\ D2[p].poked = D[p].poked

\* A port turns: its queue, count and lists stay.
LEMMA PortTurnsKeeps ==
  ASSUME NEW P, NEW S, NEW Q, NEW T, NEW M, NEW E, NEW N, NEW D, NEW P2, NEW D2,
         Base(P, S, Q, T, M, E, N, D), PortTurned(P, P2, D, D2), PortsFit(P2, Q, D2)
  PROVE  Base(P2, S, Q, T, M, E, N, D2)
<1>1. Queued(P2, Q, T, M)
  <2>1. \A m \in Msgs, q \in Queues : m \in ToSet(Q[q].messages) => M[m].to \in Ports
    BY DEF Base, Queued, Addressed
  <2> QED
    BY <2>1 DEF Base, Queued, PortTurned
<1>2. Counts(P2, Q, T, M)
  BY DEF Base, Counts, CountOf, PortTurned
<1>3. SendLists(P2, T, M, D2)
  BY DEF Base, SendLists, PortTurned
<1>4. SetsFit(P2, S, Q)
  BY SameMembers DEF PortTurned
<1>5. Locks(P2, Q, T, M)
  <2>1. ASSUME NEW t \in Threads, T[t].at = "deliver" PROVE M[T[t].msg].to \in Ports
    <3>1. T[t].msg \in Msgs /\ Carries(T[t], T[t].msg)
      BY <2>1 DEF Base, Locals, Local, Carries
    <3> QED
      BY <3>1 DEF Base, Stages, Addressed
  <2> QED
    BY <2>1 DEF Base, Locks, PortTurned
<1>6. Promises(P2, T, M, E, N)
  BY DEF Base, Promises, PortTurned
<1>7. Patience(T, M, D2)
  BY DEF Base, Patience, Pokes, PortTurned
<1>8. Typed(P2, S, Q, T) /\ TypedMore(M, E, N, D2)
  BY DEF Base, Typed, TypedMore, PortTurned
<1> QED
  BY <1>1, <1>2, <1>3, <1>4, <1>5, <1>6, <1>7, <1>8 DEF Base

\* A receive right arrives.
LEMMA ArrivesKeeps ==
  ASSUME IInv, NEW p \in Ports, RightArrives(p)
  PROVE  IInv'
<1> DEFINE pr == [port[p] EXCEPT !.receiver = "task"]
<1>1. /\ Base(port, set, queue, thread, kmsg, entry, notice, dying)
      /\ port \in [Ports -> PortRecord] /\ dying \in [Ports -> DyingRecord]
      /\ port[p] \in PortRecord
  BY InvParts, Exactly
<1>2. pr \in PortRecord
  BY <1>1 DEF PortRecord
<1>3. /\ pr.count = port[p].count /\ pr.set = port[p].set /\ pr.blocked = port[p].blocked
      /\ pr.in_use = port[p].in_use /\ pr.receiver = "task"
  BY <1>1 DEF PortRecord
<1>4. port' = [port EXCEPT ![p] = pr] /\ port[p].receiver = "transit"
  BY <1>1 DEF RightArrives
<1> HIDE DEF pr
<1>5. PortTurned(port, port', dying, dying)
  BY <1>1, <1>2, <1>3, <1>4 DEF PortTurned
<1>6. PortsFit(port', queue, dying)
  <2>1. PortFits(port[p], queue[p], dying[p], p)
    BY <1>1 DEF Base, PortsFit
  <2>2. PortFits(pr, queue[p], dying[p], p)
    BY <1>3, <1>4, <2>1 DEF PortFits
  <2> QED
    BY <1>1, <1>4, <2>2 DEF Base, PortsFit
<1>7. Base(port', set, queue, thread, kmsg, entry, notice, dying)
  BY <1>1, <1>5, <1>6, PortTurnsKeeps
<1>8. AllJoined(port', queue)
  BY <1>5, InvParts DEF AllJoined, Joined, PortTurned
<1> QED
  BY <1>7, <1>8, InvParts DEF IInv, Inv, RightArrives

\* port_set_backlog lets senders go on.
LEMMA BacklogKeeps ==
  ASSUME IInv, NEW p \in Ports, NEW backlog, port_set_backlog(p, backlog)
  PROVE  IInv'
<1> DEFINE room == FirstOf(port[p].blocked, backlog - port[p].backlog)
           b == SubSeq(port[p].blocked, Len(room) + 1, Len(port[p].blocked))
           P == [port EXCEPT ![p].blocked = b]
           T == WakeAll(thread, room, "SUCCESS")
           pr == [P[p] EXCEPT !.backlog = backlog]
<1>1. /\ Base(port, set, queue, thread, kmsg, entry, notice, dying)
      /\ port \in [Ports -> PortRecord] /\ dying \in [Ports -> DyingRecord]
      /\ port[p] \in PortRecord
  BY InvParts, Exactly
<1>2. port[p].blocked \in Seq(Threads) /\ port[p].backlog \in Backlogs
  BY <1>1 DEF PortRecord
<1>3. backlog \in Backlogs /\ backlog \in Int /\ port[p].backlog \in Int
  <2>1. \A x \in Backlogs : x \in Int
    BY BacklogsPositive DEF Backlogs
  <2>2. backlog \in Backlogs
    BY DEF port_set_backlog, Backlogs
  <2> QED
    BY <1>2, <2>1, <2>2
<1>4. /\ room \in Seq(Threads) /\ Len(room) <= Len(port[p].blocked)
      /\ \A i \in 1 .. Len(room) : room[i] = port[p].blocked[i]
  <2>1. backlog - port[p].backlog \in Int
    BY <1>3
  <2> QED
    BY <1>2, <2>1, FirstOfIs
<1> HIDE DEF room
<1>5. /\ b \in Seq(Threads) /\ ToSet(room) \subseteq ToSet(port[p].blocked)
      /\ IsInjective(port[p].blocked) =>
            IsInjective(b) /\ ToSet(b) = ToSet(port[p].blocked) \ ToSet(room)
  BY <1>2, <1>4, PrefixIs
<1> HIDE DEF b
<1>6. Base(P, set, queue, T, kmsg, entry, notice, dying)
  BY <1>1, <1>4, <1>5, WakeSendersKeeps
<1>7. P \in [Ports -> PortRecord] /\ P[p] \in PortRecord
  BY <1>6, Exactly
<1>8. P[p].set = port[p].set /\ \A x \in Ports \ {p} : P[x] = port[x]
  BY <1>1 DEF PortRecord
<1>9. port' = [P EXCEPT ![p] = pr] /\ thread' = T
  <2>1. port' = [port EXCEPT ![p].backlog = backlog, ![p].blocked = b]
    BY DEF port_set_backlog, room, b
  <2>2. [port EXCEPT ![p].backlog = backlog, ![p].blocked = b]
            = [port EXCEPT ![p] = [port[p] EXCEPT !.backlog = backlog, !.blocked = b]]
    BY <1>1
  <2>3. P[p] = [port[p] EXCEPT !.blocked = b]
    BY <1>1
  <2>4. pr = [port[p] EXCEPT !.backlog = backlog, !.blocked = b]
    BY <1>1, <2>3 DEF PortRecord
  <2>5. [P EXCEPT ![p] = pr] = [port EXCEPT ![p] = pr]
    BY <1>1
  <2> QED
    BY <2>1, <2>2, <2>4, <2>5 DEF port_set_backlog, room
<1> HIDE DEF P, T
<1>10. pr \in PortRecord
  BY <1>3, <1>7 DEF PortRecord
<1>11. /\ pr.count = P[p].count /\ pr.set = P[p].set /\ pr.blocked = P[p].blocked
       /\ pr.in_use = P[p].in_use /\ pr.receiver = P[p].receiver
  BY <1>7 DEF PortRecord
<1> HIDE DEF pr
<1>12. PortTurned(P, port', dying, dying)
  BY <1>1, <1>7, <1>9, <1>10, <1>11 DEF PortTurned
<1>13. PortsFit(port', queue, dying)
  <2>1. PortFits(P[p], queue[p], dying[p], p)
    BY <1>6 DEF Base, PortsFit
  <2>2. PortFits(pr, queue[p], dying[p], p)
    BY <1>11, <2>1 DEF PortFits
  <2> QED
    BY <1>6, <1>7, <1>9, <2>2 DEF Base, PortsFit
<1>14. Base(port', set, queue, thread', kmsg, entry, notice, dying)
  BY <1>6, <1>9, <1>12, <1>13, PortTurnsKeeps
<1>15. AllJoined(port', queue)
  <2>1. \A x \in Ports : port'[x].set = port[x].set
    BY <1>7, <1>8, <1>9, <1>11
  <2> QED
    BY <2>1, InvParts DEF AllJoined, Joined
<1> QED
  BY <1>14, <1>15, InvParts DEF IInv, Inv, port_set_backlog

-----------------------------------------------------------------------------
(* port_destroy's wakeups.                                                 *)

\* port_destroy takes a sender off the list of the dead port.
LEMMA PokeKeeps ==
  ASSUME IInv, NEW p \in Ports, Poke(p)
  PROVE  IInv'
<1> DEFINE b == port[p].blocked
           h == Head(b)
           b2 == IF b = <<>> THEN <<>> ELSE Tail(b)
           d2 == IF b = <<>> THEN [dying[p] EXCEPT !.at = "rights"]
                 ELSE [dying[p] EXCEPT !.poked = h]
<1>1. /\ Base(port, set, queue, thread, kmsg, entry, notice, dying)
      /\ port \in [Ports -> PortRecord] /\ dying \in [Ports -> DyingRecord]
      /\ port[p] \in PortRecord /\ dying[p] \in DyingRecord
  BY InvParts, Exactly
<1>2. b \in Seq(Threads) /\ dying[p].at = "poke" /\ dying[p].poked = Nil
  BY <1>1 DEF Poke, PortRecord
<1>3. b2 \in Seq(Threads) /\ (b2 # <<>> => b # <<>>)
  BY <1>2, QueueTail
<1>4. [port[p] EXCEPT !.blocked = b2] \in PortRecord
  <2> HIDE DEF b2
  <2> QED
    BY <1>1, <1>3 DEF PortRecord
<1>5. port' = [port EXCEPT ![p].blocked = b2] /\ dying' = [dying EXCEPT ![p] = d2]
  BY DEF Poke
<1>6. /\ port' \in [Ports -> PortRecord]
      /\ port'[p].blocked = b2
      /\ \A x \in Ports \ {p} : port'[x] = port[x]
      /\ port'[p].in_use = port[p].in_use /\ port'[p].receiver = port[p].receiver
      /\ port'[p].count = port[p].count /\ port'[p].set = port[p].set
  <2> HIDE DEF b2
  <2> QED
    BY <1>1, <1>4, <1>5 DEF PortRecord
<1>7. /\ d2 \in DyingRecord
      /\ b = <<>> => d2.at = "rights" /\ d2.poked = Nil
      /\ b # <<>> => d2.at = "poke" /\ d2.poked = h /\ h \in ToSet(b) /\ h \in Threads
  <2>1. CASE b = <<>>
    <3>1. d2 = [dying[p] EXCEPT !.at = "rights"]
      BY <2>1
    <3> HIDE DEF d2
    <3> QED
      BY <1>1, <1>2, <2>1, <3>1 DEF DyingRecord
  <2>2. CASE b # <<>>
    <3>1. d2 = [dying[p] EXCEPT !.poked = h]
      BY <2>2
    <3>2. h \in ToSet(b) /\ h \in Threads
      BY <1>2, <2>2, QueueTail
    <3> HIDE DEF d2, h, b
    <3> QED
      BY <1>1, <1>2, <2>2, <3>1, <3>2 DEF DyingRecord
  <2> QED
    BY <2>1, <2>2
<1>8. /\ dying' \in [Ports -> DyingRecord] /\ dying'[p] = d2
      /\ \A x \in Ports \ {p} : dying'[x] = dying[x]
  BY <1>1, <1>5, <1>7
<1>9. b # <<>> => IsInjective(b2) /\ ToSet(b2) = ToSet(b) \ {h}
  <2>1. IsInjective(b)
    BY <1>1 DEF Base, SendLists
  <2> QED
    BY <1>2, <2>1, QueueTail
<1>10. b = <<>> => b2 = b
  OBVIOUS
<1> HIDE DEF b2, d2
<1>11. SendLists(port', thread, kmsg, dying')
  <2>1. SendLists(port, thread, kmsg, dying)
    BY <1>1 DEF Base
  <2>2. ASSUME NEW u \in Threads
        PROVE  u \in ToSet(port'[p].blocked) <=> SleepsAt(thread[u], kmsg, p) /\ dying'[p].poked # u
    <3>1. u \in ToSet(b) <=> SleepsAt(thread[u], kmsg, p)
      BY <1>2, <2>1, Names DEF SendLists
    <3>2. CASE b = <<>>
      BY <1>6, <1>7, <1>8, <1>10, <3>1, <3>2, Names
    <3>3. CASE b # <<>>
      BY <1>6, <1>7, <1>8, <1>9, <3>1, <3>3
    <3> QED
      BY <3>2, <3>3
  <2>3. IsInjective(port'[p].blocked)
    <3>1. IsInjective(b)
      BY <2>1 DEF SendLists
    <3> QED
      BY <1>6, <1>9, <1>10, <3>1
  <2>4. ASSUME NEW x \in Ports, x # p
        PROVE  /\ IsInjective(port'[x].blocked)
               /\ \A u \in Threads : u \in ToSet(port'[x].blocked) <=>
                        SleepsAt(thread[u], kmsg, x) /\ dying'[x].poked # u
    BY <1>6, <1>8, <2>1, <2>4 DEF SendLists
  <2> QED
    BY <2>2, <2>3, <2>4 DEF SendLists
<1>12. PortsFit(port', queue, dying')
  <2>1. PortFits(port[p], queue[p], dying[p], p)
    BY <1>1 DEF Base, PortsFit
  <2>2. PortFits(port'[p], queue[p], dying'[p], p)
    <3>1. ~ port[p].in_use
      BY <1>2, <2>1 DEF PortFits
    <3> QED
      BY <1>2, <1>3, <1>6, <1>7, <1>8, <1>10, <2>1, <3>1 DEF PortFits
  <2> QED
    BY <1>1, <1>6, <1>8, <2>2 DEF Base, PortsFit
<1>13. Pokes(thread, kmsg, dying')
  <2>1. Pokes(thread, kmsg, dying)
    BY <1>1 DEF Base, Patience
  <2>2. ASSUME b # <<>> PROVE SleepsAt(thread[h], kmsg, p) /\ thread[h].wait
    <3>1. h \in Threads /\ SleepsAt(thread[h], kmsg, p)
      BY <1>1, <1>7, <2>2 DEF Base, SendLists
    <3>2. p \in MayDie
      BY <1>1, <1>2 DEF Base, PortsFit, PortFits
    <3>3. Local(thread[h]) /\ Calm(thread[h], kmsg, h)
      BY <1>1, <3>1 DEF Base, Locals, Patience, Patient
    <3>4. /\ thread[h].at = "send_wait" /\ thread[h].msg \in Msgs /\ "ALWAYS" \notin thread[h].option
          /\ Sends(thread[h], thread[h].msg) /\ kmsg[thread[h].msg].to = p
          /\ thread[h].ipc_state = "SEND_IN_PROGRESS"
      BY <3>1, <3>3 DEF Local, SleepsAt, Sends
    <3> QED
      BY <3>1, <3>2, <3>3, <3>4 DEF Calm
  <2> QED
    BY <1>7, <1>8, <2>1, <2>2 DEF Pokes
<1>14. Relisted(port, port') /\ \A x \in Ports : port'[x].set = port[x].set
  BY <1>6 DEF Relisted
<1>15. WorkParts(port', queue, thread, kmsg, entry, notice)
  BY <1>1, <1>14, ListsDoNotMatter, Exactly, SameQueues DEF Base
<1>16. Locks(port', queue, thread, kmsg)
  <2>1. ASSUME NEW t \in Threads, thread[t].at = "deliver" PROVE kmsg[thread[t].msg].to \in Ports
    <3>1. thread[t].msg \in Msgs /\ Carries(thread[t], thread[t].msg)
      BY <1>1, <2>1 DEF Base, Locals, Local, Carries
    <3> QED
      BY <1>1, <3>1 DEF Base, Stages, Addressed
  <2> QED
    BY <1>1, <1>14, <2>1 DEF Base, Locks
<1>17. SetsFit(port', set, queue)
  BY <1>1, <1>14, SameMembers
<1>18. Typed(port', set, queue, thread) /\ TypedMore(kmsg, entry, notice, dying')
  BY <1>1, <1>6, <1>8 DEF Base, Typed, TypedMore
<1>19. Patience(thread, kmsg, dying')
  BY <1>1, <1>13 DEF Base, Patience
<1>20. Base(port', set, queue, thread, kmsg, entry, notice, dying')
  BY <1>1, <1>11, <1>12, <1>15, <1>16, <1>17, <1>18, <1>19 DEF Base, WorkParts
<1>21. AllJoined(port', queue)
  BY <1>14, InvParts DEF AllJoined, Joined
<1> QED
  BY <1>20, <1>21, InvParts DEF IInv, Inv, Poke

\* port_destroy wakes the sender that it has taken off.
LEMMA PokeGoKeeps ==
  ASSUME IInv, NEW p \in Ports, PokeGo(p)
  PROVE  IInv'
<1> DEFINE h == dying[p].poked
           r2 == Awakened(thread[h], "SUCCESS")
           d2 == [dying[p] EXCEPT !.poked = Nil]
<1>1. /\ Base(port, set, queue, thread, kmsg, entry, notice, dying)
      /\ thread \in [Threads -> ThreadRecord] /\ dying \in [Ports -> DyingRecord]
      /\ dying[p] \in DyingRecord
  BY InvParts, Exactly
<1>2. h # Nil /\ h \in Threads /\ SleepsAt(thread[h], kmsg, p)
  BY <1>1, PokedIs DEF PokeGo
<1>3. d2 \in DyingRecord /\ d2.at = dying[p].at /\ d2.poked = Nil
  BY <1>1 DEF DyingRecord
<1>4. /\ dying' = [dying EXCEPT ![p] = d2] /\ thread' = [thread EXCEPT ![h] = r2]
  BY DEF PokeGo
<1> HIDE DEF d2
<1>5. /\ dying' \in [Ports -> DyingRecord] /\ dying'[p] = d2
      /\ \A x \in Ports \ {p} : dying'[x] = dying[x]
  BY <1>1, <1>3, <1>4
<1>6. Rouses(thread[h], r2, "SUCCESS") /\ Local(thread[h]) /\ r2 \in ThreadRecord
  <2>1. thread[h] \in ThreadRecord /\ Local(thread[h])
    BY <1>1, <1>2, Exactly
  <2>2. Woken(thread[h], r2) /\ r2.ipc_state = "SUCCESS"
    BY <2>1, AwakenedIs DEF IPCStates
  <2> QED
    BY <1>2, <2>1, <2>2 DEF Rouses, SleepsAt, Woken
<1>7. (\A x : ~ SleepsAt(r2, kmsg, x)) /\ (\A q : ~ ReceivesAt(r2, q) /\ ~ ReceivesAt(thread[h], q))
  <2>1. (\A x : ~ SleepsAt(r2, kmsg, x)) /\ (\A q : ~ ReceivesAt(r2, q))
    BY <1>6, RousesIs
  <2> QED
    BY <1>2, <2>1 DEF SleepsAt, ReceivesAt
<1> HIDE DEF r2
<1>8. thread' \in [Threads -> ThreadRecord] /\ thread'[h] = r2 /\ Others(thread, thread', h)
  BY <1>1, <1>2, <1>4, <1>6 DEF Others
<1>9. Roused(thread, thread', {h}, "SUCCESS")
  BY <1>2, <1>6, <1>8 DEF Roused, Others
<1>10. ASSUME NEW x \in Ports, x # p PROVE dying[x].poked # h /\ ~ SleepsAt(thread[h], kmsg, x)
  <2>1. ~ SleepsAt(thread[h], kmsg, x)
    BY <1>2, <1>10 DEF SleepsAt
  <2>2. dying[x].poked # Nil => SleepsAt(thread[dying[x].poked], kmsg, x)
    BY <1>1, PokedIs
  <2> QED
    BY <1>2, <2>1, <2>2
<1>11. \A x \in Ports : dying'[x].poked \in {dying[x].poked, Nil} \ {h}
  BY <1>2, <1>3, <1>5, <1>10
<1>12. SendLists(port, thread', kmsg, dying')
  <2>1. SendLists(port, thread, kmsg, dying)
    BY <1>1 DEF Base
  <2>2. ASSUME NEW x \in Ports, NEW u \in Threads
        PROVE  u \in ToSet(port[x].blocked) <=> SleepsAt(thread'[u], kmsg, x) /\ dying'[x].poked # u
    <3>1. u \in ToSet(port[x].blocked) <=> SleepsAt(thread[u], kmsg, x) /\ dying[x].poked # u
      BY <2>1 DEF SendLists
    <3>2. CASE u = h
      BY <1>7, <1>8, <1>10, <3>1, <3>2
    <3>3. CASE u # h
      <4>1. thread'[u] = thread[u] /\ (dying'[x].poked # u <=> dying[x].poked # u)
        BY <1>3, <1>5, <1>8, <3>3, Names DEF Others
      <4> QED
        BY <3>1, <4>1
    <3> QED
      BY <3>2, <3>3
  <2> QED
    BY <2>1, <2>2 DEF SendLists
<1>13. ReceiveLists(queue, thread')
  BY <1>1, <1>7, <1>8 DEF Base, ReceiveLists, Others
<1>14. PortsFit(port, queue, dying')
  <2>1. PortFits(port[p], queue[p], dying[p], p)
    BY <1>1 DEF Base, PortsFit
  <2>2. PortFits(port[p], queue[p], dying'[p], p)
    BY <1>3, <1>5, <2>1 DEF PortFits
  <2> QED
    BY <1>1, <1>5, <2>2 DEF Base, PortsFit
<1>15. SetsFit(port, set, queue)
  BY <1>1 DEF Base
<1>16. Base(port, set, queue, thread', kmsg, entry, notice, dying')
  BY <1>1, <1>5, <1>9, <1>11, <1>12, <1>13, <1>14, <1>15, ManyWake, SameQueues
<1> QED
  BY <1>16, InvParts DEF IInv, Inv, PokeGo

-----------------------------------------------------------------------------
(* The translations, and the messages of a port that dies.                 *)

\* The translation of p is removed; its message, if any, forgets it.
Forgotten(M, e) == [m \in Msgs |-> [M[m] EXCEPT !.sender_entry = @ /\ e # m]]

\* A translation goes, and the message that it waits for forgets it.
LEMMA EntryRemovedKeeps ==
  ASSUME NEW P, NEW S, NEW Q, NEW T, NEW M, NEW E, NEW N, NEW D, NEW M2, NEW E2,
         NEW p \in Ports, NEW value \in {Gone, Deleted},
         Base(P, S, Q, T, M, E, N, D), E[p] \notin {Gone, Deleted}, Changed(E, E2, p, value),
         M2 = Forgotten(M, E[p])
  PROVE  Base(P, S, Q, T, M2, E2, N, D)
<1>1. M \in [Msgs -> MessageRecord] /\ E \in [Ports -> Msgs \cup {Nil, Gone, Deleted}]
  BY Exactly
<1>2. ASSUME NEW m \in Msgs
      PROVE  /\ M2[m] \in MessageRecord /\ M2[m].at = M[m].at /\ M2[m].to = M[m].to
             /\ M2[m].sender_entry <=> M[m].sender_entry /\ E[p] # m
  <2>1. M[m] \in MessageRecord
    BY <1>1
  <2> DEFINE se == M[m].sender_entry /\ E[p] # m
  <2>2. se \in BOOLEAN
    BY <2>1 DEF MessageRecord
  <2>3. M2[m] = [M[m] EXCEPT !.sender_entry = se]
    BY DEF Forgotten
  <2> HIDE DEF se
  <2>4. M2[m] \in MessageRecord /\ M2[m].at = M[m].at /\ M2[m].to = M[m].to /\ M2[m].sender_entry = se
    BY <2>1, <2>2, <2>3 DEF MessageRecord
  <2> QED
    BY <2>4 DEF se
<1>3. M2 \in [Msgs -> MessageRecord]
  BY <1>2 DEF Forgotten
<1>4. /\ E2 \in [Ports -> Msgs \cup {Nil, Gone, Deleted}] /\ E2[p] = value
      /\ \A x \in Ports \ {p} : E2[x] = E[x]
  BY <1>1 DEF Changed
<1>5. \A m \in Msgs : m \notin {Gone, Deleted}
  BY Names DEF Gone, Deleted
<1>6. \A t \in Threads, m \in Msgs : Tells(T[t], m) => E[p] # m
  BY DEF Base, Marks, Waited
<1>7. Stages(T, M2)
  BY <1>2, <1>6 DEF Base, Stages
<1>8. Addressed(M2) /\ Queued(P, Q, T, M2) /\ Counts(P, Q, T, M2)
  <2>0. \A m \in Msgs : M2[m].at = M[m].at /\ M2[m].to = M[m].to
    BY <1>2
  <2>1. Addressed(M2) /\ Queued(P, Q, T, M2)
    BY <2>0 DEF Base, Addressed, Queued
  <2>2. \A x \in Ports : CountedIn(Q, T, M2, x) = CountedIn(Q, T, M, x)
    BY <1>2 DEF CountedIn
  <2> QED
    BY <2>1, <2>2 DEF Base, Counts
<1>9. /\ \A t \in Threads, x \in Ports : SleepsAt(T[t], M2, x) <=> SleepsAt(T[t], M, x)
      /\ \A t \in Threads : Calm(T[t], M, t) => Calm(T[t], M2, t)
  <2>1. SameTo(M, M2)
    BY <1>2 DEF SameTo
  <2>2. \A t \in Threads : Local(T[t]) /\ \A m \in Msgs : Sends(T[t], m) => M[m].at = "sending"
    BY DEF Base, Locals, Stages
  <2> QED
    BY <2>1, <2>2, SleeperStays
<1>10. SendLists(P, T, M2, D)
  BY <1>9 DEF Base, SendLists
<1>11. Locks(P, Q, T, M2)
  <2>1. ASSUME NEW t \in Threads, T[t].at = "deliver" PROVE T[t].msg \in Msgs
    BY <2>1 DEF Base, Locals, Local
  <2> QED
    BY <1>2, <2>1 DEF Base, Locks
<1>12. Marks(T, M2, E2)
  <2>1. ASSUME NEW m \in Msgs, NEW x \in Ports
        PROVE  E2[x] = m <=> M2[m].to = x /\ Waited(T, M2, m)
    <3>1. E[x] = m <=> M[m].to = x /\ Waited(T, M, m)
      BY DEF Base, Marks
    <3>2. Waited(T, M2, m) <=> Waited(T, M, m) /\ E[p] # m
      BY <1>2 DEF Waited
    <3>3. E[p] = m => M[m].to = p
      BY DEF Base, Marks
    <3> QED
      BY <1>2, <1>4, <1>5, <3>1, <3>2, <3>3
  <2> QED
    BY <1>2, <2>1 DEF Base, Marks
<1>13. Promises(P, T, M2, E2, N)
  <2>1. ASSUME NEW m \in Msgs, N[m] = "WILL_NOTIFY"
        PROVE  /\ M2[m].at # "new" /\ M2[m].to \in Ports
               /\ \/ M2[m].sender_entry /\ E2[M2[m].to] = m
                  \/ \E t \in Threads : Tells(T[t], m)
                  \/ E2[M2[m].to] \in {Gone, Deleted}
                  \/ ~P[M2[m].to].in_use
    <3>1. /\ M[m].at # "new" /\ M[m].to \in Ports
          /\ \/ M[m].sender_entry /\ E[M[m].to] = m
             \/ \E t \in Threads : Tells(T[t], m)
             \/ E[M[m].to] \in {Gone, Deleted}
             \/ ~P[M[m].to].in_use
      BY <2>1 DEF Base, Promises
    <3>2. E[p] = m => M[m].to = p
      BY DEF Base, Marks
    <3> QED
      BY <1>2, <1>4, <3>1, <3>2
  <2> QED
    BY <2>1 DEF Promises
<1>14. Patience(T, M2, D)
  <2>1. Pokes(T, M2, D)
    <3>1. \A x \in Ports : D[x].poked # Nil => D[x].poked \in Threads
      BY DEF Base, TypedMore, DyingRecord
    <3> QED
      BY <1>9, <3>1 DEF Base, Patience, Pokes
  <2> QED
    BY <1>9, <2>1 DEF Base, Patience, Patient
<1>15. TypedMore(M2, E2, N, D)
  BY <1>3, <1>4 DEF Base, TypedMore
<1> QED
  BY <1>7, <1>8, <1>10, <1>11, <1>12, <1>13, <1>14, <1>15 DEF Base

\* The death of the port takes the translation.
LEMMA DestroyRightsKeeps ==
  ASSUME IInv, NEW p \in Ports, DestroyRights(p)
  PROVE  IInv'
<1>1. Changed(entry, entry', p, Deleted) /\ entry[p] \notin {Gone, Deleted}
      /\ kmsg' = Forgotten(kmsg, entry[p])
  BY DEF DestroyRights, EntryRemoved, Changed, Forgotten
<1>2. Base(port, set, queue, thread, kmsg', entry', notice, dying)
  BY <1>1, InvParts, EntryRemovedKeeps
<1> QED
  BY <1>2, InvParts DEF IInv, Inv, DestroyRights

\* The senders' task gives up its send right.
LEMMA DropSendRightKeeps ==
  ASSUME IInv, NEW p \in Ports, DropSendRight(p)
  PROVE  IInv'
<1>1. Changed(entry, entry', p, Gone) /\ entry[p] \notin {Gone, Deleted}
      /\ kmsg' = Forgotten(kmsg, entry[p])
  BY DEF DropSendRight, EntryRemoved, Changed, Forgotten
<1>2. Base(port, set, queue, thread, kmsg', entry', notice, dying)
  BY <1>1, InvParts, EntryRemovedKeeps
<1> QED
  BY <1>2, InvParts DEF IInv, Inv, DropSendRight

\* A queued message is in its port's queue, or in that of its port's set, and
\* its translation waits for it if it has the mark.
LEMMA QueuedIs ==
  ASSUME NEW P, NEW S, NEW Q, NEW T, NEW M, NEW E, NEW N, NEW D,
         Base(P, S, Q, T, M, E, N, D), NEW q \in Queues, NEW m \in ToSet(Q[q].messages)
  PROVE  /\ m \in Msgs /\ M[m].at = "live" /\ M[m].to \in Ports
         /\ q = M[m].to \/ q = P[M[m].to].set
         /\ q \in Ports => M[m].to = q
         /\ \A t \in Threads : ~ Keeps(T[t], m) /\ ~ Sends(T[t], m) /\ ~ Carries(T[t], m) /\ ~ Tells(T[t], m)
         /\ \A x \in Queues : m \in ToSet(Q[x].messages) => x = q
         /\ \A x \in Ports : E[x] = m <=> M[m].to = x /\ M[m].sender_entry
<1>1. Q \in [Queues -> QueueRecord] /\ P \in [Ports -> PortRecord]
  BY Exactly
<1>2. Q[q].messages \in Seq(Msgs)
  BY <1>1 DEF QueueRecord
<1>3. m \in Msgs
  BY <1>2 DEF ToSet
<1>4. /\ M[m].at = "live" /\ (q = M[m].to \/ q = P[M[m].to].set)
      /\ \A t \in Threads : ~ Keeps(T[t], m)
      /\ \A x \in Queues : m \in ToSet(Q[x].messages) => x = q
  BY <1>3 DEF Base, Queued
<1>5. M[m].to \in Ports
  BY <1>3, <1>4 DEF Base, Addressed
<1>6. P[M[m].to].set \in Sets \cup {Nil}
  BY <1>1, <1>5 DEF PortRecord
<1>7. q \in Ports => M[m].to = q
  BY <1>4, <1>6, Names
<1>8. \A t \in Threads : ~ Sends(T[t], m) /\ ~ Carries(T[t], m) /\ ~ Tells(T[t], m)
  BY <1>4 DEF Keeps
<1>9. \A x \in Ports : E[x] = m <=> M[m].to = x /\ M[m].sender_entry
  BY <1>3, <1>4, <1>8 DEF Base, Marks, Waited
<1> QED
  BY <1>3, <1>4, <1>5, <1>7, <1>8, <1>9

\* What becomes of a message and its translation when its port dies.
Dropped(M, E, M2, E2, p, m) ==
    /\ M2 = [M EXCEPT ![m].at = "destroyed", ![m].sender_entry = FALSE]
    /\ E2 = [E EXCEPT ![p] = IF M[m].sender_entry THEN Nil ELSE @]

DropFacts(M, E, M2, E2, p, m) ==
    /\ M2 \in [Msgs -> MessageRecord] /\ OnlyMessage(M, M2, m)
    /\ M2[m].at = "destroyed" /\ M2[m].to = M[m].to /\ ~ M2[m].sender_entry
    /\ E2 \in [Ports -> Msgs \cup {Nil, Gone, Deleted}]
    /\ \A x \in Ports \ {p} : E2[x] = E[x]
    /\ M[m].sender_entry => E2[p] = Nil
    /\ ~ M[m].sender_entry => E2[p] = E[p]

\* What a message and its translation are after it was destroyed.
LEMMA DroppedIs ==
  ASSUME NEW M \in [Msgs -> MessageRecord], NEW E \in [Ports -> Msgs \cup {Nil, Gone, Deleted}],
         NEW M2, NEW E2, NEW p \in Ports, NEW m \in Msgs, Dropped(M, E, M2, E2, p, m)
  PROVE  DropFacts(M, E, M2, E2, p, m)
<1> DEFINE mr == [M[m] EXCEPT !.at = "destroyed", !.sender_entry = FALSE]
<1>1. M[m] \in MessageRecord
  OBVIOUS
<1>2. mr \in MessageRecord /\ mr.at = "destroyed" /\ mr.to = M[m].to /\ ~ mr.sender_entry
  BY <1>1 DEF MessageRecord
<1>3. M2 = [M EXCEPT ![m] = mr]
  BY DEF Dropped
<1> HIDE DEF mr
<1>4. M2 \in [Msgs -> MessageRecord] /\ OnlyMessage(M, M2, m) /\ M2[m] = mr
  BY <1>2, <1>3 DEF OnlyMessage
<1>5. /\ E2 \in [Ports -> Msgs \cup {Nil, Gone, Deleted}]
      /\ \A x \in Ports \ {p} : E2[x] = E[x]
      /\ M[m].sender_entry => E2[p] = Nil
      /\ ~ M[m].sender_entry => E2[p] = E[p]
  <2>1. CASE M[m].sender_entry
    <3>1. E2 = [E EXCEPT ![p] = Nil]
      BY <2>1 DEF Dropped
    <3> QED
      BY <2>1, <3>1
  <2>2. CASE ~ M[m].sender_entry
    <3>1. E2 = E
      BY <2>2 DEF Dropped
    <3> QED
      BY <2>2, <3>1
  <2> QED
    BY <2>1, <2>2
<1> QED
  BY <1>2, <1>4, <1>5 DEF DropFacts

\* The first message of a dead port's queue is dropped.
DrainsOne(P, Q, Q2, M, E, M2, E2, p) ==
    /\ ~ P[p].in_use /\ Q[p].messages # <<>>
    /\ Dropped(M, E, M2, E2, p, Head(Q[p].messages))
    /\ Q2 = [Q EXCEPT ![p].messages = Tail(Q[p].messages)]

\* port_destroy destroys the first message of a dead port.
LEMMA DropKeeps ==
  ASSUME NEW P, NEW S, NEW Q, NEW T, NEW M, NEW E, NEW N, NEW D, NEW M2, NEW E2, NEW Q2,
         NEW p \in Ports, Base(P, S, Q, T, M, E, N, D), DrainsOne(P, Q, Q2, M, E, M2, E2, p)
  PROVE  Base(P, S, Q2, T, M2, E2, N, D)
<1> DEFINE m == Head(Q[p].messages)
           ms == Tail(Q[p].messages)
<1>1. /\ Q \in [Queues -> QueueRecord] /\ M \in [Msgs -> MessageRecord]
      /\ E \in [Ports -> Msgs \cup {Nil, Gone, Deleted}] /\ p \in Queues
  BY Exactly DEF Queues
<1>2. Q[p] \in QueueRecord /\ Q[p].messages \in Seq(Msgs) /\ IsInjective(Q[p].messages)
  <2>1. Q[p] \in QueueRecord /\ IsInjective(Q[p].messages)
    BY <1>1 DEF Base, Queued
  <2> QED
    BY <2>1 DEF QueueRecord
<1>3. /\ m \in ToSet(Q[p].messages) /\ m \in Msgs /\ ms \in Seq(Msgs) /\ IsInjective(ms)
      /\ ToSet(ms) = ToSet(Q[p].messages) \ {m}
  BY <1>2, QueueTail DEF DrainsOne
<1> HIDE DEF m, ms
<1>0. m \in Msgs
  BY <1>3
<1>4. /\ M[m].at = "live" /\ M[m].to = p
      /\ \A t \in Threads : ~ Keeps(T[t], m) /\ ~ Sends(T[t], m) /\ ~ Carries(T[t], m) /\ ~ Tells(T[t], m)
      /\ \A x \in Queues : m \in ToSet(Q[x].messages) => x = p
      /\ \A x \in Ports : E[x] = m <=> M[m].to = x /\ M[m].sender_entry
  BY <1>1, <1>3, QueuedIs
<1>5. [Q[p] EXCEPT !.messages = ms] \in QueueRecord
  BY <1>2, <1>3 DEF QueueRecord
<1>6. /\ Q2 \in [Queues -> QueueRecord] /\ Q2[p].messages = ms
      /\ \A x \in Queues \ {p} : Q2[x] = Q[x]
      /\ Q2[p].blocked = Q[p].blocked /\ Q2[p].lock = Q[p].lock
  <2>1. Q2 = [Q EXCEPT ![p].messages = ms]
    BY DEF ms, DrainsOne
  <2> QED
    BY <1>1, <1>2, <1>5, <2>1 DEF QueueRecord
<1>7. \A x \in Queues : Q2[x].blocked = Q[x].blocked /\ Q2[x].lock = Q[x].lock
  <2>1. ASSUME NEW x \in Queues PROVE Q2[x].blocked = Q[x].blocked /\ Q2[x].lock = Q[x].lock
    <3>1. CASE x = p
      BY <1>6, <3>1
    <3>2. CASE x # p
      BY <1>6, <3>2
    <3> QED
      BY <3>1, <3>2
  <2> QED
    BY <2>1
<1>8. \A x \in Queues, m2 \in Msgs : m2 \in ToSet(Q2[x].messages) <=> m2 \in ToSet(Q[x].messages) /\ m2 # m
  BY <1>3, <1>4, <1>6
<1>9. /\ M2 \in [Msgs -> MessageRecord] /\ OnlyMessage(M, M2, m)
      /\ M2[m].at = "destroyed" /\ M2[m].to = p /\ ~ M2[m].sender_entry
      /\ E2 \in [Ports -> Msgs \cup {Nil, Gone, Deleted}]
      /\ \A x \in Ports \ {p} : E2[x] = E[x]
      /\ M[m].sender_entry => E2[p] = Nil
      /\ ~ M[m].sender_entry => E2[p] = E[p]
  <2>1. Dropped(M, E, M2, E2, p, m)
    BY DEF m, DrainsOne
  <2> QED
    <3>1. M \in [Msgs -> MessageRecord] /\ E \in [Ports -> Msgs \cup {Nil, Gone, Deleted}]
      BY <1>1
    <3>2. DropFacts(M, E, M2, E2, p, m)
      BY <1>0, <2>1, <3>1, DroppedIs
    <3>3. M[m].to = p
      BY <1>4
    <3> QED
      BY <3>2, <3>3 DEF DropFacts
<1>10. SameTo(M, M2) /\ Addressed(M2)
  BY <1>4, <1>9 DEF SameTo, Addressed, Base, OnlyMessage
<1>11. Stages(T, M2)
  <2>1. ASSUME NEW t \in Threads, NEW m2 \in Msgs
        PROVE  /\ Sends(T[t], m2) => M2[m2].at = "sending"
               /\ Carries(T[t], m2) => M2[m2].at = "live"
               /\ Tells(T[t], m2) => M2[m2].at = "live" /\ M2[m2].sender_entry
    <3>1. CASE m2 = m
      BY <1>4, <3>1
    <3>2. CASE m2 # m
      BY <1>9, <3>2 DEF Base, Stages, OnlyMessage
    <3> QED
      BY <3>1, <3>2
  <2> QED
    BY <2>1 DEF Base, Stages
<1>12. Queued(P, Q2, T, M2)
  <2>1. \A x \in Queues : IsInjective(Q2[x].messages)
    BY <1>3, <1>6 DEF Base, Queued
  <2>2. ASSUME NEW x \in Queues, NEW m2 \in Msgs, m2 \in ToSet(Q2[x].messages)
        PROVE  /\ M2[m2].at = "live"
               /\ x = M2[m2].to \/ x = P[M2[m2].to].set
               /\ \A t \in Threads : ~ Keeps(T[t], m2)
               /\ \A y \in Queues : m2 \in ToSet(Q2[y].messages) => y = x
    <3>1. m2 \in ToSet(Q[x].messages) /\ M2[m2] = M[m2]
      BY <1>8, <1>9, <2>2 DEF OnlyMessage
    <3> QED
      BY <1>8, <3>1 DEF Base, Queued
  <2> QED
    BY <2>1, <2>2 DEF Queued
<1>13. Counts(P, Q2, T, M2)
  <2>1. ASSUME NEW x \in Ports PROVE CountedIn(Q2, T, M2, x) = CountedIn(Q, T, M, x) \ {m}
    <3>1. \A m2 \in Msgs \ {m} : m2 \in CountedIn(Q2, T, M2, x) <=> m2 \in CountedIn(Q, T, M, x)
      BY <1>8, <1>9 DEF CountedIn, OnlyMessage
    <3>2. m \notin CountedIn(Q2, T, M2, x)
      BY <1>4, <1>8 DEF CountedIn
    <3>3. CountedIn(Q2, T, M2, x) \subseteq Msgs /\ CountedIn(Q, T, M, x) \subseteq Msgs
      BY DEF CountedIn
    <3> QED
      BY <3>1, <3>2, <3>3
  <2>2. ASSUME NEW x \in Ports PROVE CountOf(P[x], CountedIn(Q2, T, M2, x))
    <3>1. CountOf(P[x], CountedIn(Q, T, M, x))
      BY DEF Base, Counts
    <3>2. CASE x = p
      <4>1. P[p] \in PortRecord
        BY Exactly
      <4>2. P[p].count \in Int
        BY <4>1 DEF PortRecord
      <4>3. /\ Cardinality(CountedIn(Q, T, M, p)) \in Nat
            /\ m \in CountedIn(Q, T, M, p) =>
                Cardinality(CountedIn(Q, T, M, p) \ {m}) = Cardinality(CountedIn(Q, T, M, p)) - 1
            /\ m \notin CountedIn(Q, T, M, p) => CountedIn(Q, T, M, p) \ {m} = CountedIn(Q, T, M, p)
        BY <1>0, CountSets
      <4>4. Cardinality(CountedIn(Q, T, M, p) \ {m}) <= Cardinality(CountedIn(Q, T, M, p))
        BY <4>3
      <4>6. Cardinality(CountedIn(Q, T, M, p) \ {m}) \in Nat
        <5>1. IsFiniteSet(CountedIn(Q, T, M, p) \ {m})
          BY Names, FS_Subset DEF CountedIn
        <5> QED
          BY <5>1, FS_CardinalityType
      <4>5. /\ P[p].count <= Cardinality(Msgs) /\ ~ P[p].in_use
            /\ Cardinality(CountedIn(Q, T, M, p)) <= P[p].count
        BY <3>1, <3>2 DEF CountOf, DrainsOne
      <4> QED
        BY <2>1, <3>2, <4>2, <4>3, <4>4, <4>5, <4>6 DEF CountOf
    <3>3. CASE x # p
      <4>1. m \notin CountedIn(Q, T, M, x)
        BY <1>4, <3>3 DEF CountedIn
      <4> QED
        BY <2>1, <3>1, <4>1
    <3> QED
      BY <3>2, <3>3
  <2> QED
    BY <2>2 DEF Counts
<1>14. /\ \A t \in Threads, x \in Ports : SleepsAt(T[t], M2, x) <=> SleepsAt(T[t], M, x)
       /\ \A t \in Threads : Calm(T[t], M, t) => Calm(T[t], M2, t)
  <2>1. \A t \in Threads : Local(T[t]) /\ \A m2 \in Msgs : Sends(T[t], m2) => M[m2].at = "sending"
    BY DEF Base, Locals, Stages
  <2> QED
    BY <1>10, <2>1, SleeperStays
<1>15. SendLists(P, T, M2, D)
  BY <1>14 DEF Base, SendLists
<1>16. ReceiveLists(Q2, T) /\ PortsFit(P, Q2, D) /\ SetsFit(P, S, Q2)
  <2>1. \A x \in Queues : Q2[x].blocked = Q[x].blocked
    BY <1>7
  <2>2. ReceiveLists(Q, T) /\ PortsFit(P, Q, D) /\ SetsFit(P, S, Q)
    BY DEF Base
  <2> QED
    BY <2>1, <2>2, SameBlocked
<1>17. Locks(P, Q2, T, M2)
  <2>1. Locks(P, Q2, T, M)
    <3>1. \A t \in Threads : T[t].at = "deliver" => T[t].obj \in Queues
      BY DEF Base, Locals, Local
    <3> QED
      BY <1>7, <3>1 DEF Base, Locks
  <2>2. \A t \in Threads : T[t].at = "deliver" => M2[T[t].msg].to = M[T[t].msg].to
    <3>1. \A t \in Threads : T[t].at = "deliver" => T[t].msg \in Msgs
      BY DEF Base, Locals, Local
    <3> QED
      BY <1>4, <1>9, <3>1 DEF OnlyMessage
  <2> QED
    BY <2>1, <2>2 DEF Locks
<1>18. Sleeping(Q2, T)
  <2>1. Q[p].blocked = <<>>
    BY <1>1 DEF Base, Sleeping, DrainsOne
  <2> QED
    BY <1>6, <2>1 DEF Base, Sleeping
<1>19. Marks(T, M2, E2)
  <2>1. ASSUME NEW m2 \in Msgs, NEW x \in Ports
        PROVE  E2[x] = m2 <=> M2[m2].to = x /\ Waited(T, M2, m2)
    <3>1. E[x] = m2 <=> M[m2].to = x /\ Waited(T, M, m2)
      BY DEF Base, Marks
    <3>2. CASE m2 = m
      <4>1. E2[x] # m
        BY <1>3, <1>4, <1>9, Names
      <4> QED
        BY <1>9, <3>2, <4>1 DEF Waited
    <3>3. CASE m2 # m
      <4>1. E2[x] = m2 <=> E[x] = m2
        BY <1>4, <1>9, <3>3, Names
      <4>2. M2[m2] = M[m2]
        BY <1>9, <3>3 DEF OnlyMessage
      <4> QED
        BY <3>1, <4>1, <4>2 DEF Waited
    <3> QED
      BY <3>2, <3>3
  <2> QED
    BY <1>9, <2>1 DEF Base, Marks, OnlyMessage
<1>20. Promises(P, T, M2, E2, N)
  <2>1. ASSUME NEW m2 \in Msgs, N[m2] = "WILL_NOTIFY"
        PROVE  /\ M2[m2].at # "new" /\ M2[m2].to \in Ports
               /\ \/ M2[m2].sender_entry /\ E2[M2[m2].to] = m2
                  \/ \E t \in Threads : Tells(T[t], m2)
                  \/ E2[M2[m2].to] \in {Gone, Deleted}
                  \/ ~P[M2[m2].to].in_use
    <3>1. CASE m2 = m
      BY <1>9, <3>1 DEF DrainsOne
    <3>2. CASE m2 # m
      <4>1. M2[m2] = M[m2]
        BY <1>9, <3>2 DEF OnlyMessage
      <4>2. M[m2].to = p => ~P[M[m2].to].in_use
        BY DEF DrainsOne
      <4> QED
        BY <1>9, <2>1, <4>1, <4>2 DEF Base, Promises
    <3> QED
      BY <3>1, <3>2
  <2> QED
    BY <2>1 DEF Promises
<1>21. Patience(T, M2, D)
  <2>1. Pokes(T, M2, D)
    <3>1. \A x \in Ports : D[x].poked # Nil => D[x].poked \in Threads
      BY DEF Base, TypedMore, DyingRecord
    <3> QED
      BY <1>14, <3>1 DEF Base, Patience, Pokes
  <2> QED
    BY <1>14, <2>1 DEF Base, Patience, Patient
<1>22. Typed(P, S, Q2, T) /\ TypedMore(M2, E2, N, D)
  BY <1>6, <1>9 DEF Base, Typed, TypedMore
<1> QED
  BY <1>10, <1>11, <1>12, <1>13, <1>15, <1>16, <1>17, <1>18, <1>19, <1>20, <1>21, <1>22 DEF Base

\* One pass of port_destroy's loop over the messages.
LEMMA DrainKeeps ==
  ASSUME IInv, NEW p \in Ports, Drain(p)
  PROVE  IInv'
<1>1. /\ Base(port, set, queue, thread, kmsg, entry, notice, dying) /\ p \in Queues
      /\ port \in [Ports -> PortRecord] /\ dying \in [Ports -> DyingRecord]
      /\ queue \in [Queues -> QueueRecord]
      /\ dying[p].at = "drain" /\ PortFits(port[p], queue[p], dying[p], p)
  BY InvParts, Exactly DEF Drain, Base, PortsFit, Queues
<1>2. CASE queue[p].messages = <<>>
  <2> DEFINE d2 == [dying[p] EXCEPT !.at = "poke"]
  <2>1. dying[p] \in DyingRecord
    BY <1>1
  <2>2. d2 \in DyingRecord /\ d2.at = "poke" /\ d2.poked = dying[p].poked
    BY <2>1 DEF DyingRecord
  <2>3. dying' = [dying EXCEPT ![p] = d2]
    BY <1>2 DEF Drain
  <2> HIDE DEF d2
  <2>4. PortTurned(port, port, dying, dying')
    BY <1>1, <2>2, <2>3 DEF PortTurned
  <2>5. PortsFit(port, queue, dying')
    <3>1. PortFits(port[p], queue[p], dying'[p], p)
      BY <1>1, <2>2, <2>3 DEF PortFits
    <3> QED
      BY <1>1, <2>3, <3>1 DEF Base, PortsFit
  <2>6. Base(port, set, queue, thread, kmsg, entry, notice, dying')
    BY <1>1, <2>4, <2>5, PortTurnsKeeps
  <2> QED
    BY <1>2, <2>6, InvParts DEF IInv, Inv, Drain
<1>3. CASE queue[p].messages # <<>>
  <2> DEFINE m == Head(queue[p].messages)
  <2>1. Dropped(kmsg, entry, kmsg', entry', p, m)
        /\ queue' = [queue EXCEPT ![p].messages = Tail(queue[p].messages)]
    BY <1>3 DEF Drain, Dropped
  <2>2. ~ port[p].in_use
    BY <1>1 DEF PortFits
  <2>3. Base(port, set, queue', thread, kmsg', entry', notice, dying)
    <3>1. DrainsOne(port, queue, queue', kmsg, entry, kmsg', entry', p)
      BY <1>3, <2>1, <2>2 DEF DrainsOne
    <3> QED
      BY <1>1, <3>1, DropKeeps
  <2>4. kmsg[m].sender_entry => entry[p] = m
    <3>1. queue[p].messages \in Seq(Msgs)
      BY <1>1 DEF QueueRecord
    <3>2. m \in ToSet(queue[p].messages)
      BY <1>3, <3>1, QueueTail
    <3> QED
      BY <1>1, <3>2, QueuedIs
  <2>5. failed' = "no"
    BY <1>3, <2>4, InvParts DEF Drain, Asserts
  <2>6. AllJoined(port, queue')
    <3>1. port[p].set = Nil
      BY <1>1, <2>2 DEF PortFits
    <3>2. \A x \in Queues \ {p} : queue'[x] = queue[x]
      BY <1>1, <2>1
    <3> QED
      BY <3>1, <3>2, InvParts DEF AllJoined, Joined, Queues
  <2> QED
    BY <1>3, <2>3, <2>5, <2>6 DEF IInv, Inv, Drain
<1> QED
  BY <1>2, <1>3

-----------------------------------------------------------------------------
(* Among.                                                                  *)

\* The messages of a queue that are among ms.
LEMMA AmongIs ==
  ASSUME NEW S, NEW seq \in Seq(S), NEW ms
  PROVE  /\ Among(seq, ms) \in Seq(S)
         /\ ToSet(Among(seq, ms)) = ToSet(seq) \cap ms
         /\ IsInjective(seq) => IsInjective(Among(seq, ms))
<1> DEFINE N == Len(seq)
           Next1(x, n) == IF seq[n] \in ms THEN Append(x, seq[n]) ELSE x
           found[n \in 0 .. Len(seq)] ==
               IF n = 0 THEN <<>>
               ELSE IF seq[n] \in ms THEN Append(found[n - 1], seq[n])
               ELSE found[n - 1]
           Step(f, n) == IF n = 0 THEN <<>> ELSE Next1(f[n - 1], n)
           IsFound(f) == f = [n \in 0 .. N |-> Step(f, n)]
           First(n) == {seq[i] : i \in 1 .. n}
<1>1. N \in Nat /\ \A n \in 1 .. N : seq[n] \in S
  OBVIOUS
<1>2. Among(seq, ms) = found[N]
  BY DEF Among
<1>3. found = CHOOSE f : IsFound(f)
  OBVIOUS
<1>4. ASSUME NEW x \in Seq(S), NEW n \in 1 .. N PROVE Next1(x, n) \in Seq(S)
  BY <1>1
<1> HIDE DEF found, Next1, N
<1>5. \E f : IsFound(f)
  <2> DEFINE V == Seq(S)
             e == <<>>
             G == [n \in 1 .. N |-> [x \in V |-> Next1(x, n)]]
  <2>1. e \in V /\ G \in [1 .. N -> [V -> V]]
    BY <1>4
  <2>2. \A n \in 1 .. N, x \in V : G[n][x] = Next1(x, n)
    OBVIOUS
  <2> HIDE DEF G, V, e
  <2>3. N \in Nat
    BY <1>1
  <2> PICK r : Computes(r, N, V, e, G)
    BY <2>1, <2>3, Recursion
  <2>5. r \in [0 .. N -> V] /\ r[0] = e /\ \A n \in 1 .. N : r[n] = G[n][r[n - 1]]
    BY DEF Computes
  <2> USE DEF e
  <2>4. ASSUME NEW n \in 0 .. N PROVE r[n] = Step(r, n)
    <3>1. CASE n = 0
      BY <2>5, <3>1
    <3>2. CASE n # 0
      <4>1. n \in 1 .. N /\ n - 1 \in 0 .. N
        BY <1>1, <3>2
      <4>2. r[n] = G[n][r[n - 1]] /\ r[n - 1] \in V
        BY <2>5, <4>1
      <4> QED
        BY <2>2, <3>2, <4>1, <4>2
    <3> QED
      BY <3>1, <3>2
  <2> HIDE DEF Step
  <2>6. r = [n \in 0 .. N |-> Step(r, n)]
    BY <2>4, <2>5
  <2> QED
    BY <2>6
<1>6. IsFound(found)
  <2> HIDE DEF IsFound
  <2> QED
    BY <1>3, <1>5, Zenon
<1>7. \A n \in 0 .. N : found[n] = Step(found, n)
  BY <1>6
<1> DEFINE Good(n) == /\ found[n] \in Seq(S) /\ ToSet(found[n]) = First(n) \cap ms
                      /\ IsInjective(seq) => IsInjective(found[n])
           A == {n \in 0 .. N : Good(n)}
<1>8. 0 \in A
  <2>0. 0 \in 0 .. N
    BY <1>1
  <2>1. found[0] = <<>>
    BY <1>7, <2>0
  <2>2. First(0) = {}
    OBVIOUS
  <2>3. <<>> \in Seq(S) /\ ToSet(<<>>) = {} /\ IsInjective(<<>>)
    BY DEF ToSet, IsInjective
  <2> HIDE DEF First
  <2>4. Good(0)
    BY <2>1, <2>2, <2>3
  <2> QED
    BY <2>0, <2>4
<1>9. ASSUME NEW n \in 0 .. N, n + 1 \in 0 .. N, n \in A PROVE n + 1 \in A
  <2>1. n + 1 \in 1 .. N /\ n + 1 # 0 /\ (n + 1) - 1 = n /\ n + 1 \notin 1 .. n
    BY <1>1, <1>9
  <2>2. found[n + 1] = Next1(found[n], n + 1)
    BY <1>7, <1>9, <2>1
  <2>3. First(n + 1) = First(n) \cup {seq[n + 1]}
    <3>1. 1 .. n + 1 = 1 .. n \cup {n + 1}
      BY <1>1, <1>9
    <3> QED
      BY <3>1
  <2>4. Good(n) /\ seq[n + 1] \in S
    BY <1>1, <1>9, <2>1
  <2>5. CASE seq[n + 1] \in ms
    <3>1. found[n + 1] = Append(found[n], seq[n + 1])
      BY <2>2, <2>5 DEF Next1
    <3>2. ASSUME IsInjective(seq) PROVE seq[n + 1] \notin First(n)
      <4>1. \A i \in 1 .. n : i \in DOMAIN seq /\ n + 1 \in DOMAIN seq /\ i # n + 1
        BY <1>1, <2>1, <1>9 DEF N
      <4> QED
        BY <3>2, <4>1 DEF IsInjective
    <3>3. /\ Append(found[n], seq[n + 1]) \in Seq(S)
          /\ ToSet(Append(found[n], seq[n + 1])) = ToSet(found[n]) \cup {seq[n + 1]}
          /\ IsInjective(found[n]) /\ seq[n + 1] \notin ToSet(found[n])
                => IsInjective(Append(found[n], seq[n + 1]))
      BY <2>4, QueueAppend
    <3> HIDE DEF First
    <3> QED
      BY <1>9, <2>3, <2>4, <2>5, <3>1, <3>2, <3>3
  <2>6. CASE seq[n + 1] \notin ms
    <3>1. found[n + 1] = found[n]
      BY <2>2, <2>6 DEF Next1
    <3> HIDE DEF First
    <3> QED
      BY <1>9, <2>3, <2>4, <2>6, <3>1
  <2> QED
    BY <2>5, <2>6
<1>10. A = 0 .. N
  <2>1. A \in SUBSET (0 .. N)
    OBVIOUS
  <2> HIDE DEF A
  <2> QED
    BY <1>1, <1>8, <1>9, <2>1, UpTo
<1>11. Good(N)
  <2>1. N \in A
    <3> HIDE DEF A
    <3> QED
      BY <1>1, <1>10
  <2> HIDE DEF Good
  <2> QED
    BY <2>1
<1>12. First(N) = ToSet(seq)
  BY DEF N, ToSet
<1> HIDE DEF First
<1> QED
  BY <1>2, <1>11, <1>12

-----------------------------------------------------------------------------
(* A port leaves its set.                                                  *)

\* Messages move between queues that keep their lists and locks.
LEMMA QueuesTurnKeeps ==
  ASSUME NEW P, NEW S, NEW Q, NEW T, NEW M, NEW E, NEW N, NEW D, NEW Q2,
         Base(P, S, Q, T, M, E, N, D), Apart(P, Q2, T, M),
         Q2 \in [Queues -> QueueRecord],
         \A q \in Queues : Q2[q].blocked = Q[q].blocked /\ Q2[q].lock = Q[q].lock,
         \A m \in Msgs : (\E q \in Queues : m \in ToSet(Q2[q].messages))
                            <=> (\E q \in Queues : m \in ToSet(Q[q].messages)),
         \A q \in Queues : Q2[q].blocked = <<>> \/ Q2[q].messages = <<>>
  PROVE  Base(P, S, Q2, T, M, E, N, D)
<1>1. \A m \in Msgs : InTransit(Q2, T, m) <=> InTransit(Q, T, m)
  BY DEF InTransit
<1>2. WorkParts(P, Q, T, M, E, N) /\ Addressed(M)
  BY Exactly DEF Base
<1>3. WorkParts(P, Q2, T, M, E, N)
  BY <1>1, <1>2, WorkMoves
<1>4. \A q \in Queues : Q2[q].blocked = Q[q].blocked
  OBVIOUS
<1>5. PortsFit(P, Q2, D) /\ SetsFit(P, S, Q2) /\ ReceiveLists(Q2, T)
  BY <1>4, SameBlocked DEF Base
<1>6. Locks(P, Q2, T, M)
  <2>1. ASSUME NEW t \in Threads, T[t].at = "deliver"
        PROVE  LET p == M[T[t].msg].to
               IN  /\ Q2[T[t].obj].lock = t
                   /\ T[t].obj = IF P[p].set # Nil THEN P[p].set ELSE p
    <3>1. T[t].obj \in Queues
      BY <2>1 DEF Base, Locals, Local
    <3> QED
      BY <2>1, <3>1 DEF Base, Locks
  <2> QED
    BY <2>1 DEF Base, Locks
<1>7. Typed(P, S, Q2, T) /\ Sleeping(Q2, T)
  BY DEF Base, Typed, Sleeping
<1> QED
  BY <1>3, <1>5, <1>6, <1>7 DEF Base, WorkParts

QueuedAt(P, Q, T, M, q, m) ==
    /\ m \in Msgs /\ M[m].to \in Ports
    /\ q = M[m].to \/ q = P[M[m].to].set
    /\ q \in Ports => M[m].to = q
    /\ \A t \in Threads : ~ Keeps(T[t], m)
    /\ \A x \in Queues : m \in ToSet(Q[x].messages) => x = q

\* What is known of a message in a queue.
LEMMA QueuedFacts ==
  ASSUME NEW P, NEW S, NEW Q, NEW T, NEW M, NEW E, NEW N, NEW D,
         Base(P, S, Q, T, M, E, N, D), NEW q \in Queues, NEW m \in ToSet(Q[q].messages)
  PROVE  QueuedAt(P, Q, T, M, q, m)
<1>1. /\ m \in Msgs /\ M[m].to \in Ports
      /\ q = M[m].to \/ q = P[M[m].to].set
      /\ q \in Ports => M[m].to = q
  BY QueuedIs
<1>2. \A t \in Threads : ~ Keeps(T[t], m)
  BY <1>1 DEF Base, Queued
<1>3. \A x \in Queues : m \in ToSet(Q[x].messages) => x = q
  BY <1>1 DEF Base, Queued
<1> QED
  BY <1>1, <1>2, <1>3 DEF QueuedAt

\* The queue of s gives p's messages back to p.
Mine(M, p) == {m \in Msgs : M[m].to = p}

GivesBack(Q, Q2, M, s, p) ==
    /\ Q2 \in [Queues -> QueueRecord]
    /\ \A q \in Queues : Q2[q].blocked = Q[q].blocked /\ Q2[q].lock = Q[q].lock
    /\ Q2[p].messages = Q[p].messages \o Among(Q[s].messages, Mine(M, p))
    /\ Q2[s].messages = Among(Q[s].messages, Msgs \ Mine(M, p))
    /\ \A q \in Queues \ {s, p} : Q2[q].messages = Q[q].messages

\* The messages of a member go back to its own queue.
LEMMA GivesBackKeeps ==
  ASSUME NEW P, NEW S, NEW Q, NEW T, NEW M, NEW E, NEW N, NEW D, NEW Q2,
         NEW s \in Sets, NEW p \in Ports,
         Base(P, S, Q, T, M, E, N, D), GivesBack(Q, Q2, M, s, p), P[p].set = s, Q[p].blocked = <<>>
  PROVE  /\ Base(P, S, Q2, T, M, E, N, D)
         /\ \A q \in Queues : \A m \in ToSet(Q2[q].messages) : M[m].to = p => q = p
<1> DEFINE a == Q[p].messages
           c == Q[s].messages
           b1 == Among(c, Mine(M, p))
           b2 == Among(c, Msgs \ Mine(M, p))
<1>1. p \in Queues /\ s \in Queues /\ p # s /\ s # Nil
  BY Names DEF Queues
<1>2. \A q \in Queues : /\ Q[q].messages \in Seq(Msgs) /\ IsInjective(Q[q].messages)
                        /\ \A m \in ToSet(Q[q].messages) : m \in Msgs
  <2>1. Q \in [Queues -> QueueRecord]
    BY Exactly
  <2>2. \A q \in Queues : Q[q].messages \in Seq(Msgs)
    BY <2>1 DEF QueueRecord
  <2>3. \A q \in Queues : \A m \in ToSet(Q[q].messages) : m \in Msgs
    BY <2>2 DEF ToSet
  <2> QED
    BY <2>2, <2>3 DEF Base, Queued
<1>3. ASSUME NEW q \in Queues, NEW m \in ToSet(Q[q].messages)
      PROVE  /\ m \in Msgs /\ M[m].to \in Ports
             /\ q = M[m].to \/ q = P[M[m].to].set
             /\ q \in Ports => M[m].to = q
             /\ \A t \in Threads : ~ Keeps(T[t], m)
             /\ \A x \in Queues : m \in ToSet(Q[x].messages) => x = q
  <2>1. QueuedAt(P, Q, T, M, q, m)
    BY QueuedFacts
  <2> QED
    BY <2>1 DEF QueuedAt
<1>4. /\ b1 \in Seq(Msgs) /\ ToSet(b1) = ToSet(c) \cap Mine(M, p) /\ IsInjective(b1)
      /\ b2 \in Seq(Msgs) /\ ToSet(b2) = ToSet(c) \cap (Msgs \ Mine(M, p)) /\ IsInjective(b2)
  BY <1>1, <1>2, AmongIs
<1>5. /\ a \in Seq(Msgs) /\ IsInjective(a) /\ (\A m \in ToSet(a) : m \in Msgs /\ M[m].to = p)
      /\ \A m \in ToSet(c) : m \in Msgs /\ m \notin ToSet(a)
  BY <1>1, <1>2, <1>3
<1>6. /\ Q2[p].messages = a \o b1 /\ Q2[s].messages = b2
      /\ \A q \in Queues \ {s, p} : Q2[q].messages = Q[q].messages
  BY DEF GivesBack
<1> HIDE DEF a, b1, b2
<1>7. ToSet(a \o b1) = ToSet(a) \cup ToSet(b1) /\ IsInjective(a \o b1)
  <2>1. ToSet(a) \cap ToSet(b1) = {}
    BY <1>4, <1>5
  <2> QED
    BY <1>4, <1>5, <2>1, QueueConcat
<1>8. \A q \in Queues : IsInjective(Q2[q].messages)
  BY <1>2, <1>4, <1>6, <1>7
<1>9. /\ \A m \in Msgs : m \in ToSet(Q2[p].messages)
                            <=> (m \in ToSet(a) \/ (m \in ToSet(c) /\ M[m].to = p))
      /\ \A m \in Msgs : m \in ToSet(Q2[s].messages) <=> m \in ToSet(c) /\ M[m].to # p
  BY <1>4, <1>6, <1>7 DEF Mine
<1>10. ASSUME NEW m \in Msgs, M[m].to = p, NEW q \in Queues
       PROVE  m \in ToSet(Q2[q].messages) <=>
                    q = p /\ \E x \in Queues : m \in ToSet(Q[x].messages)
  <2>1. \A x \in Queues : m \in ToSet(Q[x].messages) => x \in {p, s}
    BY <1>3, <1>10
  <2>2. CASE q = p
    <3>1. m \in ToSet(Q2[q].messages) <=> m \in ToSet(a) \/ m \in ToSet(c)
      BY <1>9, <1>10, <2>2
    <3> QED
      BY <1>1, <2>1, <2>2, <3>1 DEF a
  <2>3. CASE q = s
    BY <1>1, <1>9, <1>10, <2>3
  <2>4. CASE q \notin {p, s}
    BY <1>6, <2>1, <2>4
  <2> QED
    BY <2>2, <2>3, <2>4
<1>11. ASSUME NEW m \in Msgs, M[m].to # p, NEW q \in Queues
       PROVE  m \in ToSet(Q2[q].messages) <=> m \in ToSet(Q[q].messages)
  <2>1. m \notin ToSet(Q[p].messages)
    BY <1>1, <1>3, <1>11
  <2>2. CASE q = p
    BY <1>3, <1>9, <1>11, <2>1, <2>2 DEF a
  <2>3. CASE q = s
    BY <1>9, <1>11, <2>3
  <2>4. CASE q \notin {p, s}
    BY <1>6, <2>4
  <2> QED
    BY <2>2, <2>3, <2>4
<1> HIDE DEF c
<1>12. \A m \in Msgs, q \in Queues : m \in ToSet(Q2[q].messages) =>
            /\ q = M[m].to \/ q = P[M[m].to].set
            /\ \A t \in Threads : ~ Keeps(T[t], m)
            /\ \A q2 \in Queues : m \in ToSet(Q2[q2].messages) => q2 = q
            /\ M[m].to = p => q = p
  <2>1. ASSUME NEW m \in Msgs, NEW q \in Queues, m \in ToSet(Q2[q].messages)
        PROVE  /\ q = M[m].to \/ q = P[M[m].to].set
               /\ \A t \in Threads : ~ Keeps(T[t], m)
               /\ \A q2 \in Queues : m \in ToSet(Q2[q2].messages) => q2 = q
               /\ M[m].to = p => q = p
    <3>1. CASE M[m].to = p
      BY <1>3, <1>10, <2>1, <3>1
    <3>2. CASE M[m].to # p
      BY <1>3, <1>11, <2>1, <3>2
    <3> QED
      BY <3>1, <3>2
  <2> QED
    BY <2>1
<1>13. \A m \in Msgs : (\E q \in Queues : m \in ToSet(Q2[q].messages))
                            <=> (\E q \in Queues : m \in ToSet(Q[q].messages))
  BY <1>1, <1>10, <1>11
<1>14. Apart(P, Q2, T, M)
  <2>1. Apart(P, Q, T, M)
    BY Exactly, ApartIs
  <2> QED
    BY <1>8, <1>12, <2>1 DEF Apart
<1>15. \A q \in Queues : Q2[q].blocked = <<>> \/ Q2[q].messages = <<>>
  <2>1. \A q \in Queues : Q[q].blocked = <<>> \/ Q[q].messages = <<>>
    BY DEF Base, Sleeping
  <2>2. Q[s].messages = <<>> => Q2[s].messages = <<>>
    <3>1. Q2[s].messages \in Seq(Msgs)
      BY <1>4, <1>6
    <3>2. Q[s].messages = <<>> => ToSet(Q2[s].messages) = {}
      <4>1. Q[s].messages = <<>> => ToSet(c) = {}
        BY <1>1, <1>2, QueueEmpty DEF c
      <4> QED
        BY <1>4, <1>6, <4>1
    <3> QED
      BY <3>1, <3>2, QueueEmpty
  <2>3. \A q \in Queues : Q2[q].blocked = Q[q].blocked
    BY DEF GivesBack
  <2> QED
    BY <1>6, <2>1, <2>2, <2>3
<1>16. Base(P, S, Q2, T, M, E, N, D)
  <2>1. /\ Q2 \in [Queues -> QueueRecord]
        /\ \A q \in Queues : Q2[q].blocked = Q[q].blocked /\ Q2[q].lock = Q[q].lock
    BY DEF GivesBack
  <2> QED
    BY <1>13, <1>14, <1>15, <2>1, QueuesTurnKeeps
<1>17. \A q \in Queues : \A m \in ToSet(Q2[q].messages) : m \in Msgs
  <2>1. \A q \in Queues : Q2[q].messages \in Seq(Msgs)
    BY DEF GivesBack, QueueRecord
  <2> QED
    BY <2>1 DEF ToSet
<1> QED
  BY <1>12, <1>16, <1>17
=============================================================================
