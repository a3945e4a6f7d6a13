--------------------------- MODULE ChannelProofs ---------------------------
(***************************************************************************)
(* MsgQueue implements Channel, for any threads, ports, sets and messages: *)
(* each step of the message queues is one step of the channel that         *)
(* MsgQueue's chan and received show, or changes nothing that they show.   *)
(* What the steps may start from is the invariant of MsgQueueProofs.       *)
(***************************************************************************)
EXTENDS MsgQueueProofs

-----------------------------------------------------------------------------
(* The messages of one port, found among those of a queue.                 *)

\* Induction on sequences that grow at their end, for a set of them.
LEMMA Grown ==
  ASSUME NEW S, NEW A \in SUBSET Seq(S), <<>> \in A,
         \A q \in A : \A x \in S : Append(q, x) \in A
  PROVE  A = Seq(S)
<1> SUFFICES ASSUME NEW seq \in Seq(S) PROVE seq \in A
  OBVIOUS
<1> DEFINE N == Len(seq)
           First(n) == SubSeq(seq, 1, n)
           K == {n \in 0 .. N : First(n) \in A}
<1>1. N \in Nat /\ \A n \in 1 .. N : seq[n] \in S
  OBVIOUS
<1>2. First(0) = <<>> /\ First(N) = seq
  BY SubSeqEmpty, SubSeqFull
<1>3. ASSUME NEW n \in 0 .. N, n + 1 \in 0 .. N, n \in K PROVE n + 1 \in K
  <2>1. n + 1 \in 1 .. N /\ 1 \in 1 .. N /\ n + 1 \in 1 .. N /\ (n + 1) - 1 = n
    BY <1>1, <1>3
  <2>2. First(n + 1) = First(n) \o <<seq[n + 1]>>
    BY <2>1, SubSeqRecursiveSecond
  <2>3. First(n) \in A /\ First(n) \in Seq(S)
    BY <1>3
  <2> HIDE DEF First
  <2>4. First(n + 1) = Append(First(n), seq[n + 1])
    BY <1>1, <2>1, <2>2, <2>3, AppendIsConcat
  <2> QED
    BY <1>1, <1>3, <2>1, <2>3, <2>4
<1> HIDE DEF First
<1>4. K = 0 .. N
  <2>1. K \in SUBSET (0 .. N) /\ 0 \in K
    BY <1>1, <1>2
  <2> HIDE DEF K
  <2> QED
    BY <1>1, <1>3, <2>1, UpTo
<1>5. N \in K
  <2> HIDE DEF K
  <2> QED
    BY <1>1, <1>4
<1> QED
  BY <1>2, <1>5

\* The messages found among the first n.
Finds(found, seq, ms) ==
    /\ found[0] = <<>>
    /\ \A n \in 1 .. Len(seq) :
        found[n] = IF seq[n] \in ms THEN Append(found[n - 1], seq[n]) ELSE found[n - 1]

\* Among is computed from the front of the queue.
LEMMA AmongFinds ==
  ASSUME NEW S, NEW seq \in Seq(S), NEW ms
  PROVE  \E found : Finds(found, seq, ms) /\ Among(seq, ms) = found[Len(seq)]
<1> DEFINE N == Len(seq)
           Next1(x, n) == IF seq[n] \in ms THEN Append(x, seq[n]) ELSE x
           found[n \in 0 .. Len(seq)] ==
               IF n = 0 THEN <<>>
               ELSE IF seq[n] \in ms THEN Append(found[n - 1], seq[n])
               ELSE found[n - 1]
           Step(f, n) == IF n = 0 THEN <<>> ELSE Next1(f[n - 1], n)
           IsFound(f) == f = [n \in 0 .. N |-> Step(f, n)]
<1>1. N \in Nat /\ \A n \in 1 .. N : seq[n] \in S
  OBVIOUS
<1>2. Among(seq, ms) = found[N]
  BY DEF Among
<1>3. found = CHOOSE f : IsFound(f)
  OBVIOUS
<1>4. ASSUME NEW x \in Seq(S), NEW n \in 1 .. N PROVE Next1(x, n) \in Seq(S)
  BY <1>1
<1> HIDE DEF found, Next1, N
<1>5. \E f : IsFound(f)
  <2> DEFINE V == Seq(S)
             e == <<>>
             G == [n \in 1 .. N |-> [x \in V |-> Next1(x, n)]]
  <2>1. e \in V /\ G \in [1 .. N -> [V -> V]]
    BY <1>4
  <2>2. \A n \in 1 .. N, x \in V : G[n][x] = Next1(x, n)
    OBVIOUS
  <2> HIDE DEF G, V, e
  <2>3. N \in Nat
    BY <1>1
  <2> PICK r : Computes(r, N, V, e, G)
    BY <2>1, <2>3, Recursion
  <2>5. r \in [0 .. N -> V] /\ r[0] = e /\ \A n \in 1 .. N : r[n] = G[n][r[n - 1]]
    BY DEF Computes
  <2> USE DEF e
  <2>4. ASSUME NEW n \in 0 .. N PROVE r[n] = Step(r, n)
    <3>1. CASE n = 0
      BY <2>5, <3>1
    <3>2. CASE n # 0
      <4>1. n \in 1 .. N /\ n - 1 \in 0 .. N
        BY <1>1, <3>2
      <4>2. r[n] = G[n][r[n - 1]] /\ r[n - 1] \in V
        BY <2>5, <4>1
      <4> QED
        BY <2>2, <3>2, <4>1, <4>2
    <3> QED
      BY <3>1, <3>2
  <2> HIDE DEF Step
  <2>6. r = [n \in 0 .. N |-> Step(r, n)]
    BY <2>4, <2>5
  <2> QED
    BY <2>6
<1>6. IsFound(found)
  <2> HIDE DEF IsFound
  <2> QED
    BY <1>3, <1>5, Zenon
<1>7. \A n \in 0 .. N : found[n] = Step(found, n)
  BY <1>6
<1>8. Finds(found, seq, ms)
  <2>1. found[0] = <<>>
    BY <1>1, <1>7
  <2>2. ASSUME NEW n \in 1 .. N
        PROVE  found[n] = IF seq[n] \in ms THEN Append(found[n - 1], seq[n]) ELSE found[n - 1]
    <3>1. n \in 0 .. N /\ n # 0
      BY <1>1
    <3> QED
      BY <1>7, <3>1 DEF Next1
  <2> QED
    BY <2>1, <2>2 DEF Finds, N
<1> QED
  BY <1>2, <1>8 DEF N

\* Among, of the empty queue.
LEMMA AmongEmpty ==
  ASSUME NEW ms
  PROVE  Among(<<>>, ms) = <<>>
<1> DEFINE e == <<>>
<1>1. e \in Seq({}) /\ Len(e) = 0 /\ e = <<>>
  OBVIOUS
<1> HIDE DEF e
<1> PICK f : Finds(f, e, ms) /\ Among(e, ms) = f[Len(e)]
  BY <1>1, AmongFinds
<1> QED
  BY <1>1 DEF Finds

\* Among, of a queue that has grown.
LEMMA AmongGrows ==
  ASSUME NEW S, NEW seq \in Seq(S), NEW x \in S, NEW ms
  PROVE  Among(Append(seq, x), ms) =
                IF x \in ms THEN Append(Among(seq, ms), x) ELSE Among(seq, ms)
<1> DEFINE longer == Append(seq, x)
           N == Len(seq)
<1>1. /\ longer \in Seq(S) /\ Len(longer) = N + 1 /\ N \in Nat
      /\ \A n \in 1 .. N : longer[n] = seq[n]
      /\ longer[N + 1] = x
  BY AppendProperties
<1> HIDE DEF longer, N
<1> PICK f : Finds(f, seq, ms) /\ Among(seq, ms) = f[Len(seq)]
  BY AmongFinds
<1> PICK g : Finds(g, longer, ms) /\ Among(longer, ms) = g[Len(longer)]
  BY <1>1, AmongFinds
<1>3. /\ f[0] = <<>> /\ g[0] = <<>>
      /\ \A n \in 1 .. N : f[n] = IF seq[n] \in ms THEN Append(f[n - 1], seq[n]) ELSE f[n - 1]
      /\ \A n \in 1 .. N + 1 : g[n] = IF longer[n] \in ms THEN Append(g[n - 1], longer[n]) ELSE g[n - 1]
  BY <1>1 DEF Finds, N
<1> DEFINE K == {n \in 0 .. N : g[n] = f[n]}
<1>4. K = 0 .. N
  <2>1. K \in SUBSET (0 .. N) /\ 0 \in K
    BY <1>1, <1>3
  <2>2. ASSUME NEW n \in 0 .. N, n + 1 \in 0 .. N, n \in K PROVE n + 1 \in K
    <3>1. n + 1 \in 1 .. N /\ n + 1 \in 1 .. N + 1 /\ (n + 1) - 1 = n
      BY <1>1, <2>2
    <3>2. longer[n + 1] = seq[n + 1] /\ g[n] = f[n]
      BY <1>1, <2>2, <3>1
    <3>3. g[n + 1] = f[n + 1]
      BY <1>3, <3>1, <3>2
    <3> QED
      BY <2>2, <3>3
  <2> HIDE DEF K
  <2> QED
    BY <1>1, <2>1, <2>2, UpTo
<1>5. g[N] = f[N]
  <2>1. N \in K
    <3> HIDE DEF K
    <3> QED
      BY <1>1, <1>4
  <2> QED
    BY <2>1
<1>6. N + 1 \in 1 .. N + 1 /\ (N + 1) - 1 = N
  BY <1>1
<1>7. g[N + 1] = IF x \in ms THEN Append(g[N], x) ELSE g[N]
  BY <1>1, <1>3, <1>6
<1>8. Among(longer, ms) = g[N + 1] /\ Among(seq, ms) = f[N]
  BY <1>1 DEF N
<1> QED
  BY <1>5, <1>7, <1>8 DEF longer

\* Among depends on the members of the queue only.
LEMMA AmongSame ==
  ASSUME NEW S, NEW seq \in Seq(S), NEW A, NEW B, ToSet(seq) \cap A = ToSet(seq) \cap B
  PROVE  Among(seq, A) = Among(seq, B)
<1> DEFINE K == {q \in Seq(S) : ToSet(q) \cap A = ToSet(q) \cap B => Among(q, A) = Among(q, B)}
<1>1. <<>> \in K
  BY AmongEmpty
<1>2. ASSUME NEW q \in K, NEW x \in S PROVE Append(q, x) \in K
  <2>1. q \in Seq(S) /\ Append(q, x) \in Seq(S)
    BY <1>2
  <2>2. ToSet(Append(q, x)) = ToSet(q) \cup {x}
    BY <2>1, QueueAppend
  <2>3. ASSUME ToSet(Append(q, x)) \cap A = ToSet(Append(q, x)) \cap B
        PROVE  Among(Append(q, x), A) = Among(Append(q, x), B)
    <3>1. ToSet(q) \cap A = ToSet(q) \cap B
      <4>1. ASSUME NEW y PROVE y \in ToSet(q) \cap A <=> y \in ToSet(q) \cap B
        BY <2>2, <2>3
      <4> QED
        BY <4>1
    <3>2. x \in A <=> x \in B
      BY <2>2, <2>3
    <3>3. Among(q, A) = Among(q, B)
      BY <1>2, <3>1
    <3>4. /\ Among(Append(q, x), A) = IF x \in A THEN Append(Among(q, A), x) ELSE Among(q, A)
          /\ Among(Append(q, x), B) = IF x \in B THEN Append(Among(q, B), x) ELSE Among(q, B)
      BY <2>1, AmongGrows
    <3> QED
      BY <3>2, <3>3, <3>4
  <2> QED
    BY <2>1, <2>3
<1>3. seq \in K
  <2>1. K \in SUBSET Seq(S)
    OBVIOUS
  <2> HIDE DEF K
  <2> QED
    BY <1>1, <1>2, <2>1, Grown
<1> QED
  BY <1>3

\* All of a queue, and nothing of it.
LEMMA AmongWhole ==
  ASSUME NEW S, NEW seq \in Seq(S), NEW A
  PROVE  /\ ToSet(seq) \subseteq A => Among(seq, A) = seq
         /\ ToSet(seq) \cap A = {} => Among(seq, A) = <<>>
<1> DEFINE K == {q \in Seq(S) : ToSet(q) \subseteq A => Among(q, A) = q}
<1>1. <<>> \in K
  BY AmongEmpty
<1>2. ASSUME NEW q \in K, NEW x \in S PROVE Append(q, x) \in K
  <2>1. q \in Seq(S) /\ Append(q, x) \in Seq(S)
    BY <1>2
  <2>2. ToSet(Append(q, x)) = ToSet(q) \cup {x}
    BY <2>1, QueueAppend
  <2>3. ASSUME ToSet(Append(q, x)) \subseteq A PROVE Among(Append(q, x), A) = Append(q, x)
    <3>1. x \in A /\ Among(q, A) = q
      BY <1>2, <2>2, <2>3
    <3>2. Among(Append(q, x), A) = IF x \in A THEN Append(Among(q, A), x) ELSE Among(q, A)
      BY <2>1, AmongGrows
    <3> QED
      BY <3>1, <3>2
  <2> QED
    BY <2>1, <2>3
<1>3. seq \in K
  <2>1. K \in SUBSET Seq(S)
    OBVIOUS
  <2> HIDE DEF K
  <2> QED
    BY <1>1, <1>2, <2>1, Grown
<1>4. ASSUME ToSet(seq) \cap A = {} PROVE Among(seq, A) = <<>>
  <2>1. ToSet(Among(seq, A)) = {} /\ Among(seq, A) \in Seq(S)
    BY <1>4, AmongIs
  <2> QED
    BY <2>1, QueueEmpty
<1> QED
  BY <1>3, <1>4

\* Among what was found, the messages looked for both times are found.
LEMMA AmongTwice ==
  ASSUME NEW S, NEW seq \in Seq(S), NEW A, NEW B
  PROVE  Among(Among(seq, A), B) = Among(seq, A \cap B)
<1> DEFINE K == {q \in Seq(S) : Among(Among(q, A), B) = Among(q, A \cap B)}
<1>1. <<>> \in K
  BY AmongEmpty
<1>2. ASSUME NEW q \in K, NEW x \in S PROVE Append(q, x) \in K
  <2> DEFINE a == Among(q, A)
             c == Among(q, A \cap B)
  <2>1. q \in Seq(S) /\ Append(q, x) \in Seq(S) /\ a \in Seq(S) /\ Among(a, B) = c
    BY <1>2, AmongIs
  <2>2. Among(Append(q, x), A) = IF x \in A THEN Append(a, x) ELSE a
    BY <2>1, AmongGrows
  <2>3. Among(Append(q, x), A \cap B) = IF x \in A \cap B THEN Append(c, x) ELSE c
    BY <2>1, AmongGrows
  <2> HIDE DEF a
  <2>4. Among(Append(a, x), B) = IF x \in B THEN Append(Among(a, B), x) ELSE Among(a, B)
    <3> DEFINE twice == Among(a, B)
               longer == Append(a, x)
    <3>1. a \in Seq(S) /\ x \in S
      BY <2>1
    <3>2. Among(longer, B) = IF x \in B THEN Append(twice, x) ELSE twice
      BY ONLY <3>1, AmongGrows
    <3> QED
      BY <3>2
  <2> HIDE DEF c
  <2>5. Among(Among(Append(q, x), A), B) = Among(Append(q, x), A \cap B)
    <3>1. CASE x \in A
      BY <2>1, <2>2, <2>3, <2>4, <3>1
    <3>2. CASE x \notin A
      BY <2>1, <2>2, <2>3, <3>2
    <3> QED
      BY <3>1, <3>2
  <2> QED
    BY <2>1, <2>5
<1>3. seq \in K
  <2>1. K \in SUBSET Seq(S)
    OBVIOUS
  <2> HIDE DEF K
  <2> QED
    BY <1>1, <1>2, <2>1, Grown
<1> QED
  BY <1>3

\* What is appended to the second of two queues is appended to both.
LEMMA AppendLast ==
  ASSUME NEW S, NEW a \in Seq(S), NEW b \in Seq(S), NEW x \in S
  PROVE  a \o Append(b, x) = Append(a \o b, x)
<1> DEFINE one == <<x>>
<1>1. one \in Seq(S) /\ a \o b \in Seq(S)
  OBVIOUS
<1>2. Append(b, x) = b \o one /\ Append(a \o b, x) = (a \o b) \o one
  BY <1>1, AppendIsConcat
<1> HIDE DEF one
<1>3. (a \o b) \o one = a \o (b \o one)
  BY <1>1, ConcatAssociative
<1> QED
  BY <1>2, <1>3

\* Among two queues, one after the other.
LEMMA AmongConcat ==
  ASSUME NEW S, NEW a \in Seq(S), NEW b \in Seq(S), NEW A
  PROVE  Among(a \o b, A) = Among(a, A) \o Among(b, A)
<1> DEFINE K == {q \in Seq(S) : Among(a \o q, A) = Among(a, A) \o Among(q, A)}
           c == Among(a, A)
<1>0. c \in Seq(S)
  BY AmongIs
<1> HIDE DEF c
<1>1. <<>> \in K
  <2> DEFINE e == <<>>
  <2>1. a \o e = a /\ c \o e = c /\ e \in Seq(S) /\ Among(e, A) = e
    BY <1>0, ConcatEmptySeq, AmongEmpty
  <2> HIDE DEF e
  <2>2. e \in K
    BY <2>1 DEF c
  <2> QED
    BY <2>2 DEF e
<1>2. ASSUME NEW q \in K, NEW x \in S PROVE Append(q, x) \in K
  <2> DEFINE d == a \o q
             f == Among(q, A)
  <2>1. q \in Seq(S) /\ Append(q, x) \in Seq(S) /\ d \in Seq(S) /\ f \in Seq(S)
    BY <1>2, AmongIs
  <2>2. Among(d, A) = c \o f
    BY <1>2 DEF c
  <2>3. a \o Append(q, x) = Append(d, x)
    BY <2>1, AppendLast
  <2>4. Among(Append(q, x), A) = IF x \in A THEN Append(f, x) ELSE f
    BY <2>1, AmongGrows
  <2> HIDE DEF d
  <2>5. Among(Append(d, x), A) = IF x \in A THEN Append(Among(d, A), x) ELSE Among(d, A)
    BY <2>1, AmongGrows
  <2> HIDE DEF f
  <2>6. c \o Append(f, x) = Append(c \o f, x)
    BY <1>0, <2>1, AppendLast
  <2>7. Among(a \o Append(q, x), A) = c \o Among(Append(q, x), A)
    <3>1. CASE x \in A
      BY <2>2, <2>3, <2>4, <2>5, <2>6, <3>1
    <3>2. CASE x \notin A
      BY <2>2, <2>3, <2>4, <2>5, <3>2
    <3> QED
      BY <3>1, <3>2
  <2> QED
    BY <2>1, <2>7 DEF c
<1>3. b \in K
  <2>1. K \in SUBSET Seq(S)
    OBVIOUS
  <2> HIDE DEF K
  <2> QED
    BY <1>1, <1>2, <2>1, Grown
<1> QED
  BY <1>3

\* A queue, its first message and the rest.
LEMMA HeadAndTail ==
  ASSUME NEW S, NEW seq \in Seq(S), seq # <<>>
  PROVE  /\ Head(seq) \in S /\ Tail(seq) \in Seq(S)
         /\ seq = <<Head(seq)>> \o Tail(seq)
<1> DEFINE N == Len(seq)
<1>1. N \in Nat /\ N >= 1 /\ 1 \in 1 .. N /\ N \in 1 .. N
  BY EmptySeq
<1>2. SubSeq(seq, 1, N) = seq /\ Tail(seq) = SubSeq(seq, 2, N) /\ Head(seq) = seq[1]
  BY SubSeqFull, TailIsSubSeq
<1>3. SubSeq(seq, 1, N) = <<seq[1]>> \o SubSeq(seq, 1 + 1, N)
  BY <1>1, SubSeqRecursiveFirst
<1> QED
  BY <1>2, <1>3, HeadTailProperties

\* Among, of a queue with a first message.
LEMMA AmongHead ==
  ASSUME NEW S, NEW seq \in Seq(S), seq # <<>>, NEW A
  PROVE  Among(seq, A) = IF Head(seq) \in A THEN <<Head(seq)>> \o Among(Tail(seq), A)
                                            ELSE Among(Tail(seq), A)
<1> DEFINE x == Head(seq)
           b == Tail(seq)
           one == <<x>>
           e == <<>>
<1>1. x \in S /\ b \in Seq(S) /\ seq = one \o b
  BY HeadAndTail
<1> HIDE DEF x, b
<1>2. one \in Seq(S) /\ e \in Seq(S) /\ one = Append(e, x)
  BY <1>1
<1>3. Among(e, A) = e
  BY AmongEmpty
<1> HIDE DEF e
<1>4. Among(one, A) = IF x \in A THEN one ELSE e
  <2>1. Among(Append(e, x), A) = IF x \in A THEN Append(Among(e, A), x) ELSE Among(e, A)
    BY <1>1, <1>2, AmongGrows
  <2> HIDE DEF one
  <2> QED
    BY <1>2, <1>3, <2>1
<1> HIDE DEF one
<1>5. Among(seq, A) = Among(one, A) \o Among(b, A)
  <2>1. one \in Seq(S) /\ b \in Seq(S)
    BY <1>1, <1>2
  <2>2. Among(one \o b, A) = Among(one, A) \o Among(b, A)
    BY <2>1, AmongConcat
  <2> QED
    BY <1>1, <2>2
<1>6. Among(b, A) \in Seq(S)
  BY <1>1, AmongIs
<1>7. e \o Among(b, A) = Among(b, A)
  <2> DEFINE c == Among(b, A)
  <2> HIDE DEF c
  <2>1. c \in Seq(S) => <<>> \o c = c
    BY ConcatEmptySeq
  <2> QED
    BY <1>6, <2>1 DEF c, e
<1>8. CASE x \in A
  BY <1>4, <1>5, <1>8 DEF x, b, one
<1>9. CASE x \notin A
  BY <1>4, <1>5, <1>7, <1>9 DEF x, b
<1> QED
  BY <1>8, <1>9

-----------------------------------------------------------------------------
(* What a user of the ports P, queues Q, threads T and messages M sees.    *)

\* A thread brings a message to its queue, or has it from there.
Delivers(r, m) == r.at = "deliver" /\ r.msg = m
Holds(r, m) == r.msg = m /\ (r.at \in {"account", "notify"} \/ Handed(r))

\* The messages of p in its queue, and the one that is being added.
QueueOf(P, p) == IF P[p].set # Nil THEN P[p].set ELSE p
Line(P, Q, M, p) == Among(Q[QueueOf(P, p)].messages, Mine(M, p))
Added(T, M, p) == {m \in Mine(M, p) : \E t \in Threads : Delivers(T[t], m)}
Extended(line, added) == IF added = {} THEN line ELSE Append(line, CHOOSE m \in added : TRUE)
Chan(P, Q, T, M, p) == Extended(Line(P, Q, M, p), Added(T, M, p))

Has(T, M, m) == M[m].at = "received" \/ \E t \in Threads : Holds(T[t], m)
Had(T, M) == {m \in Msgs : Has(T, M, m)}

\* These are the variables of the channel.
LEMMA ImageIs ==
  /\ chan = [p \in Ports |-> Chan(port, queue, thread, kmsg, p)]
  /\ received = Had(thread, kmsg)
<1>1. \A p \in Ports : Chan(port, queue, thread, kmsg, p) = chan[p]
  BY DEF Chan, Extended, Line, QueueOf, Added, Mine, Delivers, MessagesTo, chan
<1>2. \A m \in Msgs : Has(thread, kmsg, m) <=>
         \/ kmsg[m].at = "received"
         \/ \E t \in Threads :
               /\ thread[t].msg = m
               /\ \/ thread[t].at \in {"account", "notify"}
                  \/ thread[t].at = "recv_wait" /\ thread[t].ipc_state = "SUCCESS"
  BY DEF Has, Holds, Handed
<1>3. chan = [p \in Ports |-> chan[p]]
  BY DEF chan
<1> QED
  BY <1>1, <1>2, <1>3 DEF received, Had

\* So are these, after a step.
LEMMA NextImageIs ==
  /\ chan' = [p \in Ports |-> Chan(port', queue', thread', kmsg', p)]
  /\ received' = Had(thread', kmsg')
<1>1. \A p \in Ports : Chan(port', queue', thread', kmsg', p) = chan'[p]
  BY DEF Chan, Extended, Line, QueueOf, Added, Mine, Delivers, MessagesTo, chan
<1>2. \A m \in Msgs : Has(thread', kmsg', m) <=>
         \/ kmsg'[m].at = "received"
         \/ \E t \in Threads :
               /\ thread'[t].msg = m
               /\ \/ thread'[t].at \in {"account", "notify"}
                  \/ thread'[t].at = "recv_wait" /\ thread'[t].ipc_state = "SUCCESS"
  BY DEF Has, Holds, Handed
<1>3. chan' = [p \in Ports |-> chan'[p]]
  BY DEF chan
<1> QED
  BY <1>1, <1>2, <1>3 DEF received, Had

\* The user sees the same.
SameImage(P, Q, T, M, P2, Q2, T2, M2) ==
    /\ \A p \in Ports : /\ Chan(P2, Q2, T2, M2, p) = Chan(P, Q, T, M, p)
                        /\ P2[p].in_use = P[p].in_use
    /\ Had(T2, M2) = Had(T, M)
    /\ \A m \in Msgs : M2[m].at = "destroyed" <=> M[m].at = "destroyed"

\* Then the channel does not change.
LEMMA Stutters ==
  ASSUME SameImage(port, queue, thread, kmsg, port', queue', thread', kmsg')
  PROVE  [InOrder!Next]_(InOrder!vars)
<1>1. chan' = chan /\ received' = received
  <2>1. Had(thread', kmsg') = Had(thread, kmsg)
    BY DEF SameImage
  <2>2. \A p \in Ports : Chan(port', queue', thread', kmsg', p) = Chan(port, queue, thread, kmsg, p)
    BY DEF SameImage
  <2> QED
    BY <2>1, <2>2, ImageIs, NextImageIs
<1>2. {p \in Ports : port[p].in_use}' = {p \in Ports : port[p].in_use}
  BY DEF SameImage
<1>3. {m \in Msgs : kmsg[m].at = "destroyed"}' = {m \in Msgs : kmsg[m].at = "destroyed"}
  BY DEF SameImage
<1> QED
  BY <1>1, <1>2, <1>3 DEF InOrder!vars

-----------------------------------------------------------------------------
(* The steps of the channel.                                               *)

\* A message that no user has seen.
IsFresh(P, Q, T, M, m) ==
    /\ m \notin Had(T, M) /\ M[m].at # "destroyed"
    /\ \A p \in Ports : m \notin ToSet(Chan(P, Q, T, M, p))

\* A user sees the channel of p alone change, to c.
OneChan(P, Q, T, M, P2, Q2, T2, M2, p, c) ==
    /\ \A x \in Ports : Chan(P2, Q2, T2, M2, x) = IF x = p THEN c ELSE Chan(P, Q, T, M, x)
    /\ \A x \in Ports : P2[x].in_use = P[x].in_use

SameDropped(M, M2) == \A m \in Msgs : M2[m].at = "destroyed" <=> M[m].at = "destroyed"

\* The channels after that.
LEMMA OneChanIs ==
  ASSUME NEW p \in Ports, NEW c,
         OneChan(port, queue, thread, kmsg, port', queue', thread', kmsg', p, c)
  PROVE  /\ chan' = [chan EXCEPT ![p] = c]
         /\ {x \in Ports : port[x].in_use}' = {x \in Ports : port[x].in_use}
<1>1. \A x \in Ports : chan'[x] = IF x = p THEN c ELSE chan[x]
  BY ImageIs, NextImageIs DEF OneChan
<1>2. chan' = [x \in Ports |-> chan'[x]] /\ chan = [x \in Ports |-> chan[x]]
  BY DEF chan
<1>3. {x \in Ports : port[x].in_use}' = {x \in Ports : port[x].in_use}
  BY DEF OneChan
<1> QED
  BY <1>1, <1>2, <1>3

\* The channel's ToSet is that of the queues.
LEMMA SameToSet ==
  \A seq : InOrder!ToSet(seq) = ToSet(seq)
BY DEF ToSet, InOrder!ToSet

\* What is fresh is fresh to the channel.
LEMMA FreshIs ==
  ASSUME NEW m \in Msgs, IsFresh(port, queue, thread, kmsg, m)
  PROVE  InOrder!Fresh(m)
<1>1. m \notin received
  BY ImageIs DEF IsFresh
<1>2. \A p \in Ports : m \notin ToSet(chan[p])
  <2>1. ASSUME NEW p \in Ports PROVE m \notin ToSet(chan[p])
    <3>1. chan[p] = Chan(port, queue, thread, kmsg, p)
      BY ImageIs
    <3> QED
      BY <3>1 DEF IsFresh
  <2> QED
    BY <2>1
<1>3. m \notin {x \in Msgs : kmsg[x].at = "destroyed"}
  BY DEF IsFresh
<1> QED
  BY <1>1, <1>2, <1>3, SameToSet DEF InOrder!Fresh

\* A port accepts m.
LEMMA Accepting ==
  ASSUME NEW p \in Ports, NEW m \in Msgs, IsFresh(port, queue, thread, kmsg, m), port[p].in_use,
         OneChan(port, queue, thread, kmsg, port', queue', thread', kmsg', p,
                 Append(Chan(port, queue, thread, kmsg, p), m)),
         Had(thread', kmsg') = Had(thread, kmsg), SameDropped(kmsg, kmsg')
  PROVE  [InOrder!Next]_(InOrder!vars)
<1>1. InOrder!Fresh(m)
  BY FreshIs
<1>2. /\ chan' = [chan EXCEPT ![p] = Append(chan[p], m)]
      /\ {x \in Ports : port[x].in_use}' = {x \in Ports : port[x].in_use}
  <2>1. chan[p] = Chan(port, queue, thread, kmsg, p)
    BY ImageIs
  <2> QED
    BY <2>1, OneChanIs
<1>3. received' = received
  BY ImageIs, NextImageIs
<1>4. {x \in Msgs : kmsg[x].at = "destroyed"}' = {x \in Msgs : kmsg[x].at = "destroyed"}
  BY DEF SameDropped
<1>5. p \in {x \in Ports : port[x].in_use}
  OBVIOUS
<1>6. InOrder!Accept(m, p)
  BY <1>1, <1>2, <1>3, <1>4, <1>5 DEF InOrder!Accept
<1> QED
  BY <1>6 DEF InOrder!Next

\* m passes by the channel of p, which is empty.
LEMMA Passing ==
  ASSUME NEW p \in Ports, NEW m \in Msgs, IsFresh(port, queue, thread, kmsg, m), port[p].in_use,
         Chan(port, queue, thread, kmsg, p) = <<>>,
         OneChan(port, queue, thread, kmsg, port', queue', thread', kmsg', p, <<>>),
         Had(thread', kmsg') = Had(thread, kmsg) \cup {m}, SameDropped(kmsg, kmsg')
  PROVE  [InOrder!Next]_(InOrder!vars)
<1>1. InOrder!Fresh(m)
  BY FreshIs
<1> DEFINE e == <<>>
<1>2. chan[p] = e
  BY ImageIs
<1>3. /\ chan' = [chan EXCEPT ![p] = e]
      /\ {x \in Ports : port[x].in_use}' = {x \in Ports : port[x].in_use}
  BY OneChanIs
<1> HIDE DEF e
<1>4. chan' = chan
  <2>1. chan = [x \in Ports |-> chan[x]]
    BY DEF chan
  <2> QED
    BY <1>2, <1>3, <2>1
<1>5. received' = received \cup {m}
  BY ImageIs, NextImageIs
<1>6. {x \in Msgs : kmsg[x].at = "destroyed"}' = {x \in Msgs : kmsg[x].at = "destroyed"}
  BY DEF SameDropped
<1>7. p \in {x \in Ports : port[x].in_use}
  OBVIOUS
<1>8. InOrder!Pass(m, p)
  BY <1>1, <1>2, <1>3, <1>4, <1>5, <1>6, <1>7 DEF InOrder!Pass, e
<1> QED
  BY <1>8 DEF InOrder!Next

\* A queue in two parts.
LEMMA PartsAre ==
  ASSUME NEW S, NEW d \in Seq(S), NEW c \in Seq(S)
  PROVE  LET w == d \o c
         IN  /\ w \in Seq(S) /\ Len(w) = Len(d) + Len(c)
             /\ SubSeq(w, 1, Len(d)) = d
             /\ SubSeq(w, Len(d) + 1, Len(w)) = c
             /\ d # <<>> => w # <<>> /\ Head(w) = d[1]
<1> DEFINE n == Len(d)
           w == d \o c
<1>1. n \in Nat /\ w \in Seq(S) /\ Len(w) = n + Len(c) /\ Len(c) \in Nat
  OBVIOUS
<1>2. SubSeq(w, 1, n) = d
  BY ConcatProperties, SubSeqProperties, <1>1
<1>3. SubSeq(w, n + 1, Len(w)) = c
  BY ConcatProperties, SubSeqProperties, <1>1
<1>4. ASSUME d # <<>> PROVE w # <<>> /\ Head(w) = d[1]
  <2>1. n # 0
    BY <1>4, EmptySeq
  <2>2. w # <<>> /\ w[1] = d[1]
    BY <1>1, <2>1, EmptySeq
  <2> HIDE DEF w
  <2> QED
    BY <1>1, <2>2
<1> QED
  BY <1>1, <1>2, <1>3, <1>4

\* The first messages of p, d, are received; c are the others.
LEMMA Receiving1 ==
  ASSUME NEW p \in Ports, NEW c \in Seq(Msgs), NEW d \in Seq(Msgs), d # <<>>,
         Chan(port, queue, thread, kmsg, p) = d \o c,
         OneChan(port, queue, thread, kmsg, port', queue', thread', kmsg', p, c),
         Had(thread', kmsg') = Had(thread, kmsg) \cup ToSet(d), SameDropped(kmsg, kmsg')
  PROVE  [InOrder!Next]_(InOrder!vars)
<1> DEFINE n == Len(d)
           w == d \o c
<1>1. n \in Nat /\ n # 0 /\ Len(c) \in Nat
  BY EmptySeq
<1>2. n \in 1 .. Len(w) /\ n + 1 \in Nat
  <2>1. Len(w) = n + Len(c)
    BY PartsAre
  <2> HIDE DEF w
  <2> QED
    BY <1>1, <2>1
<1>3. SubSeq(w, 1, n) = d
  BY PartsAre
<1>4. SubSeq(w, n + 1, Len(w)) = c
  BY PartsAre
<1>5. chan[p] = w
  BY ImageIs
<1>6. /\ chan' = [chan EXCEPT ![p] = c]
      /\ {x \in Ports : port[x].in_use}' = {x \in Ports : port[x].in_use}
  BY OneChanIs
<1>7. received' = received \cup ToSet(d)
  BY ImageIs, NextImageIs
<1>8. {x \in Msgs : kmsg[x].at = "destroyed"}' = {x \in Msgs : kmsg[x].at = "destroyed"}
  BY DEF SameDropped
<1> HIDE DEF n, w
<1>9. InOrder!Receive(n, p)
  <2>1. received' = received \cup InOrder!ToSet(SubSeq(chan[p], 1, n))
    BY <1>3, <1>5, <1>7, SameToSet
  <2>2. chan' = [chan EXCEPT ![p] = SubSeq(chan[p], n + 1, Len(chan[p]))]
    BY <1>4, <1>5, <1>6
  <2> QED
    BY <1>6, <1>8, <2>1, <2>2 DEF InOrder!Receive
<1>10. n \in 1 .. Len(chan[p])
  BY <1>2, <1>5
<1> QED
  BY <1>9, <1>10 DEF InOrder!Next

\* p dies.
LEMMA Dying ==
  ASSUME NEW p \in Ports,
         \A x \in Ports : /\ Chan(port', queue', thread', kmsg', x) = Chan(port, queue, thread, kmsg, x)
                          /\ port'[x].in_use <=> port[x].in_use /\ x # p,
         Had(thread', kmsg') = Had(thread, kmsg), SameDropped(kmsg, kmsg')
  PROVE  [InOrder!Next]_(InOrder!vars)
<1>1. chan' = chan /\ received' = received
  BY ImageIs, NextImageIs
<1>2. {x \in Ports : port[x].in_use}' = {x \in Ports : port[x].in_use} \ {p}
  OBVIOUS
<1>3. {x \in Msgs : kmsg[x].at = "destroyed"}' = {x \in Msgs : kmsg[x].at = "destroyed"}
  BY DEF SameDropped
<1>4. InOrder!Die(p)
  BY <1>1, <1>2, <1>3 DEF InOrder!Die
<1> QED
  BY <1>4 DEF InOrder!Next

\* The first message of p, which is dead, is dropped; c are the others.
LEMMA Dropping ==
  ASSUME NEW p \in Ports, NEW c \in Seq(Msgs), NEW m \in Msgs, ~ port[p].in_use,
         Chan(port, queue, thread, kmsg, p) = <<m>> \o c,
         OneChan(port, queue, thread, kmsg, port', queue', thread', kmsg', p, c),
         Had(thread', kmsg') = Had(thread, kmsg),
         \A x \in Msgs : kmsg'[x].at = "destroyed" <=> kmsg[x].at = "destroyed" \/ x = m
  PROVE  [InOrder!Next]_(InOrder!vars)
<1> DEFINE one == <<m>>
           w == one \o c
<1>1. w \in Seq(Msgs) /\ w # <<>> /\ Head(w) = m /\ Tail(w) = c
  <2>1. one \in Seq(Msgs) /\ Len(one) = 1 /\ one[1] = m /\ one # <<>>
    OBVIOUS
  <2> HIDE DEF one
  <2>5. one \in Seq(Msgs)
    BY <2>1
  <2>6. LET v == one \o c
        IN  /\ v \in Seq(Msgs) /\ Len(v) = Len(one) + Len(c)
            /\ SubSeq(v, 1, Len(one)) = one
            /\ SubSeq(v, Len(one) + 1, Len(v)) = c
            /\ one # <<>> => v # <<>> /\ Head(v) = one[1]
    BY <2>5, PartsAre
  <2>2. /\ w \in Seq(Msgs) /\ SubSeq(w, Len(one) + 1, Len(w)) = c
        /\ w # <<>> /\ Head(w) = one[1]
    BY <2>1, <2>6
  <2> HIDE DEF w
  <2>3. Tail(w) = SubSeq(w, 2, Len(w))
    BY <2>2, TailIsSubSeq
  <2>4. Len(one) + 1 = 2
    BY <2>1
  <2> QED
    BY <2>1, <2>2, <2>3, <2>4
<1>2. chan[p] = w
  BY ImageIs
<1>3. /\ chan' = [chan EXCEPT ![p] = c]
      /\ {x \in Ports : port[x].in_use}' = {x \in Ports : port[x].in_use}
  BY OneChanIs
<1>4. received' = received
  BY ImageIs, NextImageIs
<1>5. {x \in Msgs : kmsg[x].at = "destroyed"}' = {x \in Msgs : kmsg[x].at = "destroyed"} \cup {m}
  OBVIOUS
<1>6. p \notin {x \in Ports : port[x].in_use}
  OBVIOUS
<1> HIDE DEF w
<1>7. InOrder!Drop(p)
  BY <1>1, <1>2, <1>3, <1>4, <1>5, <1>6 DEF InOrder!Drop
<1> QED
  BY <1>7 DEF InOrder!Next

-----------------------------------------------------------------------------
(* Steps that the user does not see.                                       *)

\* A message that is in no queue and on the way to none.
Nowhere(Q, T, m) ==
    /\ \A q \in Queues : m \notin ToSet(Q[q].messages)
    /\ \A t \in Threads : ~ Delivers(T[t], m)

\* The queues, and the messages' ways, are what they were.
SameQueued(P, Q, P2, Q2) ==
    /\ \A p \in Ports : P2[p].set = P[p].set /\ P2[p].in_use = P[p].in_use
    /\ \A q \in Queues : Q2[q].messages = Q[q].messages

Quiet(Q, T, M, T2, M2) ==
    /\ \A t \in Threads : \A m \in Msgs : Delivers(T2[t], m) <=> Delivers(T[t], m)
    /\ \A m \in Msgs : /\ Has(T2, M2, m) <=> Has(T, M, m)
                       /\ M2[m].to = M[m].to \/ Nowhere(Q, T, m)
    /\ SameDropped(M, M2)

\* The queue of a port is a queue.
LEMMA QueueOfIs ==
  ASSUME NEW P \in [Ports -> PortRecord], NEW p \in Ports
  PROVE  QueueOf(P, p) \in Queues
<1>1. P[p].set \in Sets \cup {Nil}
  BY DEF PortRecord
<1> QED
  BY <1>1 DEF QueueOf, Queues

\* The messages on the way are what they were.
LEMMA SameAdded ==
  ASSUME NEW Q, NEW T, NEW M, NEW T2, NEW M2, Quiet(Q, T, M, T2, M2), NEW p \in Ports
  PROVE  Added(T2, M2, p) = Added(T, M, p)
<1>1. ASSUME NEW m \in Msgs
      PROVE  m \in Added(T2, M2, p) <=> m \in Added(T, M, p)
  <2>1. (\E t \in Threads : Delivers(T2[t], m)) <=> (\E t \in Threads : Delivers(T[t], m))
    BY DEF Quiet
  <2>2. (\E t \in Threads : Delivers(T[t], m)) => M2[m].to = M[m].to
    BY DEF Quiet, Nowhere
  <2> QED
    BY <2>1, <2>2 DEF Added, Mine
<1> QED
  BY <1>1 DEF Added, Mine

\* The user sees nothing.
LEMMA QuietKeeps ==
  ASSUME NEW P \in [Ports -> PortRecord], NEW Q \in [Queues -> QueueRecord],
         NEW T, NEW M, NEW P2, NEW Q2, NEW T2, NEW M2,
         SameQueued(P, Q, P2, Q2), Quiet(Q, T, M, T2, M2)
  PROVE  SameImage(P, Q, T, M, P2, Q2, T2, M2)
<1>1. ASSUME NEW p \in Ports PROVE Line(P2, Q2, M2, p) = Line(P, Q, M, p)
  <2> DEFINE q == QueueOf(P, p)
             l == Q[q].messages
  <2>1. q \in Queues /\ QueueOf(P2, p) = q
    BY QueueOfIs DEF SameQueued, QueueOf
  <2>2. Q2[q].messages = l /\ l \in Seq(Msgs)
    BY <2>1 DEF SameQueued, QueueRecord
  <2>3. ToSet(l) \cap Mine(M2, p) = ToSet(l) \cap Mine(M, p)
    <3>1. ASSUME NEW m \in Msgs, m \in ToSet(l) PROVE M2[m].to = M[m].to
      BY <2>1, <3>1 DEF Quiet, Nowhere
    <3> QED
      BY <3>1 DEF Mine
  <2> HIDE DEF l, q
  <2>4. Among(l, Mine(M2, p)) = Among(l, Mine(M, p))
    BY <2>2, <2>3, AmongSame
  <2> QED
    BY <2>1, <2>2, <2>4 DEF Line, q, l
<1>2. ASSUME NEW p \in Ports
      PROVE  Chan(P2, Q2, T2, M2, p) = Chan(P, Q, T, M, p) /\ P2[p].in_use = P[p].in_use
  BY <1>1, SameAdded DEF Chan, SameQueued
<1>3. Had(T2, M2) = Had(T, M)
  BY DEF Had, Quiet
<1> QED
  BY <1>2, <1>3 DEF SameImage, Quiet, SameDropped

\* What a thread has to do with messages, for the user.
SameRole(r, r2) ==
    \A m \in Msgs : (Delivers(r2, m) <=> Delivers(r, m)) /\ (Holds(r2, m) <=> Holds(r, m))

\* Threads that do not move messages, and messages that go nowhere.
LEMMA RolesStay ==
  ASSUME NEW Q, NEW T, NEW M, NEW T2, NEW M2, \A t \in Threads : SameRole(T[t], T2[t]),
         \A m \in Msgs : /\ M2[m].at = "received" <=> M[m].at = "received"
                         /\ M2[m].at = "destroyed" <=> M[m].at = "destroyed"
                         /\ M2[m].to = M[m].to \/ Nowhere(Q, T, m)
  PROVE  Quiet(Q, T, M, T2, M2)
<1>1. \A t \in Threads : \A m \in Msgs : Delivers(T2[t], m) <=> Delivers(T[t], m)
  BY DEF SameRole
<1>2. ASSUME NEW m \in Msgs PROVE Has(T2, M2, m) <=> Has(T, M, m)
  <2>1. (\E t \in Threads : Holds(T2[t], m)) <=> (\E t \in Threads : Holds(T[t], m))
    BY DEF SameRole
  <2> QED
    BY <2>1 DEF Has
<1> QED
  BY <1>1, <1>2 DEF Quiet, SameDropped

\* The messages stay as they are.
LEMMA RolesOnly ==
  ASSUME NEW Q, NEW T, NEW M, NEW T2, \A t \in Threads : SameRole(T[t], T2[t])
  PROVE  Quiet(Q, T, M, T2, M)
BY RolesStay

\* Threads turn.
LEMMA TurnsRole ==
  ASSUME NEW r, NEW r2, SameWork(r, r2), SameDelivery(r, r2)
  PROVE  SameRole(r, r2)
<1>1. ASSUME NEW m \in Msgs
      PROVE  (Delivers(r2, m) <=> Delivers(r, m)) /\ (Holds(r2, m) <=> Holds(r, m))
  <2>1. Delivers(r2, m) <=> Delivers(r, m)
    BY DEF SameDelivery, Delivers
  <2>2. /\ Holds(r, m) <=> (Carries(r, m) /\ ~ Delivers(r, m)) \/ Tells(r, m)
        /\ Holds(r2, m) <=> (Carries(r2, m) /\ ~ Delivers(r2, m)) \/ Tells(r2, m)
    BY DEF Holds, Carries, Delivers, Tells, Handed
  <2>3. (Carries(r2, m) <=> Carries(r, m)) /\ (Tells(r2, m) <=> Tells(r, m))
    BY DEF SameWork
  <2> QED
    BY <2>1, <2>2, <2>3
<1> QED
  BY <1>1 DEF SameRole

\* Nothing changes for a thread that is as it was, or one without messages that gets none.
LEMMA SameRoleIs ==
  /\ \A r : SameRole(r, r)
  /\ \A r, r2 : (\A m \in Msgs : /\ ~ Delivers(r, m) /\ ~ Holds(r, m)
                                 /\ ~ Delivers(r2, m) /\ ~ Holds(r2, m)) => SameRole(r, r2)
BY DEF SameRole

\* A step that the user does not see.
LEMMA QuietStep ==
  ASSUME IInv, SameQueued(port, queue, port', queue'), Quiet(queue, thread, kmsg, thread', kmsg')
  PROVE  [InOrder!Next]_(InOrder!vars)
<1>1. port \in [Ports -> PortRecord] /\ queue \in [Queues -> QueueRecord]
  BY InvParts, Exactly
<1> DEFINE P2 == port'
           Q2 == queue'
           T2 == thread'
           M2 == kmsg'
<1>2. SameQueued(port, queue, P2, Q2) /\ Quiet(queue, thread, kmsg, T2, M2)
  OBVIOUS
<1> HIDE DEF P2, Q2, T2, M2
<1>3. SameImage(port, queue, thread, kmsg, P2, Q2, T2, M2)
  BY <1>1, <1>2, QuietKeeps
<1> QED
  BY <1>3, Stutters DEF P2, Q2, T2, M2

-----------------------------------------------------------------------------
(* The steps that only wake threads, or only turn ports and sets.          *)

\* A woken thread has the message that it had.
LEMMA WokenRole ==
  ASSUME NEW r, NEW r2, Woken(r, r2),
         r2.ipc_state = r.ipc_state \/ r.at = "send_wait" \/ (~ Handed(r) /\ r2.ipc_state # "SUCCESS")
  PROVE  SameRole(r, r2)
BY DEF SameRole, Woken, Delivers, Holds, Handed

\* One thread turns.
LEMMA OneRole ==
  ASSUME NEW T, NEW T2, NEW t \in Threads, Others(T, T2, t), SameRole(T[t], T2[t])
  PROVE  \A u \in Threads : SameRole(T[u], T2[u])
<1>1. ASSUME NEW u \in Threads PROVE SameRole(T[u], T2[u])
  <2>1. CASE u = t
    BY <2>1
  <2>2. CASE u # t
    <3>1. T2[u] = T[u]
      BY <2>2 DEF Others
    <3> QED
      BY <3>1, SameRoleIs
  <2> QED
    BY <2>1, <2>2
<1> QED
  BY <1>1

\* One thread turns, in a step that does nothing to queues and messages.
LEMMA OneTurnsMaps ==
  ASSUME IInv, NEW t \in Threads, Others(thread, thread', t), SameRole(thread[t], thread'[t]),
         SameQueued(port, queue, port', queue'), UNCHANGED kmsg
  PROVE  [InOrder!Next]_(InOrder!vars)
<1> DEFINE T2 == thread'
<1>1. Others(thread, T2, t) /\ SameRole(thread[t], T2[t])
  OBVIOUS
<1> HIDE DEF T2
<1>2. \A u \in Threads : SameRole(thread[u], T2[u])
  BY <1>1, OneRole
<1>3. Quiet(queue, thread, kmsg, T2, kmsg)
  BY <1>2, RolesOnly
<1> QED
  BY <1>3, QuietStep DEF T2

\* Nothing happens to ports and queues.
LEMMA SameQueuedIs ==
  \A P, Q : SameQueued(P, Q, P, Q)
BY DEF SameQueued

\* A timer goes off.
LEMMA TimeoutMaps ==
  ASSUME IInv, NEW t \in Threads, Timeout(t)
  PROVE  [InOrder!Next]_(InOrder!vars)
<1> DEFINE r == thread[t]
           r2 == [r EXCEPT !.wait = FALSE, !.timer = FALSE, !.result = "TIMED_OUT"]
<1>1. r \in ThreadRecord /\ thread \in [Threads -> ThreadRecord]
  BY InvParts
<1>2. Woken(r, r2) /\ r2.ipc_state = r.ipc_state
  BY <1>1, WakeIs
<1>3. thread' = [thread EXCEPT ![t] = r2] /\ UNCHANGED <<port, queue, kmsg>>
  BY DEF Timeout
<1> HIDE DEF r2
<1>4. Others(thread, thread', t) /\ thread'[t] = r2
  BY <1>1, <1>3 DEF Others
<1>5. SameRole(r, r2)
  BY <1>2, WokenRole
<1> QED
  BY <1>3, <1>4, <1>5, SameQueuedIs, OneTurnsMaps

\* A signal.
LEMMA InterruptMaps ==
  ASSUME IInv, NEW t \in Threads, Interrupt(t)
  PROVE  [InOrder!Next]_(InOrder!vars)
<1> DEFINE r == thread[t]
           r2 == [r EXCEPT !.wait = FALSE, !.timer = FALSE, !.result = "INTERRUPTED"]
<1>1. r \in ThreadRecord /\ thread \in [Threads -> ThreadRecord]
  BY InvParts
<1>2. Woken(r, r2) /\ r2.ipc_state = r.ipc_state
  BY <1>1, WakeIs
<1>3. thread' = [thread EXCEPT ![t] = r2] /\ UNCHANGED <<port, queue, kmsg>>
  BY DEF Interrupt
<1> HIDE DEF r2
<1>4. Others(thread, thread', t) /\ thread'[t] = r2
  BY <1>1, <1>3 DEF Others
<1>5. SameRole(r, r2)
  BY <1>2, WokenRole
<1> QED
  BY <1>3, <1>4, <1>5, SameQueuedIs, OneTurnsMaps

\* A receive right arrives.
LEMMA ArrivesMaps ==
  ASSUME IInv, NEW p \in Ports, RightArrives(p)
  PROVE  [InOrder!Next]_(InOrder!vars)
<1>1. port \in [Ports -> PortRecord]
  BY InvParts, Exactly
<1>2. SameQueued(port, queue, port', queue')
  BY <1>1 DEF RightArrives, SameQueued, PortRecord
<1>3. thread' = thread /\ kmsg' = kmsg
  BY DEF RightArrives
<1>4. Quiet(queue, thread, kmsg, thread, kmsg)
  BY SameRoleIs, RolesOnly
<1> QED
  BY <1>2, <1>3, <1>4, QuietStep

\* Those on a list of senders, or of receivers who get no message, are woken.
LEMMA WakeAllRoles ==
  ASSUME NEW T \in [Threads -> ThreadRecord], NEW w, NEW x \in IPCStates,
         \A u \in Threads : u \in ToSet(w) =>
            T[u].at = "send_wait" \/ (~ Handed(T[u]) /\ x # "SUCCESS")
  PROVE  \A u \in Threads : SameRole(T[u], WakeAll(T, w, x)[u])
<1>1. ASSUME NEW u \in Threads PROVE SameRole(T[u], WakeAll(T, w, x)[u])
  <2>1. CASE u \notin ToSet(w)
    <3>1. WakeAll(T, w, x)[u] = T[u]
      BY <2>1 DEF WakeAll
    <3> QED
      BY <3>1, SameRoleIs
  <2>2. CASE u \in ToSet(w)
    <3>1. WakeAll(T, w, x)[u] = Awakened(T[u], x)
      BY <2>2 DEF WakeAll
    <3> DEFINE r2 == Awakened(T[u], x)
    <3>2. Woken(T[u], r2) /\ r2.ipc_state = x
      BY AwakenedIs
    <3> HIDE DEF r2
    <3>3. SameRole(T[u], r2)
      BY <2>2, <3>2, WokenRole
    <3> QED
      BY <3>1, <3>3 DEF r2
  <2> QED
    BY <2>1, <2>2
<1> QED
  BY <1>1

\* Those on a port's list send.
LEMMA SendersSleep ==
  ASSUME NEW P, NEW S, NEW Q, NEW T, NEW M, NEW E, NEW N, NEW D,
         Base(P, S, Q, T, M, E, N, D), NEW p \in Ports, NEW w, ToSet(w) \subseteq ToSet(P[p].blocked)
  PROVE  \A u \in Threads : u \in ToSet(w) => T[u].at = "send_wait"
BY DEF Base, SendLists, SleepsAt

\* Those on a queue's list have no message.
LEMMA ReceiversSleep ==
  ASSUME NEW P, NEW S, NEW Q, NEW T, NEW M, NEW E, NEW N, NEW D,
         Base(P, S, Q, T, M, E, N, D), NEW q \in Queues, NEW w, ToSet(w) \subseteq ToSet(Q[q].blocked)
  PROVE  \A u \in Threads : u \in ToSet(w) => ~ Handed(T[u])
BY DEF Base, ReceiveLists, ReceivesAt, Handed

\* The backlog of a port changes.
LEMMA BacklogMaps ==
  ASSUME IInv, NEW p \in Ports, NEW backlog, port_set_backlog(p, backlog)
  PROVE  [InOrder!Next]_(InOrder!vars)
<1> DEFINE b == port[p].blocked
           n == backlog - port[p].backlog
           w == FirstOf(b, n)
<1>1. /\ Base(port, set, queue, thread, kmsg, entry, notice, dying)
      /\ port \in [Ports -> PortRecord] /\ thread \in [Threads -> ThreadRecord]
  BY InvParts, Exactly
<1>2. b \in Seq(Threads) /\ n \in Int
  <2>1. port[p].backlog \in Int
    BY <1>1, BacklogsPositive DEF PortRecord, Backlogs
  <2>2. backlog \in Int
    BY BacklogsPositive DEF port_set_backlog
  <2> QED
    BY <1>1, <2>1, <2>2 DEF PortRecord
<1>3. /\ thread' = WakeAll(thread, w, "SUCCESS")
      /\ port' = [port EXCEPT ![p].backlog = backlog,
                              ![p].blocked = SubSeq(@, Len(w) + 1, Len(@))]
      /\ UNCHANGED <<queue, kmsg>>
  BY DEF port_set_backlog
<1>4. ToSet(w) \subseteq ToSet(b)
  <2> HIDE DEF b, n
  <2>1. w \in Seq(Threads) /\ Len(w) <= Len(b) /\ \A i \in 1 .. Len(w) : w[i] = b[i]
    BY <1>2, FirstOfIs
  <2> HIDE DEF w
  <2> QED
    BY <1>2, <2>1, PrefixIs
<1>5. SameQueued(port, queue, port', queue')
  <2> HIDE DEF w
  <2> QED
    BY <1>1, <1>3 DEF SameQueued, PortRecord
<1> HIDE DEF w, b
<1>6. \A u \in Threads : u \in ToSet(w) => thread[u].at = "send_wait"
  BY <1>1, <1>4, SendersSleep DEF b
<1>7. \A u \in Threads : SameRole(thread[u], thread'[u])
  BY <1>1, <1>3, <1>6, WakeAllRoles DEF IPCStates
<1> DEFINE T2 == thread'
<1>8. \A u \in Threads : SameRole(thread[u], T2[u])
  BY <1>7
<1> HIDE DEF T2
<1>9. Quiet(queue, thread, kmsg, T2, kmsg)
  BY <1>8, RolesOnly
<1> QED
  BY <1>3, <1>5, <1>9, QuietStep DEF T2

\* port_destroy takes a sender off the list ...
LEMMA PokeMaps ==
  ASSUME IInv, NEW p \in Ports, Poke(p)
  PROVE  [InOrder!Next]_(InOrder!vars)
<1>1. port \in [Ports -> PortRecord]
  BY InvParts, Exactly
<1>2. SameQueued(port, queue, port', queue')
  BY <1>1 DEF Poke, SameQueued, PortRecord
<1>3. thread' = thread /\ kmsg' = kmsg
  BY DEF Poke
<1>4. Quiet(queue, thread, kmsg, thread, kmsg)
  BY SameRoleIs, RolesOnly
<1> QED
  BY <1>2, <1>3, <1>4, QuietStep

\* ... and wakes it.
LEMMA PokeGoMaps ==
  ASSUME IInv, NEW p \in Ports, PokeGo(p)
  PROVE  [InOrder!Next]_(InOrder!vars)
<1> DEFINE t == dying[p].poked
           r2 == Awakened(thread[t], "SUCCESS")
<1>1. Base(port, set, queue, thread, kmsg, entry, notice, dying)
  BY InvParts
<1>2. t \in Threads /\ thread[t].at = "send_wait"
  BY <1>1, PokedIs DEF PokeGo
<1>3. thread \in [Threads -> ThreadRecord] /\ thread[t] \in ThreadRecord
  BY <1>2, InvParts
<1>4. Woken(thread[t], r2) /\ r2.ipc_state = "SUCCESS"
  BY <1>3, AwakenedIs DEF IPCStates
<1>5. thread' = [thread EXCEPT ![t] = r2] /\ UNCHANGED <<port, queue, kmsg>>
  BY DEF PokeGo
<1> HIDE DEF r2, t
<1>6. Others(thread, thread', t) /\ thread'[t] = r2
  BY <1>2, <1>3, <1>5 DEF Others
<1>7. SameRole(thread[t], r2)
  BY <1>2, <1>4, WokenRole
<1> QED
  BY <1>2, <1>5, <1>6, <1>7, SameQueuedIs, OneTurnsMaps

\* A translation is removed.
LEMMA EntryRemovedMaps ==
  ASSUME IInv, NEW p \in Ports, NEW value, EntryRemoved(p, value), UNCHANGED <<port, queue, thread>>
  PROVE  [InOrder!Next]_(InOrder!vars)
<1>1. kmsg \in [Msgs -> MessageRecord]
  BY InvParts, Exactly
<1>2. \A m \in Msgs : kmsg'[m].at = kmsg[m].at /\ kmsg'[m].to = kmsg[m].to
  BY <1>1 DEF EntryRemoved, MessageRecord
<1> DEFINE M2 == kmsg'
<1>3. \A m \in Msgs : M2[m].at = kmsg[m].at /\ M2[m].to = kmsg[m].to
  BY <1>2
<1> HIDE DEF M2
<1>4. Quiet(queue, thread, kmsg, thread, M2)
  BY <1>3, SameRoleIs, RolesStay
<1> QED
  BY <1>4, SameQueuedIs, QuietStep DEF M2

-----------------------------------------------------------------------------
(* Steps of one thread that move no message of a queue.                    *)

\* A thread with no message for the user.
Idles(r) == \A m \in Msgs : ~ Delivers(r, m) /\ ~ Holds(r, m)

\* Where threads idle.
LEMMA IdlesIs ==
  /\ \A r : r.at \in {"idle", "send", "send_wait", "go", "reply"} => Idles(r)
  /\ \A r : r.at = "recv_wait" /\ r.ipc_state # "SUCCESS" => Idles(r)
  /\ \A r, r2 : Idles(r) /\ Idles(r2) => SameRole(r, r2)
BY DEF Idles, SameRole, Delivers, Holds, Handed

\* A thread that rests has no message.
LEMMA RestsIdle ==
  ASSUME NEW r, NEW M, NEW t, Resting(r, M, t)
  PROVE  Idles(r)
BY DEF Resting, Idles, Delivers, Holds, Carries, Tells

\* Idle threads idle.
LEMMA IdleIdles == Idles(Idle)
<1> DEFINE i == Idle
<1>1. i = Idle
  OBVIOUS
<1>2. i.at = "idle"
  BY DEF Idle
<1> HIDE DEF i
<1> QED
  BY <1>1, <1>2, IdlesIs

\* A message that has not been sent yet, or was given back, is nowhere.
LEMMA NowhereIs ==
  ASSUME NEW P, NEW S, NEW Q, NEW T, NEW M, NEW E, NEW N, NEW D,
         Base(P, S, Q, T, M, E, N, D), NEW m \in Msgs, M[m].at # "live"
  PROVE  /\ Nowhere(Q, T, m)
         /\ \A t \in Threads : ~ Holds(T[t], m)
         /\ \A p \in Ports : m \notin CountedIn(Q, T, M, p)
<1>1. \A q \in Queues : m \notin ToSet(Q[q].messages)
  BY DEF Base, Queued
<1>2. ASSUME NEW t \in Threads PROVE ~ Carries(T[t], m) /\ ~ Tells(T[t], m)
  BY DEF Base, Stages
<1>3. \A t \in Threads : ~ Delivers(T[t], m) /\ ~ Holds(T[t], m)
  BY <1>2 DEF Delivers, Holds, Carries, Tells
<1> QED
  BY <1>1, <1>2, <1>3 DEF Nowhere, CountedIn

\* A thread and one message that nobody has act, and the message does not arrive.
LEMMA OneActsMaps ==
  ASSUME IInv, NEW t \in Threads, NEW m \in Msgs, kmsg[m].at \in {"new", "sending"},
         Others(thread, thread', t), Idles(thread[t]), Idles(thread'[t]),
         OnlyMessage(kmsg, kmsg', m), kmsg'[m].at \in {"sending", "returned"},
         SameQueued(port, queue, port', queue')
  PROVE  [InOrder!Next]_(InOrder!vars)
<1> DEFINE T2 == thread'
           M2 == kmsg'
<1>1. /\ Others(thread, T2, t) /\ Idles(thread[t]) /\ Idles(T2[t])
      /\ OnlyMessage(kmsg, M2, m) /\ M2[m].at \in {"sending", "returned"}
  OBVIOUS
<1> HIDE DEF T2, M2
<1>2. \A u \in Threads : SameRole(thread[u], T2[u])
  BY <1>1, IdlesIs, OneRole
<1>3. Nowhere(queue, thread, m)
  <2>1. Base(port, set, queue, thread, kmsg, entry, notice, dying)
    BY InvParts
  <2> QED
    BY <2>1, NowhereIs
<1>4. ASSUME NEW x \in Msgs
      PROVE  /\ M2[x].at = "received" <=> kmsg[x].at = "received"
             /\ M2[x].at = "destroyed" <=> kmsg[x].at = "destroyed"
             /\ M2[x].to = kmsg[x].to \/ Nowhere(queue, thread, x)
  <2>1. CASE x = m
    BY <1>1, <1>3, <2>1
  <2>2. CASE x # m
    <3>1. M2[x] = kmsg[x]
      BY <1>1, <2>2 DEF OnlyMessage
    <3> QED
      BY <3>1
  <2> QED
    BY <2>1, <2>2
<1>5. Quiet(queue, thread, kmsg, T2, M2)
  BY <1>2, <1>4, RolesStay
<1> QED
  BY <1>5, QuietStep DEF T2, M2

\* msg_send begins.
LEMMA SendMaps ==
  ASSUME IInv, NEW c \in MaySend, msg_send(c)
  PROVE  [InOrder!Next]_(InOrder!vars)
<1> DEFINE t == c.thread
           m == c.msg
<1>1. t \in Threads /\ m \in Msgs
  BY SendCalls DEF SendCall
<1>2. thread \in [Threads -> ThreadRecord] /\ kmsg \in [Msgs -> MessageRecord]
  BY InvParts, Exactly
<1>3. /\ thread[t].at = "idle" /\ kmsg[m].at = "new"
      /\ thread' = [thread EXCEPT ![t].at = "send", ![t].msg = m,
                            ![t].option = c.option, ![t].reply = c.reply,
                            ![t].tout = "TIMEOUT" \in c.option]
      /\ kmsg' = [kmsg EXCEPT ![m].at = "sending", ![m].to = c.port]
      /\ UNCHANGED <<port, queue>>
  BY DEF msg_send
<1>4. Others(thread, thread', t) /\ thread'[t].at = "send"
  BY <1>1, <1>2, <1>3 DEF Others, ThreadRecord
<1>5. OnlyMessage(kmsg, kmsg', m) /\ kmsg'[m].at = "sending"
  BY <1>1, <1>2, <1>3 DEF OnlyMessage, MessageRecord
<1> DEFINE r == thread[t]
           r2 == thread'[t]
<1>7. r.at = "idle" /\ r2.at = "send"
  BY <1>3, <1>4
<1> HIDE DEF r, r2
<1>8. Idles(r) /\ Idles(r2)
  BY <1>7, IdlesIs
<1>6. Idles(thread[t]) /\ Idles(thread'[t])
  BY <1>8 DEF r, r2
<1> HIDE DEF t, m
<1> QED
  BY <1>1, <1>3, <1>4, <1>5, <1>6, SameQueuedIs, OneActsMaps

\* A sender gives up.
LEMMA GiveUpMaps ==
  ASSUME IInv, NEW t \in Threads, thread[t].at \in {"send", "send_wait"},
         NEW pr, NEW r, r.msg = thread[t].msg, GiveUp(t, pr, r),
         LET p == kmsg[r.msg].to IN pr.set = port[p].set /\ pr.in_use = port[p].in_use
  PROVE  [InOrder!Next]_(InOrder!vars)
<1> DEFINE m == r.msg
           p == kmsg[m].to
<1>1. /\ thread \in [Threads -> ThreadRecord] /\ kmsg \in [Msgs -> MessageRecord]
      /\ port \in [Ports -> PortRecord]
      /\ Base(port, set, queue, thread, kmsg, entry, notice, dying)
  BY InvParts, Exactly
<1>2. m \in Msgs /\ kmsg[m].at = "sending"
  <2>1. Local(thread[t])
    BY InvParts
  <2>2. m \in Msgs
    BY <2>1 DEF Local
  <2>3. Sends(thread[t], m)
    BY DEF Sends
  <2> QED
    BY <1>1, <2>2, <2>3 DEF Base, Stages
<1>3. p \in Ports
  BY <1>1, <1>2 DEF Base, Addressed
<1>4. /\ port' = [port EXCEPT ![p] = pr]
      /\ thread' = [thread EXCEPT ![t] = Idle]
      /\ kmsg' = [kmsg EXCEPT ![m].at = "returned"]
      /\ queue' = queue
  BY DEF GiveUp
<1>5. pr.set = port[p].set /\ pr.in_use = port[p].in_use
  OBVIOUS
<1>6. SameQueued(port, queue, port', queue')
  <2>1. ASSUME NEW x \in Ports PROVE port'[x].set = port[x].set /\ port'[x].in_use = port[x].in_use
    BY <1>1, <1>3, <1>4, <1>5
  <2> QED
    BY <1>4, <2>1 DEF SameQueued
<1> DEFINE i == Idle
<1>7. Idles(i) /\ thread' = [thread EXCEPT ![t] = i]
  BY <1>4, IdleIdles
<1> HIDE DEF i
<1>8. Others(thread, thread', t) /\ thread'[t] = i
  BY <1>1, <1>7 DEF Others
<1>9. OnlyMessage(kmsg, kmsg', m) /\ kmsg'[m].at = "returned"
  BY <1>1, <1>2, <1>4 DEF OnlyMessage, MessageRecord
<1>10. Idles(thread[t])
  BY IdlesIs
<1> QED
  BY <1>2, <1>6, <1>7, <1>8, <1>9, <1>10, OneActsMaps

\* A sender goes to sleep.
LEMMA BlocksMaps ==
  ASSUME IInv, NEW t \in Threads, thread[t].at \in {"send", "send_wait"},
         NEW pr, NEW r, r.msg = thread[t].msg, r \in ThreadRecord, Blocks(t, pr, r),
         LET p == kmsg[r.msg].to IN pr.set = port[p].set /\ pr.in_use = port[p].in_use,
         pr \in PortRecord
  PROVE  [InOrder!Next]_(InOrder!vars)
<1> DEFINE p == kmsg[r.msg].to
           pr2 == [pr EXCEPT !.blocked = Append(@, t)]
           r2 == [Waits(r, "SEND_IN_PROGRESS", r.tout) EXCEPT !.at = "send_wait"]
<1>1. thread \in [Threads -> ThreadRecord] /\ port \in [Ports -> PortRecord]
  BY InvParts, Exactly
<1>2. r2.at = "send_wait"
  BY DEF Waits, ThreadRecord
<1>3. pr2.set = port[p].set /\ pr2.in_use = port[p].in_use
  BY DEF PortRecord
<1>4. /\ port' = [port EXCEPT ![p] = pr2] /\ thread' = [thread EXCEPT ![t] = r2]
      /\ UNCHANGED <<queue, kmsg>>
  BY DEF Blocks
<1> HIDE DEF r2, pr2
<1>5. SameQueued(port, queue, port', queue')
  <2>1. ASSUME NEW x \in Ports PROVE port'[x].set = port[x].set /\ port'[x].in_use = port[x].in_use
    BY <1>1, <1>3, <1>4
  <2> QED
    BY <1>4, <2>1 DEF SameQueued
<1>6. Others(thread, thread', t) /\ thread'[t] = r2
  BY <1>1, <1>4 DEF Others
<1>7. SameRole(thread[t], r2)
  BY <1>2, IdlesIs
<1> QED
  BY <1>4, <1>5, <1>6, <1>7, OneTurnsMaps

-----------------------------------------------------------------------------
(* A received message is accounted for.                                    *)

\* t, which had received m, is done with it.
Settles(T, M, T2, M2, t, m) ==
    /\ \A u \in Threads \ {t} : SameRole(T[u], T2[u])
    /\ Holds(T[t], m) /\ T[t].at # "deliver" /\ Idles(T2[t])
    /\ OnlyMessage(M, M2, m) /\ M[m].at # "destroyed"
    /\ M2[m].at = "received" /\ M2[m].to = M[m].to

\* The user has had the message already.
LEMMA SettlesKeeps ==
  ASSUME NEW Q, NEW T, NEW M, NEW T2, NEW M2, NEW t \in Threads, NEW m \in Msgs,
         Settles(T, M, T2, M2, t, m)
  PROVE  Quiet(Q, T, M, T2, M2)
<1>1. ASSUME NEW u \in Threads, NEW x \in Msgs PROVE Delivers(T2[u], x) <=> Delivers(T[u], x)
  BY DEF Settles, SameRole, Idles, Delivers
<1>2. ASSUME NEW x \in Msgs \ {m}, NEW u \in Threads PROVE Holds(T2[u], x) <=> Holds(T[u], x)
  <2>1. CASE u = t
    <3>1. ~ Holds(T[u], x)
      BY <2>1 DEF Settles, Holds
    <3> QED
      BY <2>1, <3>1 DEF Settles, Idles
  <2>2. CASE u # t
    BY <2>2 DEF Settles, SameRole
  <2> QED
    BY <2>1, <2>2
<1>3. ASSUME NEW x \in Msgs
      PROVE  /\ Has(T2, M2, x) <=> Has(T, M, x)
             /\ M2[x].to = M[x].to
             /\ M2[x].at = "destroyed" <=> M[x].at = "destroyed"
  <2>1. CASE x = m
    BY <2>1 DEF Settles, Has
  <2>2. CASE x # m
    <3>1. M2[x] = M[x]
      BY <2>2 DEF Settles, OnlyMessage
    <3>2. (\E u \in Threads : Holds(T2[u], x)) <=> (\E u \in Threads : Holds(T[u], x))
      BY <1>2, <2>2
    <3> QED
      BY <3>1, <3>2 DEF Has
  <2> QED
    BY <2>1, <2>2
<1> QED
  BY <1>1, <1>3 DEF Quiet, SameDropped

\* The sender is told.
LEMMA NoticeMaps ==
  ASSUME IInv, NEW t \in Threads, SendsNotice(t)
  PROVE  [InOrder!Next]_(InOrder!vars)
<1> DEFINE m == thread[t].msg
           i == Idle
<1>1. /\ thread \in [Threads -> ThreadRecord] /\ kmsg \in [Msgs -> MessageRecord]
      /\ Base(port, set, queue, thread, kmsg, entry, notice, dying) /\ Local(thread[t])
  BY InvParts, Exactly
<1>2. m \in Msgs /\ thread[t].at = "notify"
  BY <1>1 DEF SendsNotice, Local
<1>3. Tells(thread[t], m) /\ Holds(thread[t], m)
  BY <1>2 DEF Tells, Holds
<1>4. kmsg[m].at = "live"
  BY <1>1, <1>2, <1>3 DEF Base, Stages
<1>5. /\ kmsg' = [kmsg EXCEPT ![m].at = "received"]
      /\ thread' = [thread EXCEPT ![t] = i]
      /\ UNCHANGED <<port, queue>>
  BY DEF SendsNotice
<1>6. OnlyMessage(kmsg, kmsg', m) /\ kmsg'[m].at = "received" /\ kmsg'[m].to = kmsg[m].to
  BY <1>1, <1>2, <1>5 DEF OnlyMessage, MessageRecord
<1>7. Idles(i)
  BY IdleIdles
<1> HIDE DEF i
<1>8. Others(thread, thread', t) /\ thread'[t] = i
  BY <1>1, <1>5 DEF Others
<1>9. \A u \in Threads \ {t} : SameRole(thread[u], thread'[u])
  BY <1>8, SameRoleIs DEF Others
<1>10. Settles(thread, kmsg, thread', kmsg', t, m)
  BY <1>2, <1>3, <1>4, <1>6, <1>7, <1>8, <1>9 DEF Settles
<1> DEFINE T2 == thread'
           M2 == kmsg'
<1>11. Settles(thread, kmsg, T2, M2, t, m)
  BY <1>10
<1> HIDE DEF T2, M2, m
<1>12. Quiet(queue, thread, kmsg, T2, M2)
  BY <1>2, <1>11, SettlesKeeps
<1> QED
  BY <1>5, <1>12, SameQueuedIs, QuietStep DEF T2, M2

\* The bookkeeping of a message that was received.
LEMMA AccountMaps ==
  ASSUME IInv, NEW t \in Threads, Account(t)
  PROVE  [InOrder!Next]_(InOrder!vars)
<1> DEFINE r == thread[t]
           m == r.msg
           p == kmsg[m].to
           pr == [port[p] EXCEPT !.count = @ - 1]
           w == LetGo(pr)
           T == WakeAll(thread, w, "SUCCESS")
           pr2 == [pr EXCEPT !.blocked = SubSeq(@, Len(w) + 1, Len(@))]
           r2 == [r EXCEPT !.at = "notify"]
           i == Idle
<1>1. /\ thread \in [Threads -> ThreadRecord] /\ kmsg \in [Msgs -> MessageRecord]
      /\ port \in [Ports -> PortRecord]
      /\ Base(port, set, queue, thread, kmsg, entry, notice, dying) /\ Local(r)
  BY InvParts, Exactly
<1>2. m \in Msgs /\ r.at = "account"
  BY <1>1 DEF Account, Local
<1>3. Carries(r, m) /\ Holds(r, m)
  BY <1>2 DEF Carries, Holds
<1>4. kmsg[m].at = "live" /\ p \in Ports
  BY <1>1, <1>2, <1>3, CarriedCounts
<1>5. port[p] \in PortRecord
  BY <1>1, <1>4
<1>6. pr.blocked = port[p].blocked /\ pr.set = port[p].set /\ pr.in_use = port[p].in_use
  BY <1>5 DEF PortRecord
<1>7. pr2.set = port[p].set /\ pr2.in_use = port[p].in_use
  <2> HIDE DEF w
  <2> QED
    BY <1>5 DEF PortRecord
<1>8. ToSet(w) \subseteq ToSet(port[p].blocked)
  <2>1. port[p].blocked \in Seq(Threads)
    BY <1>5 DEF PortRecord
  <2>2. pr.blocked \in Seq(Threads)
    BY <1>6, <2>1
  <2> HIDE DEF pr
  <2>3. w \in Seq(Threads) /\ Len(w) <= Len(pr.blocked) /\ \A j \in 1 .. Len(w) : w[j] = pr.blocked[j]
    BY <2>2, LetGoIs
  <2> HIDE DEF w
  <2>4. ToSet(w) \subseteq ToSet(pr.blocked)
    BY <2>2, <2>3, PrefixIs
  <2> QED
    BY <1>6, <2>4
<1>9. /\ port' = [port EXCEPT ![p] = pr2]
      /\ \/ thread' = [T EXCEPT ![t] = r2] /\ kmsg' = kmsg
         \/ thread' = [T EXCEPT ![t] = i] /\ kmsg' = [kmsg EXCEPT ![m].at = "received"]
      /\ queue' = queue
  BY DEF Account
<1> HIDE DEF pr2
<1>10. SameQueued(port, queue, port', queue')
  <2>1. ASSUME NEW x \in Ports PROVE port'[x].set = port[x].set /\ port'[x].in_use = port[x].in_use
    BY <1>1, <1>7, <1>9
  <2> QED
    BY <1>9, <2>1 DEF SameQueued
<1>11. \A u \in Threads : SameRole(thread[u], T[u])
  <2> HIDE DEF w
  <2>1. \A u \in Threads : u \in ToSet(w) => thread[u].at = "send_wait"
    BY <1>1, <1>4, <1>8, SendersSleep
  <2> QED
    BY <1>1, <2>1, WakeAllRoles DEF IPCStates
<1>12. T = [u \in Threads |-> T[u]]
  BY DEF WakeAll
<1> HIDE DEF T
<1>13. ASSUME NEW z, thread' = [T EXCEPT ![t] = z]
       PROVE  thread'[t] = z /\ \A u \in Threads \ {t} : SameRole(thread[u], thread'[u])
  BY <1>11, <1>12, <1>13
<1>14. Holds(r2, m) /\ r2.at = "notify" /\ r2.msg = m
  BY <1>1, <1>2 DEF Holds, ThreadRecord
<1>15. SameRole(r, r2)
  BY <1>2, <1>14 DEF SameRole, Delivers, Holds
<1> HIDE DEF r2
<1>16. Idles(i)
  BY IdleIdles
<1> HIDE DEF i
<1> DEFINE T2 == thread'
           M2 == kmsg'
<1>17. CASE thread' = [T EXCEPT ![t] = r2] /\ kmsg' = kmsg
  <2>1. \A u \in Threads : SameRole(thread[u], T2[u])
    BY <1>13, <1>15, <1>17
  <2> HIDE DEF T2
  <2>2. Quiet(queue, thread, kmsg, T2, kmsg)
    BY <2>1, RolesOnly
  <2> QED
    BY <1>10, <1>17, <2>2, QuietStep DEF T2
<1>18. CASE thread' = [T EXCEPT ![t] = i] /\ kmsg' = [kmsg EXCEPT ![m].at = "received"]
  <2>1. OnlyMessage(kmsg, kmsg', m) /\ kmsg'[m].at = "received" /\ kmsg'[m].to = kmsg[m].to
    BY <1>1, <1>2, <1>18 DEF OnlyMessage, MessageRecord
  <2>2. Settles(thread, kmsg, T2, M2, t, m)
    BY <1>2, <1>3, <1>4, <1>13, <1>16, <1>18, <2>1 DEF Settles
  <2> HIDE DEF T2, M2, m
  <2>3. Quiet(queue, thread, kmsg, T2, M2)
    BY <1>2, <2>2, SettlesKeeps
  <2> QED
    BY <1>10, <2>3, QuietStep DEF T2, M2
<1> QED
  BY <1>9, <1>17, <1>18

\* The sender wakes the receiver, or whoever that has become.
LEMMA WakesReceiverMaps ==
  ASSUME IInv, NEW t \in Threads, WakesReceiver(t)
  PROVE  [InOrder!Next]_(InOrder!vars)
<1> DEFINE r == thread[t]
           u == r.go
           g == thread_go(thread[u])
           r2 == AfterSend(r)
<1>1. thread \in [Threads -> ThreadRecord] /\ r \in ThreadRecord /\ Local(r)
  BY InvParts
<1>2. r.at = "go" /\ u \in Threads
  BY <1>1 DEF WakesReceiver, Local
<1>3. Woken(thread[u], g) /\ g.ipc_state = thread[u].ipc_state
  BY <1>1, <1>2, GoIs
<1>4. Idles(r2)
  <2>1. Resting(r2, kmsg, t)
    BY <1>1, AfterSendRests
  <2> HIDE DEF r2
  <2> QED
    BY <2>1, RestsIdle
<1>5. thread' = [thread EXCEPT ![u] = g, ![t] = r2] /\ UNCHANGED <<port, queue, kmsg>>
  BY DEF WakesReceiver
<1> HIDE DEF g, r2
<1>6. SameRole(thread[u], g)
  BY <1>3, WokenRole
<1>7. SameRole(r, r2)
  <2>1. Idles(r)
    BY <1>2, IdlesIs
  <2> QED
    BY <1>4, <2>1, IdlesIs
<1>8. ASSUME NEW v \in Threads PROVE SameRole(thread[v], thread'[v])
  <2>1. CASE v = t
    BY <1>1, <1>5, <1>7, <2>1
  <2>2. CASE v # t /\ v = u
    BY <1>1, <1>5, <1>6, <2>2
  <2>3. CASE v # t /\ v # u
    <3>1. thread'[v] = thread[v]
      BY <1>1, <1>5, <2>3
    <3> QED
      BY <3>1, SameRoleIs
  <2> QED
    BY <2>1, <2>2, <2>3
<1> DEFINE T2 == thread'
<1>9. \A v \in Threads : SameRole(thread[v], T2[v])
  BY <1>8
<1> HIDE DEF T2
<1>10. Quiet(queue, thread, kmsg, T2, kmsg)
  BY <1>9, RolesOnly
<1> QED
  BY <1>5, <1>10, SameQueuedIs, QuietStep DEF T2

-----------------------------------------------------------------------------
(* A receiver takes a message.                                             *)

\* A queued message is in the queue that its port uses.
LEMMA UsesQueue ==
  ASSUME NEW P, NEW S, NEW Q, NEW T, NEW M, NEW E, NEW N, NEW D,
         Base(P, S, Q, T, M, E, N, D), AllJoined(P, Q), NEW q \in Queues, NEW m \in ToSet(Q[q].messages)
  PROVE  m \in Msgs /\ M[m].at = "live" /\ M[m].to \in Ports /\ QueueOf(P, M[m].to) = q
<1> DEFINE p == M[m].to
<1>1. m \in Msgs /\ M[m].at = "live" /\ p \in Ports /\ (q = p \/ q = P[p].set)
  BY QueuedIs
<1>2. CASE q = P[p].set
  <2>1. q # Nil
    BY Names DEF Queues
  <2> QED
    BY <1>1, <1>2, <2>1 DEF QueueOf
<1>3. CASE q = p
  <2>1. Q[p].messages # <<>>
    <3>1. Q[q] \in QueueRecord
      BY Exactly
    <3>2. Q[q].messages \in Seq(Msgs)
      BY <3>1 DEF QueueRecord
    <3> DEFINE e == <<>>
    <3>5. e \in Seq(Msgs)
      OBVIOUS
    <3>3. ToSet(e) = {}
      BY <3>5, QueueEmpty
    <3> HIDE DEF e
    <3>4. Q[q].messages # e
      BY <3>3
    <3> QED
      BY <1>3, <3>4 DEF e
  <2>2. P[p].set = Nil
    BY <1>1, <2>1 DEF AllJoined, Joined
  <2> QED
    BY <1>1, <1>3, <2>2 DEF QueueOf
<1> QED
  BY <1>1, <1>2, <1>3

\* Nobody brings a message to a port whose queue is unlocked.
LEMMA NothingAdded ==
  ASSUME NEW P, NEW S, NEW Q, NEW T, NEW M, NEW E, NEW N, NEW D,
         Base(P, S, Q, T, M, E, N, D), NEW p \in Ports, Q[QueueOf(P, p)].lock = Nil
  PROVE  Added(T, M, p) = {}
<1> SUFFICES ASSUME NEW m \in Msgs, M[m].to = p, NEW t \in Threads, Delivers(T[t], m) PROVE FALSE
  BY DEF Added, Mine
<1>1. T[t].at = "deliver" /\ M[T[t].msg].to = p
  BY DEF Delivers
<1>2. Q[T[t].obj].lock = t /\ T[t].obj = QueueOf(P, p)
  BY <1>1 DEF Base, Locks, QueueOf
<1> QED
  BY <1>2, Names

\* The messages on the way are those that threads bring.
LEMMA AddedSame ==
  ASSUME NEW T, NEW T2, NEW M, NEW p, \A t \in Threads : \A m \in Msgs : Delivers(T2[t], m) <=> Delivers(T[t], m)
  PROVE  Added(T2, M, p) = Added(T, M, p)
BY DEF Added, Mine

\* t takes m, the first message of q.
TakesFirst(Q, T, Q2, T2, q, t, m) ==
    /\ q \in Queues /\ t \in Threads
    /\ Q[q].messages # <<>> /\ m = Head(Q[q].messages) /\ Q[q].lock = Nil
    /\ Q2[q].messages = Tail(Q[q].messages)
    /\ \A x \in Queues \ {q} : Q2[x].messages = Q[x].messages
    /\ Others(T, T2, t) /\ Idles(T[t]) /\ T2[t].at = "account" /\ T2[t].msg = m

\* Then the first message of its port is received.
LEMMA TakesFirstIs ==
  ASSUME NEW P, NEW S, NEW Q, NEW T, NEW M, NEW E, NEW N, NEW D, NEW Q2, NEW T2, NEW q, NEW t, NEW m,
         Base(P, S, Q, T, M, E, N, D), AllJoined(P, Q), TakesFirst(Q, T, Q2, T2, q, t, m)
  PROVE  LET p == M[m].to
         IN  /\ m \in Msgs /\ p \in Ports
             /\ Chan(P, Q2, T2, M, p) \in Seq(Msgs)
             /\ Chan(P, Q, T, M, p) = <<m>> \o Chan(P, Q2, T2, M, p)
             /\ \A x \in Ports \ {p} : Chan(P, Q2, T2, M, x) = Chan(P, Q, T, M, x)
             /\ Had(T2, M) = Had(T, M) \cup {m}
<1> DEFINE p == M[m].to
           l == Q[q].messages
           k == Tail(l)
<1>1. q \in Queues /\ t \in Threads /\ l # <<>> /\ m = Head(l) /\ Q[q].lock = Nil
  BY DEF TakesFirst
<1>2. l \in Seq(Msgs)
  <2>1. Q[q] \in QueueRecord
    BY <1>1, Exactly
  <2> QED
    BY <2>1 DEF QueueRecord
<1>3. k \in Seq(Msgs) /\ m \in ToSet(l)
  <2> HIDE DEF l
  <2>1. k \in Seq(Msgs)
    BY <1>1, <1>2, HeadAndTail
  <2>2. 1 \in 1 .. Len(l) /\ l[1] = m
    BY <1>1, <1>2, EmptySeq
  <2> QED
    BY <1>2, <2>1, <2>2 DEF ToSet
<1>4. m \in Msgs /\ p \in Ports /\ QueueOf(P, p) = q
  BY <1>1, <1>3, UsesQueue
<1>5. \A u \in Threads : \A x \in Msgs : Delivers(T2[u], x) <=> Delivers(T[u], x)
  BY DEF TakesFirst, Others, Idles, Delivers
<1>6. \A x \in Ports : Added(T2, M, x) = Added(T, M, x)
  BY <1>5, AddedSame
<1>7. Added(T, M, p) = {} /\ Added(T2, M, p) = {}
  BY <1>1, <1>4, <1>6, NothingAdded
<1>8. Q2[q].messages = k /\ \A x \in Queues \ {q} : Q2[x].messages = Q[x].messages
  BY DEF TakesFirst
<1> HIDE DEF k
<1>9. Among(l, Mine(M, p)) = <<m>> \o Among(k, Mine(M, p))
  <2>1. m \in Mine(M, p)
    BY <1>4 DEF Mine
  <2> HIDE DEF l
  <2>2. Among(l, Mine(M, p)) = IF Head(l) \in Mine(M, p) THEN <<Head(l)>> \o Among(Tail(l), Mine(M, p))
                                                         ELSE Among(Tail(l), Mine(M, p))
    BY <1>1, <1>2, AmongHead
  <2> QED
    BY <1>1, <2>1, <2>2 DEF k
<1>10. Among(k, Mine(M, p)) \in Seq(Msgs)
  BY <1>3, AmongIs
<1>11. Line(P, Q2, M, p) = Among(k, Mine(M, p)) /\ Line(P, Q, M, p) = Among(l, Mine(M, p))
  BY <1>4, <1>8 DEF Line
<1>12. Chan(P, Q2, T2, M, p) = Among(k, Mine(M, p)) /\ Chan(P, Q, T, M, p) = Among(l, Mine(M, p))
  BY <1>7, <1>11 DEF Chan, Extended
<1>13. ASSUME NEW x \in Ports \ {p} PROVE Chan(P, Q2, T2, M, x) = Chan(P, Q, T, M, x)
  <2>1. Line(P, Q2, M, x) = Line(P, Q, M, x)
    <3>1. CASE QueueOf(P, x) # q
      <4>1. QueueOf(P, x) \in Queues
        <5>1. P \in [Ports -> PortRecord]
          BY Exactly
        <5> QED
          BY <5>1, QueueOfIs
      <4> QED
        BY <1>8, <3>1, <4>1 DEF Line
    <3>2. CASE QueueOf(P, x) = q
      <4>1. m \notin Mine(M, x)
        BY DEF Mine
      <4> HIDE DEF l
      <4>2. Among(l, Mine(M, x)) = IF Head(l) \in Mine(M, x) THEN <<Head(l)>> \o Among(Tail(l), Mine(M, x))
                                                             ELSE Among(Tail(l), Mine(M, x))
        BY <1>1, <1>2, AmongHead
      <4>3. Among(l, Mine(M, x)) = Among(k, Mine(M, x))
        BY <1>1, <4>1, <4>2 DEF k
      <4> QED
        BY <1>8, <3>2, <4>3 DEF Line, l
    <3> QED
      BY <3>1, <3>2
  <2> QED
    BY <1>6, <2>1 DEF Chan
<1>14. Had(T2, M) = Had(T, M) \cup {m}
  <2>1. ASSUME NEW x \in Msgs \ {m} PROVE Has(T2, M, x) <=> Has(T, M, x)
    <3>1. \A u \in Threads : Holds(T2[u], x) <=> Holds(T[u], x)
      BY DEF TakesFirst, Others, Idles, Holds
    <3> QED
      BY <3>1 DEF Has
  <2>2. Holds(T2[t], m)
    BY DEF TakesFirst, Holds
  <2>3. Has(T2, M, m)
    BY <1>1, <2>2 DEF Has
  <2> QED
    BY <1>4, <2>1, <2>3 DEF Had
<1> QED
  BY <1>4, <1>9, <1>10, <1>12, <1>13, <1>14

\* It is a step of the channel.
LEMMA TakesFirstMaps ==
  ASSUME IInv, NEW q, NEW t, NEW m, TakesFirst(queue, thread, queue', thread', q, t, m),
         UNCHANGED <<port, kmsg>>
  PROVE  [InOrder!Next]_(InOrder!vars)
<1> DEFINE p == kmsg[m].to
           Q2 == queue'
           T2 == thread'
           c == Chan(port, Q2, T2, kmsg, p)
           d == <<m>>
<1>1. Base(port, set, queue, thread, kmsg, entry, notice, dying) /\ AllJoined(port, queue)
  BY InvParts
<1>2. TakesFirst(queue, thread, Q2, T2, q, t, m)
  OBVIOUS
<1> HIDE DEF Q2, T2
<1>3. /\ m \in Msgs /\ p \in Ports
      /\ c \in Seq(Msgs) /\ Chan(port, queue, thread, kmsg, p) = d \o c
      /\ \A x \in Ports \ {p} : Chan(port, Q2, T2, kmsg, x) = Chan(port, queue, thread, kmsg, x)
      /\ Had(T2, kmsg) = Had(thread, kmsg) \cup {m}
  BY <1>1, <1>2, TakesFirstIs
<1>4. d \in Seq(Msgs) /\ d # <<>> /\ ToSet(d) = {m}
  BY <1>3 DEF ToSet
<1>5. \A x \in Ports : Chan(port, Q2, T2, kmsg, x) = IF x = p THEN c ELSE Chan(port, queue, thread, kmsg, x)
  BY <1>3
<1> HIDE DEF c, d, p
<1>6. OneChan(port, queue, thread, kmsg, port', queue', thread', kmsg', p, c)
  BY <1>5 DEF OneChan, Q2, T2
<1>7. Had(thread', kmsg') = Had(thread, kmsg) \cup ToSet(d)
  BY <1>3, <1>4 DEF T2
<1>8. SameDropped(kmsg, kmsg')
  BY DEF SameDropped
<1> QED
  BY <1>3, <1>4, <1>6, <1>7, <1>8, Receiving1

\* The lists of one queue change, and one thread goes from one place without
\* messages to another.
LEMMA ListMaps ==
  ASSUME IInv, NEW t \in Threads, NEW q \in Queues, NEW r2, NEW qr,
         qr.messages = queue[q].messages, Idles(thread[t]), Idles(r2),
         Changed(queue, queue', q, qr), Changed(thread, thread', t, r2), UNCHANGED <<port, kmsg>>
  PROVE  [InOrder!Next]_(InOrder!vars)
<1>1. thread \in [Threads -> ThreadRecord] /\ queue \in [Queues -> QueueRecord]
  BY InvParts, Exactly
<1>2. \A x \in Queues : queue'[x].messages = queue[x].messages
  BY <1>1 DEF Changed
<1>3. SameQueued(port, queue, port', queue')
  BY <1>2 DEF SameQueued
<1>4. Others(thread, thread', t) /\ thread'[t] = r2
  BY <1>1 DEF Changed, Others
<1>5. SameRole(thread[t], r2)
  BY IdlesIs
<1> QED
  BY <1>3, <1>4, <1>5, OneTurnsMaps

\* One pass of msg_dequeue's loop.
LEMMA DequeueMaps ==
  ASSUME IInv, NEW t \in Threads, NEW q \in Queues, NEW qr \in QueueRecord, NEW r \in ThreadRecord,
         qr.messages = queue[q].messages, queue[q].lock = Nil, Idles(thread[t]),
         TriesToDequeue(t, q, qr, r)
  PROVE  [InOrder!Next]_(InOrder!vars)
<1> DEFINE l == qr.messages
           m == Head(l)
           i == Idle
           q1 == [qr EXCEPT !.messages = Tail(@)]
           r1 == [r EXCEPT !.at = "account", !.msg = m]
           q2 == [qr EXCEPT !.blocked = Append(@, t)]
           r2 == [Waits(r, "RCV_IN_PROGRESS", r.tout) EXCEPT !.at = "recv_wait"]
<1>1. thread \in [Threads -> ThreadRecord] /\ queue \in [Queues -> QueueRecord]
  BY InvParts, Exactly
<1>2. /\ \/ /\ l # <<>>
            /\ queue' = [queue EXCEPT ![q] = q1]
            /\ thread' = [thread EXCEPT ![t] = r1]
         \/ queue' = [queue EXCEPT ![q] = qr] /\ thread' = [thread EXCEPT ![t] = i]
         \/ queue' = [queue EXCEPT ![q] = q2] /\ thread' = [thread EXCEPT ![t] = r2]
      /\ UNCHANGED <<port, kmsg>>
  BY DEF TriesToDequeue
<1>3. q1.messages = Tail(l) /\ q2.messages = l
  BY DEF QueueRecord
<1>4. r1.at = "account" /\ r1.msg = m
  <2> HIDE DEF m
  <2> QED
    BY DEF ThreadRecord
<1>5. r2.at = "recv_wait" /\ r2.ipc_state = "RCV_IN_PROGRESS"
  BY DEF Waits, ThreadRecord
<1>6. Idles(i)
  BY IdleIdles
<1> HIDE DEF i, q1, q2, r1, r2
<1>7. Idles(r2)
  BY <1>5, IdlesIs
<1>8. CASE /\ l # <<>>
           /\ queue' = [queue EXCEPT ![q] = q1]
           /\ thread' = [thread EXCEPT ![t] = r1]
  <2>1. Others(thread, thread', t) /\ thread'[t] = r1
    BY <1>1, <1>8 DEF Others
  <2>2. queue'[q] = q1 /\ \A x \in Queues \ {q} : queue'[x] = queue[x]
    BY <1>1, <1>8
  <2>3. TakesFirst(queue, thread, queue', thread', q, t, m)
    BY <1>3, <1>4, <1>8, <2>1, <2>2 DEF TakesFirst
  <2> HIDE DEF m
  <2> QED
    BY <1>2, <2>3, TakesFirstMaps
<1>9. CASE queue' = [queue EXCEPT ![q] = qr] /\ thread' = [thread EXCEPT ![t] = i]
  BY <1>2, <1>6, <1>9, ListMaps DEF Changed
<1>10. CASE queue' = [queue EXCEPT ![q] = q2] /\ thread' = [thread EXCEPT ![t] = r2]
  BY <1>2, <1>3, <1>7, <1>10, ListMaps DEF Changed
<1> QED
  BY <1>2, <1>8, <1>9, <1>10

\* msg_receive begins.
LEMMA ReceiveMaps ==
  ASSUME IInv, NEW c \in MayReceive, msg_receive(c)
  PROVE  [InOrder!Next]_(InOrder!vars)
<1> DEFINE t == c.thread
           q == c.from
           o == IF c.timeout = "none" THEN {} ELSE {"TIMEOUT"}
           x == c.timeout = "some"
           r == [Idle EXCEPT !.obj = q, !.large = c.large, !.option = o, !.tout = x]
<1>1. t \in Threads /\ q \in Queues /\ c.large \in BOOLEAN
  BY ReceiveCalls DEF ReceiveCall
<1>2. o \in SUBSET Options /\ x \in BOOLEAN
  BY DEF Options
<1>3. thread[t].at = "idle" /\ queue[q].lock = Nil /\ TriesToDequeue(t, q, queue[q], r)
  BY DEF msg_receive, Unlocked
<1> HIDE DEF o, x
<1>6. r \in ThreadRecord
  <2> DEFINE i == Idle
  <2>1. i \in ThreadRecord
    BY IdleIs
  <2>2. r = [i EXCEPT !.obj = q, !.large = c.large, !.option = o, !.tout = x]
    OBVIOUS
  <2> HIDE DEF i
  <2> QED
    BY <1>1, <1>2, <2>1, <2>2 DEF ThreadRecord
<1>4. Idles(thread[t])
  BY <1>3, IdlesIs
<1>5. queue[q] \in QueueRecord
  BY <1>1, InvParts, Exactly
<1> HIDE DEF t, q, r
<1> QED
  BY <1>1, <1>3, <1>4, <1>5, <1>6, DequeueMaps

\* A thread is done, with no message.
LEMMA StopsMaps ==
  ASSUME IInv, NEW t \in Threads, Idles(thread[t]), thread' = [thread EXCEPT ![t] = Idle],
         UNCHANGED <<port, queue, kmsg>>
  PROVE  [InOrder!Next]_(InOrder!vars)
<1> DEFINE i == Idle
<1>1. Idles(i) /\ thread' = [thread EXCEPT ![t] = i]
  BY IdleIdles
<1> HIDE DEF i
<1>2. thread \in [Threads -> ThreadRecord]
  BY InvParts
<1>3. Others(thread, thread', t) /\ thread'[t] = i
  BY <1>1, <1>2 DEF Others
<1>4. SameRole(thread[t], i)
  BY <1>1, IdlesIs
<1> QED
  BY <1>3, <1>4, SameQueuedIs, OneTurnsMaps

\* msg_rpc goes on to receive the reply.
LEMMA ReplyMaps ==
  ASSUME IInv, NEW t \in Threads, ReceivesReply(t)
  PROVE  [InOrder!Next]_(InOrder!vars)
<1> DEFINE r == thread[t]
           q == r.obj
<1>1. r \in ThreadRecord /\ Local(r)
  BY InvParts
<1>2. r.at = "reply" /\ q \in Queues
  BY <1>1 DEF ReceivesReply, Local, Queues
<1>3. Idles(r)
  BY <1>2, IdlesIs
<1>4. \/ queue[q].lock = Nil /\ TriesToDequeue(t, q, queue[q], r)
      \/ thread' = [thread EXCEPT ![t] = Idle] /\ UNCHANGED <<port, queue, kmsg>>
  BY DEF ReceivesReply, Unlocked
<1>5. queue[q] \in QueueRecord
  BY <1>2, InvParts, Exactly
<1>6. CASE queue[q].lock = Nil /\ TriesToDequeue(t, q, queue[q], r)
  <2> DEFINE qr == queue[q]
  <2>1. qr \in QueueRecord /\ qr.messages = queue[q].messages /\ TriesToDequeue(t, q, qr, r)
    BY <1>5, <1>6
  <2> HIDE DEF qr, q
  <2> QED
    BY <1>1, <1>2, <1>3, <1>6, <2>1, DequeueMaps
<1> QED
  BY <1>3, <1>4, <1>6, StopsMaps

\* A receiver that was woken.
LEMMA RecvAwakeMaps ==
  ASSUME IInv, NEW t \in Threads, RecvAwake(t)
  PROVE  [InOrder!Next]_(InOrder!vars)
<1> DEFINE r == thread[t]
           q == r.obj
           off == [queue[q] EXCEPT !.blocked = RemoveFirst(@, t)]
           i == Idle
<1>1. thread \in [Threads -> ThreadRecord] /\ r \in ThreadRecord /\ Local(r)
  BY InvParts
<1>2. r.at = "recv_wait" /\ q \in Queues /\ queue[q].lock = Nil
  BY <1>1 DEF RecvAwake, Local, Unlocked
<1>3. queue[q] \in QueueRecord
  BY <1>2, InvParts, Exactly
<1>4. \/ /\ r.ipc_state = "SUCCESS" /\ thread' = [thread EXCEPT ![t].at = "account"]
         /\ UNCHANGED <<port, queue, kmsg>>
      \/ /\ r.ipc_state # "SUCCESS" /\ thread' = [thread EXCEPT ![t] = Idle]
         /\ UNCHANGED <<port, queue, kmsg>>
      \/ /\ r.ipc_state = "RCV_IN_PROGRESS"
         /\ thread' = [thread EXCEPT ![t] = i] /\ queue' = [queue EXCEPT ![q] = off]
         /\ UNCHANGED <<port, kmsg>>
      \/ r.ipc_state = "RCV_IN_PROGRESS" /\ TriesToDequeue(t, q, off, r)
  BY DEF RecvAwake
<1>5. CASE /\ r.ipc_state = "SUCCESS" /\ thread' = [thread EXCEPT ![t].at = "account"]
           /\ UNCHANGED <<port, queue, kmsg>>
  <2>1. /\ Others(thread, thread', t) /\ thread'[t].at = "account"
        /\ thread'[t].msg = r.msg
    BY <1>1, <1>5 DEF Others, ThreadRecord
  <2> DEFINE r2 == thread'[t]
  <2>2. r2.at = "account" /\ r2.msg = r.msg
    BY <2>1
  <2> HIDE DEF r2, r
  <2>3. r.at = "recv_wait" /\ r.ipc_state = "SUCCESS"
    BY <1>2, <1>5
  <2>4. SameRole(r, r2)
    BY <2>2, <2>3 DEF SameRole, Delivers, Holds, Handed
  <2> QED
    BY <1>5, <2>1, <2>4, SameQueuedIs, OneTurnsMaps DEF r, r2
<1>6. CASE /\ r.ipc_state # "SUCCESS" /\ thread' = [thread EXCEPT ![t] = Idle]
           /\ UNCHANGED <<port, queue, kmsg>>
  <2>1. Idles(r)
    BY <1>2, <1>6, IdlesIs
  <2> QED
    BY <1>6, <2>1, StopsMaps
<1> DEFINE qr == queue[q]
           b == RemoveFirst(qr.blocked, t)
<1>7. qr.blocked \in Seq(Threads) /\ off = [qr EXCEPT !.blocked = b]
  BY <1>3 DEF QueueRecord
<1>8. b \in Seq(Threads)
  BY <1>7, QueueRemove
<1> HIDE DEF b
<1>9. off.messages = queue[q].messages
  BY <1>3, <1>7 DEF QueueRecord
<1>10. off \in QueueRecord
  BY <1>3, <1>7, <1>8 DEF QueueRecord
<1> HIDE DEF off, qr
<1>11. Idles(i)
  BY IdleIdles
<1> HIDE DEF i
<1>12. CASE r.ipc_state = "RCV_IN_PROGRESS"
  <2>1. Idles(r)
    BY <1>2, <1>12, IdlesIs
  <2>2. CASE /\ thread' = [thread EXCEPT ![t] = i] /\ queue' = [queue EXCEPT ![q] = off]
             /\ UNCHANGED <<port, kmsg>>
    <3>1. Changed(queue, queue', q, off) /\ Changed(thread, thread', t, i)
      BY <2>2 DEF Changed
    <3> HIDE DEF q
    <3> QED
      BY <1>2, <1>9, <1>11, <2>1, <2>2, <3>1, ListMaps DEF q
  <2>3. CASE TriesToDequeue(t, q, off, r)
    BY <1>1, <1>2, <1>9, <1>10, <2>1, <2>3, DequeueMaps
  <2> QED
    BY <1>4, <1>5, <1>6, <1>12, <2>2, <2>3
<1> QED
  BY <1>4, <1>5, <1>6, <1>12

-----------------------------------------------------------------------------
(* A dead port's messages are dropped.                                     *)

\* A message on the way comes after those that are queued.
LEMMA ExtendedIs ==
  ASSUME NEW d \in Seq(Msgs), NEW k \in Seq(Msgs), NEW A \in SUBSET Msgs
  PROVE  /\ Extended(k, A) \in Seq(Msgs)
         /\ Extended(d \o k, A) = d \o Extended(k, A)
<1>1. CASE A = {}
  BY <1>1 DEF Extended
<1>2. CASE A # {}
  <2> DEFINE x == CHOOSE x \in A : TRUE
  <2>1. x \in Msgs
    BY <1>2
  <2>2. Extended(k, A) = Append(k, x) /\ Extended(d \o k, A) = Append(d \o k, x)
    BY <1>2 DEF Extended
  <2> HIDE DEF x
  <2>3. Append(k, x) \in Seq(Msgs)
    BY <2>1
  <2>4. d \o Append(k, x) = Append(d \o k, x)
    BY <2>1, AppendLast
  <2> QED
    BY <2>2, <2>3, <2>4
<1> QED
  BY <1>1, <1>2

\* The port's messages are those of the queue it uses.
LEMMA ChanIs ==
  ASSUME NEW P, NEW S, NEW Q, NEW T, NEW M, NEW E, NEW N, NEW D,
         Base(P, S, Q, T, M, E, N, D), NEW p \in Ports
  PROVE  /\ QueueOf(P, p) \in Queues
         /\ Line(P, Q, M, p) \in Seq(Msgs)
         /\ ToSet(Line(P, Q, M, p)) = ToSet(Q[QueueOf(P, p)].messages) \cap Mine(M, p)
         /\ Added(T, M, p) \in SUBSET Msgs
         /\ Chan(P, Q, T, M, p) \in Seq(Msgs)
<1> DEFINE l == Q[QueueOf(P, p)].messages
<1>1. QueueOf(P, p) \in Queues
  BY Exactly, QueueOfIs
<1>2. l \in Seq(Msgs)
  <2>1. Q[QueueOf(P, p)] \in QueueRecord
    BY <1>1, Exactly
  <2> QED
    BY <2>1 DEF QueueRecord
<1> HIDE DEF l
<1>3. Among(l, Mine(M, p)) \in Seq(Msgs) /\ ToSet(Among(l, Mine(M, p))) = ToSet(l) \cap Mine(M, p)
  BY <1>2, AmongIs
<1>4. Line(P, Q, M, p) = Among(l, Mine(M, p))
  BY DEF Line, l
<1>5. Added(T, M, p) \in SUBSET Msgs
  BY DEF Added, Mine
<1>6. Chan(P, Q, T, M, p) \in Seq(Msgs)
  <2> DEFINE k == Line(P, Q, M, p)
             A == Added(T, M, p)
             e == <<>>
  <2>1. k \in Seq(Msgs) /\ A \in SUBSET Msgs /\ e \in Seq(Msgs)
    BY <1>3, <1>4, <1>5
  <2>2. Chan(P, Q, T, M, p) = Extended(k, A)
    BY DEF Chan
  <2> HIDE DEF k, A, e
  <2> QED
    BY <2>1, <2>2, ExtendedIs
<1> QED
  BY <1>1, <1>3, <1>4, <1>5, <1>6 DEF l

\* The messages keep their ports, and m is destroyed.
Destroys(M, M2, m) ==
    /\ \A x \in Msgs : M2[x].to = M[x].to
    /\ \A x \in Msgs \ {m} : M2[x].at = M[x].at
    /\ M2[m].at = "destroyed"

\* The first message of a dead port's queue is dropped.
LEMMA DropIs ==
  ASSUME NEW P, NEW S, NEW Q, NEW T, NEW M, NEW E, NEW N, NEW D, NEW Q2, NEW M2, NEW p \in Ports, NEW m,
         Base(P, S, Q, T, M, E, N, D), ~ P[p].in_use, Q[p].messages # <<>>, m = Head(Q[p].messages),
         Q2[p].messages = Tail(Q[p].messages),
         \A x \in Queues \ {p} : Q2[x].messages = Q[x].messages, Destroys(M, M2, m)
  PROVE  /\ m \in Msgs /\ Chan(P, Q2, T, M2, p) \in Seq(Msgs)
         /\ Chan(P, Q, T, M, p) = <<m>> \o Chan(P, Q2, T, M2, p)
         /\ \A x \in Ports \ {p} : Chan(P, Q2, T, M2, x) = Chan(P, Q, T, M, x)
         /\ Had(T, M2) = Had(T, M)
<1> DEFINE l == Q[p].messages
           k == Tail(l)
           one == <<m>>
<1>1. P[p].set = Nil /\ p \in Queues
  <2>1. PortFits(P[p], Q[p], D[p], p)
    BY DEF Base, PortsFit
  <2> QED
    BY <2>1 DEF PortFits, Queues
<1>2. l \in Seq(Msgs) /\ l # <<>> /\ m = Head(l)
  <2>1. Q[p] \in QueueRecord
    BY <1>1, Exactly
  <2> QED
    BY <2>1 DEF QueueRecord
<1>3. ToSet(l) \subseteq Mine(M, p)
  <2>1. ASSUME NEW x \in ToSet(l) PROVE x \in Msgs /\ M[x].to = p
    BY <1>1, <2>1, QueuedIs
  <2> QED
    BY <2>1 DEF Mine
<1> HIDE DEF l
<1>4. m \in Msgs /\ k \in Seq(Msgs) /\ l = one \o k /\ m \in ToSet(l)
      /\ ToSet(k) \subseteq ToSet(l)
  <2>1. m \in Msgs /\ k \in Seq(Msgs) /\ l = one \o k
    BY <1>2, HeadAndTail
  <2>2. /\ Head(l) \in ToSet(l)
        /\ ToSet(Tail(l)) \subseteq ToSet(l)
    BY <1>2, QueueTail
  <2> QED
    BY <1>2, <2>1, <2>2
<1>5. Q2[p].messages = k
  BY DEF l
<1> HIDE DEF k, one
<1>6. \A x \in Ports : Mine(M2, x) = Mine(M, x) /\ Added(T, M2, x) = Added(T, M, x)
  BY DEF Mine, Added, Destroys
<1>7. Line(P, Q, M, p) = l
  <2>1. Among(l, Mine(M, p)) = l
    BY <1>2, <1>3, AmongWhole
  <2> QED
    BY <1>1, <2>1 DEF Line, QueueOf, l
<1>8. Line(P, Q2, M2, p) = k
  <2>1. Among(k, Mine(M, p)) = k
    BY <1>3, <1>4, AmongWhole
  <2> QED
    BY <1>1, <1>5, <1>6, <2>1 DEF Line, QueueOf
<1> DEFINE A == Added(T, M, p)
<1>9. A \in SUBSET Msgs /\ Chan(P, Q, T, M, p) = Extended(l, A) /\ Chan(P, Q2, T, M2, p) = Extended(k, A)
  BY <1>6, <1>7, <1>8 DEF Chan, Added, Mine
<1> HIDE DEF A
<1>10. one \in Seq(Msgs)
  BY <1>4 DEF one
<1>11. Extended(k, A) \in Seq(Msgs) /\ Extended(one \o k, A) = one \o Extended(k, A)
  BY <1>4, <1>9, <1>10, ExtendedIs
<1>12. ASSUME NEW x \in Ports \ {p} PROVE Chan(P, Q2, T, M2, x) = Chan(P, Q, T, M, x)
  <2> DEFINE q == QueueOf(P, x)
  <2>1. q \in Queues /\ q # p
    <3>1. P \in [Ports -> PortRecord]
      BY Exactly
    <3>2. P[x].set \in Sets \cup {Nil}
      BY <3>1 DEF PortRecord
    <3> QED
      BY <3>1, <3>2, QueueOfIs, Names DEF QueueOf
  <2>2. Q2[q].messages = Q[q].messages
    BY <2>1
  <2> HIDE DEF q
  <2> QED
    BY <1>6, <2>2 DEF Chan, Line, q
<1>13. Had(T, M2) = Had(T, M)
  <2>1. M[m].at = "live"
    <3>1. m \in ToSet(Q[p].messages)
      BY <1>4 DEF l
    <3> QED
      BY <1>1, <3>1, QueuedIs
  <2>2. \A x \in Msgs : M2[x].at = "received" <=> M[x].at = "received"
    BY <2>1 DEF Destroys
  <2> QED
    BY <2>2 DEF Had, Has
<1> QED
  BY <1>4, <1>9, <1>11, <1>12, <1>13 DEF one

\* One pass of port_destroy's loop over the messages.
LEMMA DrainMaps ==
  ASSUME IInv, NEW p \in Ports, Drain(p)
  PROVE  [InOrder!Next]_(InOrder!vars)
<1>1. /\ Base(port, set, queue, thread, kmsg, entry, notice, dying) /\ p \in Queues
      /\ queue \in [Queues -> QueueRecord] /\ kmsg \in [Msgs -> MessageRecord]
      /\ dying[p].at = "drain" /\ PortFits(port[p], queue[p], dying[p], p)
  BY InvParts, Exactly DEF Drain, Base, PortsFit, Queues
<1>2. CASE queue[p].messages = <<>>
  <2>1. UNCHANGED <<port, queue, thread, kmsg>>
    BY <1>2 DEF Drain
  <2>2. Quiet(queue, thread, kmsg, thread, kmsg)
    BY SameRoleIs, RolesOnly
  <2> QED
    BY <2>1, <2>2, SameQueuedIs, QuietStep
<1>3. CASE queue[p].messages # <<>>
  <2> DEFINE m == Head(queue[p].messages)
             Q2 == queue'
             M2 == kmsg'
             c == Chan(port, Q2, thread, M2, p)
             k == Tail(queue[p].messages)
  <2>1. ~ port[p].in_use
    BY <1>1 DEF PortFits
  <2>2. /\ queue' = [queue EXCEPT ![p].messages = k]
        /\ kmsg' = [kmsg EXCEPT ![m].at = "destroyed", ![m].sender_entry = FALSE]
        /\ UNCHANGED <<port, thread>>
    BY <1>3 DEF Drain
  <2>3. m \in Msgs
    <3>1. queue[p].messages \in Seq(Msgs)
      BY <1>1 DEF QueueRecord
    <3> QED
      BY <1>3, <3>1, QueueTail
  <2>4. Q2[p].messages = k /\ \A x \in Queues \ {p} : Q2[x].messages = queue[x].messages
    <3> HIDE DEF k
    <3> QED
      BY <1>1, <2>2 DEF QueueRecord
  <2>5. Destroys(kmsg, M2, m)
    <3> HIDE DEF m
    <3> QED
      BY <1>1, <2>2, <2>3 DEF Destroys, MessageRecord
  <2> HIDE DEF Q2, M2
  <2>6. m = Head(queue[p].messages) /\ Q2[p].messages = Tail(queue[p].messages)
    BY <2>4
  <2> HIDE DEF m, k
  <2>7. /\ c \in Seq(Msgs)
        /\ Chan(port, queue, thread, kmsg, p) = <<m>> \o c
        /\ \A x \in Ports \ {p} : Chan(port, Q2, thread, M2, x) = Chan(port, queue, thread, kmsg, x)
        /\ Had(thread, M2) = Had(thread, kmsg)
    <3>1. /\ Base(port, set, queue, thread, kmsg, entry, notice, dying) /\ p \in Ports
          /\ ~ port[p].in_use /\ queue[p].messages # <<>> /\ m = Head(queue[p].messages)
          /\ Q2[p].messages = Tail(queue[p].messages)
          /\ \A x \in Queues \ {p} : Q2[x].messages = queue[x].messages
          /\ Destroys(kmsg, M2, m)
      BY <1>1, <1>3, <2>1, <2>4, <2>5, <2>6
    <3> QED
      BY <3>1, DropIs
  <2>8. \A x \in Msgs : M2[x].at = "destroyed" <=> kmsg[x].at = "destroyed" \/ x = m
    BY <2>5 DEF Destroys
  <2>9. \A x \in Ports : Chan(port, Q2, thread, M2, x) = IF x = p THEN c ELSE Chan(port, queue, thread, kmsg, x)
    BY <2>7
  <2> HIDE DEF c
  <2>10. OneChan(port, queue, thread, kmsg, port', queue', thread', kmsg', p, c)
    BY <2>2, <2>9 DEF OneChan, Q2, M2
  <2>11. Had(thread', kmsg') = Had(thread, kmsg)
    BY <2>2, <2>7 DEF M2
  <2>12. /\ ~ port[p].in_use /\ m \in Msgs /\ c \in Seq(Msgs)
         /\ Chan(port, queue, thread, kmsg, p) = <<m>> \o c
    BY <2>1, <2>3, <2>7
  <2>13. \A x \in Msgs : kmsg'[x].at = "destroyed" <=> kmsg[x].at = "destroyed" \/ x = m
    BY <2>8 DEF M2
  <2> QED
    BY <2>10, <2>11, <2>12, <2>13, Dropping
<1> QED
  BY <1>2, <1>3

-----------------------------------------------------------------------------
(* A message is accepted, or passes by the port.                           *)

\* What a port shows beside its queue is on the way.
LEMMA ChanSet ==
  ASSUME NEW k \in Seq(Msgs), NEW A \in SUBSET Msgs
  PROVE  ToSet(Extended(k, A)) \subseteq ToSet(k) \cup A
<1>1. CASE A = {}
  BY <1>1 DEF Extended
<1>2. CASE A # {}
  <2> DEFINE x == CHOOSE x \in A : TRUE
  <2>1. x \in A /\ x \in Msgs /\ Extended(k, A) = Append(k, x)
    BY <1>2 DEF Extended
  <2> HIDE DEF x
  <2>2. ToSet(Append(k, x)) = ToSet(k) \cup {x}
    BY <2>1, QueueAppend
  <2> QED
    BY <2>1, <2>2
<1> QED
  BY <1>1, <1>2

\* A message that has not been accepted yet is new to all users.
LEMMA UnsentIsFresh ==
  ASSUME NEW P, NEW S, NEW Q, NEW T, NEW M, NEW E, NEW N, NEW D,
         Base(P, S, Q, T, M, E, N, D), NEW m \in Msgs, M[m].at \in {"new", "sending"}
  PROVE  IsFresh(P, Q, T, M, m)
<1>1. Nowhere(Q, T, m) /\ \A t \in Threads : ~ Holds(T[t], m)
  BY NowhereIs
<1>2. m \notin Had(T, M)
  BY <1>1 DEF Had, Has
<1>3. ASSUME NEW p \in Ports PROVE m \notin ToSet(Chan(P, Q, T, M, p))
  <2> DEFINE k == Line(P, Q, M, p)
             A == Added(T, M, p)
  <2>1. /\ QueueOf(P, p) \in Queues /\ k \in Seq(Msgs) /\ A \in SUBSET Msgs
        /\ ToSet(k) = ToSet(Q[QueueOf(P, p)].messages) \cap Mine(M, p)
    BY ChanIs
  <2>2. m \notin A
    BY <1>1 DEF Added, Nowhere
  <2>3. m \notin ToSet(k)
    BY <1>1, <2>1 DEF Nowhere
  <2> HIDE DEF k, A
  <2>4. ToSet(Extended(k, A)) \subseteq ToSet(k) \cup A
    BY <2>1, ChanSet
  <2> QED
    BY <2>2, <2>3, <2>4 DEF Chan, k, A
<1> QED
  BY <1>2, <1>3 DEF IsFresh

\* The messages' ports decide who sees which.
LEMMA ChanTo ==
  ASSUME NEW P, NEW Q, NEW T, NEW M, NEW M2, NEW p, \A m \in Msgs : M2[m].to = M[m].to
  PROVE  Chan(P, Q, T, M2, p) = Chan(P, Q, T, M, p)
<1>1. Mine(M2, p) = Mine(M, p)
  BY DEF Mine
<1>2. Added(T, M2, p) = Added(T, M, p)
  BY <1>1 DEF Added
<1> QED
  BY <1>1, <1>2 DEF Chan, Line

\* t brings m, which its port has accepted, to its queue.
BringsIt(T, M, T2, M2, t, m) ==
    /\ t \in Threads /\ m \in Msgs
    /\ Others(T, T2, t) /\ Idles(T[t]) /\ T2[t].at = "deliver" /\ T2[t].msg = m
    /\ \A x \in Msgs : M2[x].to = M[x].to
    /\ \A x \in Msgs \ {m} : M2[x].at = M[x].at
    /\ M[m].at = "sending" /\ M2[m].at = "live"

\* Then it is the last of its port.
LEMMA BringsIs ==
  ASSUME NEW P, NEW S, NEW Q, NEW T, NEW M, NEW E, NEW N, NEW D, NEW P2, NEW Q2, NEW T2, NEW M2,
         NEW t, NEW m, Base(P, S, Q, T, M, E, N, D), SameQueued(P, Q, P2, Q2), BringsIt(T, M, T2, M2, t, m),
         M[m].to \in Ports, Q[QueueOf(P, M[m].to)].lock = Nil
  PROVE  LET p == M[m].to
         IN  /\ OneChan(P, Q, T, M, P2, Q2, T2, M2, p, Append(Chan(P, Q, T, M, p), m))
             /\ Had(T2, M2) = Had(T, M) /\ SameDropped(M, M2)
<1> DEFINE p == M[m].to
<1>1. t \in Threads /\ m \in Msgs
  BY DEF BringsIt
<1>2. ASSUME NEW u \in Threads, NEW x \in Msgs
      PROVE  /\ Delivers(T2[u], x) <=> Delivers(T[u], x) \/ (u = t /\ x = m)
             /\ Holds(T2[u], x) <=> Holds(T[u], x)
  <2>1. CASE u = t
    <3> DEFINE r == T[t]
               r2 == T2[t]
    <3>1. ~ Delivers(r, x) /\ ~ Holds(r, x) /\ r2.at = "deliver" /\ r2.msg = m
      BY DEF BringsIt, Idles
    <3> HIDE DEF r, r2
    <3>2. (Delivers(r2, x) <=> x = m) /\ ~ Holds(r2, x)
      BY <3>1 DEF Delivers, Holds, Handed
    <3> QED
      BY <2>1, <3>1, <3>2 DEF r, r2
  <2>2. CASE u # t
    <3>1. T2[u] = T[u]
      BY <2>2 DEF BringsIt, Others
    <3> QED
      BY <2>2, <3>1
  <2> QED
    BY <2>1, <2>2
<1>3. \A x \in Ports : Mine(M2, x) = Mine(M, x)
  BY DEF BringsIt, Mine
<1>4. ASSUME NEW x \in Ports PROVE Line(P2, Q2, M2, x) = Line(P, Q, M, x)
  <2>1. QueueOf(P, x) \in Queues
    BY ChanIs
  <2>2. QueueOf(P2, x) = QueueOf(P, x)
    BY DEF SameQueued, QueueOf
  <2> QED
    BY <1>3, <2>1, <2>2 DEF Line, SameQueued
<1>5. ASSUME NEW x \in Ports \ {p} PROVE Chan(P2, Q2, T2, M2, x) = Chan(P, Q, T, M, x)
  <2>1. m \notin Mine(M, x)
    BY DEF Mine
  <2>2. Added(T2, M2, x) = Added(T, M, x)
    BY <1>2, <1>3, <2>1 DEF Added, Mine
  <2> QED
    BY <1>4, <2>2 DEF Chan
<1>6. Added(T, M, p) = {}
  BY NothingAdded
<1>7. Added(T2, M2, p) = {m}
  <2>1. m \in Mine(M2, p)
    BY <1>1, <1>3 DEF Mine
  <2>2. \A x \in Mine(M2, p) : \A u \in Threads : ~ Delivers(T[u], x)
    BY <1>3, <1>6 DEF Added
  <2>3. Mine(M2, p) \subseteq Msgs
    BY DEF Mine
  <2> QED
    BY <1>1, <1>2, <2>1, <2>2, <2>3 DEF Added
<1>8. Chan(P2, Q2, T2, M2, p) = Append(Chan(P, Q, T, M, p), m)
  <2>1. Extended(Line(P, Q, M, p), {m}) = Append(Line(P, Q, M, p), m)
    BY DEF Extended
  <2> QED
    BY <1>4, <1>6, <1>7, <2>1 DEF Chan, Extended
<1>9. \A x \in Ports : P2[x].in_use = P[x].in_use
  BY DEF SameQueued
<1>10. Had(T2, M2) = Had(T, M)
  <2>1. \A x \in Msgs : Has(T2, M2, x) <=> Has(T, M, x)
    BY <1>2 DEF Has, BringsIt
  <2> QED
    BY <2>1 DEF Had
<1>11. SameDropped(M, M2)
  BY DEF SameDropped, BringsIt
<1> QED
  BY <1>5, <1>8, <1>9, <1>10, <1>11 DEF OneChan

\* A message is accepted, with its thread and its port as the code has them.
LEMMA AcceptsMaps ==
  ASSUME IInv, NEW t \in Threads, thread[t].at \in {"send", "send_wait"},
         NEW pr \in PortRecord, NEW r \in ThreadRecord, r.msg = thread[t].msg, pr.in_use, Accepts(t, pr, r),
         LET p == kmsg[r.msg].to IN pr.set = port[p].set /\ pr.in_use = port[p].in_use
  PROVE  [InOrder!Next]_(InOrder!vars)
<1> DEFINE m == r.msg
           p == kmsg[m].to
           q == QueueOf(port, p)
           full == Full(pr, r)
           n == pr.count + 1
           pr2 == [pr EXCEPT !.count = n]
           reply == IF full THEN Nil ELSE r.reply
           r2 == [r EXCEPT !.at = "deliver", !.obj = q, !.reply = reply]
           T2 == thread'
           M2 == kmsg'
           P2 == port'
           Q2 == queue'
<1>1. /\ thread \in [Threads -> ThreadRecord] /\ kmsg \in [Msgs -> MessageRecord]
      /\ port \in [Ports -> PortRecord] /\ queue \in [Queues -> QueueRecord]
      /\ Base(port, set, queue, thread, kmsg, entry, notice, dying)
  BY InvParts, Exactly
<1>2. m \in Msgs /\ kmsg[m].at = "sending"
  <2>1. Local(thread[t])
    BY InvParts
  <2>2. m \in Msgs
    BY <2>1 DEF Local
  <2>3. Sends(thread[t], m)
    BY DEF Sends
  <2> QED
    BY <1>1, <2>2, <2>3 DEF Base, Stages
<1>3. p \in Ports
  BY <1>1, <1>2 DEF Base, Addressed
<1>4. q \in Queues
  BY <1>1, <1>3, QueueOfIs
<1>5. pr.set = port[p].set /\ pr.in_use = port[p].in_use
  OBVIOUS
<1>6. /\ queue[q].lock = Nil /\ queue' = [queue EXCEPT ![q].lock = t]
      /\ port' = [port EXCEPT ![p] = pr2] /\ thread' = [thread EXCEPT ![t] = r2]
      /\ \/ kmsg' = [kmsg EXCEPT ![m].at = "live"]
         \/ kmsg' = [kmsg EXCEPT ![m].at = "live", ![m].sender_entry = TRUE]
  <2>1. (IF pr.set # Nil THEN pr.set ELSE p) = q
    BY <1>5 DEF QueueOf
  <2>2. queue[q].lock = Nil /\ queue' = [queue EXCEPT ![q].lock = t]
    <3> DEFINE x == IF pr.set # Nil THEN pr.set ELSE p
    <3>1. queue[x].lock = Nil
      BY DEF Accepts, Unlocked
    <3>2. queue' = [queue EXCEPT ![x].lock = t]
      BY DEF Accepts
    <3>3. x = q
      BY <2>1
    <3> HIDE DEF x, q
    <3> QED
      BY <3>1, <3>2, <3>3
  <2>3. port' = [port EXCEPT ![p] = pr2]
    BY DEF Accepts
  <2>4. thread' = [thread EXCEPT ![t] = r2]
    <3>1. thread' = [thread EXCEPT ![t] = [r EXCEPT !.at = "deliver",
                        !.obj = IF pr.set # Nil THEN pr.set ELSE p,
                        !.reply = IF Full(pr, r) THEN Nil ELSE @]]
      BY DEF Accepts
    <3> QED
      BY <2>1, <3>1
  <2>5. \/ kmsg' = [kmsg EXCEPT ![m].at = "live"]
        \/ kmsg' = [kmsg EXCEPT ![m].at = "live", ![m].sender_entry = TRUE]
    BY DEF Accepts
  <2> QED
    BY <2>2, <2>3, <2>4, <2>5
<1>7. pr2.set = port[p].set /\ pr2.in_use = port[p].in_use
  <2> HIDE DEF n
  <2> QED
    BY <1>5 DEF PortRecord
<1>8. r2.at = "deliver" /\ r2.msg = m
  <2> HIDE DEF q, reply
  <2> QED
    BY DEF ThreadRecord
<1> HIDE DEF r2, pr2
<1>9. SameQueued(port, queue, P2, Q2)
  <2>1. ASSUME NEW x \in Ports PROVE port'[x].set = port[x].set /\ port'[x].in_use = port[x].in_use
    BY <1>1, <1>3, <1>6, <1>7
  <2>2. ASSUME NEW x \in Queues PROVE queue'[x].messages = queue[x].messages
    <3> HIDE DEF q
    <3> QED
      BY <1>1, <1>4, <1>6 DEF QueueRecord
  <2> QED
    BY <2>1, <2>2 DEF SameQueued
<1>10. Others(thread, T2, t) /\ T2[t] = r2
  BY <1>1, <1>6 DEF Others
<1>11. Idles(thread[t])
  BY IdlesIs
<1>12. /\ \A x \in Msgs : M2[x].to = kmsg[x].to
       /\ \A x \in Msgs \ {m} : M2[x].at = kmsg[x].at
       /\ M2[m].at = "live"
  <2> HIDE DEF m
  <2> QED
    BY <1>1, <1>2, <1>6 DEF MessageRecord
<1> HIDE DEF T2, M2, P2, Q2
<1>13. BringsIt(thread, kmsg, T2, M2, t, m)
  BY <1>2, <1>8, <1>10, <1>11, <1>12 DEF BringsIt
<1> DEFINE c == Append(Chan(port, queue, thread, kmsg, p), m)
<1>14. /\ OneChan(port, queue, thread, kmsg, P2, Q2, T2, M2, p, c)
       /\ Had(T2, M2) = Had(thread, kmsg) /\ SameDropped(kmsg, M2)
  BY <1>1, <1>3, <1>6, <1>9, <1>13, BringsIs
<1>15. IsFresh(port, queue, thread, kmsg, m)
  BY <1>1, <1>2, UnsentIsFresh
<1>16. port[p].in_use
  BY <1>5
<1> HIDE DEF m, p
<1> QED
  BY <1>2, <1>3, <1>14, <1>15, <1>16, Accepting DEF T2, M2, P2, Q2

\* One pass of msg_queue's loop.
LEMMA TriesToQueueMaps ==
  ASSUME IInv, NEW t \in Threads, thread[t].at \in {"send", "send_wait"},
         NEW pr \in PortRecord, NEW r \in ThreadRecord, r.msg = thread[t].msg, TriesToQueue(t, pr, r),
         LET p == kmsg[r.msg].to IN pr.set = port[p].set /\ pr.in_use = port[p].in_use
  PROVE  [InOrder!Next]_(InOrder!vars)
<1>1. \/ GiveUp(t, pr, r)
      \/ pr.in_use /\ Accepts(t, pr, r)
      \/ Blocks(t, pr, r)
  BY DEF TriesToQueue
<1>2. CASE GiveUp(t, pr, r)
  BY <1>2, GiveUpMaps
<1>3. CASE pr.in_use /\ Accepts(t, pr, r)
  BY <1>3, AcceptsMaps
<1>4. CASE Blocks(t, pr, r)
  BY <1>4, BlocksMaps
<1> QED
  BY <1>1, <1>2, <1>3, <1>4

\* A sender knows its message and port.
LEMMA SenderIs ==
  ASSUME IInv, NEW t \in Threads, thread[t].at \in {"send", "send_wait"}
  PROVE  kmsg[thread[t].msg].to \in Ports
<1> DEFINE r == thread[t]
           m == r.msg
<1>1. Base(port, set, queue, thread, kmsg, entry, notice, dying) /\ Local(r)
  BY InvParts
<1>2. m \in Msgs /\ Sends(r, m)
  BY <1>1 DEF Local, Sends
<1> QED
  BY <1>1, <1>2 DEF Base, Stages, Addressed

\* The first pass.
LEMMA SendFirstMaps ==
  ASSUME IInv, NEW t \in Threads, SendFirst(t)
  PROVE  [InOrder!Next]_(InOrder!vars)
<1> DEFINE r == thread[t]
           pr == port[kmsg[r.msg].to]
<1>1. r.at = "send" /\ TriesToQueue(t, pr, r)
  BY DEF SendFirst
<1>2. r \in ThreadRecord /\ port \in [Ports -> PortRecord]
  BY InvParts, Exactly
<1>3. pr \in PortRecord
  BY <1>1, <1>2, SenderIs
<1>4. LET p == kmsg[r.msg].to IN pr.set = port[p].set /\ pr.in_use = port[p].in_use
  OBVIOUS
<1>5. r.at \in {"send", "send_wait"} /\ r.msg = thread[t].msg
  BY <1>1
<1> HIDE DEF pr
<1> QED
  BY <1>1, <1>2, <1>3, <1>4, <1>5, TriesToQueueMaps

\* A sender that was woken, or that gives up its wait.
LEMMA SendAwakeMaps ==
  ASSUME IInv, NEW t \in Threads, SendAwake(t)
  PROVE  [InOrder!Next]_(InOrder!vars)
<1> DEFINE r == thread[t]
           p == kmsg[r.msg].to
           pr == port[p]
           b == RemoveFirst(pr.blocked, t)
           off == [pr EXCEPT !.blocked = b]
           x == r.tout /\ r.result # "TIMED_OUT"
           r1 == [r EXCEPT !.tout = x]
<1>1. /\ r.at = "send_wait"
      /\ \/ TriesToQueue(t, pr, r)
         \/ GiveUp(t, off, r)
         \/ TriesToQueue(t, off, r1)
  BY DEF SendAwake
<1>2. r \in ThreadRecord /\ port \in [Ports -> PortRecord]
  BY InvParts, Exactly
<1>3. pr \in PortRecord /\ pr.blocked \in Seq(Threads)
  <2>1. pr \in PortRecord
    BY <1>1, <1>2, SenderIs
  <2> QED
    BY <2>1 DEF PortRecord
<1>4. b \in Seq(Threads)
  BY <1>3, QueueRemove
<1>5. x \in BOOLEAN
  BY <1>2, ThreadFields
<1> HIDE DEF b, x
<1>6. off \in PortRecord /\ off.set = pr.set /\ off.in_use = pr.in_use
  <2> HIDE DEF pr
  <2> QED
    BY <1>3, <1>4 DEF PortRecord
<1>7. r1 \in ThreadRecord /\ r1.msg = r.msg
  <2> HIDE DEF r
  <2> QED
    BY <1>2, <1>5 DEF ThreadRecord
<1> HIDE DEF off, r1
<1>8. r.at \in {"send", "send_wait"}
  BY <1>1
<1>9. CASE TriesToQueue(t, pr, r)
  <2> HIDE DEF pr
  <2>1. LET y == kmsg[r.msg].to IN pr.set = port[y].set /\ pr.in_use = port[y].in_use
    BY DEF pr
  <2> QED
    BY <1>2, <1>3, <1>8, <1>9, <2>1, TriesToQueueMaps
<1>10. CASE GiveUp(t, off, r)
  <2>1. LET y == kmsg[r.msg].to IN off.set = port[y].set /\ off.in_use = port[y].in_use
    BY <1>6
  <2> QED
    BY <1>8, <1>10, <2>1, GiveUpMaps
<1>11. CASE TriesToQueue(t, off, r1)
  <2>1. LET y == kmsg[r1.msg].to IN off.set = port[y].set /\ off.in_use = port[y].in_use
    BY <1>6, <1>7
  <2> QED
    BY <1>6, <1>7, <1>8, <1>11, <2>1, TriesToQueueMaps
<1> QED
  BY <1>1, <1>9, <1>10, <1>11

\* Nothing is under way to a port whose count is zero.
LEMMA NoneAtZero ==
  ASSUME NEW P, NEW S, NEW Q, NEW T, NEW M, NEW E, NEW N, NEW D,
         Base(P, S, Q, T, M, E, N, D), NEW p \in Ports, P[p].in_use, P[p].count = 0
  PROVE  Chan(P, Q, T, M, p) = <<>>
<1> DEFINE c == CountedIn(Q, T, M, p)
<1>1. CountOf(P[p], c)
  BY DEF Base, Counts
<1>2. IsFiniteSet(c)
  <2>1. c \subseteq Msgs /\ IsFiniteSet(Msgs)
    BY Names DEF CountedIn
  <2> HIDE DEF c
  <2> QED
    BY <2>1, FS_Subset
<1> HIDE DEF c
<1>3. c = {}
  BY <1>1, <1>2, FS_EmptySet DEF CountOf
<1>4. /\ QueueOf(P, p) \in Queues
      /\ ToSet(Line(P, Q, M, p)) = ToSet(Q[QueueOf(P, p)].messages) \cap Mine(M, p)
  BY ChanIs
<1>5. Added(T, M, p) = {}
  <2>1. \A m \in Added(T, M, p) : m \in c
    BY DEF Added, Mine, Delivers, c, CountedIn, Carries
  <2> QED
    BY <1>3, <2>1
<1>6. ToSet(Q[QueueOf(P, p)].messages) \cap Mine(M, p) = {}
  <2>1. \A m \in ToSet(Q[QueueOf(P, p)].messages) \cap Mine(M, p) : m \in c
    BY <1>4 DEF Mine, c, CountedIn
  <2> QED
    BY <1>3, <2>1
<1>7. Line(P, Q, M, p) = <<>>
  <2> DEFINE l == Q[QueueOf(P, p)].messages
  <2>1. l \in Seq(Msgs)
    <3>1. Q[QueueOf(P, p)] \in QueueRecord
      BY <1>4, Exactly
    <3> QED
      BY <3>1 DEF QueueRecord
  <2> HIDE DEF l
  <2>2. ToSet(l) \cap Mine(M, p) = {}
    BY <1>6 DEF l
  <2>3. Among(l, Mine(M, p)) = <<>>
    BY <2>1, <2>2, AmongWhole
  <2> QED
    BY <2>3 DEF Line, l
<1> QED
  BY <1>5, <1>7 DEF Chan, Extended

\* m, which was new, is received at once.
PassesBy(M, M2, m, p) ==
    /\ OnlyMessage(M, M2, m)
    /\ M[m].at = "new" /\ M2[m].at = "received" /\ M2[m].to = p

\* The users see that.
LEMMA PassesIs ==
  ASSUME NEW P, NEW S, NEW Q, NEW T, NEW M, NEW E, NEW N, NEW D, NEW M2,
         Base(P, S, Q, T, M, E, N, D), NEW m \in Msgs, NEW p \in Ports, PassesBy(M, M2, m, p)
  PROVE  /\ \A x \in Ports : Chan(P, Q, T, M2, x) = Chan(P, Q, T, M, x)
         /\ Had(T, M2) = Had(T, M) \cup {m} /\ SameDropped(M, M2)
<1>1. Nowhere(Q, T, m)
  <2>1. M[m].at # "live"
    BY DEF PassesBy
  <2> QED
    BY <2>1, NowhereIs
<1> DEFINE M3 == [x \in Msgs |-> [at |-> M[x].at, to |-> M2[x].to]]
<1>2. \A x \in Msgs : M3[x].at = M[x].at /\ M3[x].to = M2[x].to
  OBVIOUS
<1> HIDE DEF M3
<1>3. Quiet(Q, T, M, T, M3)
  <2>1. ASSUME NEW x \in Msgs
        PROVE  /\ M3[x].at = "received" <=> M[x].at = "received"
               /\ M3[x].at = "destroyed" <=> M[x].at = "destroyed"
               /\ M3[x].to = M[x].to \/ Nowhere(Q, T, x)
    <3>1. CASE x = m
      BY <1>1, <1>2, <3>1
    <3>2. CASE x # m
      BY <1>2, <3>2 DEF PassesBy, OnlyMessage
    <3> QED
      BY <3>1, <3>2
  <2> QED
    BY <2>1, SameRoleIs, RolesStay
<1>4. SameImage(P, Q, T, M, P, Q, T, M3)
  BY <1>3, Exactly, SameQueuedIs, QuietKeeps
<1>5. ASSUME NEW x \in Ports PROVE Chan(P, Q, T, M2, x) = Chan(P, Q, T, M, x)
  <2>1. Chan(P, Q, T, M3, x) = Chan(P, Q, T, M, x)
    BY <1>4 DEF SameImage
  <2>2. Chan(P, Q, T, M2, x) = Chan(P, Q, T, M3, x)
    BY <1>2, ChanTo
  <2> QED
    BY <2>1, <2>2
<1>6. Had(T, M2) = Had(T, M) \cup {m}
  BY DEF Had, Has, PassesBy, OnlyMessage
<1>7. SameDropped(M, M2)
  BY DEF SameDropped, PassesBy, OnlyMessage
<1> QED
  BY <1>5, <1>6, <1>7

\* The kernel replies to msg_rpc.
LEMMA KernelRepliesMaps ==
  ASSUME IInv, NEW t \in Threads, NEW m \in Msgs, NEW p \in Ports, KernelReplies(t, m, p)
  PROVE  [InOrder!Next]_(InOrder!vars)
<1>1. /\ Base(port, set, queue, thread, kmsg, entry, notice, dying)
      /\ thread \in [Threads -> ThreadRecord] /\ kmsg \in [Msgs -> MessageRecord]
  BY InvParts, Exactly
<1>2. thread[t].at = "idle" /\ kmsg[m].at = "new" /\ UNCHANGED <<port, queue>>
  BY DEF KernelReplies
<1>3. CASE /\ CanReceive(p) /\ port[p].count = 0 /\ thread' = thread
           /\ kmsg' = [kmsg EXCEPT ![m].at = "received", ![m].to = p]
  <2> DEFINE M2 == kmsg'
             e == <<>>
  <2>1. PassesBy(kmsg, M2, m, p)
    BY <1>1, <1>2, <1>3 DEF PassesBy, OnlyMessage, MessageRecord
  <2> HIDE DEF M2
  <2>2. /\ \A x \in Ports : Chan(port, queue, thread, M2, x) = Chan(port, queue, thread, kmsg, x)
        /\ Had(thread, M2) = Had(thread, kmsg) \cup {m} /\ SameDropped(kmsg, M2)
    BY <1>1, <2>1, PassesIs
  <2>3. port[p].in_use
    <3>1. port[p].receiver = "task"
      BY <1>3 DEF CanReceive
    <3>2. PortFits(port[p], queue[p], dying[p], p)
      BY <1>1 DEF Base, PortsFit
    <3> QED
      BY <3>1, <3>2 DEF PortFits
  <2>4. Chan(port, queue, thread, kmsg, p) = e
    BY <1>1, <1>3, <2>3, NoneAtZero
  <2> HIDE DEF e
  <2>5. OneChan(port, queue, thread, kmsg, port', queue', thread', kmsg', p, e)
    BY <1>2, <1>3, <2>2, <2>4 DEF OneChan, M2
  <2>6. IsFresh(port, queue, thread, kmsg, m)
    BY <1>1, <1>2, UnsentIsFresh
  <2>7. Had(thread', kmsg') = Had(thread, kmsg) \cup {m} /\ SameDropped(kmsg, kmsg')
    BY <1>3, <2>2 DEF M2
  <2> QED
    BY <2>3, <2>4, <2>5, <2>6, <2>7, Passing DEF e
<1>4. CASE /\ kmsg' = [kmsg EXCEPT ![m].at = "sending", ![m].to = p]
           /\ thread' = [thread EXCEPT ![t].at = "send", ![t].msg = m,
                            ![t].option = {"ALWAYS"}, ![t].reply = p]
  <2> DEFINE r == thread[t]
             r2 == thread'[t]
  <2>1. Others(thread, thread', t) /\ thread'[t].at = "send"
    BY <1>1, <1>4 DEF Others, ThreadRecord
  <2>2. OnlyMessage(kmsg, kmsg', m) /\ kmsg'[m].at = "sending"
    BY <1>1, <1>4 DEF OnlyMessage, MessageRecord
  <2>3. r.at = "idle" /\ r2.at = "send"
    BY <1>2, <2>1
  <2> HIDE DEF r, r2
  <2>4. Idles(r) /\ Idles(r2)
    BY <2>3, IdlesIs
  <2>5. Idles(thread[t]) /\ Idles(thread'[t])
    BY <2>4 DEF r, r2
  <2> QED
    BY <1>2, <2>1, <2>2, <2>5, SameQueuedIs, OneActsMaps
<1> QED
  BY <1>3, <1>4 DEF KernelReplies

-----------------------------------------------------------------------------
(* A message arrives.                                                      *)

\* One thread at a time brings a message to a port, to the queue it uses.
LEMMA OneBrings ==
  ASSUME NEW P, NEW S, NEW Q, NEW T, NEW M, NEW E, NEW N, NEW D,
         Base(P, S, Q, T, M, E, N, D), NEW t \in Threads, NEW m \in Msgs, Delivers(T[t], m)
  PROVE  LET p == M[m].to
         IN  /\ p \in Ports /\ T[t].obj = QueueOf(P, p)
             /\ m \in Mine(M, p) /\ Added(T, M, p) = {m}
             /\ \A u \in Threads \ {t} : \A y \in Mine(M, p) : ~ Delivers(T[u], y)
<1> DEFINE p == M[m].to
<1>1. Carries(T[t], m)
  BY DEF Delivers, Carries
<1>2. p \in Ports
  BY <1>1 DEF Base, Stages, Addressed
<1>3. T[t].obj = QueueOf(P, p) /\ Q[T[t].obj].lock = t
  BY DEF Delivers, Base, Locks, QueueOf
<1>4. ASSUME NEW u \in Threads, NEW y \in Mine(M, p), Delivers(T[u], y) PROVE u = t
  <2>1. T[u].at = "deliver" /\ M[T[u].msg].to = p
    BY <1>4 DEF Delivers, Mine
  <2>2. T[u].obj = QueueOf(P, p) /\ Q[T[u].obj].lock = u
    BY <2>1 DEF Base, Locks, QueueOf
  <2> QED
    BY <1>3, <2>2
<1>5. m \in Mine(M, p)
  BY DEF Mine
<1>6. \A u \in Threads \ {t} : \A y \in Mine(M, p) : ~ Delivers(T[u], y)
  BY <1>4
<1>7. \A y \in Mine(M, p) : Delivers(T[t], y) <=> y = m
  BY DEF Delivers
<1> HIDE DEF p
<1>8. Added(T, M, p) = {m}
  BY <1>5, <1>6, <1>7 DEF Added
<1> QED
  BY <1>2, <1>3, <1>5, <1>6, <1>8 DEF p

\* t adds m to its queue, and goes on.
Lays(T, T2, Q, Q2, t, m) ==
    /\ t \in Threads /\ m \in Msgs /\ Delivers(T[t], m)
    /\ \A u \in Threads \ {t} : SameRole(T[u], T2[u])
    /\ Idles(T2[t])
    /\ Q2[T[t].obj].messages = Append(Q[T[t].obj].messages, m)
    /\ \A y \in Queues \ {T[t].obj} : Q2[y].messages = Q[y].messages

\* The users do not see it.
LEMMA LaysIs ==
  ASSUME NEW P, NEW S, NEW Q, NEW T, NEW M, NEW E, NEW N, NEW D, NEW Q2, NEW T2, NEW t, NEW m,
         Base(P, S, Q, T, M, E, N, D), Lays(T, T2, Q, Q2, t, m)
  PROVE  /\ \A x \in Ports : Chan(P, Q2, T2, M, x) = Chan(P, Q, T, M, x)
         /\ Had(T2, M) = Had(T, M)
<1> DEFINE p == M[m].to
           q == T[t].obj
           l == Q[q].messages
<1>1. t \in Threads /\ m \in Msgs /\ Delivers(T[t], m)
  BY DEF Lays
<1>2. /\ p \in Ports /\ q = QueueOf(P, p) /\ m \in Mine(M, p) /\ Added(T, M, p) = {m}
      /\ \A u \in Threads \ {t} : \A y \in Mine(M, p) : ~ Delivers(T[u], y)
  BY <1>1, OneBrings
<1>3. q \in Queues /\ l \in Seq(Msgs)
  <2>1. q \in Queues
    BY <1>2, ChanIs
  <2>2. Q[q] \in QueueRecord
    BY <2>1, Exactly
  <2> QED
    BY <2>1, <2>2 DEF QueueRecord
<1>4. Q2[q].messages = Append(l, m) /\ \A y \in Queues \ {q} : Q2[y].messages = Q[y].messages
  BY DEF Lays
<1> HIDE DEF l
<1>5. ASSUME NEW u \in Threads, NEW y \in Msgs
      PROVE  /\ Delivers(T2[u], y) <=> Delivers(T[u], y) /\ u # t
             /\ Holds(T2[u], y) <=> Holds(T[u], y)
  <2>1. CASE u = t
    <3>1. ~ Delivers(T2[t], y) /\ ~ Holds(T2[t], y)
      BY DEF Lays, Idles
    <3>2. ~ Holds(T[t], y)
      BY <1>1 DEF Delivers, Holds, Handed
    <3> QED
      BY <2>1, <3>1, <3>2
  <2>2. CASE u # t
    BY <2>2 DEF Lays, SameRole
  <2> QED
    BY <2>1, <2>2
<1>6. Chan(P, Q2, T2, M, p) = Chan(P, Q, T, M, p)
  <2>1. Added(T2, M, p) = {}
    <3>1. \A y \in Mine(M, p) : y \in Msgs
      BY DEF Mine
    <3> QED
      BY <1>2, <1>5, <3>1 DEF Added
  <2>2. Among(Append(l, m), Mine(M, p)) = Append(Among(l, Mine(M, p)), m)
    BY <1>1, <1>2, <1>3, AmongGrows
  <2>3. Line(P, Q2, M, p) = Append(Among(l, Mine(M, p)), m) /\ Line(P, Q, M, p) = Among(l, Mine(M, p))
    BY <1>2, <1>4, <2>2 DEF Line, l
  <2>4. Chan(P, Q2, T2, M, p) = Append(Among(l, Mine(M, p)), m)
    BY <2>1, <2>3 DEF Chan, Extended
  <2>5. Chan(P, Q, T, M, p) = Append(Among(l, Mine(M, p)), m)
    BY <1>2, <2>3 DEF Chan, Extended
  <2> QED
    BY <2>4, <2>5
<1>7. ASSUME NEW x \in Ports \ {p} PROVE Chan(P, Q2, T2, M, x) = Chan(P, Q, T, M, x)
  <2>1. m \notin Mine(M, x)
    BY DEF Mine
  <2>2. Added(T2, M, x) = Added(T, M, x)
    <3>1. \A y \in Mine(M, x) : y \in Msgs /\ ~ Delivers(T[t], y)
      BY <1>1, <2>1 DEF Mine, Delivers
    <3> QED
      BY <1>5, <3>1 DEF Added
  <2>3. Line(P, Q2, M, x) = Line(P, Q, M, x)
    <3>1. CASE QueueOf(P, x) = q
      <4>1. Among(Append(l, m), Mine(M, x)) = Among(l, Mine(M, x))
        BY <1>1, <1>3, <2>1, AmongGrows
      <4> QED
        BY <1>4, <3>1, <4>1 DEF Line, l
    <3>2. CASE QueueOf(P, x) # q
      <4>1. QueueOf(P, x) \in Queues
        BY ChanIs
      <4> QED
        BY <1>4, <3>2, <4>1 DEF Line
    <3> QED
      BY <3>1, <3>2
  <2> QED
    BY <2>2, <2>3 DEF Chan
<1>8. Had(T2, M) = Had(T, M)
  BY <1>5 DEF Had, Has
<1> QED
  BY <1>6, <1>7, <1>8

\* t hands m to u, who waited at its queue, and goes to wake it.
Gives(T, T2, Q, Q2, t, u, m) ==
    /\ t \in Threads /\ u \in Threads \ {t} /\ m \in Msgs /\ Delivers(T[t], m)
    /\ \A v \in Threads \ {t, u} : SameRole(T[v], T2[v])
    /\ Idles(T2[t]) /\ Idles(T[u]) /\ Handed(T2[u]) /\ T2[u].msg = m
    /\ Q[T[t].obj].messages = <<>>
    /\ \A y \in Queues : Q2[y].messages = Q[y].messages

\* The users see that it is received.
LEMMA GivesIs ==
  ASSUME NEW P, NEW S, NEW Q, NEW T, NEW M, NEW E, NEW N, NEW D, NEW Q2, NEW T2, NEW t, NEW u, NEW m,
         Base(P, S, Q, T, M, E, N, D), Gives(T, T2, Q, Q2, t, u, m)
  PROVE  LET p == M[m].to
         IN  /\ p \in Ports /\ Chan(P, Q, T, M, p) = <<m>> /\ Chan(P, Q2, T2, M, p) = <<>>
             /\ \A x \in Ports \ {p} : Chan(P, Q2, T2, M, x) = Chan(P, Q, T, M, x)
             /\ Had(T2, M) = Had(T, M) \cup {m}
<1> DEFINE p == M[m].to
           q == T[t].obj
<1>1. t \in Threads /\ m \in Msgs /\ Delivers(T[t], m) /\ u \in Threads /\ u # t
  BY DEF Gives
<1>2. /\ p \in Ports /\ q = QueueOf(P, p) /\ m \in Mine(M, p) /\ Added(T, M, p) = {m}
      /\ \A v \in Threads \ {t} : \A y \in Mine(M, p) : ~ Delivers(T[v], y)
  BY <1>1, OneBrings
<1>3. ASSUME NEW v \in Threads, NEW y \in Msgs
      PROVE  /\ Delivers(T2[v], y) <=> Delivers(T[v], y) /\ v # t
             /\ Holds(T2[v], y) <=> Holds(T[v], y) \/ (v = u /\ y = m)
  <2>1. CASE v = t
    <3>1. ~ Delivers(T2[t], y) /\ ~ Holds(T2[t], y)
      BY DEF Gives, Idles
    <3>2. ~ Holds(T[t], y)
      BY <1>1 DEF Delivers, Holds, Handed
    <3> QED
      BY <1>1, <2>1, <3>1, <3>2
  <2>2. CASE v = u
    <3>1. ~ Delivers(T[u], y) /\ ~ Holds(T[u], y)
      BY DEF Gives, Idles
    <3>2. ~ Delivers(T2[u], y) /\ (Holds(T2[u], y) <=> y = m)
      BY DEF Gives, Delivers, Holds, Handed
    <3> QED
      BY <1>1, <2>2, <3>1, <3>2
  <2>3. CASE v \notin {t, u}
    BY <2>3 DEF Gives, SameRole
  <2> QED
    BY <2>1, <2>2, <2>3
<1>4. \A x \in Ports : Line(P, Q2, M, x) = Line(P, Q, M, x)
  <2>1. ASSUME NEW x \in Ports PROVE QueueOf(P, x) \in Queues
    BY ChanIs
  <2> QED
    BY <2>1 DEF Line, Gives
<1>5. Line(P, Q, M, p) = <<>>
  <2>1. Q[q].messages = <<>>
    BY DEF Gives
  <2>2. Among(<<>>, Mine(M, p)) = <<>>
    BY AmongEmpty
  <2> QED
    BY <1>2, <2>1, <2>2 DEF Line
<1>6. Added(T2, M, p) = {}
  <2>1. \A y \in Mine(M, p) : y \in Msgs
    BY DEF Mine
  <2> QED
    BY <1>2, <1>3, <2>1 DEF Added
<1>7. Chan(P, Q, T, M, p) = <<m>>
  <2> DEFINE e == <<>>
  <2>1. Chan(P, Q, T, M, p) = Append(e, m)
    BY <1>2, <1>5 DEF Chan, Extended
  <2>2. Append(e, m) = <<m>>
    OBVIOUS
  <2> QED
    BY <2>1, <2>2
<1>8. Chan(P, Q2, T2, M, p) = <<>>
  BY <1>2, <1>4, <1>5, <1>6 DEF Chan, Extended
<1>9. ASSUME NEW x \in Ports \ {p} PROVE Chan(P, Q2, T2, M, x) = Chan(P, Q, T, M, x)
  <2>1. m \notin Mine(M, x)
    BY DEF Mine
  <2>2. \A y \in Mine(M, x) : y \in Msgs /\ ~ Delivers(T[t], y)
    BY <1>1, <2>1 DEF Mine, Delivers
  <2>3. Added(T2, M, x) = Added(T, M, x)
    BY <1>3, <2>2 DEF Added
  <2> QED
    BY <1>4, <2>3 DEF Chan
<1>10. Had(T2, M) = Had(T, M) \cup {m}
  BY <1>1, <1>3 DEF Had, Has
<1> QED
  BY <1>2, <1>7, <1>8, <1>9, <1>10

\* Receivers who are told that a message is too large keep their parts.
LEMMA ToldRoles ==
  ASSUME NEW P, NEW S, NEW Q, NEW T, NEW M, NEW E, NEW N, NEW D,
         Base(P, S, Q, T, M, E, N, D), NEW q \in Queues, NEW w, ToSet(w) \subseteq ToSet(Q[q].blocked),
         NEW x \in RcvReasons
  PROVE  \A u \in Threads : SameRole(T[u], WakeAll(T, w, x)[u])
<1>1. \A u \in Threads : u \in ToSet(w) => ~ Handed(T[u])
  BY ReceiversSleep
<1>2. x \in IPCStates /\ x # "SUCCESS"
  BY DEF RcvReasons, IPCStates
<1>3. T \in [Threads -> ThreadRecord]
  BY Exactly
<1>4. \A u \in Threads : u \in ToSet(w) => T[u].at = "send_wait" \/ (~ Handed(T[u]) /\ x # "SUCCESS")
  BY <1>1, <1>2
<1> QED
  BY <1>2, <1>3, <1>4, WakeAllRoles

\* The message is queued, or goes to a receiver.
LEMMA DeliverMaps ==
  ASSUME IInv, NEW t \in Threads, Deliver(t)
  PROVE  [InOrder!Next]_(InOrder!vars)
<1> DEFINE r == thread[t]
           q == r.obj
           m == r.msg
           l == queue[q].blocked
           x == [T |-> thread, blocked |-> l, messages |-> queue[q].messages, taker |-> Nil]
           s == Offer(x, m)
           T2 == thread'
           Q2 == queue'
<1>1. /\ Base(port, set, queue, thread, kmsg, entry, notice, dying)
      /\ r \in ThreadRecord /\ r.at = "deliver" /\ Local(r)
  BY InvParts DEF Deliver
<1>2. q \in Queues /\ m \in Msgs
  BY <1>1 DEF Local
<1>3. /\ queue' = [queue EXCEPT ![q] =
                        [messages |-> s.messages, blocked |-> s.blocked, lock |-> Nil]]
      /\ thread' = [s.T EXCEPT ![t] = IF s.taker = Nil THEN AfterSend(r)
                                        ELSE [r EXCEPT !.at = "go", !.go = s.taker]]
      /\ UNCHANGED <<port, kmsg>>
  BY DEF Deliver, Offered
<1>4. /\ queue \in [Queues -> QueueRecord] /\ queue[q] \in QueueRecord
      /\ thread \in [Threads -> ThreadRecord]
  BY <1>1, <1>2, Exactly
<1>5. l \in Seq(Threads) /\ queue[q].messages \in Seq(Msgs) /\ IsInjective(l)
  BY <1>1, <1>2, <1>4 DEF QueueRecord, Base, ReceiveLists
<1>6. t \notin ToSet(l)
  BY <1>1, <1>2 DEF ReceivesAt, Base, ReceiveLists
<1>7. x \in Pass /\ x.blocked = l
  BY <1>4, <1>5 DEF Pass
<1>8. Delivers(thread[t], m)
  BY <1>1 DEF Delivers
<1>9. SameDropped(kmsg, kmsg') /\ \A y \in Ports : port'[y].in_use = port[y].in_use
  BY <1>3 DEF SameDropped
<1>10. CASE s = Queues1(x, m)
  <2> DEFINE T1 == WakeAll(thread, l, "RCV_TOO_LARGE")
             a == Append(queue[q].messages, m)
             i == AfterSend(r)
  <2>1. s.T = T1 /\ s.messages = a /\ s.taker = Nil
    <3>1. x.T = thread /\ x.blocked = l /\ x.messages = queue[q].messages
      OBVIOUS
    <3> HIDE DEF s, x
    <3>2. s.T = WakeAll(x.T, x.blocked, "RCV_TOO_LARGE") /\ s.messages = Append(x.messages, m) /\ s.taker = Nil
      BY <1>10 DEF Queues1
    <3> QED
      BY <3>1, <3>2
  <2>2. thread' = [T1 EXCEPT ![t] = i]
    <3> HIDE DEF T1, s, x
    <3> QED
      BY <1>3, <2>1
  <2>3. queue' = [queue EXCEPT ![q] = [messages |-> a, blocked |-> s.blocked, lock |-> Nil]]
    <3> HIDE DEF s, x, a
    <3> QED
      BY <1>3, <2>1
  <2>4. queue'[q].messages = a /\ \A y \in Queues \ {q} : queue'[y].messages = queue[y].messages
    <3> HIDE DEF s, a
    <3> QED
      BY <1>2, <1>4, <2>3
  <2>5. \A u \in Threads : SameRole(thread[u], T1[u])
    <3>1. "RCV_TOO_LARGE" \in RcvReasons /\ ToSet(l) \subseteq ToSet(queue[q].blocked)
      BY DEF RcvReasons
    <3> HIDE DEF l
    <3> QED
      BY <1>1, <1>2, <3>1, ToldRoles
  <2>6. T2[t] = i /\ \A u \in Threads \ {t} : T2[u] = T1[u]
    <3>1. DOMAIN T1 = Threads
      BY DEF WakeAll
    <3> HIDE DEF T1, i
    <3> QED
      BY <2>2, <3>1
  <2>7. Idles(i)
    <3>1. Resting(i, kmsg, t)
      BY <1>1, AfterSendRests
    <3> HIDE DEF i
    <3> QED
      BY <3>1, RestsIdle
  <2> HIDE DEF i, T1, T2, a
  <2>8. Lays(thread, T2, queue, Q2, t, m)
    BY <1>2, <1>8, <2>4, <2>5, <2>6, <2>7 DEF Lays, a
  <2> HIDE DEF Q2
  <2>9. /\ \A y \in Ports : Chan(port, Q2, T2, kmsg, y) = Chan(port, queue, thread, kmsg, y)
        /\ Had(T2, kmsg) = Had(thread, kmsg)
    BY <1>1, <2>8, LaysIs
  <2>10. SameImage(port, queue, thread, kmsg, port', queue', thread', kmsg')
    BY <1>3, <1>9, <2>9 DEF SameImage, SameDropped, Q2, T2
  <2> QED
    BY <2>10, Stutters
<1>11. CASE \E w, bb, u, b : Chosen(l, w, bb, u, b) /\ s = Taken(x, m, w, u, b)
  <2>1. PICK w, bb, u, b : Chosen(l, w, bb, u, b) /\ s = Taken(x, m, w, u, b)
    BY <1>11
  <2>2. /\ ToSet(w) \subseteq ToSet(l) /\ u \in Threads /\ u \in ToSet(l) /\ u \notin ToSet(w)
    BY <2>1 DEF Chosen
  <2> DEFINE T1 == WakeAll(thread, w, "RCV_TOO_LARGE")
             a == queue[q].messages
             r2 == Given(T1[u], m)
             r3 == [r EXCEPT !.at = "go", !.go = u]
             TT == [T1 EXCEPT ![u] = Given(@, m)]
  <2>3. s.T = TT /\ s.blocked = b /\ s.messages = a /\ s.taker = u
    BY <2>1 DEF Taken
  <2>4. u # t /\ u # Nil
    BY <1>6, <2>2, Names
  <2>5. thread' = [TT EXCEPT ![t] = r3]
    <3> HIDE DEF TT, s, x, r3
    <3>2. thread' = [TT EXCEPT ![t] = IF u = Nil THEN AfterSend(r)
                                        ELSE [r EXCEPT !.at = "go", !.go = u]]
      BY <1>3, <2>3
    <3> QED
      BY <2>4, <3>2 DEF r3
  <2>6. queue' = [queue EXCEPT ![q] = [messages |-> a, blocked |-> b, lock |-> Nil]]
    <3> HIDE DEF s, x, a
    <3> QED
      BY <1>3, <2>3
  <2>7. \A y \in Queues : queue'[y].messages = queue[y].messages
    BY <1>2, <1>4, <2>6
  <2>8. \A v \in Threads : SameRole(thread[v], T1[v])
    <3>1. "RCV_TOO_LARGE" \in RcvReasons /\ ToSet(w) \subseteq ToSet(queue[q].blocked)
      BY <2>2 DEF RcvReasons
    <3> QED
      BY <1>1, <1>2, <3>1, ToldRoles
  <2>9. DOMAIN T1 = Threads /\ T1[u] = thread[u]
    BY <2>2 DEF WakeAll
  <2>10. ReceivesAt(thread[u], q) /\ thread[u] \in ThreadRecord
    BY <1>1, <1>2, <1>4, <2>2 DEF Base, ReceiveLists
  <2> HIDE DEF T1
  <2>11. r2.at = "recv_wait" /\ r2.msg = m /\ r2.ipc_state = "SUCCESS"
    <3> HIDE DEF m
    <3> QED
      BY <2>9, <2>10 DEF Given, ThreadRecord, ReceivesAt
  <2>12. r3.at = "go"
    BY <1>1 DEF ThreadRecord
  <2>13. TT = [T1 EXCEPT ![u] = r2]
    BY <2>2, <2>9
  <2> HIDE DEF r2, r3, TT
  <2>14. T2[u] = r2 /\ T2[t] = r3 /\ \A v \in Threads \ {t, u} : T2[v] = T1[v]
    BY <2>2, <2>4, <2>5, <2>9, <2>13
  <2>15. Idles(r3)
    BY <2>12, IdlesIs
  <2>16. Idles(thread[u])
    BY <2>10 DEF ReceivesAt, Idles, Delivers, Holds, Handed
  <2>17. queue[q].messages = <<>>
    <3>1. l # <<>>
      <4> DEFINE e == <<>>
      <4>1. e \in Seq(Threads)
        OBVIOUS
      <4>2. ToSet(e) = {}
        BY <4>1, QueueEmpty
      <4> HIDE DEF e, l
      <4>3. l # e
        BY <2>2, <4>2
      <4> QED
        BY <4>3 DEF e
    <3> QED
      BY <1>1, <1>2, <3>1 DEF Base, Sleeping
  <2>18. Handed(r2)
    BY <2>11 DEF Handed
  <2> HIDE DEF T2
  <2>19. Handed(T2[u]) /\ T2[u].msg = m /\ Idles(T2[t])
    BY <2>11, <2>14, <2>15, <2>18
  <2>20. \A v \in Threads \ {t, u} : SameRole(thread[v], T2[v])
    BY <2>8, <2>14
  <2>21. Gives(thread, T2, queue, Q2, t, u, m)
    BY <1>2, <1>8, <2>2, <2>4, <2>7, <2>16, <2>17, <2>19, <2>20 DEF Gives
  <2> DEFINE p == kmsg[m].to
             d == <<m>>
             e == <<>>
  <2> HIDE DEF Q2
  <2>22. /\ p \in Ports /\ Chan(port, queue, thread, kmsg, p) = d /\ Chan(port, Q2, T2, kmsg, p) = e
         /\ \A y \in Ports \ {p} : Chan(port, Q2, T2, kmsg, y) = Chan(port, queue, thread, kmsg, y)
         /\ Had(T2, kmsg) = Had(thread, kmsg) \cup {m}
    BY <1>1, <2>21, GivesIs
  <2>23. d \in Seq(Msgs) /\ e \in Seq(Msgs) /\ d # <<>> /\ d \o e = d /\ ToSet(d) = {m}
    <3> HIDE DEF m
    <3> QED
      BY <1>2 DEF ToSet
  <2> HIDE DEF d, e, p, m
  <2>24. OneChan(port, queue, thread, kmsg, port', queue', thread', kmsg', p, e)
    BY <1>3, <1>9, <2>22 DEF OneChan, Q2, T2
  <2>25. Had(thread', kmsg') = Had(thread, kmsg) \cup ToSet(d)
    BY <1>3, <2>22, <2>23 DEF T2
  <2>26. Chan(port, queue, thread, kmsg, p) = d \o e
    BY <2>22, <2>23
  <2> QED
    BY <1>9, <2>22, <2>23, <2>24, <2>25, <2>26, Receiving1
<1>12. \/ s = Queues1(x, m)
       \/ \E w, bb, u, b : Chosen(l, w, bb, u, b) /\ s = Taken(x, m, w, u, b)
  <2> HIDE DEF x, l, m
  <2>1. IsInjective(x.blocked)
    BY <1>5, <1>7
  <2>2. \/ Offer(x, m) = Queues1(x, m)
        \/ \E w, bb, u, b : Chosen(x.blocked, w, bb, u, b) /\ Offer(x, m) = Taken(x, m, w, u, b)
    BY <1>7, <2>1, OfferIs
  <2> QED
    BY <1>7, <2>2
<1> QED
  BY <1>10, <1>11, <1>12

-----------------------------------------------------------------------------
(* What the user sees of the operations on sets.                           *)

\* The ports have their messages, and the threads their parts, in k2 as in k.
Unmoved(k, k2) ==
    /\ \A p \in Ports : /\ Line(k2.port, k2.queue, kmsg, p) = Line(k.port, k.queue, kmsg, p)
                        /\ k2.port[p].in_use = k.port[p].in_use
    /\ \A t \in Threads : SameRole(k.thread[t], k2.thread[t])

\* Such steps follow each other.
LEMMA UnmovedAgain ==
  ASSUME NEW k, NEW k2, NEW k3, Unmoved(k, k2), Unmoved(k2, k3)
  PROVE  Unmoved(k, k3)
<1>1. ASSUME NEW t \in Threads PROVE SameRole(k.thread[t], k3.thread[t])
  <2>1. SameRole(k.thread[t], k2.thread[t]) /\ SameRole(k2.thread[t], k3.thread[t])
    BY DEF Unmoved
  <2> QED
    BY <2>1 DEF SameRole
<1>2. ASSUME NEW p \in Ports
      PROVE  /\ Line(k3.port, k3.queue, kmsg, p) = Line(k.port, k.queue, kmsg, p)
             /\ k3.port[p].in_use = k.port[p].in_use
  BY DEF Unmoved
<1> QED
  BY <1>1, <1>2 DEF Unmoved

\* The user does not see the difference.
LEMMA UnmovedIs ==
  ASSUME NEW k, NEW k2, Unmoved(k, k2)
  PROVE  /\ \A p \in Ports : Chan(k2.port, k2.queue, k2.thread, kmsg, p)
                                = Chan(k.port, k.queue, k.thread, kmsg, p)
         /\ \A p \in Ports : k2.port[p].in_use = k.port[p].in_use
         /\ Had(k2.thread, kmsg) = Had(k.thread, kmsg)
<1>1. \A t \in Threads : SameRole(k.thread[t], k2.thread[t])
  BY DEF Unmoved
<1>2. Quiet(k.queue, k.thread, kmsg, k2.thread, kmsg)
  BY <1>1, RolesOnly
<1>3. \A p \in Ports : Added(k2.thread, kmsg, p) = Added(k.thread, kmsg, p)
  BY <1>2, SameAdded
<1>4. Had(k2.thread, kmsg) = Had(k.thread, kmsg)
  BY <1>2 DEF Quiet, Had
<1>5. \A p \in Ports : /\ Line(k2.port, k2.queue, kmsg, p) = Line(k.port, k.queue, kmsg, p)
                       /\ k2.port[p].in_use = k.port[p].in_use
  BY DEF Unmoved
<1> QED
  BY <1>3, <1>4, <1>5 DEF Chan

\* A step that leaves everything in its place.
LEMMA UnmovedMaps ==
  ASSUME NEW k, Unmoved(State, k), Becomes(k), UNCHANGED kmsg
  PROVE  [InOrder!Next]_(InOrder!vars)
<1>1. State.port = port /\ State.queue = queue /\ State.thread = thread
  BY DEF State
<1>2. port' = k.port /\ queue' = k.queue /\ thread' = k.thread /\ kmsg' = kmsg
  BY DEF Becomes
<1>3. /\ \A p \in Ports : Chan(k.port, k.queue, k.thread, kmsg, p)
                             = Chan(port, queue, thread, kmsg, p)
      /\ \A p \in Ports : k.port[p].in_use = port[p].in_use
      /\ Had(k.thread, kmsg) = Had(thread, kmsg)
  BY <1>1, UnmovedIs
<1>4. SameImage(port, queue, thread, kmsg, port', queue', thread', kmsg')
  BY <1>2, <1>3 DEF SameImage
<1> QED
  BY <1>4, Stutters

\* A message of p that leaves its set's queue is the next of p's own.
LEMMA RemovedUnmoved ==
  ASSUME NEW k, NEW k2, NEW s \in Sets, NEW p \in Ports, Fit(k), k.port[p].set = s,
         Removed(k, k2, s, p)
  PROVE  Unmoved(k, k2)
<1> DEFINE l == k.queue[s].messages
           b == Among(l, Mine(kmsg, p))
           c == Among(l, Msgs \ Mine(kmsg, p))
           e == k.queue[p].messages
<1>1. /\ k2.thread = k.thread /\ Moves(k.port, k2.port, p, Nil)
      /\ k2.queue[p].messages = e \o b /\ k2.queue[s].messages = c
      /\ \A q \in Queues \ {s, p} : k2.queue[q].messages = k.queue[q].messages
  BY DEF Removed, GivesBack
<1>2. s \in Queues /\ s # Nil /\ s # p /\ p \in Queues
  BY Names DEF Queues
<1>3. k.queue \in [Queues -> QueueRecord] /\ k.port \in [Ports -> PortRecord]
  BY WholeFields DEF Fit, Sound
<1>4. e = <<>> /\ l \in Seq(Msgs)
  <2>1. k.queue[s] \in QueueRecord
    BY <1>2, <1>3
  <2> QED
    BY <1>2, <2>1 DEF Fit, AllJoined, Joined, QueueRecord
<1>5. b \in Seq(Msgs) /\ ToSet(b) = ToSet(l) \cap Mine(kmsg, p)
  <2> HIDE DEF l
  <2> QED
    BY <1>4, AmongIs
<1>6. e \o b = b
  <2> HIDE DEF b
  <2> QED
    BY <1>4, <1>5
<1>7. ASSUME NEW x \in Ports
      PROVE  Line(k2.port, k2.queue, kmsg, x) = Line(k.port, k.queue, kmsg, x)
  <2>1. x \in Queues /\ x # s
    BY Names DEF Queues
  <2>2. CASE x = p
    <3>1. QueueOf(k2.port, x) = p /\ QueueOf(k.port, x) = s
      BY <1>1, <1>2, <2>2 DEF QueueOf, Moves
    <3>2. Line(k2.port, k2.queue, kmsg, x) = Among(b, Mine(kmsg, p))
      BY <1>1, <1>6, <2>2, <3>1 DEF Line
    <3>3. Line(k.port, k.queue, kmsg, x) = b
      BY <2>2, <3>1 DEF Line
    <3>4. ToSet(b) \subseteq Mine(kmsg, p)
      BY <1>5
    <3>5. Among(b, Mine(kmsg, p)) = b
      <4> HIDE DEF b
      <4> QED
        BY <1>5, <3>4, AmongWhole
    <3> QED
      BY <3>2, <3>3, <3>5
  <2>3. CASE x # p /\ k.port[x].set = s
    <3>1. QueueOf(k2.port, x) = s /\ QueueOf(k.port, x) = s
      BY <1>1, <1>2, <2>3 DEF QueueOf, Moves
    <3>2. Line(k2.port, k2.queue, kmsg, x) = Among(c, Mine(kmsg, x))
      BY <1>1, <3>1 DEF Line
    <3>3. Line(k.port, k.queue, kmsg, x) = Among(l, Mine(kmsg, x))
      BY <3>1 DEF Line
    <3>4. (Msgs \ Mine(kmsg, p)) \cap Mine(kmsg, x) = Mine(kmsg, x)
      BY <2>3 DEF Mine
    <3>5. Among(c, Mine(kmsg, x)) = Among(l, Mine(kmsg, x))
      <4> HIDE DEF l
      <4> QED
        BY <1>4, <3>4, AmongTwice
    <3> QED
      BY <3>2, <3>3, <3>5
  <2>4. CASE x # p /\ k.port[x].set # s
    <3>1. QueueOf(k2.port, x) = QueueOf(k.port, x) /\ QueueOf(k.port, x) \in Queues \ {s, p}
      <4>1. k2.port[x].set = k.port[x].set
        BY <1>1, <2>4 DEF Moves
      <4>2. k.port[x].set # Nil => k.port[x].set \in Sets
        BY <1>3 DEF PortRecord
      <4>3. k.port[x].set # Nil => k.port[x].set # p /\ k.port[x].set \in Queues
        BY <4>2, Names DEF Queues
      <4> QED
        BY <2>1, <2>4, <4>1, <4>3 DEF QueueOf
    <3> QED
      BY <1>1, <3>1 DEF Line
  <2> QED
    BY <2>2, <2>3, <2>4
<1>8. \A x \in Ports : k2.port[x].in_use = k.port[x].in_use
  BY <1>1 DEF Moves
<1>9. \A t \in Threads : SameRole(k.thread[t], k2.thread[t])
  BY <1>1, SameRoleIs
<1> QED
  BY <1>7, <1>8, <1>9 DEF Unmoved

\* The receivers of a queue go; its messages stay.
LEMMA ChangedUnmoved ==
  ASSUME NEW k \in Whole, NEW S, NEW q \in Queues, NEW x \in RcvReasons,
         Base(k.port, S, k.queue, k.thread, kmsg, entry, notice, dying)
  PROVE  Unmoved(k, msg_queue_changed(k, q, x))
<1> DEFINE k2 == msg_queue_changed(k, q, x)
           w == k.queue[q].blocked
<1>1. /\ k2 \in Whole /\ k2.port = k.port
      /\ Emptied(k.queue, k2.queue, q)
  BY ChangedIs
<1>2. k2.thread = WakeAll(k.thread, w, x)
  <2>1. k2 = [k EXCEPT !.thread = WakeAll(k.thread, w, x),
                       !.queue[q].blocked = <<>>]
    BY DEF msg_queue_changed
  <2> HIDE DEF k2, w
  <2> QED
    BY <2>1 DEF Whole
<1>3. \A t \in Threads : SameRole(k.thread[t], WakeAll(k.thread, w, x)[t])
  <2>1. ToSet(w) \subseteq ToSet(k.queue[q].blocked)
    OBVIOUS
  <2> QED
    BY <2>1, ToldRoles
<1> HIDE DEF k2, w
<1>4. \A t \in Threads : SameRole(k.thread[t], k2.thread[t])
  BY <1>2, <1>3
<1>5. \A p \in Ports : Line(k2.port, k2.queue, kmsg, p) = Line(k.port, k.queue, kmsg, p)
  <2>1. ASSUME NEW p \in Ports
        PROVE  Line(k2.port, k2.queue, kmsg, p) = Line(k.port, k.queue, kmsg, p)
    <3>1. QueueOf(k2.port, p) = QueueOf(k.port, p) /\ QueueOf(k.port, p) \in Queues
      BY <1>1, WholeFields, QueueOfIs DEF QueueOf
    <3> QED
      BY <1>1, <3>1 DEF Line, Emptied
  <2> QED
    BY <2>1
<1> QED
  BY <1>1, <1>4, <1>5 DEF Unmoved, k2

\* Ports and sets change only what the user does not see of them.
LEMMA LooksUnmoved ==
  ASSUME NEW k, NEW k2, k2.queue = k.queue, k2.thread = k.thread,
         \A p \in Ports : k2.port[p].set = k.port[p].set /\ k2.port[p].in_use = k.port[p].in_use
  PROVE  Unmoved(k, k2)
<1>1. \A t \in Threads : SameRole(k.thread[t], k2.thread[t])
  BY SameRoleIs
<1>2. \A p \in Ports : Line(k2.port, k2.queue, kmsg, p) = Line(k.port, k.queue, kmsg, p)
  BY DEF Line, QueueOf
<1> QED
  BY <1>1, <1>2 DEF Unmoved

\* A port leaves its set.
LEMMA LeavesUnmoved ==
  ASSUME NEW k, NEW p \in Ports, Fit(k), Free(k.port, k.queue, p)
  PROVE  Unmoved(k, LeavesSet(k, p))
<1> DEFINE s == k.port[p].set
           k2 == set_remove_member(k, s, p)
<1>1. s \in Sets \cup {Nil}
  <2>1. k.port \in [Ports -> PortRecord]
    BY WholeFields DEF Fit, Sound
  <2> QED
    BY <2>1 DEF PortRecord
<1>2. CASE s = Nil
  <2>1. LeavesSet(k, p) = k
    BY <1>2 DEF LeavesSet
  <2> QED
    BY <2>1, LooksUnmoved
<1>3. CASE s # Nil
  <2>1. k \in Whole /\ k.queue[p].blocked = <<>>
    BY <1>3 DEF Fit, Sound, AllJoined, Joined
  <2>2. s \in Sets /\ LeavesSet(k, p) = k2
    BY <1>1, <1>3 DEF LeavesSet
  <2>3. Removed(k, k2, s, p)
    BY <2>1, <2>2, RemovedIs
  <2> HIDE DEF k2
  <2>4. Unmoved(k, k2)
    BY <2>2, <2>3, RemovedUnmoved
  <2> QED
    BY <2>2, <2>4
<1> QED
  BY <1>2, <1>3

\* port_set_remove.
LEMMA SetRemoveMaps ==
  ASSUME IInv, NEW p \in Ports, port_set_remove(p)
  PROVE  [InOrder!Next]_(InOrder!vars)
<1>1. Fit(State) /\ Free(State.port, State.queue, p)
  BY StateIsFit, PortIsFree DEF port_set_remove
<1>2. Unmoved(State, LeavesSet(State, p))
  BY <1>1, LeavesUnmoved
<1>3. Becomes(LeavesSet(State, p)) /\ UNCHANGED kmsg
  BY DEF port_set_remove
<1> QED
  BY <1>2, <1>3, UnmovedMaps

-----------------------------------------------------------------------------
(* Receive rights that leave or die, and the end of a set.                 *)

\* The port without its receivers and out of its set.
LEMMA ClearedUnmoved ==
  ASSUME NEW k, NEW p \in Ports, Fit(k), Free(k.port, k.queue, p)
  PROVE  Unmoved(k, IF k.port[p].set # Nil THEN set_remove_member(k, k.port[p].set, p)
                    ELSE msg_queue_changed(k, p, "RCV_INVALID_PORT"))
<1>1. CASE k.port[p].set # Nil
  <2>1. LeavesSet(k, p) = set_remove_member(k, k.port[p].set, p)
    BY <1>1 DEF LeavesSet
  <2> QED
    BY <1>1, <2>1, LeavesUnmoved
<1>2. CASE k.port[p].set = Nil
  <2>1. p \in Queues /\ "RCV_INVALID_PORT" \in RcvReasons
    BY DEF Queues, RcvReasons
  <2>2. k \in Whole /\ Base(k.port, k.set, k.queue, k.thread, kmsg, entry, notice, dying)
    BY DEF Fit, Sound
  <2>3. Unmoved(k, msg_queue_changed(k, p, "RCV_INVALID_PORT"))
    BY <2>1, <2>2, ChangedUnmoved
  <2> QED
    BY <1>2, <2>3
<1> QED
  BY <1>1, <1>2

\* A receive right leaves in a message.
LEMMA LeavesMaps ==
  ASSUME IInv, NEW p \in Ports, RightLeaves(p)
  PROVE  [InOrder!Next]_(InOrder!vars)
<1> DEFINE k == IF port[p].set # Nil THEN set_remove_member(State, port[p].set, p)
                ELSE msg_queue_changed(State, p, "RCV_INVALID_PORT")
           pr == [k.port[p] EXCEPT !.receiver = "transit"]
           P2 == [k.port EXCEPT ![p] = pr]
           k2 == [k EXCEPT !.port = P2]
<1>1. State.port = port
  BY DEF State
<1>2. Fit(k) /\ Unmoved(State, k)
  <2>1. Fit(State) /\ Free(State.port, State.queue, p)
    BY StateIsFit, PortIsFree DEF RightLeaves
  <2> QED
    BY <1>1, <2>1, ClearedIs, ClearedUnmoved
<1>3. Becomes([k EXCEPT !.port[p].receiver = "transit"])
  BY <1>1 DEF RightLeaves, port_clear_receiver
<1> HIDE DEF k
<1>4. k.port \in [Ports -> PortRecord] /\ k.port[p] \in PortRecord /\ k \in Whole
  BY <1>2, WholeFields DEF Fit, Sound
<1>5. Becomes(k2)
  <2>1. [k EXCEPT !.port[p].receiver = "transit"] = k2
    BY <1>4 DEF Whole
  <2> HIDE DEF k2
  <2> QED
    BY <1>3, <2>1
<1>6. pr.set = k.port[p].set /\ pr.in_use = k.port[p].in_use
  BY <1>4 DEF PortRecord
<1> HIDE DEF pr
<1>7. k2.queue = k.queue /\ k2.thread = k.thread /\ k2.port = P2
  BY <1>4 DEF Whole
<1>8. \A x \in Ports : P2[x].set = k.port[x].set /\ P2[x].in_use = k.port[x].in_use
  BY <1>4, <1>6
<1> HIDE DEF k2, P2
<1>9. Unmoved(k, k2)
  BY <1>7, <1>8, LooksUnmoved
<1>10. Unmoved(State, k2)
  BY <1>2, <1>9, UnmovedAgain
<1>11. UNCHANGED kmsg
  BY DEF RightLeaves
<1> QED
  BY <1>5, <1>10, <1>11, UnmovedMaps

\* port_destroy begins: for the user, the port dies.
LEMMA DestroyMaps ==
  ASSUME IInv, NEW p \in Ports, port_destroy(p)
  PROVE  [InOrder!Next]_(InOrder!vars)
<1> DEFINE cleared == IF port[p].set # Nil THEN set_remove_member(State, port[p].set, p)
                      ELSE msg_queue_changed(State, p, "RCV_INVALID_PORT")
           k == IF port[p].receiver = "task" THEN cleared ELSE State
           pr == [k.port[p] EXCEPT !.receiver = "dead", !.in_use = FALSE]
           P2 == [k.port EXCEPT ![p] = pr]
           P1 == [k.port EXCEPT ![p] = [pr EXCEPT !.in_use = port[p].in_use]]
           k1 == [k EXCEPT !.port = P1]
<1>1. /\ State.port = port /\ State.queue = queue /\ State.thread = thread
      /\ Fit(State)
  BY StateIsFit DEF State
<1>2. Fit(k) /\ Unmoved(State, k)
  <2>1. CASE port[p].receiver = "task"
    <3>1. Free(State.port, State.queue, p)
      BY <2>1, PortIsFree DEF port_destroy
    <3>2. k = cleared
      BY <2>1
    <3>3. Fit(cleared) /\ Unmoved(State, cleared)
      BY <1>1, <3>1, ClearedIs, ClearedUnmoved
    <3> HIDE DEF cleared, k
    <3> QED
      BY <3>2, <3>3
  <2>2. CASE port[p].receiver # "task"
    <3>1. k = State
      BY <2>2
    <3> HIDE DEF k
    <3> QED
      BY <1>1, <3>1, LooksUnmoved
  <2> QED
    BY <2>1, <2>2
<1>3. Becomes([[k EXCEPT !.port[p].receiver = "dead"] EXCEPT !.port[p].in_use = FALSE])
  <2>1. CASE port[p].receiver = "task"
    <3>1. k = cleared
      BY <2>1
    <3>2. port_clear_receiver(State, p, "dead") = [cleared EXCEPT !.port[p].receiver = "dead"]
      BY <1>1 DEF port_clear_receiver
    <3> HIDE DEF cleared, k
    <3> QED
      BY <2>1, <3>1, <3>2 DEF port_destroy
  <2>2. CASE port[p].receiver # "task"
    <3>1. k = State
      BY <2>2
    <3> HIDE DEF k
    <3> QED
      BY <2>2, <3>1 DEF port_destroy
  <2> QED
    BY <2>1, <2>2
<1> HIDE DEF k
<1>4. k.port \in [Ports -> PortRecord] /\ k.port[p] \in PortRecord /\ k \in Whole
  BY <1>2, WholeFields DEF Fit, Sound
<1>5. port' = P2 /\ queue' = k.queue /\ thread' = k.thread
  <2>1. [[k EXCEPT !.port[p].receiver = "dead"] EXCEPT !.port[p].in_use = FALSE]
            = [k EXCEPT !.port = P2]
    BY <1>4 DEF Whole, PortRecord
  <2>2. Becomes([k EXCEPT !.port = P2])
    BY <1>3, <2>1
  <2> HIDE DEF P2
  <2> QED
    BY <1>4, <2>2 DEF Becomes, Whole
<1>6. pr.set = k.port[p].set /\ pr.in_use = FALSE
  BY <1>4 DEF PortRecord
<1> HIDE DEF pr
<1>7. \A x \in Ports : P2[x].set = k.port[x].set /\ (x # p => P2[x] = k.port[x])
  BY <1>4, <1>6
<1>8. P2[p].in_use = FALSE
  BY <1>4, <1>6
<1> HIDE DEF P2
<1>9. /\ \A x \in Ports : Chan(k.port, k.queue, k.thread, kmsg, x) = Chan(port, queue, thread, kmsg, x)
      /\ \A x \in Ports : k.port[x].in_use = port[x].in_use
      /\ Had(k.thread, kmsg) = Had(thread, kmsg)
  BY <1>1, <1>2, UnmovedIs
<1>10. \A x \in Ports : Chan(P2, k.queue, k.thread, kmsg, x) = Chan(k.port, k.queue, k.thread, kmsg, x)
  BY <1>7 DEF Chan, Line, QueueOf
<1>11. \A x \in Ports : P2[x].in_use <=> port[x].in_use /\ x # p
  BY <1>7, <1>8, <1>9
<1>12. kmsg' = kmsg
  BY DEF port_destroy
<1>13. /\ \A x \in Ports : /\ Chan(port', queue', thread', kmsg', x) = Chan(port, queue, thread, kmsg, x)
                           /\ port'[x].in_use <=> port[x].in_use /\ x # p
       /\ Had(thread', kmsg') = Had(thread, kmsg) /\ SameDropped(kmsg, kmsg')
  BY <1>5, <1>9, <1>10, <1>11, <1>12 DEF SameDropped
<1> QED
  BY <1>13, Dying

\* set_destroy goes on with the next member.
LEMMA GoesOnUnmoved ==
  ASSUME NEW k0, NEW k, NEW s \in Sets, NEW n, Fit(k0), Between(k0, k, s)
  PROVE  Unmoved(k, GoesOn(k, s, n))
<1>1. /\ Base(k.port, k0.set, k.queue, k.thread, kmsg, entry, notice, dying)
      /\ k \in Whole
  BY DEF Fit, Sound, Between
<1>2. k.set \in [Sets -> SetRecord]
  BY <1>1, WholeFields
<1> DEFINE S2 == [k.set EXCEPT ![s].next = Nil]
           S3 == [k.set EXCEPT ![s].traversal = n, ![s].next = n]
           k1 == [k EXCEPT !.set = S2]
           k3 == [k EXCEPT !.set = S3]
           k2 == msg_queue_changed(k1, s, "RCV_INVALID_PORT")
<1>3. CASE n = Nil
  <2>1. GoesOn(k, s, n) = k2
    BY <1>1, <1>2, <1>3 DEF GoesOn, Whole
  <2>2. S2 \in [Sets -> SetRecord]
    <3>1. [k.set[s] EXCEPT !.next = Nil] \in SetRecord
      <4>1. k.set[s] \in SetRecord
        BY <1>2
      <4> QED
        BY <4>1 DEF SetRecord
    <3>2. S2 = [k.set EXCEPT ![s] = [k.set[s] EXCEPT !.next = Nil]]
      BY <1>2
    <3> HIDE DEF S2
    <3> QED
      BY <1>2, <3>1, <3>2
  <2> HIDE DEF S2, k2
  <2>3. k1 \in Whole /\ k1.port = k.port /\ k1.queue = k.queue /\ k1.thread = k.thread
    BY <1>1, <2>2 DEF Whole
  <2> HIDE DEF k1
  <2>4. Unmoved(k, k1)
    BY <2>3, LooksUnmoved
  <2>5. s \in Queues /\ "RCV_INVALID_PORT" \in RcvReasons
    BY DEF Queues, RcvReasons
  <2>6. Base(k1.port, k0.set, k1.queue, k1.thread, kmsg, entry, notice, dying)
    BY <1>1, <2>3
  <2>7. Unmoved(k1, k2)
    BY <2>3, <2>5, <2>6, ChangedUnmoved DEF k2
  <2> QED
    BY <2>1, <2>4, <2>7, UnmovedAgain
<1>4. CASE n # Nil
  <2>1. GoesOn(k, s, n) = k3
    BY <1>1, <1>2, <1>4 DEF GoesOn, Whole
  <2> HIDE DEF S3
  <2>2. k3.port = k.port /\ k3.queue = k.queue /\ k3.thread = k.thread
    BY <1>1 DEF Whole
  <2> HIDE DEF k3
  <2> QED
    BY <2>1, <2>2, LooksUnmoved
<1> QED
  BY <1>3, <1>4

\* set_destroy begins.
LEMMA SetDestroyMaps ==
  ASSUME IInv, NEW s \in Sets, set_destroy(s)
  PROVE  [InOrder!Next]_(InOrder!vars)
<1> DEFINE k == [State EXCEPT !.set[s].in_use = FALSE]
           sr == [set[s] EXCEPT !.in_use = FALSE]
<1>1. Fit(State) /\ State \in Whole
  BY StateIsFit DEF Fit, Sound
<1>2. /\ State.port = port /\ State.set = set /\ State.queue = queue /\ State.thread = thread
      /\ State.failed = failed
  BY DEF State
<1>3. set \in [Sets -> SetRecord] /\ set[s] \in SetRecord
  BY InvParts, Exactly
<1>4. SetFits(port, set[s], queue[s], s)
  BY InvParts DEF Base, SetsFit
<1>5. sr \in SetRecord /\ ~sr.in_use /\ sr.traversal = Nil
  <2>1. set[s].traversal = Nil
    BY <1>4 DEF SetFits, set_destroy
  <2> QED
    BY <1>3, <2>1 DEF SetRecord
<1>6. k = [State EXCEPT !.set = [set EXCEPT ![s] = sr]]
  BY <1>1, <1>2, <1>3 DEF Whole
<1> HIDE DEF sr, k
<1>7. Between(State, k, s)
  <2> DEFINE S2 == [set EXCEPT ![s] = sr]
  <2>1. S2 \in [Sets -> SetRecord] /\ S2[s] = sr /\ \A x \in Sets \ {s} : S2[x] = set[x]
    BY <1>3, <1>5
  <2> HIDE DEF S2
  <2>2. k = [State EXCEPT !.set = S2]
    BY <1>6 DEF S2
  <2>3. /\ k \in Whole /\ k.port = State.port /\ k.set = S2 /\ k.queue = State.queue
        /\ k.thread = State.thread
    BY <1>1, <2>1, <2>2 DEF Whole
  <2> QED
    BY <1>2, <1>5, <2>1, <2>3 DEF Between
<1>8. PICK n \in Firsts(k, s) : Becomes(GoesOn(k, s, n))
  BY DEF set_destroy, k
<1>9. Unmoved(State, GoesOn(k, s, n))
  <2>1. Unmoved(State, k)
    BY <1>7, LooksUnmoved DEF Between
  <2>2. Unmoved(k, GoesOn(k, s, n))
    BY <1>1, <1>7, GoesOnUnmoved
  <2> QED
    BY <2>1, <2>2, UnmovedAgain
<1>10. UNCHANGED kmsg
  BY DEF set_destroy
<1> QED
  BY <1>8, <1>9, <1>10, UnmovedMaps

\* set_destroy takes out a member.
LEMMA DestroyNextMaps ==
  ASSUME IInv, NEW s \in Sets, SetDestroyNext(s)
  PROVE  [InOrder!Next]_(InOrder!vars)
<1> DEFINE p == set[s].next
           k == IF set[s].traversal = Nil
                THEN Checked(State, port[p].set # s, "set_destroy")
                ELSE set_remove_member([State EXCEPT !.set[s].traversal = Nil], s, p)
<1>1. Fit(State) /\ State \in Whole
  BY StateIsFit DEF Fit, Sound
<1>2. /\ State.port = port /\ State.set = set /\ State.queue = queue /\ State.thread = thread
      /\ State.failed = failed
  BY DEF State
<1>3. set \in [Sets -> SetRecord] /\ set[s] \in SetRecord /\ queue[p].lock = Nil /\ queue[s].lock = Nil
  BY InvParts, Exactly DEF SetDestroyNext, Unlocked
<1>4. SetFits(port, set[s], queue[s], s)
  BY InvParts DEF Base, SetsFit
<1>5. p \in Ports /\ ~set[s].in_use /\ set[s].in_use \in BOOLEAN
  BY <1>3, <1>4 DEF SetFits, SetDestroyNext, SetRecord
<1>6. Unmoved(State, k) /\ \E k0 : Fit(k0) /\ Between(k0, k, s)
  <2>1. CASE set[s].traversal = Nil
    <3>1. port[p].set # s
      BY <1>4, <2>1 DEF SetFits, SetDestroyNext
    <3>2. k = State
      BY <2>1, <3>1 DEF Checked
    <3> HIDE DEF k
    <3>3. Between(State, k, s)
      BY <1>1, <1>2, <1>5, <2>1, <3>2 DEF Between
    <3>4. Unmoved(State, k)
      BY <3>2, LooksUnmoved
    <3> QED
      BY <1>1, <3>3, <3>4
  <2>2. CASE set[s].traversal # Nil
    <3>1. set[s].traversal = p /\ port[p].set = s
      BY <1>4, <2>2 DEF SetFits
    <3> DEFINE now == [set EXCEPT ![s].traversal = Nil]
               kt == [State EXCEPT !.set[s].traversal = Nil]
    <3>2. k = set_remove_member(kt, s, p)
      BY <2>2
    <3> HIDE DEF k
    <3>3. /\ now \in [Sets -> SetRecord] /\ now[s].traversal = Nil
          /\ now[s].in_use = set[s].in_use /\ now[s].next = p
          /\ \A x \in Sets \ {s} : now[x] = set[x]
      BY <1>3 DEF SetRecord
    <3> HIDE DEF now
    <3>4. /\ kt \in Whole /\ kt.port = port /\ kt.queue = queue /\ kt.set = now
          /\ kt.thread = thread
      <4>1. kt = [State EXCEPT !.set = now]
        BY <1>1, <1>2 DEF Whole, now
      <4> HIDE DEF kt
      <4> QED
        BY <1>1, <1>2, <3>3, <4>1 DEF Whole
    <3> HIDE DEF kt
    <3>5. queue[p].blocked = <<>>
      BY <1>5, <3>1, InvParts, Names DEF AllJoined, Joined
    <3>6. Removed(kt, k, s, p)
      BY <1>5, <3>1, <3>2, <3>4, <3>5, RemovedIs
    <3>7. Removed(State, k, s, p) /\ k.set[s].traversal = Nil /\ k.set[s].in_use = set[s].in_use
          /\ k \in Whole
      BY <1>2, <3>1, <3>3, <3>4, <3>6 DEF Removed
    <3>8. State.port[p].set = s /\ State.queue[p].lock = Nil /\ State.queue[s].lock = Nil
      BY <1>2, <1>3, <3>1
    <3>9. Fit(k)
      BY <1>1, <1>5, <3>7, <3>8, RemovedKeeps
    <3>10. Between(k, k, s)
      BY <1>5, <3>7 DEF Between
    <3>11. Unmoved(State, k)
      BY <1>1, <1>5, <3>7, <3>8, RemovedUnmoved
    <3> QED
      BY <3>9, <3>10, <3>11
  <2> QED
    BY <2>1, <2>2
<1>7. PICK n \in Firsts(k, s) : Becomes(GoesOn(k, s, n))
  BY DEF SetDestroyNext
<1>8. UNCHANGED kmsg
  BY DEF SetDestroyNext
<1> HIDE DEF k
<1>9. Unmoved(State, GoesOn(k, s, n))
  <2>1. Unmoved(k, GoesOn(k, s, n))
    BY <1>6, GoesOnUnmoved
  <2> QED
    BY <1>6, <2>1, UnmovedAgain
<1> QED
  BY <1>7, <1>8, <1>9, UnmovedMaps

-----------------------------------------------------------------------------
(* The messages of a port that joins a set.                                *)

\* On the way from k, receivers of the set s have taken d, x's queue has the
\* next messages of p, and a are still in p's own queue.
Progress(k, p, s, d, a, x) ==
    /\ d \in Seq(Msgs)
    /\ k.queue[p].messages = d \o (Among(x.messages, Mine(kmsg, p)) \o a)
    /\ \A t \in Threads : \A m \in Msgs : Delivers(x.T[t], m) <=> Delivers(k.thread[t], m)
    /\ \A m \in Msgs : (\E t \in Threads : Holds(x.T[t], m)) <=>
                       (\E t \in Threads : Holds(k.thread[t], m)) \/ m \in ToSet(d)
    /\ \A y \in Ports \ {p} :
            Among(x.messages, Mine(kmsg, y)) = Among(k.queue[s].messages, Mine(kmsg, y))

\* Those who sleep at the set s, in x.
Sleepers(x, s) ==
    /\ \A u \in Threads : u \in ToSet(x.blocked) => ReceivesAt(x.T[u], s)
    /\ \A w : ToSet(w) \subseteq ToSet(x.blocked) =>
            \A u \in Threads : SameRole(x.T[u], WakeAll(x.T, w, "RCV_TOO_LARGE")[u])

\* Between two passes, with a to go.
Passing1(p, s, a, x) ==
    /\ x \in Pass /\ x.T \in [Threads -> ThreadRecord] /\ x.messages \in Seq(Msgs)
    /\ Head(a) \in Mine(kmsg, p) /\ Head(a) \in Msgs /\ Tail(a) \in Seq(Msgs)
    /\ a = <<Head(a)>> \o Tail(a) /\ a \in Seq(Msgs)
    /\ IsInjective(x.blocked) /\ (x.blocked # <<>> => x.messages = <<>>)
    /\ Sleepers(x, s)

\* What is so in such a state.
LEMMA PassIs ==
  ASSUME NEW P, NEW S, NEW Q \in [Queues -> QueueRecord], NEW p \in Ports, NEW s \in Sets,
         NEW a, NEW x, Passes(P, S, Q, p, a, s, x), a # <<>>
  PROVE  Passing1(p, s, a, x)
<1> DEFINE Q1 == With(Q, p, a, s, x)
<1>1. p \in Queues /\ s \in Queues /\ p # s
  BY Names DEF Queues
<1>2. x \in Pass /\ a \in Seq(Msgs) /\ Base(P, S, Q1, x.T, kmsg, entry, notice, dying)
  BY DEF Passes
<1>3. Q1[p].messages = a /\ Q1[s].messages = x.messages /\ Q1[s].blocked = x.blocked
  BY <1>1, <1>2, WithIs
<1> HIDE DEF Q1
<1>4. (x.blocked # <<>> => x.messages = <<>>) /\ IsInjective(x.blocked)
  BY <1>1, <1>2, <1>3 DEF Base, Sleeping, ReceiveLists
<1>5. Head(a) \in Msgs /\ Tail(a) \in Seq(Msgs) /\ a = <<Head(a)>> \o Tail(a)
  BY <1>2, HeadAndTail
<1>6. Head(a) \in Mine(kmsg, p)
  <2>1. Head(a) \in ToSet(a)
    BY <1>2, QueueTail
  <2>2. Head(a) \in ToSet(Q1[p].messages)
    BY <1>3, <2>1
  <2>3. kmsg[Head(a)].to = p
    BY <1>1, <1>2, <1>5, <2>2, QueuedIs
  <2> QED
    BY <1>5, <2>3 DEF Mine
<1>7. Sleepers(x, s)
  <2>1. \A u \in Threads : u \in ToSet(x.blocked) => ReceivesAt(x.T[u], s)
    BY <1>1, <1>2, <1>3 DEF Base, ReceiveLists
  <2>2. ASSUME NEW w, ToSet(w) \subseteq ToSet(x.blocked)
        PROVE  \A u \in Threads : SameRole(x.T[u], WakeAll(x.T, w, "RCV_TOO_LARGE")[u])
    <3>1. "RCV_TOO_LARGE" \in RcvReasons /\ ToSet(w) \subseteq ToSet(Q1[s].blocked)
      BY <1>3, <2>2 DEF RcvReasons
    <3> QED
      BY <1>1, <1>2, <3>1, ToldRoles
  <2> QED
    BY <2>1, <2>2 DEF Sleepers
<1> QED
  BY <1>2, <1>4, <1>5, <1>6, <1>7 DEF Pass, Passing1

\* A message is queued at the set.
LEMMA ProgressQueues ==
  ASSUME NEW k, NEW p \in Ports, NEW s \in Sets,
         NEW a, NEW x, Passing1(p, s, a, x),
         NEW d, Progress(k, p, s, d, a, x)
  PROVE  Progress(k, p, s, d, Tail(a), Queues1(x, Head(a)))
<1> DEFINE m == Head(a)
           c == Tail(a)
           l == x.messages
           y == Queues1(x, m)
           T1 == WakeAll(x.T, x.blocked, "RCV_TOO_LARGE")
<1>1. l \in Seq(Msgs) /\ m \in Mine(kmsg, p) /\ c \in Seq(Msgs) /\ a = <<m>> \o c
  BY DEF Passing1
<1>2. y.T = T1 /\ y.messages = Append(l, m)
  BY DEF Queues1
<1>3. \A u \in Threads : SameRole(x.T[u], T1[u])
  <2>1. ToSet(x.blocked) \subseteq ToSet(x.blocked)
    OBVIOUS
  <2> QED
    BY <2>1 DEF Passing1, Sleepers
<1> HIDE DEF T1, y
<1>4. m \in Msgs
  BY <1>1 DEF Mine
<1> HIDE DEF m, c, l
<1>5. Among(y.messages, Mine(kmsg, p)) \o c = Among(l, Mine(kmsg, p)) \o a
  <2> DEFINE b == Among(l, Mine(kmsg, p))
             one == <<m>>
  <2>1. b \in Seq(Msgs)
    BY <1>1, AmongIs
  <2>2. Among(y.messages, Mine(kmsg, p)) = Append(b, m)
    BY <1>1, <1>2, <1>4, AmongGrows
  <2> HIDE DEF b
  <2>3. Append(b, m) = b \o one /\ one \in Seq(Msgs)
    BY <1>4, <2>1
  <2> HIDE DEF one
  <2>4. (b \o one) \o c = b \o (one \o c)
    <3>1. b \in Seq(Msgs) /\ one \in Seq(Msgs) /\ c \in Seq(Msgs)
      BY <1>1, <2>1, <2>3
    <3> QED
      BY <3>1, ConcatAssociative
  <2> QED
    BY <1>1, <2>2, <2>3, <2>4 DEF one, b
<1>6. ASSUME NEW z \in Ports \ {p}
      PROVE  Among(y.messages, Mine(kmsg, z)) = Among(k.queue[s].messages, Mine(kmsg, z))
  <2>1. m \notin Mine(kmsg, z)
    BY <1>1 DEF Mine
  <2>2. Among(y.messages, Mine(kmsg, z)) = Among(l, Mine(kmsg, z))
    BY <1>1, <1>2, <1>4, <2>1, AmongGrows
  <2> QED
    BY <2>2 DEF Progress, l
<1>7. \A t \in Threads : \A n \in Msgs : Delivers(y.T[t], n) <=> Delivers(k.thread[t], n)
  BY <1>2, <1>3 DEF Progress, SameRole
<1>8. ASSUME NEW n \in Msgs
      PROVE  (\E t \in Threads : Holds(y.T[t], n)) <=>
             (\E t \in Threads : Holds(k.thread[t], n)) \/ n \in ToSet(d)
  <2>1. (\E t \in Threads : Holds(y.T[t], n)) <=> (\E t \in Threads : Holds(x.T[t], n))
    BY <1>2, <1>3 DEF SameRole
  <2> QED
    BY <2>1 DEF Progress
<1>9. d \in Seq(Msgs) /\ k.queue[p].messages = d \o (Among(y.messages, Mine(kmsg, p)) \o c)
  BY <1>5 DEF Progress, l
<1>10. Progress(k, p, s, d, c, y)
  BY <1>6, <1>7, <1>8, <1>9 DEF Progress
<1> QED
  BY <1>10 DEF c, y, m

\* What the roles are, when a receiver t has taken m and the others keep theirs.
OneTakes(T, T2, t, m) ==
    /\ \A u \in Threads \ {t} : SameRole(T[u], T2[u])
    /\ \A n \in Msgs : ~ Holds(T[t], n) /\ ~ Delivers(T[t], n) /\ ~ Delivers(T2[t], n)
    /\ \A n \in Msgs : Holds(T2[t], n) <=> n = m

\* A message is taken by a receiver of the set, whose queue is empty.
LEMMA ProgressTakes ==
  ASSUME NEW k, NEW p \in Ports, NEW s \in Sets,
         NEW a, NEW x, Passing1(p, s, a, x),
         NEW d, Progress(k, p, s, d, a, x), NEW y, NEW t \in Threads,
         y.messages = x.messages, x.messages = <<>>, OneTakes(x.T, y.T, t, Head(a))
  PROVE  Progress(k, p, s, Append(d, Head(a)), Tail(a), y)
<1> DEFINE m == Head(a)
           c == Tail(a)
           d2 == Append(d, m)
           A == Mine(kmsg, p)
<1>1. m \in A /\ c \in Seq(Msgs) /\ a = <<m>> \o c /\ a \in Seq(Msgs)
  BY DEF Passing1
<1>2. m \in Msgs /\ OneTakes(x.T, y.T, t, m)
  BY <1>1 DEF Mine
<1> HIDE DEF m, c
<1>3. d \in Seq(Msgs) /\ d2 \in Seq(Msgs) /\ ToSet(d2) = ToSet(d) \cup {m}
  BY <1>2, QueueAppend DEF Progress
<1>4. k.queue[p].messages = d2 \o (Among(y.messages, A) \o c)
  <2> DEFINE one == <<m>>
             e == <<>>
  <2>1. Among(x.messages, A) = e
    BY AmongEmpty
  <2>2. e \o a = a /\ e \o c = c
    BY <1>1
  <2>3. k.queue[p].messages = d \o (Among(x.messages, A) \o a)
    BY DEF Progress
  <2>4. k.queue[p].messages = d \o a
    <3> HIDE DEF e
    <3> QED
      BY <2>1, <2>2, <2>3
  <2>5. d2 = d \o one /\ one \in Seq(Msgs)
    BY <1>2, <1>3
  <2> HIDE DEF one, e, d2
  <2>8. d \in Seq(Msgs) /\ one \in Seq(Msgs) /\ c \in Seq(Msgs)
    BY <1>1, <1>3, <2>5
  <2>6. (d \o one) \o c = d \o (one \o c)
    BY <2>8, ConcatAssociative
  <2>7. one \o c = a
    BY <1>1 DEF one
  <2> QED
    BY <2>1, <2>2, <2>4, <2>5, <2>6, <2>7
<1> HIDE DEF d2, A
<1>5. \A z \in Ports \ {p} :
        Among(y.messages, Mine(kmsg, z)) = Among(k.queue[s].messages, Mine(kmsg, z))
  BY DEF Progress
<1>6. ASSUME NEW u \in Threads, NEW n \in Msgs
      PROVE  Delivers(y.T[u], n) <=> Delivers(k.thread[u], n)
  <2>1. Delivers(x.T[u], n) <=> Delivers(k.thread[u], n)
    BY DEF Progress
  <2>2. CASE u = t
    BY <1>2, <2>1, <2>2 DEF OneTakes
  <2>3. CASE u # t
    BY <1>2, <2>1, <2>3 DEF OneTakes, SameRole
  <2> QED
    BY <2>2, <2>3
<1>7. ASSUME NEW n \in Msgs
      PROVE  (\E u \in Threads : Holds(y.T[u], n)) <=>
             (\E u \in Threads : Holds(k.thread[u], n)) \/ n \in ToSet(d2)
  <2>1. (\E u \in Threads : Holds(x.T[u], n)) <=>
             (\E u \in Threads : Holds(k.thread[u], n)) \/ n \in ToSet(d)
    BY DEF Progress
  <2>2. (\E u \in Threads : Holds(y.T[u], n)) <=> (\E u \in Threads : Holds(x.T[u], n)) \/ n = m
    <3>1. \A u \in Threads \ {t} : Holds(y.T[u], n) <=> Holds(x.T[u], n)
      BY <1>2 DEF OneTakes, SameRole
    <3>2. ~ Holds(x.T[t], n) /\ (Holds(y.T[t], n) <=> n = m)
      BY <1>2 DEF OneTakes
    <3> QED
      BY <3>1, <3>2
  <2> QED
    BY <1>3, <2>1, <2>2
<1>8. Progress(k, p, s, d2, c, y)
  BY <1>3, <1>4, <1>5, <1>6, <1>7 DEF Progress, A
<1> QED
  BY <1>8 DEF d2, c, m

\* The receiver that takes it.
LEMMA TakerIs ==
  ASSUME NEW p, NEW s, NEW a, NEW x, Passing1(p, s, a, x), NEW m \in Msgs,
         NEW w, NEW bb, NEW t, NEW b, Chosen(x.blocked, w, bb, t, b)
  PROVE  LET o == Taken(x, m, w, t, b)
             y == [o EXCEPT !.T[t] = thread_go(@)]
         IN  y.messages = x.messages /\ OneTakes(x.T, y.T, t, m)
<1> DEFINE o == Taken(x, m, w, t, b)
           y == [o EXCEPT !.T[t] = thread_go(@)]
           T == x.T
           T1 == WakeAll(T, w, "RCV_TOO_LARGE")
           r == Given(T1[t], m)
           r2 == thread_go(r)
           T2 == [T1 EXCEPT ![t] = r2]
<1>1. t \in Threads /\ ToSet(w) \subseteq ToSet(x.blocked) /\ t \notin ToSet(w)
      /\ t \in ToSet(x.blocked)
  BY DEF Chosen
<1>2. T \in [Threads -> ThreadRecord] /\ ReceivesAt(T[t], s)
  BY <1>1 DEF Passing1, Sleepers
<1>3. T1 = [u \in Threads |-> T1[u]] /\ T1[t] = T[t]
  BY <1>1 DEF WakeAll
<1>4. \A u \in Threads : SameRole(T[u], T1[u])
  BY <1>1 DEF Passing1, Sleepers
<1>5. y.T = T2 /\ y.messages = x.messages
  <2>1. o = [T |-> [T1 EXCEPT ![t] = Given(@, m)], blocked |-> b, messages |-> x.messages, taker |-> t]
    BY DEF Taken
  <2>2. y = [T |-> [[T1 EXCEPT ![t] = Given(@, m)] EXCEPT ![t] = thread_go(@)], blocked |-> b,
             messages |-> x.messages, taker |-> t]
    BY <2>1
  <2> HIDE DEF T1, o, y
  <2>3. [[T1 EXCEPT ![t] = Given(@, m)] EXCEPT ![t] = thread_go(@)] = T2
    BY <1>1, <1>3
  <2> QED
    BY <2>2, <2>3
<1> HIDE DEF T1, o, y, T
<1>6. T[t].at = "recv_wait" /\ ~ Handed(T[t]) /\ T[t] \in ThreadRecord
  BY <1>1, <1>2 DEF ReceivesAt, Handed
<1>7. r.at = "recv_wait" /\ r.msg = m /\ r.ipc_state = "SUCCESS" /\ r \in ThreadRecord
  BY <1>3, <1>6 DEF Given, ThreadRecord
<1> HIDE DEF r
<1>8. r2.at = "recv_wait" /\ r2.msg = m /\ r2.ipc_state = "SUCCESS"
  BY <1>7, GoIs DEF Woken
<1> HIDE DEF r2
<1>9. T2[t] = r2 /\ \A u \in Threads \ {t} : T2[u] = T1[u]
  BY <1>1, <1>3
<1> HIDE DEF T2
<1>10. OneTakes(T, T2, t, m)
  BY <1>4, <1>6, <1>8, <1>9 DEF OneTakes, Holds, Delivers, Handed
<1> QED
  BY <1>5, <1>10 DEF y, o, T

\* One pass of set_add_member's loop.
LEMMA ProgressGoes ==
  ASSUME NEW k, NEW p \in Ports, NEW s \in Sets,
         NEW a, NEW x, Passing1(p, s, a, x),
         NEW d, Progress(k, p, s, d, a, x)
  PROVE  \E d2 : Progress(k, p, s, d2, Tail(a), OfferAndWake(x, Head(a)))
<1> DEFINE m == Head(a)
<1>1. x \in Pass /\ m \in Msgs /\ (x.blocked # <<>> => x.messages = <<>>) /\ IsInjective(x.blocked)
  BY DEF Passing1
<1>4. CASE Offer(x, m) = Queues1(x, m)
  <2>0. Queues1(x, m).taker = Nil
    BY DEF Queues1
  <2> HIDE DEF m
  <2>1. OfferAndWake(x, m) = Queues1(x, m)
    BY <1>4, <2>0 DEF OfferAndWake
  <2>2. Progress(k, p, s, d, Tail(a), Queues1(x, m))
    BY ProgressQueues DEF m
  <2> QED
    BY <2>1, <2>2 DEF m
<1>5. CASE \E w, bb, t, b : Chosen(x.blocked, w, bb, t, b) /\ Offer(x, m) = Taken(x, m, w, t, b)
  <2> PICK w, bb, t, b : Chosen(x.blocked, w, bb, t, b) /\ Offer(x, m) = Taken(x, m, w, t, b)
    BY <1>5
  <2> DEFINE o == Taken(x, m, w, t, b)
             y == [o EXCEPT !.T[t] = thread_go(@)]
  <2>1. o.taker = t /\ t # Nil /\ t \in Threads /\ x.blocked # <<>>
    <3>1. t \in Threads /\ t \in ToSet(x.blocked)
      BY DEF Chosen
    <3>2. ToSet(<<>>) = {}
      BY DEF ToSet
    <3> QED
      BY <3>1, <3>2, Names DEF Taken
  <2>2. OfferAndWake(x, m) = y
    <3>1. Offer(x, m) = o
      OBVIOUS
    <3> HIDE DEF o, m
    <3> QED
      BY <2>1, <3>1 DEF OfferAndWake
  <2>3. Chosen(x.blocked, w, bb, t, b)
    OBVIOUS
  <2>4. y.messages = x.messages /\ OneTakes(x.T, y.T, t, m)
    <3> HIDE DEF m
    <3> QED
      BY <1>1, <2>3, TakerIs
  <2> HIDE DEF y, o, m
  <2>5. Progress(k, p, s, Append(d, Head(a)), Tail(a), y)
    BY <1>1, <2>1, <2>4, ProgressTakes DEF m
  <2> QED
    BY <2>2, <2>5 DEF m
<1> QED
  BY <1>1, <1>4, <1>5, OfferIs

-----------------------------------------------------------------------------
(* A port joins a set: what receivers of the set take is received.         *)

\* The passes of set_add_member's loop, by induction on them.
LEMMA ProgressEnds ==
  ASSUME NEW k, NEW P, NEW p \in Ports, NEW s \in Sets, P[p].set = s,
         Base(P, k.set, k.queue, k.thread, kmsg, entry, notice, dying),
         InOwnQueue(k.queue, kmsg, p)
  PROVE  \E d : Progress(k, p, s, d, <<>>, SentAgain(k, s, p))
<1> DEFINE msgs == k.queue[p].messages
           N == Len(msgs)
           l == k.queue[s].messages
           x0 == [T |-> k.thread, blocked |-> k.queue[s].blocked, messages |-> l, taker |-> Nil]
           Rest(n) == SubSeq(msgs, n + 1, N)
<1>1. p \in Queues /\ s \in Queues /\ p # s
  BY Names DEF Queues
<1>2. k.queue \in [Queues -> QueueRecord]
  BY Exactly
<1>3. msgs \in Seq(Msgs) /\ l \in Seq(Msgs)
  <2>1. k.queue[p] \in QueueRecord /\ k.queue[s] \in QueueRecord
    BY <1>1, <1>2
  <2> QED
    BY <2>1 DEF QueueRecord
<1>4. PICK sent : SentBy(sent, k, P, p, s)
  BY SentIs
<1>5. /\ SentAgain(k, s, p) = sent[N] /\ sent[0] = x0
      /\ \A n \in 1 .. N : sent[n] = OfferAndWake(sent[n - 1], msgs[n])
      /\ \A n \in 0 .. N : Passes(P, k.set, k.queue, p, Rest(n), s, sent[n])
  BY <1>4 DEF SentBy
<1>6. N \in Nat
  BY <1>3
<1>7. Rest(0) = msgs /\ Rest(N) = <<>>
  BY <1>3
<1>8. ToSet(l) \cap Mine(kmsg, p) = {}
  <2>1. \A m \in ToSet(l) : kmsg[m].to # p
    BY <1>1 DEF InOwnQueue
  <2> QED
    BY <2>1 DEF Mine
<1>9. x0.T = k.thread /\ x0.messages = l
  OBVIOUS
<1> HIDE DEF msgs, N, l, x0
<1>10. Progress(k, p, s, <<>>, msgs, x0)
  <2> DEFINE e == <<>>
  <2>1. e \in Seq(Msgs) /\ ToSet(e) = {} /\ e \o (e \o msgs) = msgs
    BY <1>3 DEF ToSet
  <2>2. Among(l, Mine(kmsg, p)) = e
    BY <1>3, <1>8, AmongWhole
  <2> HIDE DEF e
  <2>3. k.queue[p].messages = e \o (Among(x0.messages, Mine(kmsg, p)) \o msgs)
    BY <1>9, <2>1, <2>2 DEF msgs
  <2>4. \A y \in Ports \ {p} :
          Among(x0.messages, Mine(kmsg, y)) = Among(k.queue[s].messages, Mine(kmsg, y))
    BY <1>9 DEF l
  <2>5. Progress(k, p, s, e, msgs, x0)
    BY <1>9, <2>1, <2>3, <2>4 DEF Progress
  <2> QED
    BY <2>5 DEF e
<1> DEFINE Good(n) == \E d : Progress(k, p, s, d, Rest(n), sent[n])
           A == {n \in 0 .. N : Good(n)}
<1>11. 0 \in A
  <2>1. 0 \in 0 .. N
    BY <1>6
  <2> HIDE DEF Rest
  <2> QED
    BY <1>5, <1>7, <1>10, <2>1
<1>12. ASSUME NEW n \in 0 .. N, n + 1 \in 0 .. N, n \in A PROVE n + 1 \in A
  <2>1. n + 1 \in 1 .. N /\ (n + 1) - 1 = n
    BY <1>6, <1>12
  <2>2. sent[n + 1] = OfferAndWake(sent[n], msgs[n + 1])
    BY <1>5, <2>1
  <2>3. Rest(n) # <<>> /\ Head(Rest(n)) = msgs[n + 1] /\ Tail(Rest(n)) = Rest(n + 1)
    <3>1. n + 1 \in 1 .. Len(msgs)
      BY <2>1 DEF N
    <3>2. LET c == SubSeq(msgs, n + 1, Len(msgs))
          IN  c # <<>> /\ Head(c) = msgs[n + 1] /\ Tail(c) = SubSeq(msgs, (n + 1) + 1, Len(msgs))
      BY <1>3, <3>1, RestIs
    <3> QED
      BY <3>2 DEF N
  <2>4. Passes(P, k.set, k.queue, p, Rest(n), s, sent[n])
    BY <1>5
  <2> HIDE DEF Rest
  <2>5. PICK d : Progress(k, p, s, d, Rest(n), sent[n])
    BY <1>12
  <2>6. Passing1(p, s, Rest(n), sent[n])
    BY <1>2, <2>3, <2>4, PassIs
  <2>7. \E d2 : Progress(k, p, s, d2, Tail(Rest(n)), OfferAndWake(sent[n], Head(Rest(n))))
    BY <2>5, <2>6, ProgressGoes
  <2> QED
    BY <1>12, <2>2, <2>3, <2>7
<1>13. A = 0 .. N
  <2>1. A \in SUBSET (0 .. N)
    OBVIOUS
  <2> HIDE DEF A
  <2> QED
    BY <1>6, <1>11, <1>12, <2>1, UpTo
<1>14. Good(N)
  <2>1. N \in A
    <3> HIDE DEF A
    <3> QED
      BY <1>6, <1>13
  <2> HIDE DEF Good
  <2> QED
    BY <2>1
<1> HIDE DEF Rest
<1> QED
  BY <1>5, <1>7, <1>14

\* From k to k2 the first messages of p, d, are received; c are the others.
Advances(k, k2, p, d, c) ==
    /\ d \in Seq(Msgs) /\ c \in Seq(Msgs)
    /\ Chan(k.port, k.queue, k.thread, kmsg, p) = d \o c
    /\ \A x \in Ports : /\ k2.port[x].in_use = k.port[x].in_use
                        /\ Chan(k2.port, k2.queue, k2.thread, kmsg, x)
                              = IF x = p THEN c ELSE Chan(k.port, k.queue, k.thread, kmsg, x)
    /\ Had(k2.thread, kmsg) = Had(k.thread, kmsg) \cup ToSet(d)

\* The port is in the set.
LEMMA JoinsShows ==
  ASSUME NEW k, NEW k2, NEW p \in Ports, NEW s \in Sets, Fit(k), k.port[p].set = Nil,
         k.queue[p].lock = Nil, Joins(k, k2, s, p)
  PROVE  \E d, c : Advances(k, k2, p, d, c)
<1> DEFINE r == SentAgain(k, s, p)
           msgs == k.queue[p].messages
           l == k.queue[s].messages
<1>1. p \in Queues /\ s \in Queues /\ p # s /\ s # Nil
  BY Names DEF Queues
<1>2. /\ Moves(k.port, k2.port, p, s) /\ k2.queue = With(k.queue, p, <<>>, s, r)
      /\ k2.thread = r.T /\ r \in Pass
      /\ Base(k2.port, k.set, k.queue, k.thread, kmsg, entry, notice, dying)
  BY DEF Joins
<1>3. /\ Base(k.port, k.set, k.queue, k.thread, kmsg, entry, notice, dying)
      /\ k.port \in [Ports -> PortRecord] /\ k.queue \in [Queues -> QueueRecord]
  BY WholeFields DEF Fit, Sound
<1>4. InOwnQueue(k.queue, kmsg, p)
  BY <1>3, OnlyInItsQueue
<1>5. \E d : Progress(k, p, s, d, <<>>, r)
  <2>1. k2.port[p].set = s
    BY <1>2 DEF Moves
  <2> HIDE DEF r
  <2> QED
    BY <1>2, <1>4, <2>1, ProgressEnds DEF r
<1> HIDE DEF r
<1>6. PICK d : Progress(k, p, s, d, <<>>, r)
  BY <1>5
<1> DEFINE c == Among(r.messages, Mine(kmsg, p))
<1>7. r.messages \in Seq(Msgs) /\ d \in Seq(Msgs) /\ msgs \in Seq(Msgs)
  <2>1. k.queue[p] \in QueueRecord
    BY <1>1, <1>3
  <2> QED
    BY <1>2, <1>6, <2>1 DEF Pass, Progress, QueueRecord
<1>8. c \in Seq(Msgs)
  BY <1>7, AmongIs
<1>9. msgs = d \o c
  <2>1. msgs = d \o (c \o <<>>)
    BY <1>6 DEF Progress
  <2> HIDE DEF c, msgs
  <2>2. c \o <<>> = c
    BY <1>8
  <2> QED
    BY <2>1, <2>2
<1>10. /\ k2.queue[s].messages = r.messages
       /\ \A q \in Queues \ {s, p} : k2.queue[q] = k.queue[q]
  <2> DEFINE e == <<>>
  <2>1. e \in Seq(Msgs) /\ k2.queue = With(k.queue, p, e, s, r)
    BY <1>2
  <2> HIDE DEF e
  <2> QED
    BY <1>1, <1>2, <1>3, <2>1, WithIs
<1>11. ASSUME NEW y \in Ports PROVE Added(k2.thread, kmsg, y) = Added(k.thread, kmsg, y)
  <2>1. ASSUME NEW m \in Msgs
        PROVE  (\E t \in Threads : Delivers(k2.thread[t], m)) <=> (\E t \in Threads : Delivers(k.thread[t], m))
    BY <1>2, <1>6 DEF Progress
  <2> QED
    BY <2>1 DEF Added, Mine
<1>12. Added(k.thread, kmsg, p) = {}
  <2>1. NoDelivery(k.thread, kmsg, p)
    BY <1>3, NobodyDelivers DEF Free
  <2> QED
    BY <2>1 DEF NoDelivery, Added, Mine, Delivers
<1>13. Chan(k.port, k.queue, k.thread, kmsg, p) = msgs
  <2>1. QueueOf(k.port, p) = p
    BY DEF QueueOf
  <2>2. ToSet(msgs) \subseteq Mine(kmsg, p)
    <3>1. ASSUME NEW m \in ToSet(msgs) PROVE m \in Msgs /\ kmsg[m].to = p
      BY <1>1, <1>3, <3>1, QueuedIs
    <3> QED
      BY <3>1 DEF Mine
  <2> HIDE DEF msgs
  <2>3. Among(msgs, Mine(kmsg, p)) = msgs
    BY <1>7, <2>2, AmongWhole
  <2>4. Line(k.port, k.queue, kmsg, p) = msgs
    BY <2>1, <2>3 DEF Line, msgs
  <2> QED
    BY <1>12, <2>4 DEF Chan, Extended
<1>14. Chan(k2.port, k2.queue, k2.thread, kmsg, p) = c
  <2>1. QueueOf(k2.port, p) = s
    BY <1>1, <1>2 DEF QueueOf, Moves
  <2> QED
    BY <1>10, <1>11, <1>12, <2>1 DEF Chan, Extended, Line
<1>15. ASSUME NEW y \in Ports, y # p
       PROVE  Chan(k2.port, k2.queue, k2.thread, kmsg, y) = Chan(k.port, k.queue, k.thread, kmsg, y)
  <2>1. /\ QueueOf(k2.port, y) = QueueOf(k.port, y) /\ QueueOf(k.port, y) \in Queues
        /\ QueueOf(k.port, y) # p
    <3>1. k2.port[y].set = k.port[y].set
      BY <1>2, <1>15 DEF Moves
    <3>2. k.port[y].set # Nil => k.port[y].set \in Sets
      BY <1>3 DEF PortRecord
    <3>3. y \in Queues
      BY DEF Queues
    <3> QED
      BY <1>15, <3>1, <3>2, <3>3, Names DEF QueueOf, Queues
  <2>2. Line(k2.port, k2.queue, kmsg, y) = Line(k.port, k.queue, kmsg, y)
    <3>1. CASE QueueOf(k.port, y) = s
      <4>1. Among(r.messages, Mine(kmsg, y)) = Among(k.queue[s].messages, Mine(kmsg, y))
        BY <1>6, <1>15 DEF Progress
      <4> QED
        BY <1>10, <2>1, <3>1, <4>1 DEF Line
    <3>2. CASE QueueOf(k.port, y) # s
      BY <1>10, <2>1, <3>2 DEF Line
    <3> QED
      BY <3>1, <3>2
  <2> QED
    BY <1>11, <2>2 DEF Chan
<1>16. Had(k2.thread, kmsg) = Had(k.thread, kmsg) \cup ToSet(d)
  <2>1. ASSUME NEW m \in Msgs
        PROVE  Has(k2.thread, kmsg, m) <=> Has(k.thread, kmsg, m) \/ m \in ToSet(d)
    <3>1. (\E t \in Threads : Holds(k2.thread[t], m)) <=>
          (\E t \in Threads : Holds(k.thread[t], m)) \/ m \in ToSet(d)
      BY <1>2, <1>6 DEF Progress
    <3> QED
      BY <3>1 DEF Has
  <2>2. ToSet(d) \subseteq Msgs
    BY <1>7 DEF ToSet
  <2> QED
    BY <2>1, <2>2 DEF Had
<1>17. \A x \in Ports : k2.port[x].in_use = k.port[x].in_use
  BY <1>2 DEF Moves
<1> HIDE DEF c, msgs
<1>18. Advances(k, k2, p, d, c)
  BY <1>7, <1>8, <1>9, <1>13, <1>14, <1>15, <1>16, <1>17 DEF Advances
<1> QED
  BY <1>18

\* port_set_add: out of one set and into another.
LEMMA SetAddMaps ==
  ASSUME IInv, NEW p \in Ports, NEW s \in Sets, port_set_add(p, s)
  PROVE  [InOrder!Next]_(InOrder!vars)
<1> DEFINE k == LeavesSet(State, p)
           k3 == set_add_member(k, s, p)
<1>1. Fit(State) /\ Free(State.port, State.queue, p)
  BY StateIsFit, PortIsFree DEF port_set_add
<1>2. /\ Fit(k) /\ k.port[p].set = Nil
      /\ \A y \in Ports : k.port[y].receiver = State.port[y].receiver
      /\ \A q \in Queues : k.queue[q].lock = State.queue[q].lock
      /\ \A x \in Sets : k.set[x].in_use = State.set[x].in_use
  BY <1>1, LeavesSetKeeps
<1>3. Unmoved(State, k)
  BY <1>1, LeavesUnmoved
<1>4. p \in Queues
  BY DEF Queues
<1>5. Becomes(k3) /\ kmsg' = kmsg
  BY DEF port_set_add
<1>6. k.port[p].receiver = "task" /\ k.set[s].in_use /\ k.queue[p].lock = Nil
  <2>1. State.port[p].receiver = "task" /\ State.set[s].in_use /\ State.queue[p].lock = Nil
    BY DEF State, port_set_add, PortUnlocked, Unlocked
  <2> HIDE DEF k
  <2> QED
    BY <1>2, <1>4, <2>1
<1> HIDE DEF k
<1>7. PICK k2 : Joins(k, k2, s, p)
  BY <1>2, <1>6, JoinsIs
<1>8. PICK d, c : Advances(k, k2, p, d, c)
  BY <1>2, <1>6, <1>7, JoinsShows
<1>9. Unmoved(k2, k3)
  <2>1. /\ Sound(k2) /\ k3 = msg_queue_changed(k2, p, "RCV_PORT_CHANGE")
        /\ "RCV_PORT_CHANGE" \in RcvReasons
    BY <1>7 DEF Joins, RcvReasons
  <2>2. k2 \in Whole /\ Base(k2.port, k2.set, k2.queue, k2.thread, kmsg, entry, notice, dying)
    BY <2>1 DEF Sound
  <2>3. Unmoved(k2, msg_queue_changed(k2, p, "RCV_PORT_CHANGE"))
    BY <1>4, <2>1, <2>2, ChangedUnmoved
  <2> QED
    BY <2>1, <2>3
<1> HIDE DEF k3
<1>10. State.port = port /\ State.queue = queue /\ State.thread = thread
  BY DEF State
<1>11. port' = k3.port /\ queue' = k3.queue /\ thread' = k3.thread
  BY <1>5 DEF Becomes
<1>12. /\ d \in Seq(Msgs) /\ c \in Seq(Msgs)
       /\ Chan(port, queue, thread, kmsg, p) = d \o c
       /\ \A x \in Ports : /\ k3.port[x].in_use = port[x].in_use
                           /\ Chan(k3.port, k3.queue, k3.thread, kmsg, x)
                                 = IF x = p THEN c ELSE Chan(port, queue, thread, kmsg, x)
       /\ Had(k3.thread, kmsg) = Had(thread, kmsg) \cup ToSet(d)
  <2>1. /\ \A x \in Ports : /\ Chan(k.port, k.queue, k.thread, kmsg, x) = Chan(port, queue, thread, kmsg, x)
                            /\ k.port[x].in_use = port[x].in_use
        /\ Had(k.thread, kmsg) = Had(thread, kmsg)
    BY <1>3, <1>10, UnmovedIs
  <2>2. /\ \A x \in Ports : /\ Chan(k3.port, k3.queue, k3.thread, kmsg, x)
                                  = Chan(k2.port, k2.queue, k2.thread, kmsg, x)
                            /\ k3.port[x].in_use = k2.port[x].in_use
        /\ Had(k3.thread, kmsg) = Had(k2.thread, kmsg)
    BY <1>9, UnmovedIs
  <2> QED
    BY <1>8, <2>1, <2>2 DEF Advances
<1>13. SameDropped(kmsg, kmsg')
  BY <1>5 DEF SameDropped
<1>14. CASE d = <<>>
  <2>1. ToSet(d) = {} /\ d \o c = c
    BY <1>12, <1>14 DEF ToSet
  <2>2. SameImage(port, queue, thread, kmsg, port', queue', thread', kmsg')
    BY <1>5, <1>11, <1>12, <1>13, <2>1 DEF SameImage, SameDropped
  <2> QED
    BY <2>2, Stutters
<1>15. CASE d # <<>>
  <2>1. OneChan(port, queue, thread, kmsg, port', queue', thread', kmsg', p, c)
    BY <1>5, <1>11, <1>12 DEF OneChan
  <2>2. Had(thread', kmsg') = Had(thread, kmsg) \cup ToSet(d)
    BY <1>5, <1>11, <1>12
  <2> QED
    BY <1>12, <1>13, <1>15, <2>1, <2>2, Receiving1
<1> QED
  BY <1>14, <1>15

-----------------------------------------------------------------------------
(* Every step, and the theorem.                                            *)

\* Nothing was sent to any port at the start.
LEMMA InitMaps ==
  ASSUME Init
  PROVE  InOrder!Init
<1> DEFINE e == <<>>
           i == Idle
<1>1. /\ \A p \in Ports : port[p].set = Nil /\ port[p].in_use
      /\ \A p \in Ports : queue[p].messages = e
      /\ \A t \in Threads : thread[t] = i
      /\ \A m \in Msgs : kmsg[m].at = "new"
  BY DEF Init, Queues
<1>2. Idles(i)
  BY IdleIdles
<1>3. \A ms : Among(e, ms) = e
  BY AmongEmpty
<1>4. i = Idle /\ e = <<>>
  OBVIOUS
<1> HIDE DEF e, i
<1>5. ASSUME NEW p \in Ports PROVE Chan(port, queue, thread, kmsg, p) = e
  <2>1. QueueOf(port, p) = p
    BY <1>1 DEF QueueOf
  <2>2. Line(port, queue, kmsg, p) = e
    BY <1>1, <1>3, <2>1 DEF Line
  <2>3. Added(thread, kmsg, p) = {}
    BY <1>1, <1>2 DEF Added, Idles, Mine
  <2> QED
    BY <2>2, <2>3 DEF Chan, Extended
<1>6. Had(thread, kmsg) = {}
  BY <1>1, <1>2 DEF Had, Has, Idles
<1>7. chan = [p \in Ports |-> <<>>] /\ received = {}
  BY <1>4, <1>5, <1>6, ImageIs
<1>8. {p \in Ports : port[p].in_use} = Ports /\ {m \in Msgs : kmsg[m].at = "destroyed"} = {}
  BY <1>1
<1> QED
  BY <1>7, <1>8 DEF InOrder!Init

\* The steps of a thread within msg_send, msg_receive and msg_rpc.
LEMMA ThreadStepMaps ==
  ASSUME IInv, NEW t \in Threads, ThreadStep(t)
  PROVE  [InOrder!Next]_(InOrder!vars)
<1>1. CASE SendFirst(t)
  BY <1>1, SendFirstMaps
<1>2. CASE SendAwake(t)
  BY <1>2, SendAwakeMaps
<1>3. CASE Deliver(t)
  BY <1>3, DeliverMaps
<1>4. CASE WakesReceiver(t)
  BY <1>4, WakesReceiverMaps
<1>5. CASE ReceivesReply(t)
  BY <1>5, ReplyMaps
<1>6. CASE RecvAwake(t)
  BY <1>6, RecvAwakeMaps
<1>7. CASE Account(t)
  BY <1>7, AccountMaps
<1>8. CASE SendsNotice(t)
  BY <1>8, NoticeMaps
<1> QED
  BY <1>1, <1>2, <1>3, <1>4, <1>5, <1>6, <1>7, <1>8 DEF ThreadStep

\* The steps of the destruction of a port or a set.
LEMMA DestroyStepMaps ==
  ASSUME IInv, DestroyStep
  PROVE  [InOrder!Next]_(InOrder!vars)
<1>1. CASE \E s \in Sets : SetDestroyNext(s)
  BY <1>1, DestroyNextMaps
<1>2. CASE \E p \in Ports : Drain(p)
  BY <1>2, DrainMaps
<1>3. CASE \E p \in Ports : Poke(p)
  BY <1>3, PokeMaps
<1>4. CASE \E p \in Ports : PokeGo(p)
  BY <1>4, PokeGoMaps
<1>5. CASE \E p \in Ports : DestroyRights(p)
  <2>1. PICK p \in Ports : EntryRemoved(p, Deleted) /\ UNCHANGED <<port, queue, thread>>
    BY <1>5 DEF DestroyRights
  <2> QED
    BY <2>1, EntryRemovedMaps
<1> QED
  BY <1>1, <1>2, <1>3, <1>4, <1>5 DEF DestroyStep

\* What the task that owns a port does to it.
LEMMA PortStepMaps ==
  ASSUME IInv, NEW p \in Ports,
         \/ port_set_remove(p)
         \/ RightLeaves(p)
         \/ RightArrives(p)
         \/ port_destroy(p)
         \/ DropSendRight(p)
  PROVE  [InOrder!Next]_(InOrder!vars)
<1>1. CASE port_set_remove(p)
  BY <1>1, SetRemoveMaps
<1>2. CASE RightLeaves(p)
  BY <1>2, LeavesMaps
<1>3. CASE RightArrives(p)
  BY <1>3, ArrivesMaps
<1>4. CASE port_destroy(p)
  BY <1>4, DestroyMaps
<1>5. CASE DropSendRight(p)
  <2>1. EntryRemoved(p, Gone) /\ UNCHANGED <<port, queue, thread>>
    BY <1>5 DEF DropSendRight
  <2> QED
    BY <2>1, EntryRemovedMaps
<1> QED
  BY <1>1, <1>2, <1>3, <1>4, <1>5

\* A step of the message queues is one of the channel, or none that it shows.
LEMMA NextMaps ==
  ASSUME IInv, Next
  PROVE  [InOrder!Next]_(InOrder!vars)
<1>1. CASE \E c \in MaySend : msg_send(c)
  BY <1>1, SendMaps
<1>2. CASE \E c \in MayReceive : msg_receive(c)
  BY <1>2, ReceiveMaps
<1>3. CASE \E c \in MayReply : KernelReplies(c[1], c[2], c[3])
  <2>1. PICK c \in MayReply : KernelReplies(c[1], c[2], c[3])
    BY <1>3
  <2>2. c[1] \in Threads /\ c[2] \in Msgs /\ c[3] \in Ports
    BY SendCalls
  <2> QED
    BY <2>1, <2>2, KernelRepliesMaps
<1>4. CASE \E t \in Threads : ThreadStep(t)
  BY <1>4, ThreadStepMaps
<1>5. CASE \E t \in Threads : Timeout(t)
  BY <1>5, TimeoutMaps
<1>6. CASE \E t \in Threads : Interrupt(t)
  BY <1>6, InterruptMaps
<1>7. CASE \E p \in Ports, s \in Sets : port_set_add(p, s)
  BY <1>7, SetAddMaps
<1>8. CASE \E p \in Ports : port_set_remove(p) \/ RightLeaves(p) \/ RightArrives(p)
  BY <1>8, PortStepMaps
<1>9. CASE \E c \in MayBacklog : port_set_backlog(c[1], c[2])
  <2>1. PICK c \in MayBacklog : port_set_backlog(c[1], c[2])
    BY <1>9
  <2>2. c[1] \in Ports
    BY BacklogsPositive
  <2> QED
    BY <2>1, <2>2, BacklogMaps
<1>10. CASE \E s \in Sets : set_destroy(s)
  BY <1>10, SetDestroyMaps
<1>11. CASE \E p \in Ports : port_destroy(p) \/ DropSendRight(p)
  BY <1>11, PortStepMaps
<1>12. CASE DestroyStep
  BY <1>12, DestroyStepMaps
<1> QED
  BY <1>1, <1>2, <1>3, <1>4, <1>5, <1>6, <1>7, <1>8, <1>9, <1>10, <1>11, <1>12 DEF Next

\* The messages of a port are received once each, in the order in which they
\* were accepted, and none is lost while the port is in use: through sets that
\* the port joins and leaves, replies that do not use the queue, rights that
\* move, receivers that time out and ports that die with senders waiting.
THEOREM ChannelIsImplemented ==
  ASSUME NobodyHurries
  PROVE  Spec => ImplementsChannel
<1>1. Init => InOrder!Init
  BY InitMaps
<1>2. IInv /\ [Next]_vars => [InOrder!Next]_(InOrder!vars)
  <2> SUFFICES ASSUME IInv, [Next]_vars PROVE [InOrder!Next]_(InOrder!vars)
    OBVIOUS
  <2>1. CASE Next
    BY <2>1, NextMaps
  <2>2. CASE UNCHANGED vars
    <3>1. SameImage(port, queue, thread, kmsg, port', queue', thread', kmsg')
      <4>1. port' = port /\ queue' = queue /\ thread' = thread /\ kmsg' = kmsg
        BY <2>2 DEF vars
      <4> QED
        BY <4>1 DEF SameImage
    <3> QED
      BY <3>1, Stutters
  <2> QED
    BY <2>1, <2>2
<1>3. Spec => []IInv
  BY Invariance
<1> QED
  BY <1>1, <1>2, <1>3, PTL DEF Spec, ImplementsChannel, InOrder!Spec
=============================================================================
