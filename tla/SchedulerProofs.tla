--------------------------- MODULE SchedulerProofs ---------------------------
(***************************************************************************)
(* Theorems about Scheduler, for any threads, processors and events and    *)
(* any choice of who waits, signals, stops and swaps whom.  A panic stops  *)
(* the machine, so the invariants hold as long as there was none.          *)
(***************************************************************************)
EXTENDS Scheduler, Integers, Sequences, SequencesExt, SequenceTheorems, FiniteSetTheorems,
        WellFoundedInduction, TLAPS

-----------------------------------------------------------------------------
(* Sequences as queues: what they hold, and that nothing is in one twice.  *)

\* Every set of natural numbers has a least element.
LEMMA Least ==
  ASSUME NEW T \in SUBSET Nat, T # {}
  PROVE  \E m \in T : \A k \in T : m <= k
<1> DEFINE Segments == {0 .. k : k \in T}
<1>1. IsWellFoundedOn(StrictSubsetOrdering(Nat), FiniteSubsetsOf(Nat))
  BY FS_StrictSubsetOrderingWellFounded
<1>2. Segments \subseteq FiniteSubsetsOf(Nat)
  <2>1. \A k \in T : 0 .. k \subseteq Nat /\ IsFiniteSet(0 .. k)
    BY FS_Interval
  <2> QED
    BY <2>1 DEF FiniteSubsetsOf
<1>3. Segments # {}
  OBVIOUS
<1> HIDE DEF Segments
<1>4. PICK s \in Segments :
        \A r \in Segments : ~ (<<r, s>> \in StrictSubsetOrdering(Nat))
  BY <1>1, <1>2, <1>3, WFMin
<1>5. PICK m \in T : s = 0 .. m
  BY DEF Segments
<1>6. ASSUME NEW k \in T, k < m
      PROVE  FALSE
  <2>1. 0 .. k \in Segments
    BY DEF Segments
  <2>2. 0 .. k \subseteq Nat /\ 0 .. m \subseteq Nat
    OBVIOUS
  <2>3. 0 .. k \subseteq 0 .. m /\ 0 .. k # 0 .. m
    <3>1. m \in 0 .. m /\ ~ (m \in 0 .. k)
      BY <1>6
    <3> QED
      BY <1>6, <3>1
  <2>4. <<0 .. k, 0 .. m>> \in StrictSubsetOrdering(Nat)
    BY <2>2, <2>3 DEF StrictSubsetOrdering
  <2> QED
    BY <1>4, <1>5, <2>1, <2>4
<1> QED
  BY <1>5, <1>6

\* Induction on the numbers up to N, for a set.
LEMMA UpTo ==
  ASSUME NEW N \in Nat, NEW A \in SUBSET (0 .. N), 0 \in A,
         \A n \in 0 .. N : n + 1 \in 0 .. N /\ n \in A => n + 1 \in A
  PROVE  A = 0 .. N
<1> SUFFICES ASSUME NEW n \in 0 .. N, n \notin A
             PROVE  FALSE
  OBVIOUS
<1> DEFINE T == {i \in 0 .. N : i \notin A}
<1>1. T \in SUBSET Nat /\ T # {}
  OBVIOUS
<1>2. PICK m \in T : \A k \in T : m <= k
  BY <1>1, Least
<1>3. m # 0 /\ m - 1 \in 0 .. N /\ m - 1 \notin T
  BY <1>2
<1> QED
  BY <1>3

\* What Append does to a queue.
LEMMA QueueAppend ==
  ASSUME NEW S, NEW seq \in Seq(S), NEW x \in S
  PROVE  /\ Append(seq, x) \in Seq(S)
         /\ ToSet(Append(seq, x)) = ToSet(seq) \cup {x}
         /\ IsInjective(seq) /\ x \notin ToSet(seq) => IsInjective(Append(seq, x))
<1>1. /\ Append(seq, x) \in Seq(S)
      /\ Len(Append(seq, x)) = Len(seq) + 1
      /\ \A i \in 1 .. Len(seq) : Append(seq, x)[i] = seq[i]
      /\ Append(seq, x)[Len(seq) + 1] = x
  BY AppendProperties
<1>2. Len(seq) \in Nat /\ DOMAIN seq = 1 .. Len(seq)
      /\ DOMAIN Append(seq, x) = 1 .. Len(seq) + 1
  BY <1>1, LenProperties
<1> QED
  BY <1>1, <1>2 DEF ToSet, IsInjective

\* What a new first element does to a queue.
LEMMA QueueCons ==
  ASSUME NEW S, NEW seq \in Seq(S), NEW x \in S
  PROVE  /\ <<x>> \o seq \in Seq(S)
         /\ ToSet(<<x>> \o seq) = ToSet(seq) \cup {x}
         /\ IsInjective(seq) /\ x \notin ToSet(seq) => IsInjective(<<x>> \o seq)
<1> DEFINE c == <<x>> \o seq
<1>1. Len(seq) \in Nat /\ DOMAIN seq = 1 .. Len(seq)
  BY LenProperties
<1>2. <<x>> \in Seq(S) /\ Len(<<x>>) = 1 /\ <<x>>[1] = x
  OBVIOUS
<1>3. /\ c \in Seq(S)
      /\ Len(c) = 1 + Len(seq)
      /\ \A i \in 1 .. 1 + Len(seq) : c[i] = IF i <= 1 THEN <<x>>[i] ELSE seq[i - 1]
  BY <1>2, ConcatProperties
<1>4. DOMAIN c = 1 .. Len(seq) + 1
  BY <1>1, <1>3, LenProperties
<1> HIDE DEF c
<1>5. /\ c[1] = x
      /\ \A i \in 1 .. Len(seq) : c[i + 1] = seq[i]
  BY <1>1, <1>2, <1>3
<1>6. ToSet(c) = ToSet(seq) \cup {x}
  <2>1. ASSUME NEW i \in 1 .. Len(seq) + 1 PROVE c[i] = x \/ c[i] \in ToSet(seq)
    <3>1. i = 1 \/ (i - 1 \in 1 .. Len(seq) /\ c[i] = seq[i - 1])
      <4>1. i = 1 \/ (i - 1 \in 1 .. Len(seq) /\ (i - 1) + 1 = i)
        BY <1>1
      <4> QED
        BY <1>5, <4>1
    <3> QED
      BY <1>1, <1>5, <3>1 DEF ToSet
  <2>2. ASSUME NEW i \in 1 .. Len(seq) PROVE seq[i] \in ToSet(c)
    <3>1. i + 1 \in 1 .. Len(seq) + 1
      BY <1>1
    <3> QED
      BY <1>4, <1>5, <3>1 DEF ToSet
  <2>3. x \in ToSet(c)
    BY <1>1, <1>4, <1>5 DEF ToSet
  <2> QED
    BY <1>1, <1>4, <2>1, <2>2, <2>3 DEF ToSet
<1>7. ASSUME IsInjective(seq), x \notin ToSet(seq) PROVE IsInjective(c)
  <2> SUFFICES ASSUME NEW i \in 1 .. Len(seq) + 1, NEW j \in 1 .. Len(seq) + 1, c[i] = c[j]
               PROVE  i = j
    BY <1>4 DEF IsInjective
  <2>1. \A h \in 1 .. Len(seq) + 1 : h # 1 => h - 1 \in 1 .. Len(seq) /\ c[h] = seq[h - 1]
    <3>1. \A h \in 1 .. Len(seq) + 1 : h # 1 => h - 1 \in 1 .. Len(seq) /\ (h - 1) + 1 = h
      BY <1>1
    <3> QED
      BY <1>5, <3>1
  <2>2. CASE i = 1 /\ j # 1
    BY <1>1, <1>5, <1>7, <2>1, <2>2 DEF ToSet
  <2>3. CASE i # 1 /\ j = 1
    BY <1>1, <1>5, <1>7, <2>1, <2>3 DEF ToSet
  <2>4. CASE i # 1 /\ j # 1
    <3>1. i - 1 = j - 1
      BY <1>1, <1>7, <2>1, <2>4 DEF IsInjective
    <3> QED
      BY <3>1
  <2> QED
    BY <2>2, <2>3, <2>4
<1> QED
  BY <1>3, <1>6, <1>7 DEF c

\* What Tail leaves of a queue.
LEMMA QueueTail ==
  ASSUME NEW S, NEW seq \in Seq(S), seq # <<>>
  PROVE  /\ Head(seq) \in ToSet(seq) /\ Head(seq) \in S
         /\ Tail(seq) \in Seq(S)
         /\ ToSet(Tail(seq)) \subseteq ToSet(seq)
         /\ IsInjective(seq) => /\ IsInjective(Tail(seq))
                                /\ ToSet(Tail(seq)) = ToSet(seq) \ {Head(seq)}
<1>1. /\ Len(seq) \in Nat \ {0} /\ DOMAIN seq = 1 .. Len(seq)
      /\ Tail(seq) \in Seq(S)
      /\ Len(Tail(seq)) = Len(seq) - 1
      /\ DOMAIN Tail(seq) = 1 .. Len(seq) - 1
      /\ \A i \in 1 .. Len(seq) - 1 : Tail(seq)[i] = seq[i + 1]
  BY HeadTailProperties, LenProperties, EmptySeq
<1>2. Head(seq) = seq[1] /\ seq[1] \in S
  BY <1>1
<1>3. ASSUME IsInjective(seq) PROVE IsInjective(Tail(seq))
  BY <1>1, <1>3 DEF IsInjective
<1>4. ToSet(Tail(seq)) \subseteq ToSet(seq)
  BY <1>1 DEF ToSet
<1>5. \A y \in ToSet(seq) : y = seq[1] \/ y \in ToSet(Tail(seq))
  <2> SUFFICES ASSUME NEW i \in 1 .. Len(seq), seq[i] # seq[1]
               PROVE  seq[i] \in ToSet(Tail(seq))
    BY <1>1 DEF ToSet
  <2>1. i - 1 \in 1 .. Len(seq) - 1 /\ Tail(seq)[i - 1] = seq[i]
    BY <1>1
  <2> QED
    BY <1>1, <2>1 DEF ToSet
<1>6. ASSUME IsInjective(seq) PROVE seq[1] \notin ToSet(Tail(seq))
  BY <1>1, <1>6 DEF ToSet, IsInjective
<1> QED
  BY <1>1, <1>2, <1>3, <1>4, <1>5, <1>6 DEF ToSet

\* What RemoveFirst leaves of a queue.
LEMMA QueueRemove ==
  ASSUME NEW S, NEW seq \in Seq(S), NEW x
  PROVE  /\ RemoveFirst(seq, x) \in Seq(S)
         /\ IsInjective(seq) => /\ IsInjective(RemoveFirst(seq, x))
                                /\ ToSet(RemoveFirst(seq, x)) = ToSet(seq) \ {x}
<1>1. Len(seq) \in Nat /\ DOMAIN seq = 1 .. Len(seq)
  BY LenProperties
<1>2. CASE ~ \E i \in 1 .. Len(seq) : seq[i] = x
  BY <1>1, <1>2 DEF RemoveFirst, ToSet
<1>3. CASE \E i \in 1 .. Len(seq) : seq[i] = x
  <2> DEFINE I == {i \in 1 .. Len(seq) : seq[i] = x}
             n == SelectInSeq(seq, LAMBDA v : v = x)
             a == SubSeq(seq, 1, n - 1)
             b == SubSeq(seq, n + 1, Len(seq))
             r == RemoveFirst(seq, x)
  <2>1. I \in SUBSET Nat /\ I # {}
    BY <1>1, <1>3
  <2>2. n = Min(I)
    BY <2>1 DEF SelectInSeq
  <2>3. n \in I
    BY <2>1, <2>2, Least DEF Min
  <2>4. r = a \o b
    BY <1>3 DEF RemoveFirst, RemoveAt
  <2> HIDE DEF n, r
  <2>5. /\ a \in Seq(S) /\ Len(a) = n - 1
        /\ \A i \in 1 .. n - 1 : a[i] = seq[i]
    <3>1. \A i \in 1 .. n - 1 : seq[i] \in S
      BY <1>1, <2>3, ElementOfSeq
    <3> QED
      BY <1>1, <2>3, <3>1, SubSeqProperties
  <2>6. /\ b \in Seq(S) /\ Len(b) = Len(seq) - n
        /\ \A i \in 1 .. Len(seq) - n : b[i] = seq[n + i]
    <3>1. \A i \in n + 1 .. Len(seq) : seq[i] \in S
      BY <1>1, <2>3, ElementOfSeq
    <3>2. /\ b \in Seq(S)
          /\ Len(b) = IF n + 1 <= Len(seq) THEN Len(seq) - (n + 1) + 1 ELSE 0
          /\ \A i \in 1 .. Len(seq) - (n + 1) + 1 : b[i] = seq[(n + 1) + i - 1]
      <4>1. n + 1 \in Int /\ Len(seq) \in Int
        BY <1>1, <2>3
      <4> QED
        BY <3>1, <4>1, SubSeqProperties
    <3>3. /\ Len(seq) - (n + 1) + 1 = Len(seq) - n
          /\ (IF n + 1 <= Len(seq) THEN Len(seq) - (n + 1) + 1 ELSE 0) = Len(seq) - n
          /\ \A i \in Int : (n + 1) + i - 1 = n + i
      <4>1. n \in Int /\ Len(seq) \in Int /\ n <= Len(seq)
        BY <1>1, <2>3
      <4> QED
        BY <4>1
    <3> HIDE DEF b
    <3>4. Len(b) = Len(seq) - n
      BY <3>2, <3>3
    <3>5. ASSUME NEW i \in 1 .. Len(seq) - n PROVE b[i] = seq[n + i]
      <4>1. i \in Int /\ i \in 1 .. Len(seq) - (n + 1) + 1
        BY <3>3
      <4>2. b[i] = seq[(n + 1) + i - 1] /\ (n + 1) + i - 1 = n + i
        BY <3>2, <3>3, <4>1
      <4> QED
        BY <4>2
    <3> QED
      BY <3>2, <3>4, <3>5
  <2> HIDE DEF a, b
  <2>7. /\ r \in Seq(S) /\ Len(r) = Len(seq) - 1
        /\ \A i \in 1 .. Len(seq) - 1 : r[i] = IF i <= n - 1 THEN a[i] ELSE b[i - (n - 1)]
    <3>1. /\ r \in Seq(S)
          /\ Len(r) = Len(a) + Len(b)
          /\ \A i \in 1 .. Len(a) + Len(b) : r[i] = IF i <= Len(a) THEN a[i] ELSE b[i - Len(a)]
      BY <2>4, <2>5, <2>6, ConcatProperties
    <3>2. Len(a) + Len(b) = Len(seq) - 1
      BY <1>1, <2>3, <2>5, <2>6
    <3> QED
      BY <2>5, <3>1, <3>2
  <2>8. /\ DOMAIN r = 1 .. Len(seq) - 1
        /\ \A i \in 1 .. Len(seq) - 1 : r[i] = IF i < n THEN seq[i] ELSE seq[i + 1]
    <3>1. DOMAIN r = 1 .. Len(seq) - 1
      BY <2>7, LenProperties
    <3>2. ASSUME NEW i \in 1 .. Len(seq) - 1, i < n PROVE r[i] = seq[i]
      BY <1>1, <2>3, <2>5, <2>7, <3>2
    <3>3. ASSUME NEW i \in 1 .. Len(seq) - 1, ~ (i < n) PROVE r[i] = seq[i + 1]
      <4>1. i - (n - 1) \in 1 .. Len(seq) - n /\ n + (i - (n - 1)) = i + 1
        BY <1>1, <2>3, <3>3
      <4> QED
        BY <1>1, <2>3, <2>6, <2>7, <3>3, <4>1
    <3> QED
      BY <3>1, <3>2, <3>3
  <2>9. ASSUME IsInjective(seq) PROVE IsInjective(r)
    <3> SUFFICES ASSUME NEW i \in 1 .. Len(seq) - 1, NEW j \in 1 .. Len(seq) - 1, r[i] = r[j]
                 PROVE  i = j
      BY <2>8 DEF IsInjective
    <3> QED
      BY <1>1, <2>3, <2>8, <2>9 DEF IsInjective
  <2>10. ASSUME IsInjective(seq) PROVE ToSet(r) = ToSet(seq) \ {x}
    <3>1. ASSUME NEW i \in 1 .. Len(seq) - 1 PROVE r[i] \in ToSet(seq) /\ r[i] # x
      BY <1>1, <2>3, <2>8, <2>10 DEF IsInjective, ToSet
    <3>2. ASSUME NEW i \in 1 .. Len(seq), seq[i] # x PROVE seq[i] \in ToSet(r)
      <4>1. CASE i < n
        BY <1>1, <2>3, <2>8, <4>1 DEF ToSet
      <4>2. CASE ~ (i < n)
        <5>1. i - 1 \in 1 .. Len(seq) - 1 /\ r[i - 1] = seq[i]
          BY <1>1, <2>3, <2>8, <3>2, <4>2
        <5> QED
          BY <2>8, <5>1 DEF ToSet
      <4> QED
        BY <4>1, <4>2
    <3> QED
      BY <1>1, <2>8, <3>1, <3>2 DEF ToSet
  <2> QED
    BY <2>7, <2>9, <2>10 DEF r
<1> QED
  BY <1>2, <1>3

-----------------------------------------------------------------------------
(* The inductive invariant, on kernel states as routines pass them on.     *)

Routines == {"no", "assert_wait", "thread_swapin", "thread_wakeup", "thread_continue",
             "thread_halt", "thread_swapout"}

\* A timeout under way saw the event it is to end the wait for.
Timers == {m \in TimerRecord : m.at = "clearing" => m.event # NoEvent}

Kernels ==
    [thread: [Threads -> ThreadRecord], cpu: [Processors -> CpuRecord],
     runq: SUBSET Threads, idle_queue: Seq(Processors), wait_queue: Seq(Threads),
     swapin_queue: Seq(Threads), timer: [Threads -> Timers], panicked: Routines]

\* The swapper threads' work: besides the model's two threads the one that is
\* home, its stack wired again but its state not yet changed.
Swappers == [out: SomeThread, in: SomeThread]
Settled(s) == [out |-> s.out, in |-> s.in, home |-> NoThread]

\* The threads that others may pin while they are swapped out.
Pinned == {m[2] : m \in MayMakeSwappable}

\* Where a runnable resident thread may be.
PlacesIn(k, t) ==
    (IF t \in k.runq THEN {<<"runq">>} ELSE {})
    \cup {<<"next", p>> : p \in {q \in Processors : k.cpu[q].next_thread = t}}
    \cup {<<"new", p>> : p \in {q \in Processors : k.cpu[q].new_thread = t}}
    \cup {<<"active", p>> : p \in {q \in Processors : k.cpu[q].active = t}}

Executes(k, t) == \E p \in Processors : k.cpu[p].active = t
Ready(r) == "RUN" \in r.state /\ "SWAPPED" \notin r.state

Placed(k, t) ==
    IF Ready(k.thread[t]) THEN \E w \in PlacesIn(k, t) : PlacesIn(k, t) = {w}
                          ELSE PlacesIn(k, t) = {}

\* The swap state, the swapper threads and their queue agree.
Swapping(k, s, t) ==
    LET swap == k.thread[t].swap_state
        queued == t \in ToSet(k.swapin_queue)
    IN  /\ ("SWAPPED" \in k.thread[t].state) <=> (swap \notin {"IN", "UNSWAPPABLE"} \/ s.home = t)
        /\ s.home = t => swap \in {"IN", "UNSWAPPABLE"}
        /\ (s.out = t) <=> (swap \in {"GOING_OUT", "WANT_IN"})
        /\ (swap = "COMING_IN") <=> (queued \/ s.in = t)
        /\ ~ (queued /\ s.in = t)

\* The swapin thread has been asked for a thread that can run, and for one
\* that still waits only to pin it.
AskedFor(k, s, t) ==
    LET r == k.thread[t]
        asked == r.swap_state \in {"WANT_IN", "COMING_IN"}
    IN  /\ "RUN" \in r.state /\ "SWAPPED" \in r.state => asked \/ s.home = t
        /\ asked /\ r.wait_event # NoEvent => t \in Pinned

\* A thread that waits and is runnable has not yet blocked.
Waiting(k, t) ==
    LET r == k.thread[t]
    IN  /\ t \in ToSet(k.wait_queue) <=> r.wait_event # NoEvent
        /\ r.wait_event # NoEvent => "WAIT" \in r.state
        /\ r.state \cap {"WAIT", "SUSP", "RUN"} # {}

Asserted(k, t) ==
    "RUN" \in k.thread[t].state /\ "WAIT" \in k.thread[t].state => Executes(k, t)

WaitsForSome(r, t) ==
    "WAIT" \in r.state =>
        r.wait_event # NoEvent \/ \E i \in BOOLEAN : <<t, NoEvent, i>> \in MayWait

Timing(k, t) ==
    /\ k.thread[t].timer_set <=> k.timer[t].at = "set"
    /\ k.timer[t].at = "set" => "WAIT" \in k.thread[t].state

Fine(k, s, t) ==
    /\ Placed(k, t)
    /\ Swapping(k, s, t)
    /\ AskedFor(k, s, t)
    /\ Waiting(k, t)
    /\ Asserted(k, t)
    /\ WaitsForSome(k.thread[t], t)
    /\ Timing(k, t)

\* A processor is in the idle queue exactly while it is idle, and has a thread
\* to go on with only if it was dispatched.
Idling(k) ==
    /\ IsInjective(k.idle_queue)
    /\ \A p \in Processors :
        /\ p \in ToSet(k.idle_queue) <=> k.cpu[p].state = "IDLE"
        /\ k.cpu[p].state # "DISPATCHING" => k.cpu[p].next_thread = NoThread

\* All is well but for t.
Others(k, s, t) ==
    /\ Idling(k)
    /\ IsInjective(k.wait_queue)
    /\ IsInjective(k.swapin_queue)
    /\ \A u \in Threads \ {t} : Fine(k, s, u)

Good(k, s) ==
    /\ Idling(k)
    /\ IsInjective(k.wait_queue)
    /\ IsInjective(k.swapin_queue)
    /\ \A t \in Threads : Fine(k, s, t)

KInv(k, s) ==
    /\ k \in Kernels
    /\ k.panicked = "no" => Good(k, s)

\* What a routine in progress works on.
Points == {"run", "asserted", "clear", "clear_locked", "hold", "release", "dowait",
           "dowait_sleep", "dowait_awake", "dowait_wakeup", "stop_self", "halt",
           "halt_sleep", "halt_awake", "halt_lock", "halt_failed", "halt_check",
           "halt_done", "halt_self", "halted", "swappable_sleep", "swappable_awake"}

CallRecord ==
    [at: Points, target: SomeThread, must: BOOLEAN,
     from: {"user", "suspend", "resume", "halt", "swappable"}, event: AllEvents]

CallOK(c) ==
    /\ c.at \notin {"run", "asserted", "halt_self", "halted"} => c.target \in Threads
    /\ c.at = "clear_locked" => c.event # NoEvent
    /\ c.at \in {"swappable_sleep", "swappable_awake"} => c.target \in Pinned

CallsOK == call \in [Threads -> CallRecord] /\ \A t \in Threads : CallOK(call[t])

IInv == KInv(Kernel, Settled(swapper)) /\ swapper \in Swappers /\ CallsOK

-----------------------------------------------------------------------------
(* How the invariant carries over to another kernel state.                 *)

\* As far as the invariant goes, thread u is as it was.
Alike(k, s, k2, s2, u) ==
    /\ k2.thread[u].state = k.thread[u].state
    /\ k2.thread[u].wait_event = k.thread[u].wait_event
    /\ k2.thread[u].swap_state = k.thread[u].swap_state
    /\ k2.thread[u].timer_set = k.thread[u].timer_set
    /\ k2.timer[u].at = "set" <=> k.timer[u].at = "set"
    /\ PlacesIn(k2, u) = PlacesIn(k, u)
    /\ Executes(k2, u) <=> Executes(k, u)
    /\ u \in ToSet(k2.wait_queue) <=> u \in ToSet(k.wait_queue)
    /\ u \in ToSet(k2.swapin_queue) <=> u \in ToSet(k.swapin_queue)
    /\ s2.out = u <=> s.out = u
    /\ s2.in = u <=> s.in = u
    /\ s2.home = u <=> s.home = u

LEMMA AlikeFine ==
  ASSUME NEW k, NEW s, NEW k2, NEW s2, NEW u, Alike(k, s, k2, s2, u), Fine(k, s, u)
  PROVE  Fine(k2, s2, u)
<1>1. Placed(k2, u)
  BY DEF Alike, Fine, Placed, Ready
<1>2. Swapping(k2, s2, u)
  BY DEF Alike, Fine, Swapping
<1>3. AskedFor(k2, s2, u)
  BY DEF Alike, Fine, AskedFor
<1>4. Waiting(k2, u)
  BY DEF Alike, Fine, Waiting
<1>5. Asserted(k2, u)
  BY DEF Alike, Fine, Asserted
<1>6. WaitsForSome(k2.thread[u], u)
  BY DEF Alike, Fine, WaitsForSome
<1>7. Timing(k2, u)
  BY DEF Alike, Fine, Timing
<1> QED
  BY <1>1, <1>2, <1>3, <1>4, <1>5, <1>6, <1>7 DEF Fine

LEMMA SamePlaces ==
  ASSUME NEW k, NEW k2, NEW u,
         u \in k2.runq <=> u \in k.runq,
         \A p \in Processors : /\ k2.cpu[p].next_thread = u <=> k.cpu[p].next_thread = u
                               /\ k2.cpu[p].new_thread = u <=> k.cpu[p].new_thread = u
                               /\ k2.cpu[p].active = u <=> k.cpu[p].active = u
  PROVE  PlacesIn(k2, u) = PlacesIn(k, u) /\ (Executes(k2, u) <=> Executes(k, u))
<1>1. /\ {q \in Processors : k2.cpu[q].next_thread = u} = {q \in Processors : k.cpu[q].next_thread = u}
      /\ {q \in Processors : k2.cpu[q].new_thread = u} = {q \in Processors : k.cpu[q].new_thread = u}
      /\ {q \in Processors : k2.cpu[q].active = u} = {q \in Processors : k.cpu[q].active = u}
  OBVIOUS
<1> QED
  BY <1>1 DEF PlacesIn, Executes

LEMMA GoodIs ==
  ASSUME NEW k, NEW s, NEW t \in Threads
  PROVE  Good(k, s) <=> Others(k, s, t) /\ Fine(k, s, t)
BY DEF Good, Others

LEMMA OthersStay ==
  ASSUME NEW k, NEW s, NEW k2, NEW s2, NEW t, Others(k, s, t),
         Idling(k2), IsInjective(k2.wait_queue), IsInjective(k2.swapin_queue),
         \A u \in Threads \ {t} : Alike(k, s, k2, s2, u)
  PROVE  Others(k2, s2, t)
BY AlikeFine DEF Others

LEMMA GoodStays ==
  ASSUME NEW k, NEW s, NEW k2, NEW s2, Good(k, s),
         Idling(k2), IsInjective(k2.wait_queue), IsInjective(k2.swapin_queue),
         \A u \in Threads : Alike(k, s, k2, s2, u)
  PROVE  Good(k2, s2)
BY AlikeFine DEF Good

\* k2 is k but for thread t: its record, its timer, its place in the wait
\* queue and in the swapin queue.
Kept(k, k2, t) ==
    /\ k2.cpu = k.cpu
    /\ k2.runq = k.runq
    /\ k2.idle_queue = k.idle_queue
    /\ IsInjective(k2.wait_queue)
    /\ IsInjective(k2.swapin_queue)
    /\ \A u \in Threads \ {t} :
        /\ k2.thread[u] = k.thread[u]
        /\ k2.timer[u] = k.timer[u]
        /\ u \in ToSet(k2.wait_queue) <=> u \in ToSet(k.wait_queue)
        /\ u \in ToSet(k2.swapin_queue) <=> u \in ToSet(k.swapin_queue)

\* s2 is s but for thread t.
SwapperKept(s, s2, t) ==
    \A u \in Threads \ {t} : /\ s2.out = u <=> s.out = u
                             /\ s2.in = u <=> s.in = u
                             /\ s2.home = u <=> s.home = u

LEMMA KeptOthers ==
  ASSUME NEW k, NEW k2, NEW s, NEW s2, NEW t, Kept(k, k2, t), SwapperKept(s, s2, t),
         Others(k, s, t)
  PROVE  /\ PlacesIn(k2, t) = PlacesIn(k, t)
         /\ Executes(k2, t) <=> Executes(k, t)
         /\ Others(k2, s2, t)
<1>1. \A u : PlacesIn(k2, u) = PlacesIn(k, u) /\ (Executes(k2, u) <=> Executes(k, u))
  BY SamePlaces DEF Kept
<1>2. Others(k2, s2, t)
  <2>1. \A u \in Threads \ {t} : Alike(k, s, k2, s2, u)
    BY <1>1 DEF Kept, SwapperKept, Alike
  <2>2. Idling(k2) /\ IsInjective(k2.wait_queue) /\ IsInjective(k2.swapin_queue)
    BY DEF Kept, Others, Idling
  <2> QED
    BY <2>1, <2>2, OthersStay
<1> QED
  BY <1>1, <1>2

\* k2 is k but for the record of thread t.
ThreadOnly(k, k2, t) ==
    /\ k2 \in Kernels
    /\ k2.cpu = k.cpu
    /\ k2.runq = k.runq
    /\ k2.idle_queue = k.idle_queue
    /\ k2.wait_queue = k.wait_queue
    /\ k2.swapin_queue = k.swapin_queue
    /\ k2.timer = k.timer
    /\ k2.panicked = k.panicked
    /\ \A u \in Threads \ {t} : k2.thread[u] = k.thread[u]

LEMMA OnlyOthers ==
  ASSUME NEW k, NEW k2, NEW s, NEW s2, NEW t, ThreadOnly(k, k2, t), SwapperKept(s, s2, t),
         Others(k, s, t)
  PROVE  /\ PlacesIn(k2, t) = PlacesIn(k, t)
         /\ Executes(k2, t) <=> Executes(k, t)
         /\ Others(k2, s2, t)
<1>1. Kept(k, k2, t)
  BY DEF Kept, ThreadOnly, Others
<1> QED
  BY <1>1, KeptOthers

LEMMA SetThread ==
  ASSUME NEW k \in Kernels, NEW t \in Threads, NEW r \in ThreadRecord
  PROVE  /\ ThreadOnly(k, [k EXCEPT !.thread[t] = r], t)
         /\ [k EXCEPT !.thread[t] = r].thread[t] = r
BY DEF Kernels, ThreadOnly

LEMMA KernelFields ==
  ASSUME NEW k \in Kernels
  PROVE  /\ k.thread \in [Threads -> ThreadRecord]
         /\ k.cpu \in [Processors -> CpuRecord]
         /\ k.runq \in SUBSET Threads
         /\ k.idle_queue \in Seq(Processors)
         /\ k.wait_queue \in Seq(Threads)
         /\ k.swapin_queue \in Seq(Threads)
         /\ k.timer \in [Threads -> Timers]
         /\ k.panicked \in Routines
BY DEF Kernels

LEMMA PanicKeeps ==
  ASSUME NEW k \in Kernels, NEW s, NEW routine \in Routines, routine # "no"
  PROVE  KInv(Panic(k, routine), s)
BY DEF Kernels, KInv, Panic

-----------------------------------------------------------------------------
(* thread_setrun finds a place for a thread that has none.                 *)

Lost(k, s, t) ==
    /\ Ready(k.thread[t])
    /\ PlacesIn(k, t) = {}
    /\ Swapping(k, s, t)
    /\ Waiting(k, t)
    /\ "WAIT" \notin k.thread[t].state
    /\ Timing(k, t)

LEMMA SetrunKeeps ==
  ASSUME NEW k \in Kernels, NEW s, NEW t \in Threads,
         k.panicked = "no" => Others(k, s, t) /\ Lost(k, s, t)
  PROVE  KInv(thread_setrun(k, t), s)
<1> DEFINE k2 == thread_setrun(k, t)
<1>1. CASE k.idle_queue = <<>>
  <2>1. k2 = [k EXCEPT !.runq = @ \cup {t}]
    BY <1>1 DEF thread_setrun
  <2>2. /\ k2 \in Kernels
        /\ k2.thread = k.thread /\ k2.cpu = k.cpu /\ k2.runq = k.runq \cup {t}
        /\ k2.idle_queue = k.idle_queue /\ k2.wait_queue = k.wait_queue
        /\ k2.swapin_queue = k.swapin_queue /\ k2.timer = k.timer /\ k2.panicked = k.panicked
    BY <2>1, SMTT(30) DEF Kernels
  <2> HIDE DEF k2
  <2>3. ASSUME k.panicked = "no" PROVE Good(k2, s)
    <3>1. Others(k, s, t) /\ Lost(k, s, t)
      BY <2>3
    <3>2. ASSUME NEW u \in Threads \ {t} PROVE Alike(k, s, k2, s, u)
      <4>1. PlacesIn(k2, u) = PlacesIn(k, u) /\ (Executes(k2, u) <=> Executes(k, u))
        BY <2>2, SamePlaces
      <4> QED
        BY <2>2, <4>1 DEF Alike
    <3>3. Others(k2, s, t)
      <4>1. Idling(k2) /\ IsInjective(k2.wait_queue) /\ IsInjective(k2.swapin_queue)
        BY <2>2, <3>1 DEF Others, Idling
      <4> QED
        BY <3>1, <3>2, <4>1, OthersStay
    <3>4. PlacesIn(k2, t) = {<<"runq">>}
      BY <2>2, <3>1 DEF Lost, PlacesIn
    <3>5. Fine(k2, s, t)
      BY <2>2, <3>1, <3>4 DEF Fine, Lost, Placed, Ready, Swapping, AskedFor, Waiting, Asserted,
                              WaitsForSome, Timing
    <3> QED
      BY <3>3, <3>5, GoodIs
  <2> QED
    BY <2>2, <2>3 DEF KInv, k2
<1>2. CASE k.idle_queue # <<>>
  <2> DEFINE p == Head(k.idle_queue)
             c == [k.cpu[p] EXCEPT !.next_thread = t, !.state = "DISPATCHING"]
  <2>1. /\ p \in Processors /\ p \in ToSet(k.idle_queue)
        /\ Tail(k.idle_queue) \in Seq(Processors)
        /\ IsInjective(k.idle_queue) => /\ IsInjective(Tail(k.idle_queue))
                                        /\ ToSet(Tail(k.idle_queue)) = ToSet(k.idle_queue) \ {p}
    BY <1>2, KernelFields, QueueTail
  <2>2. /\ c \in CpuRecord
        /\ c.next_thread = t /\ c.state = "DISPATCHING"
        /\ c.new_thread = k.cpu[p].new_thread /\ c.active = k.cpu[p].active
    <3>1. k.cpu[p] \in CpuRecord
      BY <2>1, KernelFields
    <3> QED
      BY <3>1 DEF CpuRecord, SomeThread
  <2>3. k2 = [k EXCEPT !.idle_queue = Tail(@), !.cpu = [@ EXCEPT ![p] = c]]
    BY <1>2 DEF thread_setrun
  <2> HIDE DEF p, c
  <2>4. /\ k2 \in Kernels
        /\ k2.thread = k.thread /\ k2.cpu = [k.cpu EXCEPT ![p] = c] /\ k2.runq = k.runq
        /\ k2.idle_queue = Tail(k.idle_queue) /\ k2.wait_queue = k.wait_queue
        /\ k2.swapin_queue = k.swapin_queue /\ k2.timer = k.timer /\ k2.panicked = k.panicked
    <3>1. [k.cpu EXCEPT ![p] = c] \in [Processors -> CpuRecord]
      BY <2>2, KernelFields
    <3> QED
      BY <2>1, <2>3, <3>1 DEF Kernels
  <2> HIDE DEF k2
  <2>5. \A q \in Processors : k2.cpu[q] = IF q = p THEN c ELSE k.cpu[q]
    BY <2>1, <2>4, KernelFields
  <2>6. ASSUME k.panicked = "no" PROVE Good(k2, s)
    <3>1. Others(k, s, t) /\ Lost(k, s, t)
      BY <2>6
    <3>2. Idling(k2) /\ k.cpu[p].next_thread = NoThread
      BY <2>1, <2>2, <2>4, <2>5, <3>1 DEF Others, Idling
    <3>3. ASSUME NEW u \in Threads \ {t} PROVE Alike(k, s, k2, s, u)
      <4>1. u # NoThread
        BY NotThreads
      <4>2. \A q \in Processors : /\ k2.cpu[q].next_thread = u <=> k.cpu[q].next_thread = u
                                  /\ k2.cpu[q].new_thread = u <=> k.cpu[q].new_thread = u
                                  /\ k2.cpu[q].active = u <=> k.cpu[q].active = u
        BY <2>2, <2>5, <3>2, <4>1
      <4>3. PlacesIn(k2, u) = PlacesIn(k, u) /\ (Executes(k2, u) <=> Executes(k, u))
        BY <2>4, <4>2, SamePlaces
      <4> QED
        BY <2>4, <4>3 DEF Alike
    <3>4. Others(k2, s, t)
      <4>1. IsInjective(k2.wait_queue) /\ IsInjective(k2.swapin_queue)
        BY <2>4, <3>1 DEF Others
      <4> QED
        BY <3>1, <3>2, <3>3, <4>1, OthersStay
    <3>5. PlacesIn(k2, t) = {<<"next", p>>}
      <4>1. t \notin k.runq
            /\ \A q \in Processors : /\ k.cpu[q].next_thread # t /\ k.cpu[q].new_thread # t
                                     /\ k.cpu[q].active # t
        BY <3>1 DEF Lost, PlacesIn
      <4>2. /\ {q \in Processors : k2.cpu[q].next_thread = t} = {p}
            /\ {q \in Processors : k2.cpu[q].new_thread = t} = {}
            /\ {q \in Processors : k2.cpu[q].active = t} = {}
        BY <2>1, <2>2, <2>5, <4>1
      <4> QED
        BY <2>4, <4>1, <4>2 DEF PlacesIn
    <3>6. Fine(k2, s, t)
      BY <2>4, <3>1, <3>5 DEF Fine, Lost, Placed, Ready, Swapping, AskedFor, Waiting, Asserted,
                              WaitsForSome, Timing
    <3> QED
      BY <3>4, <3>6, GoodIs
  <2> QED
    BY <2>4, <2>6 DEF KInv, k2
<1> QED
  BY <1>1, <1>2

-----------------------------------------------------------------------------
(* The end of a wait.                                                      *)

\* What the parts of a wakeup leave alone, and what they keep of the types.
Untouched(k, k2, t) ==
    /\ k2 \in Kernels
    /\ k2.cpu = k.cpu
    /\ k2.runq = k.runq
    /\ k2.idle_queue = k.idle_queue
    /\ k2.swapin_queue = k.swapin_queue
    /\ k2.panicked = k.panicked
    /\ k2.thread[t].state = k.thread[t].state
    /\ k2.thread[t].swap_state = k.thread[t].swap_state
    /\ k2.thread[t].interruptible = k.thread[t].interruptible
    /\ \A u \in Threads \ {t} : k2.thread[u] = k.thread[u] /\ k2.timer[u] = k.timer[u]

LEMMA UntimeoutIs ==
  ASSUME NEW k \in Kernels, NEW t \in Threads
  PROVE  LET k2 == untimeout(k, t)
         IN  /\ Untouched(k, k2, t)
             /\ k2.wait_queue = k.wait_queue
             /\ k2.thread[t].wait_event = k.thread[t].wait_event
             /\ ~ k2.thread[t].timer_set
             /\ (k.thread[t].timer_set <=> k.timer[t].at = "set") => k2.timer[t].at # "set"
<1>1. k.thread[t] \in ThreadRecord /\ k.timer[t] \in Timers
  BY KernelFields
<1>2. CASE ~ k.thread[t].timer_set
  BY <1>2 DEF untimeout, Untouched
<1>3. CASE k.thread[t].timer_set
  <2> DEFINE r == [k.thread[t] EXCEPT !.timer_set = FALSE]
             m == [k.timer[t] EXCEPT !.at = IF @ = "set" THEN "off" ELSE @]
             k2 == [k EXCEPT !.thread = [@ EXCEPT ![t] = r], !.timer = [@ EXCEPT ![t] = m]]
  <2>1. untimeout(k, t) = k2
    BY <1>3 DEF untimeout
  <2>2. /\ r \in ThreadRecord /\ r.state = k.thread[t].state /\ ~ r.timer_set
        /\ r.swap_state = k.thread[t].swap_state /\ r.wait_event = k.thread[t].wait_event
        /\ r.interruptible = k.thread[t].interruptible
    BY <1>1 DEF ThreadRecord
  <2>3. m \in Timers /\ m.at # "set"
    BY <1>1 DEF Timers, TimerRecord
  <2> HIDE DEF r, m
  <2>4. /\ k2 \in Kernels /\ k2.thread = [k.thread EXCEPT ![t] = r]
        /\ k2.timer = [k.timer EXCEPT ![t] = m]
        /\ k2.cpu = k.cpu /\ k2.runq = k.runq /\ k2.idle_queue = k.idle_queue
        /\ k2.wait_queue = k.wait_queue
        /\ k2.swapin_queue = k.swapin_queue /\ k2.panicked = k.panicked
    BY <2>2, <2>3 DEF Kernels
  <2> HIDE DEF k2
  <2>5. /\ k2.thread[t] = r /\ k2.timer[t] = m
        /\ \A u \in Threads \ {t} : k2.thread[u] = k.thread[u] /\ k2.timer[u] = k.timer[u]
    BY <2>4, KernelFields
  <2> QED
    BY <2>1, <2>2, <2>3, <2>4, <2>5 DEF Untouched
<1> QED
  BY <1>2, <1>3

LEMMA RemqueueIs ==
  ASSUME NEW k \in Kernels, NEW t \in Threads
  PROVE  LET k2 == remqueue(k, t)
         IN  /\ Untouched(k, k2, t)
             /\ k2.wait_queue = RemoveFirst(k.wait_queue, t)
             /\ k2.thread[t].wait_event = NoEvent
             /\ k2.thread[t].timer_set = k.thread[t].timer_set
             /\ k2.timer = k.timer
<1>1. k.thread[t] \in ThreadRecord
  BY KernelFields
<1> DEFINE r == [k.thread[t] EXCEPT !.wait_event = NoEvent]
           w == RemoveFirst(k.wait_queue, t)
           k2 == [k EXCEPT !.wait_queue = w, !.thread = [@ EXCEPT ![t] = r]]
<1>2. remqueue(k, t) = k2
  BY DEF remqueue
<1>3. /\ r \in ThreadRecord /\ r.state = k.thread[t].state /\ r.wait_event = NoEvent
      /\ r.swap_state = k.thread[t].swap_state /\ r.timer_set = k.thread[t].timer_set
      /\ r.interruptible = k.thread[t].interruptible
  BY <1>1 DEF ThreadRecord, AllEvents
<1>4. w \in Seq(Threads)
  BY KernelFields, QueueRemove
<1> HIDE DEF r, w
<1>5. /\ k2 \in Kernels /\ k2.thread = [k.thread EXCEPT ![t] = r]
      /\ k2.timer = k.timer /\ k2.wait_queue = w
      /\ k2.cpu = k.cpu /\ k2.runq = k.runq /\ k2.idle_queue = k.idle_queue
      /\ k2.swapin_queue = k.swapin_queue /\ k2.panicked = k.panicked
  BY <1>3, <1>4 DEF Kernels
<1> HIDE DEF k2
<1>6. k2.thread[t] = r /\ \A u \in Threads \ {t} : k2.thread[u] = k.thread[u]
  BY <1>5, KernelFields
<1> QED
  BY <1>2, <1>3, <1>5, <1>6 DEF Untouched, w

\* A thread that is out of its wait, but for its state.
Roused(k, s, t) ==
    /\ Others(k, s, t)
    /\ Placed(k, t)
    /\ Swapping(k, s, t)
    /\ AskedFor(k, s, t)
    /\ Waiting(k, t)
    /\ Asserted(k, t)
    /\ k.thread[t].wait_event = NoEvent
    /\ ~ k.thread[t].timer_set
    /\ k.timer[t].at # "set"

LEMMA UntimeoutRouses ==
  ASSUME NEW k \in Kernels, NEW s, NEW t \in Threads, Others(k, s, t), Placed(k, t),
         Swapping(k, s, t), AskedFor(k, s, t), Waiting(k, t), Asserted(k, t), Timing(k, t),
         k.thread[t].wait_event = NoEvent
  PROVE  Roused(untimeout(k, t), s, t)
<1> DEFINE k2 == untimeout(k, t)
<1>1. /\ Untouched(k, k2, t)
      /\ k2.wait_queue = k.wait_queue
      /\ k2.thread[t].wait_event = k.thread[t].wait_event
      /\ ~ k2.thread[t].timer_set
      /\ k2.timer[t].at # "set"
  BY UntimeoutIs DEF Timing
<1> HIDE DEF k2
<1>2. Kept(k, k2, t) /\ SwapperKept(s, s, t)
  BY <1>1 DEF Untouched, Kept, SwapperKept, Others
<1>3. /\ PlacesIn(k2, t) = PlacesIn(k, t) /\ (Executes(k2, t) <=> Executes(k, t))
      /\ Others(k2, s, t)
  BY <1>2, KeptOthers
<1>4. Roused(k2, s, t)
  BY <1>1, <1>3 DEF Roused, Untouched, Placed, Ready, Swapping, AskedFor, Waiting, Asserted
<1> QED
  BY <1>4 DEF k2

LEMMA RemqueueKeeps ==
  ASSUME NEW k \in Kernels, NEW s, NEW t \in Threads, Good(k, s)
  PROVE  LET k2 == remqueue(k, t)
         IN  /\ Others(k2, s, t) /\ Placed(k2, t) /\ Swapping(k2, s, t) /\ AskedFor(k2, s, t)
             /\ Waiting(k2, t) /\ Asserted(k2, t) /\ Timing(k2, t)
             /\ k2.thread[t].wait_event = NoEvent
<1> DEFINE k2 == remqueue(k, t)
<1>1. /\ Untouched(k, k2, t)
      /\ k2.wait_queue = RemoveFirst(k.wait_queue, t)
      /\ k2.thread[t].wait_event = NoEvent
      /\ k2.thread[t].timer_set = k.thread[t].timer_set
      /\ k2.timer = k.timer
  BY RemqueueIs
<1> HIDE DEF k2
<1>2. Others(k, s, t) /\ Fine(k, s, t)
  BY GoodIs
<1>3. /\ IsInjective(k2.wait_queue)
      /\ ToSet(k2.wait_queue) = ToSet(k.wait_queue) \ {t}
  BY <1>1, <1>2, KernelFields, QueueRemove DEF Others
<1>4. Kept(k, k2, t) /\ SwapperKept(s, s, t)
  BY <1>1, <1>2, <1>3 DEF Untouched, Kept, SwapperKept, Others
<1>5. /\ PlacesIn(k2, t) = PlacesIn(k, t) /\ (Executes(k2, t) <=> Executes(k, t))
      /\ Others(k2, s, t)
  BY <1>2, <1>4, KeptOthers
<1>6. Placed(k2, t) /\ Swapping(k2, s, t) /\ AskedFor(k2, s, t)
  BY <1>1, <1>2, <1>5 DEF Fine, Untouched, Placed, Ready, Swapping, AskedFor
<1>7. Waiting(k2, t) /\ Asserted(k2, t) /\ Timing(k2, t)
  BY <1>1, <1>2, <1>3, <1>5 DEF Fine, Untouched, Waiting, Asserted, Timing
<1> QED
  BY <1>1, <1>5, <1>6, <1>7 DEF k2

-----------------------------------------------------------------------------
(* Changes the invariant does not notice, and the swapin of a thread.      *)

\* Only flags, counts and results of threads change.
Quiet(k, k2) ==
    /\ k2 \in Kernels
    /\ k2.cpu = k.cpu
    /\ k2.runq = k.runq
    /\ k2.idle_queue = k.idle_queue
    /\ k2.wait_queue = k.wait_queue
    /\ k2.swapin_queue = k.swapin_queue
    /\ k2.timer = k.timer
    /\ k2.panicked = k.panicked
    /\ \A u \in Threads :
        /\ k2.thread[u].state = k.thread[u].state
        /\ k2.thread[u].wait_event = k.thread[u].wait_event
        /\ k2.thread[u].swap_state = k.thread[u].swap_state
        /\ k2.thread[u].timer_set = k.thread[u].timer_set

LEMMA QuietKeeps ==
  ASSUME NEW k, NEW k2, NEW s, KInv(k, s), Quiet(k, k2)
  PROVE  KInv(k2, s)
<1>1. ASSUME k.panicked = "no" PROVE Good(k2, s)
  <2>1. Good(k, s)
    BY <1>1 DEF KInv
  <2>2. \A u \in Threads : Alike(k, s, k2, s, u)
    <3>1. \A u : PlacesIn(k2, u) = PlacesIn(k, u) /\ (Executes(k2, u) <=> Executes(k, u))
      BY SamePlaces DEF Quiet
    <3> QED
      BY <3>1 DEF Quiet, Alike
  <2>3. Idling(k2) /\ IsInjective(k2.wait_queue) /\ IsInjective(k2.swapin_queue)
    BY <2>1 DEF Quiet, Good, Idling
  <2> QED
    BY <2>1, <2>2, <2>3, GoodStays
<1> QED
  BY <1>1 DEF KInv, Quiet

\* A record that differs from r in nothing the invariant looks at.
QuietRecord(r, r2) ==
    /\ r2 \in ThreadRecord
    /\ r2.state = r.state
    /\ r2.wait_event = r.wait_event
    /\ r2.swap_state = r.swap_state
    /\ r2.timer_set = r.timer_set

LEMMA QuietThread ==
  ASSUME NEW k \in Kernels, NEW t \in Threads, NEW r, QuietRecord(k.thread[t], r)
  PROVE  Quiet(k, [k EXCEPT !.thread[t] = r])
<1> DEFINE k2 == [k EXCEPT !.thread[t] = r]
<1>1. ThreadOnly(k, k2, t) /\ k2.thread[t] = r
  BY SetThread DEF QuietRecord
<1> HIDE DEF k2
<1>2. Quiet(k, k2)
  BY <1>1 DEF ThreadOnly, Quiet, QuietRecord
<1> QED
  BY <1>2 DEF k2

\* All is well with t but that the swapin thread may not have been asked for it.
Unasked(k, s, t) ==
    /\ Others(k, s, t)
    /\ Placed(k, t)
    /\ Swapping(k, s, t)
    /\ k.thread[t].wait_event = NoEvent \/ t \in Pinned
    /\ Waiting(k, t)
    /\ Asserted(k, t)
    /\ WaitsForSome(k.thread[t], t)
    /\ Timing(k, t)

LEMMA AskSwapinKeeps ==
  ASSUME NEW k \in Kernels, NEW s, NEW t \in Threads,
         k.panicked = "no" => Unasked(k, s, t)
  PROVE  KInv(AskSwapin(k, t), s) /\ AskSwapin(k, t).cpu = k.cpu
<1> DEFINE swap == k.thread[t].swap_state
<1>1. k.thread[t] \in ThreadRecord /\ swap \in SwapStates
  BY KernelFields DEF ThreadRecord
<1>2. CASE swap = "OUT"
  <2> DEFINE r == [k.thread[t] EXCEPT !.swap_state = "COMING_IN"]
             q == Append(k.swapin_queue, t)
             k2 == [k EXCEPT !.thread = [@ EXCEPT ![t] = r], !.swapin_queue = q]
  <2>1. AskSwapin(k, t) = k2
    BY <1>2 DEF AskSwapin
  <2>2. /\ r \in ThreadRecord /\ r.state = k.thread[t].state /\ r.swap_state = "COMING_IN"
        /\ r.wait_event = k.thread[t].wait_event /\ r.timer_set = k.thread[t].timer_set
    BY <1>1 DEF ThreadRecord, SwapStates
  <2>3. /\ q \in Seq(Threads) /\ ToSet(q) = ToSet(k.swapin_queue) \cup {t}
        /\ IsInjective(k.swapin_queue) /\ t \notin ToSet(k.swapin_queue) => IsInjective(q)
    BY KernelFields, QueueAppend
  <2> HIDE DEF r, q
  <2>4. /\ k2 \in Kernels /\ k2.thread = [k.thread EXCEPT ![t] = r]
        /\ k2.timer = k.timer /\ k2.wait_queue = k.wait_queue
        /\ k2.cpu = k.cpu /\ k2.runq = k.runq /\ k2.idle_queue = k.idle_queue
        /\ k2.swapin_queue = q /\ k2.panicked = k.panicked
    BY <2>2, <2>3 DEF Kernels
  <2> HIDE DEF k2
  <2>5. k2.thread[t] = r /\ \A u \in Threads \ {t} : k2.thread[u] = k.thread[u]
    BY <2>4, KernelFields
  <2>6. ASSUME k.panicked = "no" PROVE Good(k2, s)
    <3>1. Others(k, s, t) /\ Unasked(k, s, t)
      BY <2>6 DEF Unasked
    <3>2. t \notin ToSet(k.swapin_queue) /\ s.in # t /\ s.home # t
      BY <1>2, <3>1 DEF Unasked, Swapping
    <3>3. Kept(k, k2, t) /\ SwapperKept(s, s, t)
      BY <2>3, <2>4, <2>5, <3>1, <3>2 DEF Kept, SwapperKept, Others
    <3>4. /\ PlacesIn(k2, t) = PlacesIn(k, t) /\ (Executes(k2, t) <=> Executes(k, t))
          /\ Others(k2, s, t)
      BY <3>1, <3>3, KeptOthers
    <3>5. Placed(k2, t) /\ Waiting(k2, t) /\ Asserted(k2, t) /\ Timing(k2, t)
      BY <2>2, <2>4, <2>5, <3>1, <3>4 DEF Unasked, Placed, Ready, Waiting, Asserted, Timing
    <3>6. Swapping(k2, s, t) /\ AskedFor(k2, s, t) /\ WaitsForSome(k2.thread[t], t)
      BY <1>2, <2>2, <2>3, <2>4, <2>5, <3>1, <3>2 DEF Unasked, Swapping, AskedFor, WaitsForSome
    <3> QED
      BY <3>4, <3>5, <3>6, GoodIs DEF Fine
  <2> QED
    BY <2>1, <2>4, <2>6 DEF KInv
<1>3. CASE swap = "GOING_OUT"
  <2> DEFINE r == [k.thread[t] EXCEPT !.swap_state = "WANT_IN"]
             k2 == [k EXCEPT !.thread[t] = r]
  <2>1. AskSwapin(k, t) = k2
    BY <1>3 DEF AskSwapin
  <2>2. /\ r \in ThreadRecord /\ r.state = k.thread[t].state /\ r.swap_state = "WANT_IN"
        /\ r.wait_event = k.thread[t].wait_event /\ r.timer_set = k.thread[t].timer_set
    BY <1>1 DEF ThreadRecord, SwapStates
  <2> HIDE DEF r
  <2>3. ThreadOnly(k, k2, t) /\ k2.thread[t] = r
    BY <2>2, SetThread
  <2> HIDE DEF k2
  <2>4. ASSUME k.panicked = "no" PROVE Good(k2, s)
    <3>1. Others(k, s, t) /\ Unasked(k, s, t) /\ SwapperKept(s, s, t)
      BY <2>4 DEF Unasked, SwapperKept
    <3>2. /\ PlacesIn(k2, t) = PlacesIn(k, t) /\ (Executes(k2, t) <=> Executes(k, t))
          /\ Others(k2, s, t)
      BY <2>3, <3>1, OnlyOthers
    <3>3. Placed(k2, t) /\ Waiting(k2, t) /\ Asserted(k2, t) /\ Timing(k2, t)
      BY <2>2, <2>3, <3>1, <3>2
         DEF ThreadOnly, Unasked, Placed, Ready, Waiting, Asserted, Timing
    <3>4. Swapping(k2, s, t) /\ AskedFor(k2, s, t) /\ WaitsForSome(k2.thread[t], t)
      BY <1>3, <2>2, <2>3, <3>1 DEF ThreadOnly, Unasked, Swapping, AskedFor, WaitsForSome
    <3> QED
      BY <3>2, <3>3, <3>4, GoodIs DEF Fine
  <2> QED
    BY <2>1, <2>3, <2>4 DEF KInv, ThreadOnly
<1>4. CASE swap \in {"WANT_IN", "COMING_IN"}
  <2>1. AskSwapin(k, t) = k
    BY <1>4 DEF AskSwapin
  <2>2. ASSUME k.panicked = "no" PROVE Good(k, s)
    <3>1. Unasked(k, s, t)
      BY <2>2
    <3>2. AskedFor(k, s, t)
      BY <1>4, <3>1 DEF Unasked, AskedFor
    <3> QED
      BY <3>1, <3>2, GoodIs DEF Unasked, Fine
  <2> QED
    BY <2>1, <2>2 DEF KInv
<1>5. CASE swap \in {"IN", "UNSWAPPABLE"}
  <2>1. AskSwapin(k, t) = Panic(k, "thread_swapin")
    BY <1>5 DEF AskSwapin
  <2>2. KInv(Panic(k, "thread_swapin"), s)
    BY PanicKeeps DEF Routines
  <2>3. Panic(k, "thread_swapin").cpu = k.cpu
    BY DEF Panic, Kernels
  <2> QED
    BY <2>1, <2>2, <2>3
<1> QED
  BY <1>1, <1>2, <1>3, <1>4, <1>5 DEF SwapStates

LEMMA SwapinKeeps ==
  ASSUME NEW k \in Kernels, NEW s, NEW t \in Threads, NEW pin \in BOOLEAN,
         k.panicked = "no" => Unasked(k, s, t)
  PROVE  KInv(thread_swapin(k, t, pin), s) /\ thread_swapin(k, t, pin).cpu = k.cpu
<1> DEFINE asked == AskSwapin(k, t)
           r == [asked.thread[t] EXCEPT !.make_unswappable = TRUE]
<1>1. KInv(asked, s) /\ asked.cpu = k.cpu
  BY AskSwapinKeeps
<1>2. thread_swapin(k, t, pin) = asked \/ thread_swapin(k, t, pin) = [asked EXCEPT !.thread[t] = r]
  BY DEF thread_swapin
<1>3. asked \in Kernels
  BY <1>1 DEF KInv
<1> HIDE DEF asked
<1>4. QuietRecord(asked.thread[t], r)
  <2>1. asked.thread[t] \in ThreadRecord
    BY <1>3, KernelFields
  <2> QED
    BY <2>1 DEF QuietRecord, ThreadRecord
<1> HIDE DEF r
<1>5. Quiet(asked, [asked EXCEPT !.thread[t] = r])
  BY <1>3, <1>4, QuietThread
<1>6. KInv([asked EXCEPT !.thread[t] = r], s)
  BY <1>1, <1>5, QuietKeeps
<1>7. [asked EXCEPT !.thread[t] = r].cpu = asked.cpu
  BY <1>5 DEF Quiet
<1> QED
  BY <1>1, <1>2, <1>6, <1>7

-----------------------------------------------------------------------------
(* A thread's state changes once it is out of its wait.                    *)

\* k2 is k with t in another state; the flags, counts and results may differ.
Restates(k, k2, t, bits) ==
    /\ ThreadOnly(k, k2, t)
    /\ k2.thread[t].state = bits
    /\ k2.thread[t].wait_event = k.thread[t].wait_event
    /\ k2.thread[t].swap_state = k.thread[t].swap_state
    /\ k2.thread[t].timer_set = k.thread[t].timer_set

LEMMA SetState ==
  ASSUME NEW k \in Kernels, NEW t \in Threads, NEW bits \in SUBSET StateBits
  PROVE  Restates(k, [k EXCEPT !.thread[t].state = bits], t, bits)
<1> DEFINE r == [k.thread[t] EXCEPT !.state = bits]
           k2 == [k EXCEPT !.thread[t] = r]
<1>1. k.thread[t] \in ThreadRecord
  BY KernelFields
<1>2. /\ r \in ThreadRecord /\ r.state = bits /\ r.wait_event = k.thread[t].wait_event
      /\ r.swap_state = k.thread[t].swap_state /\ r.timer_set = k.thread[t].timer_set
  BY <1>1 DEF ThreadRecord
<1> HIDE DEF r
<1>3. ThreadOnly(k, k2, t) /\ k2.thread[t] = r
  BY <1>2, SetThread
<1> HIDE DEF k2
<1>4. Restates(k, k2, t, bits)
  BY <1>2, <1>3 DEF Restates
<1> QED
  BY <1>4 DEF k2, r

LEMMA SetQuietly ==
  ASSUME NEW k \in Kernels, NEW t \in Threads, NEW r, QuietRecord(k.thread[t], r)
  PROVE  Restates(k, [k EXCEPT !.thread[t] = r], t, k.thread[t].state)
<1> DEFINE k2 == [k EXCEPT !.thread[t] = r]
<1>1. ThreadOnly(k, k2, t) /\ k2.thread[t] = r
  BY SetThread DEF QuietRecord
<1> HIDE DEF k2
<1>2. Restates(k, k2, t, k.thread[t].state)
  BY <1>1 DEF Restates, QuietRecord
<1> QED
  BY <1>2 DEF k2

LEMMA RestatesAgain ==
  ASSUME NEW k, NEW k2, NEW k3, NEW t, NEW bits, NEW bits2,
         Restates(k, k2, t, bits), Restates(k2, k3, t, bits2)
  PROVE  Restates(k, k3, t, bits2)
BY DEF Restates, ThreadOnly

\* A thread that does not wait is as good as roused.
LEMMA NotWaiting ==
  ASSUME NEW k, NEW s, NEW t \in Threads, Good(k, s), "WAIT" \notin k.thread[t].state
  PROVE  Roused(k, s, t)
<1>1. Others(k, s, t) /\ Fine(k, s, t)
  BY GoodIs
<1> QED
  BY <1>1 DEF Fine, Roused, Waiting, Timing

\* Such a thread may keep its readiness to run, ...
LEMMA RousedRests ==
  ASSUME NEW k \in Kernels, NEW s, NEW t \in Threads, NEW k2, NEW bits,
         Restates(k, k2, t, bits),
         "RUN" \in bits <=> "RUN" \in k.thread[t].state,
         "SWAPPED" \in bits <=> "SWAPPED" \in k.thread[t].state,
         "WAIT" \notin bits, "RUN" \in bits \/ "SUSP" \in bits,
         k.panicked = "no" => Roused(k, s, t)
  PROVE  KInv(k2, s)
<1>1. k2 \in Kernels /\ k2.panicked = k.panicked
  BY DEF Restates, ThreadOnly
<1>2. ASSUME k.panicked = "no" PROVE Good(k2, s)
  <2>1. Roused(k, s, t) /\ Others(k, s, t) /\ SwapperKept(s, s, t)
    BY <1>2 DEF Roused, SwapperKept
  <2>2. /\ PlacesIn(k2, t) = PlacesIn(k, t) /\ (Executes(k2, t) <=> Executes(k, t))
        /\ Others(k2, s, t)
    BY <2>1, OnlyOthers DEF Restates
  <2>3. Placed(k2, t) /\ Waiting(k2, t) /\ Asserted(k2, t) /\ Timing(k2, t)
    BY <2>1, <2>2 DEF Restates, ThreadOnly, Roused, Placed, Ready, Waiting, Asserted, Timing
  <2>4. Swapping(k2, s, t) /\ AskedFor(k2, s, t) /\ WaitsForSome(k2.thread[t], t)
    BY <2>1 DEF Restates, ThreadOnly, Roused, Swapping, AskedFor, WaitsForSome
  <2> QED
    BY <2>2, <2>3, <2>4, GoodIs DEF Fine
<1> QED
  BY <1>1, <1>2 DEF KInv

\* ... be made to run, ...
LEMMA RousedRuns ==
  ASSUME NEW k \in Kernels, NEW s, NEW t \in Threads, NEW k2, NEW bits,
         Restates(k, k2, t, bits),
         "RUN" \in bits, "SWAPPED" \notin bits, "WAIT" \notin bits,
         "RUN" \notin k.thread[t].state, "SWAPPED" \notin k.thread[t].state,
         k.panicked = "no" => Roused(k, s, t)
  PROVE  KInv(thread_setrun(k2, t), s)
<1>1. k2 \in Kernels /\ k2.panicked = k.panicked
  BY DEF Restates, ThreadOnly
<1>2. ASSUME k.panicked = "no" PROVE Others(k2, s, t) /\ Lost(k2, s, t)
  <2>1. Roused(k, s, t) /\ Others(k, s, t) /\ SwapperKept(s, s, t)
    BY <1>2 DEF Roused, SwapperKept
  <2>2. /\ PlacesIn(k2, t) = PlacesIn(k, t)
        /\ Others(k2, s, t)
    BY <2>1, OnlyOthers DEF Restates
  <2>3. PlacesIn(k2, t) = {} /\ Ready(k2.thread[t])
    BY <2>1, <2>2 DEF Restates, Roused, Placed, Ready
  <2>4. Waiting(k2, t) /\ Timing(k2, t) /\ Swapping(k2, s, t) /\ "WAIT" \notin k2.thread[t].state
    BY <2>1 DEF Restates, ThreadOnly, Roused, Waiting, Timing, Swapping
  <2> QED
    BY <2>2, <2>3, <2>4 DEF Lost
<1> QED
  BY <1>1, <1>2, SetrunKeeps

\* ... or be asked for, if it is swapped out.
LEMMA RousedComesIn ==
  ASSUME NEW k \in Kernels, NEW s, NEW t \in Threads, NEW k2, NEW bits,
         Restates(k, k2, t, bits),
         "RUN" \in bits, "SWAPPED" \in bits, "WAIT" \notin bits,
         "RUN" \notin k.thread[t].state, "SWAPPED" \in k.thread[t].state,
         k.panicked = "no" => Roused(k, s, t)
  PROVE  KInv(thread_swapin(k2, t, FALSE), s)
<1>1. k2 \in Kernels /\ k2.panicked = k.panicked
  BY DEF Restates, ThreadOnly
<1>2. ASSUME k.panicked = "no" PROVE Unasked(k2, s, t)
  <2>1. Roused(k, s, t) /\ Others(k, s, t) /\ SwapperKept(s, s, t)
    BY <1>2 DEF Roused, SwapperKept
  <2>2. /\ PlacesIn(k2, t) = PlacesIn(k, t) /\ (Executes(k2, t) <=> Executes(k, t))
        /\ Others(k2, s, t)
    BY <2>1, OnlyOthers DEF Restates
  <2>3. Placed(k2, t) /\ Waiting(k2, t) /\ Asserted(k2, t) /\ Timing(k2, t)
    BY <2>1, <2>2 DEF Restates, ThreadOnly, Roused, Placed, Ready, Waiting, Asserted, Timing
  <2>4. Swapping(k2, s, t) /\ WaitsForSome(k2.thread[t], t) /\ k2.thread[t].wait_event = NoEvent
    BY <2>1 DEF Restates, ThreadOnly, Roused, Swapping, WaitsForSome
  <2> QED
    BY <2>2, <2>3, <2>4 DEF Unasked
<1> QED
  BY <1>1, <1>2, SwapinKeeps

LEMMA EndWaitKeeps ==
  ASSUME NEW k \in Kernels, NEW s, NEW t \in Threads, NEW result \in WaitResults,
         k.panicked = "no" => Roused(k, s, t)
  PROVE  KInv(EndWait(k, t, result), s)
<1> DEFINE state == k.thread[t].state
           r == [k.thread[t] EXCEPT !.wait_result = result]
           told == [k EXCEPT !.thread[t] = r]
           Told(bits) == [told EXCEPT !.thread[t].state = bits]
<1>1. state \in SUBSET StateBits /\ k.thread[t].interruptible \in BOOLEAN
  <2>1. k.thread[t] \in ThreadRecord
    BY KernelFields
  <2> QED
    BY <2>1 DEF ThreadRecord
<1>2. Restates(k, told, t, state)
  <2>1. k.thread[t] \in ThreadRecord
    BY KernelFields
  <2>2. QuietRecord(k.thread[t], r)
    BY <2>1 DEF QuietRecord, ThreadRecord
  <2> HIDE DEF r
  <2> QED
    BY <2>2, SetQuietly
<1>3. ASSUME NEW bits \in SUBSET StateBits
      PROVE  Restates(k, Told(bits), t, bits)
  <2> HIDE DEF told
  <2>1. told \in Kernels
    BY <1>2 DEF Restates, ThreadOnly
  <2>2. Restates(told, Told(bits), t, bits)
    BY <2>1, SetState
  <2> QED
    BY <1>2, <2>2, RestatesAgain
<1>d. /\ {"WAIT"} # {"WAIT", "SUSP"} /\ {"WAIT"} # {"WAIT", "SWAPPED"}
      /\ {"WAIT", "SUSP"} # {"WAIT", "SWAPPED"}
  OBVIOUS
<1>4. CASE state = {"WAIT", "SUSP"} /\ k.thread[t].interruptible
  <2>1. EndWait(k, t, result) = Told({"SUSP"})
    BY <1>d, <1>4, Zenon DEF EndWait
  <2>2. KInv(Told({"SUSP"}), s)
    <3>1. Restates(k, Told({"SUSP"}), t, {"SUSP"})
      BY <1>3 DEF StateBits
    <3> HIDE DEF Told
    <3> QED
      BY <1>4, <3>1, RousedRests
  <2> QED
    BY <2>1, <2>2
<1>5. CASE \/ state = {"WAIT"}
           \/ state = {"WAIT", "SUSP"} /\ ~ k.thread[t].interruptible
  <2> DEFINE bits == (state \ {"WAIT"}) \cup {"RUN"}
  <2>1. EndWait(k, t, result) = thread_setrun(Told(bits), t)
    <3>1. told.thread[t].state = state
      BY <1>2 DEF Restates
    <3>2. EndWait(k, t, result) = thread_setrun(Told((told.thread[t].state \ {"WAIT"}) \cup {"RUN"}), t)
      BY <1>d, <1>5, Zenon DEF EndWait
    <3> QED
      BY <3>1, <3>2
  <2>2. KInv(thread_setrun(Told(bits), t), s)
    <3>1. Restates(k, Told(bits), t, bits)
      BY <1>1, <1>3 DEF StateBits
    <3> HIDE DEF Told
    <3> QED
      BY <1>5, <3>1, RousedRuns
  <2> QED
    BY <2>1, <2>2
<1>6. CASE state = {"WAIT", "SWAPPED"}
  <2> DEFINE bits == {"RUN", "SWAPPED"}
  <2>1. EndWait(k, t, result) = thread_swapin(Told(bits), t, FALSE)
    BY <1>6 DEF EndWait
  <2>2. KInv(thread_swapin(Told(bits), t, FALSE), s)
    <3>1. Restates(k, Told(bits), t, bits)
      BY <1>3 DEF StateBits
    <3> HIDE DEF Told
    <3> QED
      BY <1>6, <3>1, RousedComesIn
  <2> QED
    BY <2>1, <2>2
<1>7. CASE /\ state # {"WAIT"} /\ state # {"WAIT", "SUSP"} /\ state # {"WAIT", "SWAPPED"}
           /\ "WAIT" \in state
  <2> DEFINE bits == state \ {"WAIT"}
             r3 == [Told(bits).thread[t] EXCEPT !.interruptible = TRUE]
             k3 == [Told(bits) EXCEPT !.thread[t] = r3]
  <2>1. EndWait(k, t, result) = k3
    <3>1. told.thread[t].state = state
      BY <1>2 DEF Restates
    <3>2. EndWait(k, t, result) = [told EXCEPT !.thread[t].state = told.thread[t].state \ {"WAIT"},
                                               !.thread[t].interruptible = TRUE]
      BY <1>7 DEF EndWait
    <3>3. told \in Kernels
      BY <1>2 DEF Restates, ThreadOnly
    <3> HIDE DEF told
    <3> QED
      BY <3>1, <3>2, <3>3
  <2>2. Restates(k, Told(bits), t, bits)
    BY <1>1, <1>3 DEF StateBits
  <2> HIDE DEF Told
  <2>3. Restates(k, k3, t, bits)
    <3>1. Told(bits) \in Kernels
      BY <2>2 DEF Restates, ThreadOnly
    <3>2. Told(bits).thread[t] \in ThreadRecord
      BY <3>1, KernelFields
    <3>3. QuietRecord(Told(bits).thread[t], r3)
      BY <3>2 DEF QuietRecord, ThreadRecord
    <3> HIDE DEF r3
    <3>4. Restates(Told(bits), k3, t, Told(bits).thread[t].state)
      BY <3>1, <3>3, SetQuietly
    <3>5. Told(bits).thread[t].state = bits
      BY <2>2 DEF Restates
    <3> HIDE DEF k3, bits
    <3> QED
      BY <2>2, <3>4, <3>5, RestatesAgain
  <2> HIDE DEF k3
  <2>4. "RUN" \in bits \/ "SUSP" \in bits
    BY <1>1, <1>7 DEF StateBits
  <2>5. KInv(k3, s)
    BY <2>3, <2>4, RousedRests
  <2> QED
    BY <2>1, <2>5
<1>8. CASE "WAIT" \notin state
  <2>1. EndWait(k, t, result) = k
    BY <1>8 DEF EndWait
  <2>2. ASSUME k.panicked = "no" PROVE Good(k, s)
    <3>1. Roused(k, s, t)
      BY <2>2
    <3>2. Timing(k, t) /\ WaitsForSome(k.thread[t], t)
      BY <1>8, <3>1 DEF Roused, Timing, WaitsForSome
    <3> QED
      BY <3>1, <3>2, GoodIs DEF Roused, Fine
  <2> QED
    BY <2>1, <2>2 DEF KInv
<1> HIDE DEF state
<1> QED
  BY <1>4, <1>5, <1>6, <1>7, <1>8

LEMMA WakeKeeps ==
  ASSUME NEW k, NEW s, NEW t \in Threads, NEW result \in WaitResults, KInv(k, s)
  PROVE  KInv(Wake(k, t, result), s)
<1> DEFINE k1 == remqueue(k, t)
           k2 == untimeout(k1, t)
<1>1. k \in Kernels
  BY DEF KInv
<1>2. CASE "WAIT" \in k.thread[t].state
  <2>1. Wake(k, t, result) = EndWait(k2, t, result)
    BY <1>2 DEF Wake
  <2>2. k1 \in Kernels /\ k1.panicked = k.panicked
    BY <1>1, RemqueueIs DEF Untouched
  <2>3. k.panicked = "no" =>
            /\ Others(k1, s, t) /\ Placed(k1, t) /\ Swapping(k1, s, t) /\ AskedFor(k1, s, t)
            /\ Waiting(k1, t) /\ Asserted(k1, t) /\ Timing(k1, t)
            /\ k1.thread[t].wait_event = NoEvent
    BY <1>1, RemqueueKeeps DEF KInv
  <2> HIDE DEF k1
  <2>4. k2 \in Kernels /\ k2.panicked = k.panicked
    BY <2>2, UntimeoutIs DEF Untouched
  <2>5. k.panicked = "no" => Roused(k2, s, t)
    BY <2>2, <2>3, UntimeoutRouses
  <2> HIDE DEF k2
  <2>6. KInv(EndWait(k2, t, result), s)
    BY <2>4, <2>5, EndWaitKeeps
  <2> QED
    BY <2>1, <2>6
<1>3. CASE "WAIT" \notin k.thread[t].state
  <2>1. Wake(k, t, result) = Panic(k, "thread_wakeup")
    BY <1>3 DEF Wake
  <2> QED
    BY <1>1, <2>1, PanicKeeps DEF Routines
<1> QED
  BY <1>2, <1>3

\* clear_wait ends a wait for the event it saw, or one for event 0.
LEMMA ClearWaitKeeps ==
  ASSUME NEW k, NEW s, NEW t \in Threads, NEW event, NEW result \in WaitResults, KInv(k, s),
         event = NoEvent => k.thread[t].wait_event = NoEvent
  PROVE  KInv(ClearWait(k, t, event, result), s)
<1> DEFINE k1 == remqueue(k, t)
           k2 == untimeout(k1, t)
           k3 == untimeout(k, t)
<1>1. k \in Kernels
  BY DEF KInv
<1>2. CASE event = NoEvent
  <2>1. ClearWait(k, t, event, result) = EndWait(k3, t, result)
    BY <1>2 DEF ClearWait
  <2>2. k3 \in Kernels /\ k3.panicked = k.panicked
    BY <1>1, UntimeoutIs DEF Untouched
  <2>3. k.panicked = "no" => Roused(k3, s, t)
    <3>1. Good(k, s) => Others(k, s, t) /\ Fine(k, s, t)
      BY GoodIs
    <3> QED
      BY <1>1, <1>2, <3>1, UntimeoutRouses DEF KInv, Fine
  <2> HIDE DEF k3
  <2>4. KInv(EndWait(k3, t, result), s)
    BY <2>2, <2>3, EndWaitKeeps
  <2> QED
    BY <2>1, <2>4
<1>3. CASE event # NoEvent /\ k.thread[t].wait_event = event
  <2>1. ClearWait(k, t, event, result) = EndWait(k2, t, result)
    BY <1>3 DEF ClearWait
  <2>2. k1 \in Kernels /\ k1.panicked = k.panicked
    BY <1>1, RemqueueIs DEF Untouched
  <2>3. k.panicked = "no" =>
            /\ Others(k1, s, t) /\ Placed(k1, t) /\ Swapping(k1, s, t) /\ AskedFor(k1, s, t)
            /\ Waiting(k1, t) /\ Asserted(k1, t) /\ Timing(k1, t)
            /\ k1.thread[t].wait_event = NoEvent
    BY <1>1, RemqueueKeeps DEF KInv
  <2> HIDE DEF k1
  <2>4. k2 \in Kernels /\ k2.panicked = k.panicked
    BY <2>2, UntimeoutIs DEF Untouched
  <2>5. k.panicked = "no" => Roused(k2, s, t)
    BY <2>2, <2>3, UntimeoutRouses
  <2> HIDE DEF k2
  <2>6. KInv(EndWait(k2, t, result), s)
    BY <2>4, <2>5, EndWaitKeeps
  <2> QED
    BY <2>1, <2>6
<1>4. CASE event # NoEvent /\ k.thread[t].wait_event # event
  BY <1>4 DEF ClearWait
<1> QED
  BY <1>2, <1>3, <1>4

-----------------------------------------------------------------------------
(* Waking all the waiters of an event, or the first.                       *)

\* The function that thread_wakeup computes exists, and each of its values is
\* a state the invariant holds of.
LEMMA WakeupKeeps ==
  ASSUME NEW k, NEW s, NEW event, NEW result \in WaitResults, KInv(k, s)
  PROVE  KInv(thread_wakeup(k, event, result), s)
<1> DEFINE N == Len(k.wait_queue)
           Fit == {x \in Kernels : KInv(x, s)}
           Next1(x, n) == IF n \in Waiters(k, event)
                          THEN Wake(x, k.wait_queue[n], result)
                          ELSE x
           Step(f, n) == IF n = 0 THEN k ELSE Next1(f[n - 1], n)
           woken[n \in 0 .. Len(k.wait_queue)] ==
               IF n = 0 THEN k
               ELSE IF n \in Waiters(k, event)
               THEN Wake(woken[n - 1], k.wait_queue[n], result)
               ELSE woken[n - 1]
<1>1. /\ N \in Nat /\ k \in Fit
      /\ \A n \in 1 .. N : k.wait_queue[n] \in Threads
  <2>1. k \in Kernels
    BY DEF KInv
  <2>2. k.wait_queue \in Seq(Threads)
    BY <2>1, KernelFields
  <2> QED
    BY <2>1, <2>2
<1>2. ASSUME NEW x \in Fit, NEW n \in 1 .. N PROVE Next1(x, n) \in Fit
  <2>1. KInv(Wake(x, k.wait_queue[n], result), s)
    BY <1>1, WakeKeeps
  <2> QED
    BY <2>1 DEF KInv
<1>3. thread_wakeup(k, event, result) = woken[N]
  BY DEF thread_wakeup
<1> DEFINE IsWoken(f) == f = [n \in 0 .. N |-> Step(f, n)]
<1>4. woken = CHOOSE f : IsWoken(f)
  OBVIOUS
<1> HIDE DEF Next1, woken, Fit, N
<1>5. \E f : IsWoken(f)
  <2> DEFINE Upto(f, m) == \A n \in 0 .. m : f[n] = Step(f, n)
             A == {m \in 0 .. N : \E f \in [0 .. N -> Fit] : Upto(f, m)}
  <2>1. 0 \in A
    <3> DEFINE f == [n \in 0 .. N |-> k]
    <3>1. f \in [0 .. N -> Fit] /\ f[0] = k
      BY <1>1
    <3>2. Upto(f, 0)
      BY <3>1
    <3> HIDE DEF f, Upto
    <3> QED
      BY <1>1, <3>1, <3>2
  <2>2. ASSUME NEW m \in 0 .. N, m + 1 \in 0 .. N, m \in A PROVE m + 1 \in A
    <3>1. PICK f \in [0 .. N -> Fit] : Upto(f, m)
      BY <2>2
    <3> DEFINE g == [f EXCEPT ![m + 1] = Next1(f[m], m + 1)]
    <3>2. Next1(f[m], m + 1) \in Fit
      BY <1>1, <1>2, <2>2
    <3>3. /\ g \in [0 .. N -> Fit] /\ g[m + 1] = Next1(f[m], m + 1)
          /\ \A n \in 0 .. m : g[n] = f[n]
      BY <1>1, <2>2, <3>2
    <3> HIDE DEF g
    <3>4. ASSUME NEW n \in 0 .. m + 1 PROVE g[n] = Step(g, n)
      <4>1. CASE n = 0
        <5>1. f[0] = k
          BY <1>1, <3>1
        <5> QED
          BY <1>1, <3>3, <4>1, <5>1
      <4>2. CASE n \in 1 .. m
        <5>1. n \in 0 .. m /\ n - 1 \in 0 .. m /\ n # 0
          BY <1>1, <4>2
        <5>2. f[n] = Next1(f[n - 1], n)
          BY <3>1, <5>1
        <5> QED
          BY <3>3, <5>1, <5>2
      <4>3. CASE n = m + 1
        <5>1. n # 0 /\ n - 1 = m /\ m \in 0 .. m
          BY <1>1, <4>3
        <5> QED
          BY <3>3, <4>3, <5>1
      <4> QED
        BY <1>1, <4>1, <4>2, <4>3
    <3>5. Upto(g, m + 1)
      BY <3>4
    <3> HIDE DEF Upto
    <3> QED
      BY <2>2, <3>3, <3>5
  <2> HIDE DEF Upto
  <2>3. A = 0 .. N
    <3>1. A \in SUBSET (0 .. N)
      OBVIOUS
    <3> HIDE DEF A
    <3> QED
      BY <1>1, <2>1, <2>2, <3>1, UpTo
  <2>4. PICK f \in [0 .. N -> Fit] : Upto(f, N)
    BY <1>1, <2>3
  <2>5. IsWoken(f)
    BY <2>4 DEF Upto
  <2> QED
    BY <2>5
<1>6. IsWoken(woken)
  <2> HIDE DEF IsWoken
  <2> QED
    BY <1>4, <1>5, Zenon
<1>7. \A n \in 0 .. N : woken[n] = Step(woken, n)
  BY <1>6
<1> DEFINE B == {n \in 0 .. N : woken[n] \in Fit}
<1>8. 0 \in B
  BY <1>1, <1>7
<1>9. ASSUME NEW n \in 0 .. N, n + 1 \in 0 .. N, n \in B PROVE n + 1 \in B
  <2>1. n + 1 \in 1 .. N /\ n + 1 # 0 /\ (n + 1) - 1 = n
    BY <1>1, <1>9
  <2>2. woken[n + 1] = Next1(woken[n], n + 1)
    BY <1>7, <1>9, <2>1
  <2> QED
    BY <1>2, <1>9, <2>1, <2>2
<1>10. B = 0 .. N
  <2>1. B \in SUBSET (0 .. N)
    OBVIOUS
  <2> HIDE DEF B
  <2> QED
    BY <1>1, <1>8, <1>9, <2>1, UpTo
<1>11. woken[N] \in Fit
  BY <1>1, <1>10
<1> QED
  BY <1>3, <1>11 DEF Fit

LEMMA WakeupOneKeeps ==
  ASSUME NEW k, NEW s, NEW event, KInv(k, s)
  PROVE  KInv(thread_wakeup_one(k, event), s)
<1>1. CASE Waiters(k, event) = {}
  BY <1>1 DEF thread_wakeup_one
<1>2. CASE Waiters(k, event) # {}
  <2> DEFINE i == Min(Waiters(k, event))
  <2>1. thread_wakeup_one(k, event) = Wake(k, k.wait_queue[i], "AWAKENED")
    BY <1>2 DEF thread_wakeup_one
  <2>2. k.wait_queue \in Seq(Threads)
    BY KernelFields DEF KInv
  <2>3. Waiters(k, event) \in SUBSET Nat /\ Waiters(k, event) \subseteq DOMAIN k.wait_queue
    BY <2>2 DEF Waiters
  <2>4. i \in Waiters(k, event)
    BY <1>2, <2>3, Least DEF Min
  <2> HIDE DEF i
  <2>5. k.wait_queue[i] \in Threads
    BY <2>2, <2>3, <2>4
  <2> QED
    BY <2>1, <2>5, WakeKeeps DEF WaitResults
<1> QED
  BY <1>1, <1>2

-----------------------------------------------------------------------------
(* Asserting a wait, holding and releasing a thread.                       *)

LEMMA AssertWaitKeeps ==
  ASSUME NEW k, NEW s, NEW t \in Threads, NEW event \in AllEvents, NEW i \in BOOLEAN,
         KInv(k, s), k.panicked = "no" => Executes(k, t),
         event = NoEvent => \E b \in BOOLEAN : <<t, NoEvent, b>> \in MayWait
  PROVE  KInv(assert_wait(k, t, event, i), s)
<1>1. k \in Kernels /\ k.thread[t] \in ThreadRecord
  BY KernelFields DEF KInv
<1>2. CASE k.thread[t].wait_event # NoEvent
  BY <1>1, <1>2, PanicKeeps DEF assert_wait, Routines
<1>3. CASE k.thread[t].wait_event = NoEvent
  <2> DEFINE w == IF event = NoEvent THEN k.wait_queue ELSE Append(k.wait_queue, t)
             bits == k.thread[t].state \cup {"WAIT"}
             r == [k.thread[t] EXCEPT !.wait_event = event, !.state = bits, !.interruptible = i]
             k2 == [k EXCEPT !.wait_queue = w, !.thread = [@ EXCEPT ![t] = r]]
  <2>1. assert_wait(k, t, event, i) = k2
    BY <1>3, Zenon DEF assert_wait
  <2>2. /\ r \in ThreadRecord /\ r.wait_event = event /\ r.state = bits
        /\ r.swap_state = k.thread[t].swap_state /\ r.timer_set = k.thread[t].timer_set
    BY <1>1 DEF ThreadRecord, StateBits
  <2>3. /\ w \in Seq(Threads)
        /\ event = NoEvent => w = k.wait_queue
        /\ event # NoEvent => /\ ToSet(w) = ToSet(k.wait_queue) \cup {t}
                              /\ IsInjective(k.wait_queue) /\ t \notin ToSet(k.wait_queue)
                                     => IsInjective(w)
    BY <1>1, KernelFields, QueueAppend
  <2> HIDE DEF r, w
  <2>4. /\ k2 \in Kernels /\ k2.thread = [k.thread EXCEPT ![t] = r]
        /\ k2.timer = k.timer /\ k2.wait_queue = w
        /\ k2.cpu = k.cpu /\ k2.runq = k.runq /\ k2.idle_queue = k.idle_queue
        /\ k2.swapin_queue = k.swapin_queue /\ k2.panicked = k.panicked
    BY <1>1, <2>2, <2>3 DEF Kernels
  <2> HIDE DEF k2
  <2>5. k2.thread[t] = r /\ \A u \in Threads \ {t} : k2.thread[u] = k.thread[u]
    BY <1>1, <2>4, KernelFields
  <2>6. ASSUME k.panicked = "no" PROVE Good(k2, s)
    <3>1. Others(k, s, t) /\ Fine(k, s, t) /\ Executes(k, t)
      BY <2>6, GoodIs DEF KInv
    <3>2. t \notin ToSet(k.wait_queue)
      BY <1>3, <3>1 DEF Fine, Waiting
    <3>3. Kept(k, k2, t) /\ SwapperKept(s, s, t)
      BY <2>3, <2>4, <2>5, <3>1, <3>2 DEF Kept, SwapperKept, Others
    <3>4. /\ PlacesIn(k2, t) = PlacesIn(k, t) /\ (Executes(k2, t) <=> Executes(k, t))
          /\ Others(k2, s, t)
      BY <3>1, <3>3, KeptOthers
    <3>5. Ready(k.thread[t])
      <4>1. PlacesIn(k, t) # {}
        BY <3>1 DEF Executes, PlacesIn
      <4> QED
        BY <3>1, <4>1 DEF Fine, Placed
    <3>6. Placed(k2, t) /\ Asserted(k2, t) /\ Timing(k2, t)
      BY <2>2, <2>4, <2>5, <3>1, <3>4 DEF Fine, Placed, Ready, Asserted, Timing
    <3>7. Waiting(k2, t) /\ WaitsForSome(k2.thread[t], t)
      BY <2>2, <2>3, <2>4, <2>5, <3>1, <3>2 DEF Fine, Waiting, WaitsForSome
    <3>8. Swapping(k2, s, t) /\ AskedFor(k2, s, t)
      BY <2>2, <2>4, <2>5, <3>1, <3>5 DEF Fine, Ready, Swapping, AskedFor
    <3> QED
      BY <3>4, <3>6, <3>7, <3>8, GoodIs DEF Fine
  <2> QED
    BY <2>1, <2>4, <2>6 DEF KInv
<1> QED
  BY <1>2, <1>3

\* Suspension does not change whether a thread can run, as long as it waits
\* or runs.
LEMMA HeldRests ==
  ASSUME NEW k, NEW s, NEW t \in Threads, NEW k2, NEW bits, KInv(k, s),
         Restates(k, k2, t, bits),
         "RUN" \in bits <=> "RUN" \in k.thread[t].state,
         "SWAPPED" \in bits <=> "SWAPPED" \in k.thread[t].state,
         "WAIT" \in bits <=> "WAIT" \in k.thread[t].state,
         "RUN" \in bits \/ "SUSP" \in bits \/ "WAIT" \in bits
  PROVE  KInv(k2, s)
<1>1. k2 \in Kernels /\ k2.panicked = k.panicked
  BY DEF Restates, ThreadOnly
<1>2. ASSUME k.panicked = "no" PROVE Good(k2, s)
  <2>1. Others(k, s, t) /\ Fine(k, s, t) /\ SwapperKept(s, s, t)
    BY <1>2, GoodIs DEF KInv, SwapperKept
  <2>2. /\ PlacesIn(k2, t) = PlacesIn(k, t) /\ (Executes(k2, t) <=> Executes(k, t))
        /\ Others(k2, s, t)
    BY <2>1, OnlyOthers DEF Restates
  <2>3. Placed(k2, t) /\ Waiting(k2, t) /\ Asserted(k2, t) /\ Timing(k2, t)
    BY <2>1, <2>2 DEF Restates, ThreadOnly, Fine, Placed, Ready, Waiting, Asserted, Timing
  <2>4. Swapping(k2, s, t) /\ AskedFor(k2, s, t) /\ WaitsForSome(k2.thread[t], t)
    BY <2>1 DEF Restates, ThreadOnly, Fine, Swapping, AskedFor, WaitsForSome
  <2> QED
    BY <2>2, <2>3, <2>4, GoodIs DEF Fine
<1> QED
  BY <1>1, <1>2 DEF KInv

LEMMA HoldKeeps ==
  ASSUME NEW k, NEW s, NEW t \in Threads, KInv(k, s)
  PROVE  KInv(thread_hold(k, t), s) /\ thread_hold(k, t).cpu = k.cpu
<1> DEFINE r == [k.thread[t] EXCEPT !.suspend_count = @ + 1]
           k1 == [k EXCEPT !.thread[t] = r]
           bits == k.thread[t].state \cup {"SUSP"}
           k2 == [k1 EXCEPT !.thread[t].state = bits]
<1>1. k \in Kernels /\ k.thread[t] \in ThreadRecord
  BY KernelFields DEF KInv
<1>2. thread_hold(k, t) = k2
  BY <1>1 DEF thread_hold, Kernels
<1>3. QuietRecord(k.thread[t], r)
  BY <1>1 DEF QuietRecord, ThreadRecord
<1>4. bits \in SUBSET StateBits
  BY <1>1 DEF ThreadRecord, StateBits
<1> HIDE DEF r
<1>5. Restates(k, k1, t, k.thread[t].state)
  BY <1>1, <1>3, SetQuietly
<1>6. Restates(k, k2, t, bits)
  <2>1. k1 \in Kernels
    BY <1>5 DEF Restates, ThreadOnly
  <2> HIDE DEF k1, bits
  <2> QED
    BY <1>4, <1>5, <2>1, SetState, RestatesAgain
<1> HIDE DEF k2
<1>7. KInv(k2, s)
  BY <1>6, HeldRests
<1>8. k2.cpu = k.cpu
  BY <1>6 DEF Restates, ThreadOnly
<1> QED
  BY <1>2, <1>7, <1>8

LEMMA ReleaseKeeps ==
  ASSUME NEW k, NEW s, NEW t \in Threads, KInv(k, s)
  PROVE  KInv(thread_release(k, t), s)
<1> DEFINE state == k.thread[t].state
           r == [k.thread[t] EXCEPT !.suspend_count = @ - 1]
           less == [k EXCEPT !.thread[t] = r]
           h == [less.thread[t] EXCEPT !.halted = FALSE]
           calm == [less EXCEPT !.thread[t] = h]
           bits == state \ {"SUSP"}
           free == [calm EXCEPT !.thread[t].state = bits]
           ready == [free EXCEPT !.thread[t].state = bits \cup {"RUN"}]
<1>1. k \in Kernels /\ k.thread[t] \in ThreadRecord /\ state \in SUBSET StateBits
  <2>1. k \in Kernels /\ k.thread[t] \in ThreadRecord
    BY KernelFields DEF KInv
  <2> QED
    BY <2>1 DEF ThreadRecord
<1>2. QuietRecord(k.thread[t], r)
  BY <1>1 DEF QuietRecord, ThreadRecord
<1> HIDE DEF r
<1>3. Restates(k, less, t, state) /\ less \in Kernels
  <2>1. Restates(k, less, t, state)
    BY <1>1, <1>2, SetQuietly
  <2> QED
    BY <2>1 DEF Restates, ThreadOnly
<1> HIDE DEF less
<1>4. Restates(less, calm, t, state) /\ calm \in Kernels
  <2>1. less.thread[t] \in ThreadRecord /\ less.thread[t].state = state
    BY <1>3, KernelFields DEF Restates
  <2>2. QuietRecord(less.thread[t], h)
    BY <2>1 DEF QuietRecord, ThreadRecord
  <2> HIDE DEF h
  <2>3. Restates(less, calm, t, less.thread[t].state)
    BY <1>3, <2>2, SetQuietly
  <2> QED
    BY <2>1, <2>3 DEF Restates, ThreadOnly
<1>5. [less EXCEPT !.thread[t].halted = FALSE, !.thread[t].state = @ \ {"SUSP"}] = free
  <2>1. less.thread[t].state = state
    BY <1>3 DEF Restates
  <2> QED
    BY <1>3, <2>1 DEF Kernels
<1> HIDE DEF calm
<1>6. Restates(calm, free, t, bits) /\ free \in Kernels
  <2>1. bits \in SUBSET StateBits
    BY <1>1
  <2> HIDE DEF bits
  <2> QED
    BY <1>4, <2>1, SetState, SMTT(30) DEF Restates, ThreadOnly
<1>7. [free EXCEPT !.thread[t].state = @ \cup {"RUN"}] = ready
  BY <1>6 DEF Restates
<1> HIDE DEF free
<1>8. Restates(k, free, t, bits)
  BY <1>3, <1>4, <1>6, RestatesAgain
<1>9. Restates(k, ready, t, bits \cup {"RUN"})
  <2>1. bits \cup {"RUN"} \in SUBSET StateBits
    BY <1>1 DEF StateBits
  <2> HIDE DEF bits
  <2>2. Restates(free, ready, t, bits \cup {"RUN"})
    BY <1>6, <2>1, SetState
  <2> HIDE DEF ready
  <2> QED
    BY <1>8, <2>2, RestatesAgain
<1> HIDE DEF ready
<1>10. CASE less.thread[t].suspend_count # 0
  <2>1. thread_release(k, t) = less
    BY <1>10 DEF thread_release, less, r
  <2>2. "RUN" \in state \/ "SUSP" \in state \/ "WAIT" \in state \/ k.panicked # "no"
    BY GoodIs DEF KInv, Fine, Waiting
  <2>3. CASE k.panicked = "no"
    BY <1>3, <2>1, <2>2, <2>3, HeldRests
  <2>4. CASE k.panicked # "no"
    BY <1>3, <2>1, <2>4 DEF KInv, Restates, ThreadOnly
  <2> QED
    BY <2>3, <2>4
<1>11. CASE less.thread[t].suspend_count = 0
  <2>1. thread_release(k, t) = CASE bits = {"SWAPPED"} -> thread_swapin(ready, t, FALSE)
                                 [] bits = {} -> thread_setrun(ready, t)
                                 [] OTHER -> free
    <3>1. free.thread[t].state = bits
      BY <1>6 DEF Restates
    <3> DEFINE f == [less EXCEPT !.thread[t].halted = FALSE, !.thread[t].state = @ \ {"SUSP"}]
               g == [f EXCEPT !.thread[t].state = @ \cup {"RUN"}]
    <3>2. thread_release(k, t) = CASE f.thread[t].state = {"SWAPPED"} -> thread_swapin(g, t, FALSE)
                                   [] f.thread[t].state = {} -> thread_setrun(g, t)
                                   [] OTHER -> f
      BY <1>11, Zenon DEF thread_release, less, r
    <3>3. f = free
      BY <1>5
    <3> HIDE DEF f
    <3>4. g = ready
      BY <1>7, <3>3
    <3> HIDE DEF g
    <3> QED
      BY <3>1, <3>2, <3>3, <3>4, Zenon
  <2>2. CASE bits = {"SWAPPED"}
    <3>1. thread_release(k, t) = thread_swapin(ready, t, FALSE)
      BY <2>1, <2>2
    <3>2. "WAIT" \notin state /\ "RUN" \notin state /\ "SWAPPED" \in state
      BY <2>2
    <3>3. k.panicked = "no" => Roused(k, s, t)
      BY <3>2, NotWaiting DEF KInv
    <3>4. KInv(thread_swapin(ready, t, FALSE), s)
      BY <1>1, <1>9, <2>2, <3>2, <3>3, RousedComesIn
    <3> QED
      BY <3>1, <3>4
  <2>3. CASE bits = {}
    <3>1. thread_release(k, t) = thread_setrun(ready, t)
      BY <2>1, <2>3
    <3>2. "WAIT" \notin state /\ "RUN" \notin state /\ "SWAPPED" \notin state
      BY <2>3
    <3>3. k.panicked = "no" => Roused(k, s, t)
      BY <3>2, NotWaiting DEF KInv
    <3>4. KInv(thread_setrun(ready, t), s)
      BY <1>1, <1>9, <2>3, <3>2, <3>3, RousedRuns
    <3> QED
      BY <3>1, <3>4
  <2>4. CASE bits # {"SWAPPED"} /\ bits # {}
    <3>1. thread_release(k, t) = free
      BY <2>1, <2>4
    <3>2. "RUN" \in bits \/ "WAIT" \in bits
      BY <1>1, <2>4 DEF StateBits
    <3>3. KInv(free, s)
      BY <1>8, <3>2, HeldRests
    <3> QED
      BY <3>1, <3>3
  <2> QED
    BY <2>2, <2>3, <2>4
<1> QED
  BY <1>10, <1>11

-----------------------------------------------------------------------------
(* A stopped thread is made to run, and the context switch.                *)

LEMMA ForceRunKeeps ==
  ASSUME NEW k, NEW s, NEW t \in Threads, KInv(k, s)
  PROVE  KInv(ForceRun(k, t), s)
<1> DEFINE state == k.thread[t].state
           bits == state \cup {"RUN"}
           k1 == [k EXCEPT !.thread[t].state = bits]
           r == [k1.thread[t] EXCEPT !.interruptible = FALSE]
           run == [k1 EXCEPT !.thread[t] = r]
<1>1. k \in Kernels /\ bits \in SUBSET StateBits
  <2>1. k \in Kernels /\ k.thread[t] \in ThreadRecord
    BY KernelFields DEF KInv
  <2> QED
    BY <2>1 DEF ThreadRecord, StateBits
<1>2. [k EXCEPT !.thread[t].state = @ \cup {"RUN"}, !.thread[t].interruptible = FALSE] = run
  BY <1>1 DEF Kernels
<1>3. Restates(k, k1, t, bits) /\ k1 \in Kernels
  <2> HIDE DEF bits
  <2>1. Restates(k, k1, t, bits)
    BY <1>1, SetState
  <2> QED
    BY <2>1 DEF Restates, ThreadOnly
<1> HIDE DEF k1
<1>4. Restates(k, run, t, bits)
  <2>1. k1.thread[t] \in ThreadRecord /\ k1.thread[t].state = bits
    BY <1>3, KernelFields DEF Restates
  <2>2. QuietRecord(k1.thread[t], r)
    BY <2>1 DEF QuietRecord, ThreadRecord
  <2> HIDE DEF r
  <2>3. Restates(k1, run, t, k1.thread[t].state)
    BY <1>3, <2>2, SetQuietly
  <2> HIDE DEF run
  <2> QED
    BY <1>3, <2>1, <2>3, RestatesAgain
<1> DEFINE run0 == [k EXCEPT !.thread[t].state = @ \cup {"RUN"}, !.thread[t].interruptible = FALSE]
<1>5. ForceRun(k, t) = CASE state = {"SUSP", "SWAPPED"} -> thread_swapin(run0, t, FALSE)
                         [] state = {"SUSP"} -> thread_setrun(run0, t)
                         [] OTHER -> Panic(k, "thread_halt")
  BY Zenon DEF ForceRun
<1> HIDE DEF run0, run
<1>6. run0 = run
  BY <1>2 DEF run0
<1>7. {"SUSP", "SWAPPED"} # {"SUSP"}
  OBVIOUS
<1>8. CASE state = {"SUSP", "SWAPPED"}
  <2>1. ForceRun(k, t) = thread_swapin(run, t, FALSE)
    BY <1>5, <1>6, <1>7, <1>8, Zenon
  <2>2. k.panicked = "no" => Roused(k, s, t)
    BY <1>8, NotWaiting DEF KInv
  <2>3. /\ "RUN" \in bits /\ "SWAPPED" \in bits /\ "WAIT" \notin bits
        /\ "RUN" \notin k.thread[t].state /\ "SWAPPED" \in k.thread[t].state
    BY <1>8
  <2> HIDE DEF bits
  <2>4. KInv(thread_swapin(run, t, FALSE), s)
    BY <1>1, <1>4, <2>2, <2>3, RousedComesIn
  <2> QED
    BY <2>1, <2>4
<1>9. CASE state = {"SUSP"}
  <2>1. ForceRun(k, t) = thread_setrun(run, t)
    BY <1>5, <1>6, <1>7, <1>9, Zenon
  <2>2. k.panicked = "no" => Roused(k, s, t)
    BY <1>9, NotWaiting DEF KInv
  <2>3. /\ "RUN" \in bits /\ "SWAPPED" \notin bits /\ "WAIT" \notin bits
        /\ "RUN" \notin k.thread[t].state /\ "SWAPPED" \notin k.thread[t].state
    BY <1>9
  <2> HIDE DEF bits
  <2>4. KInv(thread_setrun(run, t), s)
    BY <1>1, <1>4, <2>2, <2>3, RousedRuns
  <2> QED
    BY <2>1, <2>4
<1>10. CASE state # {"SUSP", "SWAPPED"} /\ state # {"SUSP"}
  <2>1. ForceRun(k, t) = Panic(k, "thread_halt")
    BY <1>5, <1>10, Zenon
  <2> QED
    BY <1>1, <2>1, PanicKeeps DEF Routines
<1> HIDE DEF state
<1> QED
  BY <1>8, <1>9, <1>10

\* Only the record of processor p changes.
CpuOnly(k, k2, p) ==
    /\ k2 \in Kernels
    /\ k2.thread = k.thread
    /\ k2.runq = k.runq
    /\ k2.idle_queue = k.idle_queue
    /\ k2.wait_queue = k.wait_queue
    /\ k2.swapin_queue = k.swapin_queue
    /\ k2.timer = k.timer
    /\ k2.panicked = k.panicked
    /\ \A q \in Processors \ {p} : k2.cpu[q] = k.cpu[q]

LEMMA SetCpu ==
  ASSUME NEW k \in Kernels, NEW p \in Processors, NEW c \in CpuRecord
  PROVE  /\ CpuOnly(k, [k EXCEPT !.cpu[p] = c], p)
         /\ [k EXCEPT !.cpu[p] = c].cpu[p] = c
<1> DEFINE k2 == [k EXCEPT !.cpu[p] = c]
<1>1. k2.cpu = [k.cpu EXCEPT ![p] = c] /\ [k.cpu EXCEPT ![p] = c] \in [Processors -> CpuRecord]
  BY KernelFields DEF Kernels
<1>2. /\ k2 \in Kernels /\ k2.thread = k.thread /\ k2.runq = k.runq
      /\ k2.idle_queue = k.idle_queue /\ k2.wait_queue = k.wait_queue
      /\ k2.swapin_queue = k.swapin_queue /\ k2.timer = k.timer /\ k2.panicked = k.panicked
  BY <1>1 DEF Kernels
<1> HIDE DEF k2
<1>3. CpuOnly(k, k2, p) /\ k2.cpu[p] = c
  BY <1>1, <1>2, KernelFields DEF CpuOnly
<1> QED
  BY <1>3 DEF k2

\* What thread_continue is called with: the processor has switched from t to
\* the thread that was chosen.
Switched(k, p) == [k EXCEPT !.cpu[p].active = k.cpu[p].new_thread,
                            !.cpu[p].new_thread = NoThread]

LEMMA SwitchedIs ==
  ASSUME NEW k \in Kernels, NEW p \in Processors, k.cpu[p].new_thread # NoThread
  PROVE  LET k2 == Switched(k, p)
         IN  /\ CpuOnly(k, k2, p)
             /\ k2.cpu[p].active = k.cpu[p].new_thread
             /\ k2.cpu[p].new_thread = NoThread
             /\ k2.cpu[p].next_thread = k.cpu[p].next_thread
             /\ k2.cpu[p].state = k.cpu[p].state
<1> DEFINE c == [k.cpu[p] EXCEPT !.active = k.cpu[p].new_thread, !.new_thread = NoThread]
           k2 == [k EXCEPT !.cpu[p] = c]
<1>1. Switched(k, p) = k2
  BY DEF Switched, Kernels
<1>2. k.cpu[p] \in CpuRecord
  BY KernelFields
<1>3. /\ c \in CpuRecord /\ c.active = k.cpu[p].new_thread /\ c.new_thread = NoThread
      /\ c.next_thread = k.cpu[p].next_thread /\ c.state = k.cpu[p].state
  BY <1>2 DEF CpuRecord, SomeThread
<1> HIDE DEF c
<1>4. CpuOnly(k, k2, p) /\ k2.cpu[p] = c
  BY <1>3, SetCpu
<1> HIDE DEF k2
<1> QED
  BY <1>1, <1>3, <1>4

LEMMA PlaceIs ==
  ASSUME NEW k, NEW u
  PROVE  /\ <<"runq">> \in PlacesIn(k, u) <=> u \in k.runq
         /\ \A p \in Processors :
             /\ <<"next", p>> \in PlacesIn(k, u) <=> k.cpu[p].next_thread = u
             /\ <<"new", p>> \in PlacesIn(k, u) <=> k.cpu[p].new_thread = u
             /\ <<"active", p>> \in PlacesIn(k, u) <=> k.cpu[p].active = u
<1>1. \A p, q : /\ <<"next", p>> # <<"runq">> /\ <<"new", p>> # <<"runq">>
                /\ <<"active", p>> # <<"runq">>
                /\ <<"next", p>> # <<"new", q>> /\ <<"next", p>> # <<"active", q>>
                /\ <<"new", p>> # <<"active", q>>
                /\ <<"new", p>> = <<"new", q>> => p = q
                /\ <<"active", p>> = <<"active", q>> => p = q
                /\ <<"next", p>> = <<"next", q>> => p = q
  OBVIOUS
<1> DEFINE Q == IF u \in k.runq THEN {<<"runq">>} ELSE {}
           X == {<<"next", p>> : p \in {q \in Processors : k.cpu[q].next_thread = u}}
           N == {<<"new", p>> : p \in {q \in Processors : k.cpu[q].new_thread = u}}
           A == {<<"active", p>> : p \in {q \in Processors : k.cpu[q].active = u}}
<1>2. PlacesIn(k, u) = Q \cup X \cup N \cup A
  BY DEF PlacesIn
<1>3. <<"runq">> \in Q <=> u \in k.runq
  OBVIOUS
<1>4. <<"runq">> \notin X /\ <<"runq">> \notin N /\ <<"runq">> \notin A
  BY <1>1
<1>5. ASSUME NEW p \in Processors
      PROVE  /\ <<"next", p>> \in X <=> k.cpu[p].next_thread = u
             /\ <<"next", p>> \notin Q /\ <<"next", p>> \notin N /\ <<"next", p>> \notin A
  BY <1>1
<1>6. ASSUME NEW p \in Processors
      PROVE  /\ <<"new", p>> \in N <=> k.cpu[p].new_thread = u
             /\ <<"new", p>> \notin Q /\ <<"new", p>> \notin X /\ <<"new", p>> \notin A
  BY <1>1
<1>7. ASSUME NEW p \in Processors
      PROVE  /\ <<"active", p>> \in A <=> k.cpu[p].active = u
             /\ <<"active", p>> \notin Q /\ <<"active", p>> \notin X /\ <<"active", p>> \notin N
  BY <1>1
<1> HIDE DEF Q, X, N, A
<1> QED
  BY <1>1, <1>2, <1>3, <1>4, <1>5, <1>6, <1>7

LEMMA NewOnly ==
  ASSUME NEW k, NEW u, NEW p \in Processors, PlacesIn(k, u) = {<<"new", p>>}
  PROVE  /\ u \notin k.runq
         /\ \A q \in Processors : /\ k.cpu[q].next_thread # u /\ k.cpu[q].active # u
                                  /\ q # p => k.cpu[q].new_thread # u
<1>1. \A x : x \in PlacesIn(k, u) => x = <<"new", p>>
  OBVIOUS
<1>2. <<"runq">> \notin PlacesIn(k, u)
  BY <1>1
<1>3. ASSUME NEW q \in Processors
      PROVE  /\ <<"next", q>> \notin PlacesIn(k, u) /\ <<"active", q>> \notin PlacesIn(k, u)
             /\ q # p => <<"new", q>> \notin PlacesIn(k, u)
  BY <1>1
<1> QED
  BY <1>2, <1>3, PlaceIs

LEMMA ActiveOnly ==
  ASSUME NEW k, NEW u, NEW p \in Processors, PlacesIn(k, u) = {<<"active", p>>}
  PROVE  /\ u \notin k.runq
         /\ \A q \in Processors : /\ k.cpu[q].next_thread # u /\ k.cpu[q].new_thread # u
                                  /\ q # p => k.cpu[q].active # u
<1>1. \A x : x \in PlacesIn(k, u) => x = <<"active", p>>
  OBVIOUS
<1>2. <<"runq">> \notin PlacesIn(k, u)
  BY <1>1
<1>3. ASSUME NEW q \in Processors
      PROVE  /\ <<"next", q>> \notin PlacesIn(k, u) /\ <<"new", q>> \notin PlacesIn(k, u)
             /\ q # p => <<"active", q>> \notin PlacesIn(k, u)
  BY <1>1
<1> QED
  BY <1>2, <1>3, PlaceIs

LEMMA NextOnly ==
  ASSUME NEW k, NEW u, NEW p \in Processors, PlacesIn(k, u) = {<<"next", p>>}
  PROVE  /\ u \notin k.runq
         /\ \A q \in Processors : /\ k.cpu[q].new_thread # u /\ k.cpu[q].active # u
                                  /\ q # p => k.cpu[q].next_thread # u
<1>1. \A x : x \in PlacesIn(k, u) => x = <<"next", p>>
  OBVIOUS
<1>2. <<"runq">> \notin PlacesIn(k, u)
  BY <1>1
<1>3. ASSUME NEW q \in Processors
      PROVE  /\ <<"new", q>> \notin PlacesIn(k, u) /\ <<"active", q>> \notin PlacesIn(k, u)
             /\ q # p => <<"next", q>> \notin PlacesIn(k, u)
  BY <1>1
<1> QED
  BY <1>2, <1>3, PlaceIs

LEMMA RunqOnly ==
  ASSUME NEW k, NEW u, PlacesIn(k, u) = {<<"runq">>}
  PROVE  \A q \in Processors : /\ k.cpu[q].next_thread # u
                               /\ k.cpu[q].new_thread # u
                               /\ k.cpu[q].active # u
<1>1. \A x : x \in PlacesIn(k, u) => x = <<"runq">>
  OBVIOUS
<1>2. ASSUME NEW q \in Processors
      PROVE  /\ <<"new", q>> \notin PlacesIn(k, u) /\ <<"active", q>> \notin PlacesIn(k, u)
             /\ <<"next", q>> \notin PlacesIn(k, u)
  BY <1>1
<1> QED
  BY <1>2, PlaceIs

LEMMA SwitchedKeeps ==
  ASSUME NEW k \in Kernels, NEW s, NEW p \in Processors, Good(k, s),
         k.cpu[p].new_thread # NoThread
  PROVE  LET t == k.cpu[p].active
             k2 == Switched(k, p)
         IN  /\ Idling(k2) /\ IsInjective(k2.wait_queue) /\ IsInjective(k2.swapin_queue)
             /\ \A u \in Threads \ {t} : Fine(k2, s, u)
             /\ t \in Threads => PlacesIn(k2, t) = {}
<1> DEFINE t == k.cpu[p].active
           n == k.cpu[p].new_thread
           k2 == Switched(k, p)
<1>1. /\ CpuOnly(k, k2, p) /\ k2.cpu[p].active = n /\ k2.cpu[p].new_thread = NoThread
      /\ k2.cpu[p].next_thread = k.cpu[p].next_thread /\ k2.cpu[p].state = k.cpu[p].state
  BY SwitchedIs
<1> HIDE DEF k2
<1>2. Idling(k2) /\ IsInjective(k2.wait_queue) /\ IsInjective(k2.swapin_queue)
  BY <1>1 DEF CpuOnly, Good, Idling
<1>3. \A u \in Threads : u # NoThread
  BY NotThreads
<1>4. ASSUME NEW u \in Threads, PlacesIn(k, u) # {}
      PROVE  \E w \in PlacesIn(k, u) : PlacesIn(k, u) = {w}
  BY <1>4 DEF Good, Fine, Placed
<1>5. ASSUME NEW u \in Threads \ {t, n} PROVE Fine(k2, s, u)
  <2>1. PlacesIn(k2, u) = PlacesIn(k, u) /\ (Executes(k2, u) <=> Executes(k, u))
    BY <1>1, <1>3, SamePlaces DEF CpuOnly
  <2>2. Alike(k, s, k2, s, u)
    BY <1>1, <2>1 DEF CpuOnly, Alike
  <2> QED
    BY <2>2, AlikeFine DEF Good
<1>6. ASSUME n \in Threads PROVE n # t /\ Fine(k2, s, n)
  <2>1. <<"new", p>> \in PlacesIn(k, n)
    BY <1>6 DEF PlacesIn
  <2>2. PlacesIn(k, n) = {<<"new", p>>}
    BY <1>4, <1>6, <2>1
  <2>3. <<"active", p>> \notin PlacesIn(k, n)
    BY <2>2
  <2>4. n # t
    BY <2>3 DEF PlacesIn
  <2>5. /\ n \notin k.runq
        /\ \A q \in Processors : /\ k.cpu[q].next_thread # n /\ k.cpu[q].active # n
                                 /\ q # p => k.cpu[q].new_thread # n
    BY <2>2, NewOnly
  <2>6. /\ {q \in Processors : k2.cpu[q].next_thread = n} = {}
        /\ {q \in Processors : k2.cpu[q].new_thread = n} = {}
        /\ {q \in Processors : k2.cpu[q].active = n} = {p}
    BY <1>1, <1>3, <1>6, <2>5 DEF CpuOnly
  <2>7. PlacesIn(k2, n) = {<<"active", p>>} /\ Executes(k2, n)
    BY <1>1, <2>5, <2>6 DEF CpuOnly, PlacesIn, Executes
  <2>8. Fine(k, s, n)
    BY <1>6 DEF Good
  <2>9. Placed(k2, n) /\ Asserted(k2, n)
    BY <1>1, <2>2, <2>7, <2>8 DEF CpuOnly, Fine, Placed, Asserted
  <2>10. /\ Swapping(k2, s, n) /\ AskedFor(k2, s, n) /\ Waiting(k2, n)
         /\ WaitsForSome(k2.thread[n], n) /\ Timing(k2, n)
    BY <1>1, <2>8 DEF CpuOnly, Fine, Swapping, AskedFor, Waiting, Timing
  <2> QED
    BY <2>4, <2>9, <2>10 DEF Fine
<1>7. ASSUME t \in Threads PROVE PlacesIn(k2, t) = {}
  <2>1. <<"active", p>> \in PlacesIn(k, t)
    BY <1>7 DEF PlacesIn
  <2>2. PlacesIn(k, t) = {<<"active", p>>}
    BY <1>4, <1>7, <2>1
  <2>3. /\ t \notin k.runq
        /\ \A q \in Processors : /\ k.cpu[q].next_thread # t /\ k.cpu[q].new_thread # t
                                 /\ q # p => k.cpu[q].active # t
    BY <2>2, ActiveOnly
  <2>4. /\ {q \in Processors : k2.cpu[q].next_thread = t} = {}
        /\ {q \in Processors : k2.cpu[q].new_thread = t} = {}
        /\ {q \in Processors : k2.cpu[q].active = t} = {}
    BY <1>1, <1>3, <1>7, <2>3 DEF CpuOnly
  <2> QED
    BY <1>1, <2>3, <2>4 DEF CpuOnly, PlacesIn
<1>8. \A u \in Threads \ {t} : Fine(k2, s, u)
  BY <1>5, <1>6
<1> QED
  BY <1>2, <1>7, <1>8 DEF k2

LEMMA QuietCpu ==
  ASSUME NEW k, NEW s, NEW p \in Processors, NEW k2, KInv(k, s), CpuOnly(k, k2, p),
         k2.cpu[p].next_thread = k.cpu[p].next_thread,
         k2.cpu[p].new_thread = k.cpu[p].new_thread,
         k2.cpu[p].active = k.cpu[p].active,
         k2.cpu[p].state = k.cpu[p].state
  PROVE  KInv(k2, s)
<1>1. ASSUME k.panicked = "no" PROVE Good(k2, s)
  <2>1. Good(k, s)
    BY <1>1 DEF KInv
  <2>2. \A u \in Threads : Alike(k, s, k2, s, u)
    <3>1. \A u : PlacesIn(k2, u) = PlacesIn(k, u) /\ (Executes(k2, u) <=> Executes(k, u))
      BY SamePlaces DEF CpuOnly
    <3> QED
      BY <3>1 DEF CpuOnly, Alike
  <2>3. Idling(k2) /\ IsInjective(k2.wait_queue) /\ IsInjective(k2.swapin_queue)
    BY <2>1 DEF CpuOnly, Good, Idling
  <2> QED
    BY <2>1, <2>2, <2>3, GoodStays
<1> QED
  BY <1>1 DEF KInv, CpuOnly

\* A thread that has just lost its processor.
Leaving(k, s, t) ==
    /\ Others(k, s, t)
    /\ PlacesIn(k, t) = {}
    /\ Swapping(k, s, t)
    /\ AskedFor(k, s, t)
    /\ Waiting(k, t)
    /\ WaitsForSome(k.thread[t], t)
    /\ Timing(k, t)

LEMMA LeavingStops ==
  ASSUME NEW k \in Kernels, NEW s, NEW t \in Threads, NEW k2,
         k.panicked = "no" => Leaving(k, s, t),
         Restates(k, k2, t, k.thread[t].state \ {"RUN"}),
         "SUSP" \in k.thread[t].state \/ "WAIT" \in k.thread[t].state
  PROVE  KInv(k2, s)
<1>1. k2 \in Kernels /\ k2.panicked = k.panicked
  BY DEF Restates, ThreadOnly
<1>2. ASSUME k.panicked = "no" PROVE Good(k2, s)
  <2>1. Others(k, s, t) /\ Leaving(k, s, t) /\ SwapperKept(s, s, t)
    BY <1>2 DEF Leaving, SwapperKept
  <2>2. /\ PlacesIn(k2, t) = PlacesIn(k, t) /\ (Executes(k2, t) <=> Executes(k, t))
        /\ Others(k2, s, t)
    BY <2>1, OnlyOthers DEF Restates
  <2>3. Placed(k2, t) /\ Waiting(k2, t) /\ Asserted(k2, t) /\ Timing(k2, t)
    BY <2>1, <2>2 DEF Restates, ThreadOnly, Leaving, Placed, Ready, Waiting, Asserted, Timing
  <2>4. Swapping(k2, s, t) /\ AskedFor(k2, s, t) /\ WaitsForSome(k2.thread[t], t)
    BY <2>1 DEF Restates, ThreadOnly, Leaving, Swapping, AskedFor, WaitsForSome
  <2> QED
    BY <2>2, <2>3, <2>4, GoodIs DEF Fine
<1> QED
  BY <1>1, <1>2 DEF KInv

LEMMA ContinueKeeps ==
  ASSUME NEW k \in Kernels, NEW s, NEW t \in Threads, NEW p \in Processors,
         k.panicked = "no" => Leaving(k, s, t)
  PROVE  KInv(thread_continue(k, t, p), s)
<1> DEFINE state == k.thread[t].state
           halted == [k EXCEPT !.thread[t].state = state \ {"RUN"}]
           r == [halted.thread[t] EXCEPT !.wake_active = FALSE]
           c == [halted.cpu[p] EXCEPT !.wake = t]
           k1 == [halted EXCEPT !.thread[t] = r]
           k2 == [k1 EXCEPT !.cpu[p] = c]
<1>1. Restates(k, halted, t, state \ {"RUN"})
  <2>1. state \ {"RUN"} \in SUBSET StateBits
    <3>1. k.thread[t] \in ThreadRecord
      BY KernelFields
    <3> QED
      BY <3>1 DEF ThreadRecord
  <2> QED
    BY <2>1, SetState
<1>2. thread_continue(k, t, p) =
        IF "RUN" \notin state \/ "SWAPPED" \in state
        THEN Panic(k, "thread_continue")
        ELSE IF Stops(k, t) /\ k.thread[t].wake_active
        THEN [halted EXCEPT !.thread[t].wake_active = FALSE, !.cpu[p].wake = t]
        ELSE IF Stops(k, t) \/ "WAIT" \in state
        THEN halted
        ELSE thread_setrun(k, t)
  BY DEF thread_continue
<1> HIDE DEF halted
<1>3. halted \in Kernels
  BY <1>1 DEF Restates, ThreadOnly
<1>4. [halted EXCEPT !.thread[t].wake_active = FALSE, !.cpu[p].wake = t] = k2
  BY <1>3 DEF Kernels
<1>5. CASE "RUN" \notin state \/ "SWAPPED" \in state
  <2>1. KInv(Panic(k, "thread_continue"), s)
    BY PanicKeeps DEF Routines
  <2> QED
    BY <1>2, <1>5, <2>1
<1>6. ASSUME Stops(k, t) \/ "WAIT" \in state PROVE KInv(halted, s)
  <2>1. "SUSP" \in state \/ "WAIT" \in state
    BY <1>6 DEF Stops
  <2> QED
    BY <1>1, <2>1, LeavingStops
<1>7. CASE ~ ("RUN" \notin state \/ "SWAPPED" \in state) /\ Stops(k, t) /\ k.thread[t].wake_active
  <2>1. thread_continue(k, t, p) = k2
    BY <1>2, <1>4, <1>7
  <2>2. KInv(halted, s)
    BY <1>6, <1>7
  <2>3. KInv(k1, s)
    <3>1. halted.thread[t] \in ThreadRecord
      BY <1>3, KernelFields
    <3>2. QuietRecord(halted.thread[t], r)
      BY <3>1 DEF QuietRecord, ThreadRecord
    <3> HIDE DEF r
    <3>3. Quiet(halted, k1)
      BY <1>3, <3>2, QuietThread
    <3> HIDE DEF k1
    <3> QED
      BY <2>2, <3>3, QuietKeeps
  <2>4. k1 \in Kernels /\ k1.cpu = halted.cpu
    BY <1>3, <2>3 DEF KInv, Kernels
  <2> HIDE DEF k1
  <2>5. KInv(k2, s)
    <3>1. k1.cpu[p] \in CpuRecord /\ halted.cpu[p] \in CpuRecord
      BY <1>3, <2>4, KernelFields
    <3>2. /\ c \in CpuRecord /\ c.next_thread = k1.cpu[p].next_thread
          /\ c.new_thread = k1.cpu[p].new_thread /\ c.active = k1.cpu[p].active
          /\ c.state = k1.cpu[p].state
      BY <2>4, <3>1 DEF CpuRecord, SomeThread
    <3> HIDE DEF c
    <3>3. CpuOnly(k1, k2, p) /\ k2.cpu[p] = c
      BY <2>4, <3>2, SetCpu
    <3> HIDE DEF k2
    <3> QED
      BY <2>3, <3>2, <3>3, QuietCpu
  <2> QED
    BY <2>1, <2>5
<1>8. CASE /\ ~ ("RUN" \notin state \/ "SWAPPED" \in state)
           /\ ~ (Stops(k, t) /\ k.thread[t].wake_active)
           /\ Stops(k, t) \/ "WAIT" \in state
  <2>1. thread_continue(k, t, p) = halted
    BY <1>2, <1>8
  <2> QED
    BY <1>6, <1>8, <2>1
<1>9. CASE /\ ~ ("RUN" \notin state \/ "SWAPPED" \in state)
           /\ ~ (Stops(k, t) \/ "WAIT" \in state)
  <2>1. thread_continue(k, t, p) = thread_setrun(k, t)
    BY <1>2, <1>9
  <2>2. k.panicked = "no" => Others(k, s, t) /\ Lost(k, s, t)
    BY <1>9 DEF Leaving, Lost, Ready
  <2> QED
    BY <2>1, <2>2, SetrunKeeps
<1> HIDE DEF state
<1> QED
  BY <1>5, <1>7, <1>8, <1>9

-----------------------------------------------------------------------------
(* The last section of thread_doswapin.                                    *)

LEMMA DoswapinKeeps ==
  ASSUME NEW k, NEW out, NEW t \in Threads,
         KInv(k, [out |-> out, in |-> t, home |-> NoThread])
  PROVE  KInv(thread_doswapin(k, t), [out |-> out, in |-> NoThread, home |-> NoThread])
<1> DEFINE s == [out |-> out, in |-> t, home |-> NoThread]
           s1 == [out |-> out, in |-> NoThread, home |-> t]
           s2 == [out |-> out, in |-> NoThread, home |-> NoThread]
           pinned == k.thread[t].make_unswappable
           r == [k.thread[t] EXCEPT !.swap_state = IF pinned THEN "UNSWAPPABLE" ELSE "IN",
                                    !.make_unswappable = FALSE]
           in == [k EXCEPT !.thread[t] = r]
           told == IF pinned THEN thread_wakeup(in, SwapEvent(t), "AWAKENED") ELSE in
           here == [told EXCEPT !.thread[t].state = @ \ {"SWAPPED"}]
<1>1. thread_doswapin(k, t) = IF "RUN" \in here.thread[t].state THEN thread_setrun(here, t)
                                                               ELSE here
  <2> DEFINE in0 == [k EXCEPT !.thread[t].swap_state = IF pinned THEN "UNSWAPPABLE" ELSE "IN",
                              !.thread[t].make_unswappable = FALSE]
             told0 == IF pinned THEN thread_wakeup(in0, SwapEvent(t), "AWAKENED") ELSE in0
             here0 == [told0 EXCEPT !.thread[t].state = @ \ {"SWAPPED"}]
  <2>1. thread_doswapin(k, t) = IF "RUN" \in here0.thread[t].state THEN thread_setrun(here0, t)
                                                                  ELSE here0
    BY Zenon DEF thread_doswapin
  <2>2. in0 = in
    BY DEF KInv, Kernels
  <2> HIDE DEF in0, in
  <2>3. told0 = told
    BY <2>2
  <2> HIDE DEF told0, told
  <2>4. here0 = here
    BY <2>3
  <2> HIDE DEF here0, here
  <2> QED
    BY <2>1, <2>4
<1>2. k \in Kernels /\ k.thread[t] \in ThreadRecord
  BY KernelFields DEF KInv
<1>3. /\ r \in ThreadRecord /\ r.state = k.thread[t].state
      /\ r.wait_event = k.thread[t].wait_event /\ r.timer_set = k.thread[t].timer_set
      /\ r.swap_state \in {"IN", "UNSWAPPABLE"}
  BY <1>2 DEF ThreadRecord, SwapStates
<1> HIDE DEF r
<1>4. ThreadOnly(k, in, t) /\ in.thread[t] = r
  BY <1>2, <1>3, SetThread
<1> HIDE DEF in
<1>5. KInv(in, s1)
  <2>1. ASSUME k.panicked = "no" PROVE Good(in, s1)
    <3>1. t # NoThread
      BY NotThreads
    <3>2. Others(k, s, t) /\ Fine(k, s, t)
      BY <2>1, GoodIs DEF KInv
    <3>3. SwapperKept(s, s1, t)
      BY NotThreads DEF SwapperKept
    <3>4. /\ PlacesIn(in, t) = PlacesIn(k, t) /\ (Executes(in, t) <=> Executes(k, t))
          /\ Others(in, s1, t)
      BY <1>4, <3>2, <3>3, OnlyOthers
    <3>5. Placed(in, t) /\ Waiting(in, t) /\ Asserted(in, t) /\ Timing(in, t)
      BY <1>3, <1>4, <3>2, <3>4
         DEF ThreadOnly, Fine, Placed, Ready, Waiting, Asserted, Timing
    <3>6. Swapping(in, s1, t)
      <4>1. /\ k.thread[t].swap_state = "COMING_IN" /\ t \notin ToSet(k.swapin_queue)
            /\ "SWAPPED" \in k.thread[t].state /\ out # t
        BY <3>1, <3>2 DEF Fine, Swapping
      <4> QED
        BY <1>3, <1>4, <3>1, <4>1 DEF ThreadOnly, Swapping
    <3>7. AskedFor(in, s1, t) /\ WaitsForSome(in.thread[t], t)
      BY <1>3, <1>4, <3>2 DEF ThreadOnly, Fine, AskedFor, WaitsForSome
    <3> QED
      BY <3>4, <3>5, <3>6, <3>7, GoodIs DEF Fine
  <2> QED
    BY <1>4, <2>1 DEF KInv, ThreadOnly
<1>6. KInv(told, s1)
  <2>1. KInv(thread_wakeup(in, SwapEvent(t), "AWAKENED"), s1)
    BY <1>5, WakeupKeeps DEF WaitResults
  <2> QED
    BY <1>5, <2>1
<1> HIDE DEF told
<1>7. told \in Kernels /\ told.thread[t] \in ThreadRecord
  BY <1>6, KernelFields DEF KInv
<1> DEFINE bits == told.thread[t].state \ {"SWAPPED"}
<1>8. Restates(told, here, t, bits)
  <2>1. bits \in SUBSET StateBits
    BY <1>7 DEF ThreadRecord
  <2>2. here = [told EXCEPT !.thread[t].state = bits]
    OBVIOUS
  <2> HIDE DEF bits, here
  <2> QED
    BY <1>7, <2>1, <2>2, SetState
<1> HIDE DEF here
<1>9. here \in Kernels /\ here.panicked = told.panicked /\ here.thread[t].state = bits
  BY <1>8 DEF Restates, ThreadOnly
<1>10. ASSUME told.panicked = "no"
       PROVE  /\ Others(here, s2, t) /\ Swapping(here, s2, t) /\ AskedFor(here, s2, t)
              /\ Waiting(here, t) /\ Asserted(here, t) /\ WaitsForSome(here.thread[t], t)
              /\ Timing(here, t) /\ PlacesIn(here, t) = {} /\ ~ Executes(here, t)
  <2>1. Others(told, s1, t) /\ Fine(told, s1, t)
    BY <1>6, <1>10, GoodIs DEF KInv
  <2>2. SwapperKept(s1, s2, t)
    BY NotThreads DEF SwapperKept
  <2>3. /\ PlacesIn(here, t) = PlacesIn(told, t) /\ (Executes(here, t) <=> Executes(told, t))
        /\ Others(here, s2, t)
    BY <1>8, <2>1, <2>2, OnlyOthers DEF Restates
  <2>4. "SWAPPED" \in told.thread[t].state /\ told.thread[t].swap_state \in {"IN", "UNSWAPPABLE"}
    BY <2>1 DEF Fine, Swapping
  <2>5. PlacesIn(told, t) = {}
    BY <2>1, <2>4 DEF Fine, Placed, Ready
  <2>6. ~ Executes(told, t)
    BY <2>5 DEF PlacesIn, Executes
  <2>7. Waiting(here, t) /\ Asserted(here, t) /\ Timing(here, t)
    BY <1>8, <2>1, <2>3 DEF Restates, ThreadOnly, Fine, Waiting, Asserted, Timing
  <2>8. Swapping(here, s2, t)
    <3>1. t # NoThread
      BY NotThreads
    <3> QED
      BY <1>8, <2>1, <2>4, <3>1 DEF Restates, ThreadOnly, Fine, Swapping
  <2>9. AskedFor(here, s2, t) /\ WaitsForSome(here.thread[t], t)
    BY <1>8, <2>1, <2>4 DEF Restates, ThreadOnly, Fine, AskedFor, WaitsForSome
  <2> QED
    BY <2>3, <2>5, <2>6, <2>7, <2>8, <2>9
<1>11. CASE "RUN" \in bits
  <2>1. told.panicked = "no" => Lost(here, s2, t)
    BY <1>9, <1>10, <1>11 DEF Lost, Ready, Asserted
  <2>2. KInv(thread_setrun(here, t), s2)
    BY <1>9, <1>10, <2>1, SetrunKeeps
  <2> QED
    BY <1>1, <1>9, <1>11, <2>2
<1>12. CASE "RUN" \notin bits
  <2>1. told.panicked = "no" => Placed(here, t)
    BY <1>9, <1>10, <1>12 DEF Placed, Ready
  <2>2. told.panicked = "no" => Good(here, s2)
    BY <1>10, <2>1, GoodIs DEF Fine
  <2>3. KInv(here, s2)
    BY <1>9, <2>2 DEF KInv
  <2> QED
    BY <1>1, <1>9, <1>12, <2>3
<1> QED
  BY <1>11, <1>12

\* Only the places where threads run from change, ...
Moves(k, k2) ==
    /\ k2 \in Kernels
    /\ k2.wait_queue = k.wait_queue
    /\ k2.swapin_queue = k.swapin_queue
    /\ k2.timer = k.timer
    /\ k2.panicked = k.panicked
    /\ \A u \in Threads : /\ k2.thread[u].state = k.thread[u].state
                          /\ k2.thread[u].wait_event = k.thread[u].wait_event
                          /\ k2.thread[u].swap_state = k.thread[u].swap_state
                          /\ k2.thread[u].timer_set = k.thread[u].timer_set
    /\ \A q \in Processors : k2.cpu[q].active = k.cpu[q].active

\* ... and one thread goes from one place to another.
Arrives(k, k2, n) ==
    /\ Idling(k2)
    /\ \A u \in Threads \ {n} : PlacesIn(k2, u) = PlacesIn(k, u)
    /\ n \in Threads => PlacesIn(k, n) # {} /\ \E w : PlacesIn(k2, n) = {w}

LEMMA MoveKeeps ==
  ASSUME NEW k, NEW k2, NEW s, NEW n, KInv(k, s), Moves(k, k2),
         Good(k, s) => Arrives(k, k2, n)
  PROVE  KInv(k2, s)
<1> USE DEF Moves, Arrives
<1>1. ASSUME k.panicked = "no" PROVE Good(k2, s)
  <2>1. Good(k, s)
    BY <1>1 DEF KInv
  <2>2. \A u \in Threads : Executes(k2, u) <=> Executes(k, u)
    BY DEF Executes
  <2>3. \A u \in Threads \ {n} : Fine(k2, s, u)
    <3>1. \A u \in Threads \ {n} : Alike(k, s, k2, s, u)
      BY <2>1, <2>2 DEF Alike
    <3> QED
      BY <2>1, <3>1, AlikeFine DEF Good
  <2>4. ASSUME n \in Threads PROVE Fine(k2, s, n)
    <3>1. Fine(k, s, n)
      BY <2>1, <2>4 DEF Good
    <3>2. Placed(k2, n)
      BY <2>1, <2>4, <3>1 DEF Fine, Placed, Ready
    <3>3. /\ Swapping(k2, s, n) /\ AskedFor(k2, s, n) /\ Waiting(k2, n)
          /\ WaitsForSome(k2.thread[n], n) /\ Timing(k2, n) /\ Asserted(k2, n)
      BY <2>2, <2>4, <3>1 DEF Fine, Swapping, AskedFor, Waiting, WaitsForSome, Timing, Asserted
    <3> QED
      BY <3>2, <3>3 DEF Fine
  <2> QED
    BY <2>1, <2>3, <2>4 DEF Good
<1> QED
  BY <1>1 DEF KInv

-----------------------------------------------------------------------------
(* The steps of the specification: their kernel states and their calls.    *)

LEMMA KernelIs ==
  /\ Kernel.thread = thread /\ Kernel.cpu = cpu /\ Kernel.runq = runq
  /\ Kernel.idle_queue = idle_queue /\ Kernel.wait_queue = wait_queue
  /\ Kernel.swapin_queue = swapin_queue /\ Kernel.timer = timer
  /\ Kernel.panicked = panicked
  /\ Kernel'.thread = thread' /\ Kernel'.cpu = cpu' /\ Kernel'.runq = runq'
  /\ Kernel'.idle_queue = idle_queue' /\ Kernel'.wait_queue = wait_queue'
  /\ Kernel'.swapin_queue = swapin_queue' /\ Kernel'.timer = timer'
  /\ Kernel'.panicked = panicked'
BY DEF Kernel

LEMMA BecomesIs ==
  ASSUME NEW k \in Kernels, Becomes(k)
  PROVE  Kernel' = k
BY DEF Becomes, Kernel, Kernels

\* The two halves of the invariant after a step that calls the routines.
LEMMA StepKeeps ==
  ASSUME IInv, NEW k, Becomes(k), KInv(k, Settled(swapper)), UNCHANGED swapper, CallsOK'
  PROVE  IInv'
<1>1. Kernel' = k
  BY BecomesIs DEF KInv
<1>2. Settled(swapper)' = Settled(swapper)
  BY DEF Settled
<1>3. KInv(Kernel, Settled(swapper))'
  BY <1>1, <1>2
<1> QED
  BY <1>3 DEF IInv

\* A step that changes no more than flags, counts and results of threads.
LEMMA QuietStep ==
  ASSUME IInv, NEW t \in Threads, NEW r, QuietRecord(thread[t], r),
         thread' = [thread EXCEPT ![t] = r],
         UNCHANGED <<cpu, runq, idle_queue, wait_queue, swapin_queue, timer, panicked, swapper>>,
         CallsOK'
  PROVE  IInv'
<1> DEFINE k == [Kernel EXCEPT !.thread[t] = r]
<1>1. KInv(Kernel, Settled(swapper)) /\ Kernel \in Kernels
  BY DEF IInv, KInv
<1>2. Becomes(k)
  BY KernelIs DEF Becomes, Kernel
<1>3. Quiet(Kernel, k)
  BY <1>1, KernelIs, QuietThread
<1> HIDE DEF k
<1>4. KInv(k, Settled(swapper))
  BY <1>1, <1>3, QuietKeeps
<1> QED
  BY <1>2, <1>4, StepKeeps

LEMMA CallsOnly ==
  ASSUME IInv, CallsOK',
         UNCHANGED <<thread, cpu, runq, idle_queue, wait_queue, swapin_queue, timer, panicked,
                     swapper>>
  PROVE  IInv'
<1>1. Kernel' = Kernel /\ Settled(swapper)' = Settled(swapper)
  BY DEF Kernel, Settled
<1> QED
  BY <1>1 DEF IInv

LEMMA SetCall ==
  ASSUME CallsOK, NEW t \in Threads, NEW c \in CallRecord, CallOK(c),
         call' = [call EXCEPT ![t] = c]
  PROVE  CallsOK'
BY DEF CallsOK

LEMMA ReturnOK ==
  ASSUME CallsOK, NEW t \in Threads, Return(t)
  PROVE  CallsOK'
<1>1. InUser \in CallRecord /\ CallOK(InUser)
  BY DEF InUser, CallRecord, CallOK, Points, SomeThread, AllEvents
<1> QED
  BY <1>1, SetCall DEF Return

LEMMA GotoOK ==
  ASSUME CallsOK, NEW t \in Threads, NEW at \in Points, Goto(t, at), at # "clear_locked",
         at \notin {"run", "asserted", "halt_self", "halted"} => call[t].target \in Threads,
         at \in {"swappable_sleep", "swappable_awake"} => call[t].target \in Pinned
  PROVE  CallsOK'
<1> DEFINE c == [call[t] EXCEPT !.at = at]
<1>1. call[t] \in CallRecord
  BY DEF CallsOK
<1>2. c \in CallRecord /\ c.at = at /\ c.target = call[t].target /\ c.event = call[t].event
  BY <1>1 DEF CallRecord
<1>3. CallOK(c)
  BY <1>2 DEF CallOK
<1>4. call' = [call EXCEPT ![t] = c]
  BY DEF Goto
<1> HIDE DEF c
<1> QED
  BY <1>2, <1>3, <1>4, SetCall

LEMMA EnterOK ==
  ASSUME CallsOK, NEW t \in Threads, NEW at \in Points, NEW target \in Threads,
         NEW must \in BOOLEAN, NEW from \in {"user", "suspend", "resume", "halt", "swappable"},
         Enter(t, at, target, must, from), at # "clear_locked",
         at \in {"swappable_sleep", "swappable_awake"} => target \in Pinned
  PROVE  CallsOK'
<1> DEFINE c == [InUser EXCEPT !.at = at, !.target = target, !.must = must, !.from = from]
<1>1. c \in CallRecord /\ c.at = at /\ c.target = target
  BY DEF InUser, CallRecord, SomeThread, AllEvents
<1>2. CallOK(c)
  BY <1>1 DEF CallOK
<1>3. call' = [call EXCEPT ![t] = c]
  BY DEF Enter
<1> HIDE DEF c
<1> QED
  BY <1>1, <1>2, <1>3, SetCall

LEMMA SameCalls ==
  ASSUME CallsOK, UNCHANGED call
  PROVE  CallsOK'
BY DEF CallsOK, CallOK

\* A thread at a point of its routine executes.
LEMMA AtExecutes ==
  ASSUME NEW t, NEW at, At(t, at)
  PROVE  Executes(Kernel, t) /\ call[t].at = at
BY KernelIs DEF At, RunsOn, Executes

-----------------------------------------------------------------------------
(* The context switch.                                                     *)

LEMMA ProcessorIdlesKeeps ==
  ASSUME IInv, NEW p \in Processors, ProcessorIdles(p)
  PROVE  IInv'
<1> DEFINE k == Kernel
           s == Settled(swapper)
           c == [cpu[p] EXCEPT !.state = "IDLE"]
           q == IF p = MasterProcessor THEN Append(idle_queue, p) ELSE <<p>> \o idle_queue
           k2 == [k EXCEPT !.idle_queue = q, !.cpu = [@ EXCEPT ![p] = c]]
<1>1. KInv(k, s) /\ k \in Kernels
  BY DEF IInv, KInv
<1>2. cpu[p] \in CpuRecord /\ idle_queue \in Seq(Processors) /\ cpu \in [Processors -> CpuRecord]
  BY <1>1, KernelFields, KernelIs
<1>3. /\ c \in CpuRecord /\ c.state = "IDLE" /\ c.next_thread = cpu[p].next_thread
      /\ c.new_thread = cpu[p].new_thread /\ c.active = cpu[p].active
  BY <1>2 DEF CpuRecord
<1>4. /\ q \in Seq(Processors) /\ ToSet(q) = ToSet(idle_queue) \cup {p}
      /\ IsInjective(idle_queue) /\ p \notin ToSet(idle_queue) => IsInjective(q)
  BY <1>2, QueueAppend, QueueCons
<1>5. Becomes(k2)
  BY KernelIs DEF ProcessorIdles, Becomes, Kernel
<1> HIDE DEF c, q
<1>6. /\ k2 \in Kernels /\ k2.cpu = [cpu EXCEPT ![p] = c] /\ k2.idle_queue = q
      /\ k2.thread = k.thread /\ k2.runq = k.runq /\ k2.wait_queue = k.wait_queue
      /\ k2.swapin_queue = k.swapin_queue /\ k2.timer = k.timer /\ k2.panicked = k.panicked
  BY <1>1, <1>2, <1>3, <1>4, KernelIs DEF Kernels
<1> HIDE DEF k2
<1>7. k2.cpu[p] = c /\ \A x \in Processors \ {p} : k2.cpu[x] = cpu[x]
  BY <1>2, <1>6
<1>8. ASSUME k.panicked = "no" PROVE Good(k2, s)
  <2>1. Good(k, s) /\ Idling(k)
    BY <1>1, <1>8 DEF KInv, Good
  <2>2. p \notin ToSet(idle_queue) /\ cpu[p].next_thread = NoThread
    BY <2>1, KernelIs DEF Idling, ProcessorIdles
  <2>3. Idling(k2)
    BY <1>3, <1>4, <1>6, <1>7, <2>1, <2>2, KernelIs DEF Idling
  <2>4. \A u \in Threads : Alike(k, s, k2, s, u)
    <3>1. \A u : PlacesIn(k2, u) = PlacesIn(k, u) /\ (Executes(k2, u) <=> Executes(k, u))
      <4>1. k2.runq = k.runq
            /\ \A x \in Processors : /\ k2.cpu[x].next_thread = k.cpu[x].next_thread
                                     /\ k2.cpu[x].new_thread = k.cpu[x].new_thread
                                     /\ k2.cpu[x].active = k.cpu[x].active
        BY <1>3, <1>6, <1>7, KernelIs
      <4> HIDE DEF k
      <4> QED
        BY <4>1, SamePlaces
    <3> QED
      BY <1>6, <3>1 DEF Alike
  <2> QED
    BY <1>6, <2>1, <2>3, <2>4, GoodStays DEF Good
<1>9. KInv(k2, s)
  BY <1>6, <1>8 DEF KInv
<1> QED
  BY <1>5, <1>9, StepKeeps, SameCalls DEF ProcessorIdles, IInv

LEMMA SwitchContextKeeps ==
  ASSUME IInv, NEW p \in Processors, SwitchContext(p)
  PROVE  IInv'
<1> DEFINE k == Kernel
           s == Settled(swapper)
           t == k.cpu[p].active
           k2 == Switched(k, p)
           k3 == IF t = IdleThread THEN k2 ELSE thread_continue(k2, t, p)
<1>1. KInv(k, s) /\ k \in Kernels
  BY DEF IInv, KInv
<1>2. k.cpu[p].new_thread # NoThread
  BY KernelIs DEF SwitchContext
<1>3. Becomes(k3)
  BY KernelIs DEF SwitchContext, Switched
<1>4. CpuOnly(k, k2, p)
  BY <1>1, <1>2, SwitchedIs
<1>5. t \in Threads \cup {IdleThread}
  <2>1. k.cpu[p] \in CpuRecord
    BY <1>1, KernelFields
  <2> QED
    BY <2>1 DEF CpuRecord
<1>6. k.panicked = "no" =>
        /\ Good(k, s)
        /\ Idling(k2) /\ IsInjective(k2.wait_queue) /\ IsInjective(k2.swapin_queue)
        /\ \A u \in Threads \ {t} : Fine(k2, s, u)
        /\ t \in Threads => PlacesIn(k2, t) = {}
  BY <1>1, <1>2, SwitchedKeeps DEF KInv
<1>7. k2 \in Kernels /\ k2.panicked = k.panicked
  BY <1>4 DEF CpuOnly
<1> HIDE DEF k2
<1>8. KInv(k3, s)
  <2>1. CASE t = IdleThread
    <3>1. k.panicked = "no" => Good(k2, s)
      BY <1>6, <2>1, NotThreads DEF Good
    <3> QED
      BY <1>7, <2>1, <3>1 DEF KInv
  <2>2. CASE t # IdleThread
    <3>1. t \in Threads
      BY <1>5, <2>2
    <3>2. ASSUME k.panicked = "no" PROVE Leaving(k2, s, t)
      <4>1. Others(k2, s, t) /\ PlacesIn(k2, t) = {}
        BY <1>6, <3>1, <3>2 DEF Others
      <4>2. Fine(k, s, t)
        BY <1>6, <3>1, <3>2 DEF Good
      <4>3. /\ Swapping(k2, s, t) /\ AskedFor(k2, s, t) /\ Waiting(k2, t)
            /\ WaitsForSome(k2.thread[t], t) /\ Timing(k2, t)
        BY <1>4, <4>2 DEF CpuOnly, Fine, Swapping, AskedFor, Waiting, WaitsForSome, Timing
      <4> QED
        BY <4>1, <4>3 DEF Leaving
    <3>3. KInv(thread_continue(k2, t, p), s)
      BY <1>7, <3>1, <3>2, ContinueKeeps
    <3> QED
      BY <2>2, <3>3
  <2> QED
    BY <2>1, <2>2
<1> HIDE DEF k3
<1> QED
  BY <1>3, <1>8, StepKeeps, SameCalls DEF SwitchContext, IInv

LEMMA AnnounceStopKeeps ==
  ASSUME IInv, NEW p \in Processors, AnnounceStop(p)
  PROVE  IInv'
<1> DEFINE k == Kernel
           s == Settled(swapper)
           c == [cpu[p] EXCEPT !.wake = NoThread]
           k2 == [k EXCEPT !.cpu[p] = c]
           k3 == thread_wakeup(k2, WakeActive(cpu[p].wake), "AWAKENED")
<1>1. KInv(k, s) /\ k \in Kernels
  BY DEF IInv, KInv
<1>2. cpu[p] \in CpuRecord
  BY <1>1, KernelFields, KernelIs
<1>3. /\ c \in CpuRecord /\ c.state = cpu[p].state /\ c.next_thread = cpu[p].next_thread
      /\ c.new_thread = cpu[p].new_thread /\ c.active = cpu[p].active
  BY <1>2 DEF CpuRecord, SomeThread
<1>4. [k EXCEPT !.cpu[p].wake = NoThread] = k2
  BY <1>1, KernelIs
<1>5. Becomes(k3)
  BY <1>4 DEF AnnounceStop
<1> HIDE DEF c
<1>6. CpuOnly(k, k2, p) /\ k2.cpu[p] = c
  BY <1>1, <1>3, SetCpu
<1> HIDE DEF k2
<1>7. KInv(k2, s)
  BY <1>1, <1>3, <1>6, KernelIs, QuietCpu
<1>8. KInv(k3, s)
  BY <1>7, WakeupKeeps DEF WaitResults
<1> HIDE DEF k3
<1> QED
  BY <1>5, <1>8, StepKeeps, SameCalls DEF AnnounceStop, IInv

\* The chosen thread goes from the run queue to the context switch.
LEMMA ChooseKeeps ==
  ASSUME IInv, NEW p \in Processors, Choose(p), cpu[p].new_thread = NoThread,
         UNCHANGED <<idle_queue, wait_queue, swapin_queue, timer, panicked>>
  PROVE  KInv(Kernel', Settled(swapper))
<1> DEFINE k == Kernel
           k2 == Kernel'
           s == Settled(swapper)
<1>1. KInv(k, s) /\ k \in Kernels
  BY DEF IInv, KInv
<1>2. /\ thread \in [Threads -> ThreadRecord] /\ cpu \in [Processors -> CpuRecord]
      /\ runq \subseteq Threads
  BY <1>1, KernelFields, KernelIs
<1>3. PICK n \in runq \cup {IdleThread} :
        /\ cpu' = [cpu EXCEPT ![p].new_thread = n]
        /\ n = IdleThread => UNCHANGED <<thread, runq>>
        /\ n # IdleThread => /\ runq' = runq \ {n}
                             /\ thread' = [thread EXCEPT ![n].interruptible = TRUE]
  BY <1>2, NotThreads DEF Choose
<1> DEFINE c == [cpu[p] EXCEPT !.new_thread = n]
<1>4. /\ c \in CpuRecord /\ c.state = cpu[p].state /\ c.next_thread = cpu[p].next_thread
      /\ c.new_thread = n /\ c.active = cpu[p].active
  <2>1. cpu[p] \in CpuRecord
    BY <1>2
  <2> QED
    BY <1>2, <2>1 DEF CpuRecord, SomeThread
<1>5. cpu' = [cpu EXCEPT ![p] = c]
  BY <1>3
<1> HIDE DEF c
<1>6. /\ cpu' \in [Processors -> CpuRecord] /\ cpu'[p] = c
      /\ \A q \in Processors \ {p} : cpu'[q] = cpu[q]
  BY <1>2, <1>4, <1>5
<1>7. /\ thread' \in [Threads -> ThreadRecord] /\ runq' \subseteq Threads
      /\ \A u \in Threads : /\ thread'[u].state = thread[u].state
                            /\ thread'[u].wait_event = thread[u].wait_event
                            /\ thread'[u].swap_state = thread[u].swap_state
                            /\ thread'[u].timer_set = thread[u].timer_set
  <2>1. CASE n = IdleThread
    BY <1>2, <1>3, <2>1
  <2>2. CASE n # IdleThread
    <3> DEFINE r == [thread[n] EXCEPT !.interruptible = TRUE]
    <3>1. n \in Threads /\ thread[n] \in ThreadRecord
      BY <1>2, <2>2
    <3>2. QuietRecord(thread[n], r)
      BY <3>1 DEF QuietRecord, ThreadRecord
    <3>3. thread' = [thread EXCEPT ![n] = r]
      BY <1>3, <2>2
    <3> HIDE DEF r
    <3> QED
      BY <1>2, <1>3, <2>2, <3>1, <3>2, <3>3 DEF QuietRecord
  <2> QED
    BY <2>1, <2>2
<1>8. k2 \in Kernels
  <2>1. /\ idle_queue' \in Seq(Processors) /\ wait_queue' \in Seq(Threads)
        /\ swapin_queue' \in Seq(Threads) /\ timer' \in [Threads -> Timers]
        /\ panicked' \in Routines
    BY <1>1, KernelFields, KernelIs
  <2> QED
    BY <1>6, <1>7, <2>1 DEF Kernel, Kernels
<1>9. ASSUME Good(k, s)
      PROVE  Arrives(k, k2, n)
  <2>1. Idling(k2)
    BY <1>4, <1>6, <1>9, KernelIs DEF Good, Idling
  <2>2. \A u \in Threads : u # NoThread /\ u # IdleThread
    BY NotThreads
  <2>3. ASSUME NEW u \in Threads \ {n} PROVE PlacesIn(k2, u) = PlacesIn(k, u)
    <3>1. u \in runq' <=> u \in runq
      BY <1>3
    <3>2. \A q \in Processors : /\ cpu'[q].next_thread = u <=> cpu[q].next_thread = u
                                /\ cpu'[q].new_thread = u <=> cpu[q].new_thread = u
                                /\ cpu'[q].active = u <=> cpu[q].active = u
      BY <1>4, <1>6, <2>2
    <3> QED
      BY <3>1, <3>2, KernelIs, SamePlaces
  <2>4. ASSUME n \in Threads
        PROVE  PlacesIn(k, n) # {} /\ \E w : PlacesIn(k2, n) = {w}
    <3>1. n \in runq /\ n # IdleThread
      BY <1>3, <2>2, <2>4
    <3>2. <<"runq">> \in PlacesIn(k, n)
      BY <3>1, KernelIs, PlaceIs
    <3>3. PlacesIn(k, n) = {<<"runq">>}
      BY <1>9, <2>4, <3>2 DEF Good, Fine, Placed
    <3>4. \A q \in Processors : /\ cpu[q].next_thread # n /\ cpu[q].new_thread # n
                                /\ cpu[q].active # n
      BY <3>3, KernelIs, RunqOnly
    <3>5. /\ {q \in Processors : cpu'[q].next_thread = n} = {}
          /\ {q \in Processors : cpu'[q].new_thread = n} = {p}
          /\ {q \in Processors : cpu'[q].active = n} = {}
      BY <1>4, <1>6, <3>4
    <3>6. n \notin runq'
      BY <1>3, <3>1
    <3>7. PlacesIn(k2, n) = {<<"new", p>>}
      BY <3>5, <3>6, KernelIs DEF PlacesIn
    <3> QED
      BY <3>2, <3>7
  <2> QED
    BY <2>1, <2>3, <2>4 DEF Arrives
<1>10. \A q \in Processors : cpu'[q].active = cpu[q].active
  BY <1>4, <1>6
<1>11. Moves(k, k2)
  BY <1>7, <1>8, <1>10, KernelIs DEF Moves
<1> HIDE DEF k, k2, s
<1>12. KInv(k2, s)
  BY <1>1, <1>9, <1>11, MoveKeeps
<1> QED
  BY <1>12 DEF k2, s

LEMMA IdleBlocksKeeps ==
  ASSUME IInv, NEW p \in Processors, IdleBlocks(p)
  PROVE  IInv'
<1>1. KInv(Kernel', Settled(swapper))
  BY ChooseKeeps DEF IdleBlocks, RunsOn
<1>2. Settled(swapper)' = Settled(swapper)
  BY DEF IdleBlocks, Settled
<1>3. KInv(Kernel, Settled(swapper))'
  BY <1>1, <1>2
<1> QED
  BY <1>3, SameCalls DEF IInv, IdleBlocks

LEMMA thread_blockKeeps ==
  ASSUME IInv, NEW t \in Threads, NEW p \in Processors, thread_block(t, p)
  PROVE  IInv'
<1>1. CallsOK'
  <2> DEFINE c == Resumed(t)
  <2>1. CallsOK /\ call[t] \in CallRecord /\ CallOK(call[t])
    BY DEF IInv, CallsOK
  <2>2. c \in CallRecord /\ CallOK(c)
    <3>1. CASE After(call[t].at) = "run"
      BY <3>1 DEF Resumed, InUser, CallRecord, CallOK, Points, SomeThread, AllEvents
    <3>2. CASE After(call[t].at) # "run"
      <4>1. \/ call[t].at = "dowait_sleep" /\ After(call[t].at) = "dowait_awake"
            \/ call[t].at = "halt_sleep" /\ After(call[t].at) = "halt_awake"
            \/ call[t].at = "swappable_sleep" /\ After(call[t].at) = "swappable_awake"
        BY <3>2 DEF After
      <4>2. c = [call[t] EXCEPT !.at = After(call[t].at)]
        BY <3>2 DEF Resumed
      <4>3. /\ c \in CallRecord /\ c.at = After(call[t].at) /\ c.target = call[t].target
            /\ c.event = call[t].event
        BY <2>1, <4>1, <4>2 DEF CallRecord, Points
      <4>4. CallOK(c)
        BY <2>1, <4>1, <4>3 DEF CallOK
      <4> QED
        BY <4>3, <4>4
    <3> QED
      BY <3>1, <3>2
  <2>3. call' = [call EXCEPT ![t] = c]
    BY DEF thread_block
  <2> HIDE DEF c
  <2> QED
    BY <2>1, <2>2, <2>3, SetCall
<1>2. CASE KeepsRunning(t)
  BY <1>1, <1>2, CallsOnly DEF thread_block
<1>3. CASE ~ KeepsRunning(t)
  <2>1. KInv(Kernel', Settled(swapper))
    BY <1>3, ChooseKeeps DEF thread_block, RunsOn
  <2>2. Settled(swapper)' = Settled(swapper)
    BY DEF thread_block, Settled
  <2>3. KInv(Kernel, Settled(swapper))'
    BY <2>1, <2>2
  <2> QED
    BY <1>1, <2>3 DEF IInv, thread_block
<1> QED
  BY <1>2, <1>3

LEMMA IdleDispatchedKeeps ==
  ASSUME IInv, NEW p \in Processors, IdleDispatched(p)
  PROVE  IInv'
<1> DEFINE k == Kernel
           k2 == Kernel'
           s == Settled(swapper)
           n == cpu[p].next_thread
           c == [cpu[p] EXCEPT !.state = "RUNNING", !.next_thread = NoThread, !.new_thread = n]
<1>1. KInv(k, s) /\ k \in Kernels
  BY DEF IInv, KInv
<1>2. thread \in [Threads -> ThreadRecord] /\ cpu \in [Processors -> CpuRecord]
  BY <1>1, KernelFields, KernelIs
<1>3. n \in SomeThread /\ cpu[p].new_thread = NoThread /\ cpu[p].state = "DISPATCHING"
  <2>1. cpu[p] \in CpuRecord
    BY <1>2
  <2> QED
    BY <2>1 DEF CpuRecord, IdleDispatched, RunsOn
<1>4. /\ c \in CpuRecord /\ c.state = "RUNNING" /\ c.next_thread = NoThread
      /\ c.new_thread = n /\ c.active = cpu[p].active
  <2>1. cpu[p] \in CpuRecord
    BY <1>2
  <2> QED
    BY <1>3, <2>1 DEF CpuRecord, SomeThread
<1>5. cpu' = [cpu EXCEPT ![p] = c]
  BY DEF IdleDispatched
<1> HIDE DEF c
<1>6. /\ cpu' \in [Processors -> CpuRecord] /\ cpu'[p] = c
      /\ \A q \in Processors \ {p} : cpu'[q] = cpu[q]
  BY <1>2, <1>4, <1>5
<1>7. /\ thread' \in [Threads -> ThreadRecord]
      /\ \A u \in Threads : /\ thread'[u].state = thread[u].state
                            /\ thread'[u].wait_event = thread[u].wait_event
                            /\ thread'[u].swap_state = thread[u].swap_state
                            /\ thread'[u].timer_set = thread[u].timer_set
  <2>1. CASE n \notin Threads
    <3>1. thread' = thread
      BY <1>2, <2>1 DEF IdleDispatched
    <3> QED
      BY <1>2, <3>1
  <2>2. CASE n \in Threads
    <3> DEFINE r == [thread[n] EXCEPT !.interruptible = TRUE]
    <3>1. thread[n] \in ThreadRecord
      BY <1>2, <2>2
    <3>2. QuietRecord(thread[n], r)
      BY <3>1 DEF QuietRecord, ThreadRecord
    <3>3. thread' = [thread EXCEPT ![n] = r]
      BY <2>2 DEF IdleDispatched
    <3> HIDE DEF r, n
    <3> QED
      BY <1>2, <2>2, <3>1, <3>2, <3>3 DEF QuietRecord
  <2> QED
    BY <2>1, <2>2
<1>8. k2 \in Kernels
  <2>1. /\ runq' \subseteq Threads
        /\ idle_queue' \in Seq(Processors) /\ wait_queue' \in Seq(Threads)
        /\ swapin_queue' \in Seq(Threads) /\ timer' \in [Threads -> Timers]
        /\ panicked' \in Routines
    BY <1>1, KernelFields, KernelIs DEF IdleDispatched
  <2> QED
    BY <1>6, <1>7, <2>1 DEF Kernel, Kernels
<1>9. ASSUME Good(k, s)
      PROVE  Arrives(k, k2, n)
  <2>1. Idling(k2)
    BY <1>3, <1>4, <1>6, <1>9, KernelIs DEF Good, Idling, IdleDispatched
  <2>2. \A u \in Threads : u # NoThread
    BY NotThreads
  <2>3. ASSUME NEW u \in Threads \ {n} PROVE PlacesIn(k2, u) = PlacesIn(k, u)
    <3>1. u \in runq' <=> u \in runq
      BY DEF IdleDispatched
    <3>2. \A q \in Processors : /\ cpu'[q].next_thread = u <=> cpu[q].next_thread = u
                                /\ cpu'[q].new_thread = u <=> cpu[q].new_thread = u
                                /\ cpu'[q].active = u <=> cpu[q].active = u
      BY <1>3, <1>4, <1>6, <2>2
    <3> QED
      BY <3>1, <3>2, KernelIs, SamePlaces
  <2>4. ASSUME n \in Threads
        PROVE  PlacesIn(k, n) # {} /\ \E w : PlacesIn(k2, n) = {w}
    <3>1. <<"next", p>> \in PlacesIn(k, n)
      BY KernelIs, PlaceIs
    <3>2. PlacesIn(k, n) = {<<"next", p>>}
      BY <1>9, <2>4, <3>1 DEF Good, Fine, Placed
    <3>3. n \notin runq
          /\ \A q \in Processors : /\ q # p => cpu[q].next_thread # n
                                   /\ cpu[q].new_thread # n /\ cpu[q].active # n
      BY <3>2, KernelIs, NextOnly
    <3>4. /\ {q \in Processors : cpu'[q].next_thread = n} = {}
          /\ {q \in Processors : cpu'[q].new_thread = n} = {p}
          /\ {q \in Processors : cpu'[q].active = n} = {}
      BY <1>4, <1>6, <2>2, <2>4, <3>3
    <3>5. n \notin runq'
      BY <3>3 DEF IdleDispatched
    <3>6. PlacesIn(k2, n) = {<<"new", p>>}
      BY <3>4, <3>5, KernelIs DEF PlacesIn
    <3> QED
      BY <3>1, <3>6
  <2> QED
    BY <2>1, <2>3, <2>4 DEF Arrives
<1>10. Moves(k, k2)
  BY <1>4, <1>6, <1>7, <1>8, KernelIs DEF Moves, IdleDispatched
<1>11. s' = s /\ CallsOK'
  BY SameCalls DEF IdleDispatched, Settled, IInv
<1> HIDE DEF k, k2, s, n
<1>12. KInv(k2, s)
  BY <1>1, <1>9, <1>10, MoveKeeps
<1>13. KInv(Kernel, Settled(swapper))'
  BY <1>11, <1>12 DEF k2, s
<1> QED
  BY <1>11, <1>13 DEF IInv, IdleDispatched

LEMMA IdleNotDispatchedKeeps ==
  ASSUME IInv, NEW p \in Processors, IdleNotDispatched(p)
  PROVE  IInv'
<1> DEFINE k == Kernel
           s == Settled(swapper)
           c == [cpu[p] EXCEPT !.state = "RUNNING"]
           q == RemoveFirst(idle_queue, p)
           k2 == [k EXCEPT !.idle_queue = q, !.cpu = [@ EXCEPT ![p] = c]]
<1>1. KInv(k, s) /\ k \in Kernels
  BY DEF IInv, KInv
<1>2. cpu[p] \in CpuRecord /\ idle_queue \in Seq(Processors) /\ cpu \in [Processors -> CpuRecord]
  BY <1>1, KernelFields, KernelIs
<1>3. /\ c \in CpuRecord /\ c.state = "RUNNING" /\ c.next_thread = cpu[p].next_thread
      /\ c.new_thread = cpu[p].new_thread /\ c.active = cpu[p].active
  BY <1>2 DEF CpuRecord
<1>4. /\ q \in Seq(Processors)
      /\ IsInjective(idle_queue) => IsInjective(q) /\ ToSet(q) = ToSet(idle_queue) \ {p}
  BY <1>2, QueueRemove
<1>5. Becomes(k2)
  BY KernelIs DEF IdleNotDispatched, Becomes, Kernel
<1> HIDE DEF c, q
<1>6. /\ k2 \in Kernels /\ k2.cpu = [cpu EXCEPT ![p] = c] /\ k2.idle_queue = q
      /\ k2.thread = k.thread /\ k2.runq = k.runq /\ k2.wait_queue = k.wait_queue
      /\ k2.swapin_queue = k.swapin_queue /\ k2.timer = k.timer /\ k2.panicked = k.panicked
  BY <1>1, <1>2, <1>3, <1>4, KernelIs DEF Kernels
<1> HIDE DEF k2
<1>7. k2.cpu[p] = c /\ \A x \in Processors \ {p} : k2.cpu[x] = cpu[x]
  BY <1>2, <1>6
<1>8. ASSUME k.panicked = "no" PROVE Good(k2, s)
  <2>1. Good(k, s) /\ Idling(k)
    BY <1>1, <1>8 DEF KInv, Good
  <2>2. cpu[p].next_thread = NoThread
    BY <2>1, KernelIs DEF Idling, IdleNotDispatched
  <2>3. Idling(k2)
    BY <1>3, <1>4, <1>6, <1>7, <2>1, <2>2, KernelIs DEF Idling
  <2>4. \A u \in Threads : Alike(k, s, k2, s, u)
    <3>1. \A u : PlacesIn(k2, u) = PlacesIn(k, u) /\ (Executes(k2, u) <=> Executes(k, u))
      <4>1. k2.runq = k.runq
            /\ \A x \in Processors : /\ k2.cpu[x].next_thread = k.cpu[x].next_thread
                                     /\ k2.cpu[x].new_thread = k.cpu[x].new_thread
                                     /\ k2.cpu[x].active = k.cpu[x].active
        BY <1>3, <1>6, <1>7, KernelIs
      <4> HIDE DEF k
      <4> QED
        BY <4>1, SamePlaces
    <3> QED
      BY <1>6, <3>1 DEF Alike
  <2> QED
    BY <1>6, <2>1, <2>3, <2>4, GoodStays DEF Good
<1>9. KInv(k2, s)
  BY <1>6, <1>8 DEF KInv
<1> QED
  BY <1>5, <1>9, StepKeeps, SameCalls DEF IdleNotDispatched, IInv

-----------------------------------------------------------------------------
(* Waiting and waking up.                                                  *)

LEMMA AssertWaitStep ==
  ASSUME IInv, NEW w \in MayWait, AssertWait(w[1], w[2], w[3])
  PROVE  IInv'
<1> DEFINE t == w[1]
           event == w[2]
           i == w[3]
           k == assert_wait(Kernel, t, event, i)
<1>1. t \in Threads /\ event \in AllEvents /\ i \in BOOLEAN /\ w = <<t, event, i>>
  BY WaitsAreCalls
<1>2. event = NoEvent => \E b \in BOOLEAN : <<t, NoEvent, b>> \in MayWait
  BY <1>1
<1>3. Executes(Kernel, t)
  BY AtExecutes DEF AssertWait
<1>4. Becomes(k) /\ Goto(t, "asserted") /\ UNCHANGED swapper
  BY DEF AssertWait
<1> HIDE DEF t, event, i
<1>5. KInv(k, Settled(swapper))
  BY <1>1, <1>2, <1>3, AssertWaitKeeps DEF IInv
<1>6. CallsOK'
  BY <1>1, <1>4, GotoOK DEF IInv, Points
<1> HIDE DEF k
<1> QED
  BY <1>4, <1>5, <1>6, StepKeeps

\* A step that sets the timer of t: what it does to the invariant.
LEMMA TimerKept ==
  ASSUME NEW k \in Kernels, NEW t \in Threads, NEW m \in Timers
  PROVE  LET k2 == [k EXCEPT !.timer[t] = m]
         IN  /\ k2 \in Kernels /\ k2.thread = k.thread /\ k2.cpu = k.cpu /\ k2.runq = k.runq
             /\ k2.idle_queue = k.idle_queue /\ k2.wait_queue = k.wait_queue
             /\ k2.swapin_queue = k.swapin_queue /\ k2.panicked = k.panicked
             /\ k2.timer[t] = m
             /\ \A u \in Threads \ {t} : k2.timer[u] = k.timer[u]
<1>1. k.timer \in [Threads -> Timers]
  BY KernelFields
<1>2. [k.timer EXCEPT ![t] = m] \in [Threads -> Timers]
  BY <1>1
<1> QED
  BY <1>1, <1>2 DEF Kernels

\* Setting and expiring the timer: its record and the thread's flag agree.
LEMMA TimerStep ==
  ASSUME IInv, NEW t \in Threads, NEW m \in Timers, NEW b \in BOOLEAN,
         thread' = [thread EXCEPT ![t].timer_set = b],
         timer' = [timer EXCEPT ![t] = m],
         b <=> m.at = "set", b => "WAIT" \in thread[t].state,
         UNCHANGED <<cpu, runq, idle_queue, wait_queue, swapin_queue, call, swapper, panicked>>
  PROVE  IInv'
<1> DEFINE k == Kernel
           s == Settled(swapper)
           r == [thread[t] EXCEPT !.timer_set = b]
           k2 == [k EXCEPT !.thread = [@ EXCEPT ![t] = r], !.timer = [@ EXCEPT ![t] = m]]
<1>1. KInv(k, s) /\ k \in Kernels
  BY DEF IInv, KInv
<1>2. /\ thread \in [Threads -> ThreadRecord] /\ thread[t] \in ThreadRecord
      /\ timer \in [Threads -> Timers]
  BY <1>1, KernelFields, KernelIs
<1>3. /\ r \in ThreadRecord /\ r.state = thread[t].state /\ r.timer_set = b
      /\ r.wait_event = thread[t].wait_event /\ r.swap_state = thread[t].swap_state
  BY <1>2 DEF ThreadRecord
<1>4. Becomes(k2)
  BY KernelIs DEF Becomes, Kernel
<1> HIDE DEF r
<1>5. /\ k2 \in Kernels /\ k2.thread = [thread EXCEPT ![t] = r]
      /\ k2.timer = [timer EXCEPT ![t] = m]
      /\ k2.cpu = k.cpu /\ k2.runq = k.runq /\ k2.idle_queue = k.idle_queue
      /\ k2.wait_queue = k.wait_queue
      /\ k2.swapin_queue = k.swapin_queue /\ k2.panicked = k.panicked
  BY <1>1, <1>2, <1>3, KernelIs DEF Kernels
<1> HIDE DEF k2
<1>6. /\ k2.thread[t] = r /\ k2.timer[t] = m
      /\ \A u \in Threads \ {t} : k2.thread[u] = thread[u] /\ k2.timer[u] = timer[u]
  BY <1>2, <1>5
<1>7. ASSUME k.panicked = "no" PROVE Good(k2, s)
  <2>1. Others(k, s, t) /\ Fine(k, s, t)
    BY <1>1, <1>7, GoodIs DEF KInv
  <2>2. Kept(k, k2, t) /\ SwapperKept(s, s, t)
    BY <1>5, <1>6, <2>1, KernelIs DEF Kept, SwapperKept, Others
  <2>3. /\ PlacesIn(k2, t) = PlacesIn(k, t) /\ (Executes(k2, t) <=> Executes(k, t))
        /\ Others(k2, s, t)
    BY <2>1, <2>2, KeptOthers
  <2>4. Placed(k2, t) /\ Waiting(k2, t) /\ Asserted(k2, t) /\ Timing(k2, t)
    BY <1>3, <1>5, <1>6, <2>1, <2>3, KernelIs
       DEF Fine, Placed, Ready, Waiting, Asserted, Timing
  <2>5. Swapping(k2, s, t) /\ AskedFor(k2, s, t) /\ WaitsForSome(k2.thread[t], t)
    BY <1>3, <1>5, <1>6, <2>1, KernelIs DEF Fine, Swapping, AskedFor, WaitsForSome
  <2> QED
    BY <2>3, <2>4, <2>5, GoodIs DEF Fine
<1>8. KInv(k2, s)
  BY <1>5, <1>7 DEF KInv
<1> QED
  BY <1>4, <1>8, StepKeeps, SameCalls DEF IInv

LEMMA SetTimeoutKeeps ==
  ASSUME IInv, NEW t \in Threads, thread_set_timeout(t)
  PROVE  IInv'
<1> DEFINE m == [timer[t] EXCEPT !.at = "set"]
<1>1. timer[t] \in Timers
  BY KernelFields, KernelIs DEF IInv, KInv
<1>2. m \in Timers /\ m.at = "set"
  BY <1>1 DEF Timers, TimerRecord
<1>3. timer' = [timer EXCEPT ![t] = m] /\ thread' = [thread EXCEPT ![t].timer_set = TRUE]
  BY DEF thread_set_timeout
<1> HIDE DEF m
<1> QED
  BY <1>2, <1>3, TimerStep DEF thread_set_timeout

LEMMA TimerExpiresKeeps ==
  ASSUME IInv, NEW t \in Threads, TimerExpires(t)
  PROVE  IInv'
<1> DEFINE m == [timer[t] EXCEPT !.at = "fired"]
<1>1. timer[t] \in Timers
  BY KernelFields, KernelIs DEF IInv, KInv
<1>2. m \in Timers /\ m.at # "set"
  BY <1>1 DEF Timers, TimerRecord
<1>3. timer' = [timer EXCEPT ![t] = m] /\ thread' = [thread EXCEPT ![t].timer_set = FALSE]
  BY DEF TimerExpires
<1> HIDE DEF m
<1> QED
  BY <1>2, <1>3, TimerStep DEF TimerExpires

\* The timeout routine's progress is no part of the invariant.
LEMMA TimerQuiet ==
  ASSUME NEW k, NEW s, NEW t \in Threads, NEW m \in Timers, KInv(k, s),
         m.at # "set", k.timer[t].at # "set"
  PROVE  LET k2 == [k EXCEPT !.timer[t] = m]
         IN  KInv(k2, s) /\ k2.thread = k.thread
<1> DEFINE k2 == [k EXCEPT !.timer[t] = m]
<1>1. /\ k2 \in Kernels /\ k2.thread = k.thread /\ k2.cpu = k.cpu /\ k2.runq = k.runq
      /\ k2.idle_queue = k.idle_queue /\ k2.wait_queue = k.wait_queue
      /\ k2.swapin_queue = k.swapin_queue /\ k2.panicked = k.panicked
      /\ k2.timer[t] = m
      /\ \A u \in Threads \ {t} : k2.timer[u] = k.timer[u]
  BY TimerKept DEF KInv
<1> HIDE DEF k2
<1>2. ASSUME k.panicked = "no" PROVE Good(k2, s)
  <2>1. Good(k, s)
    BY <1>2 DEF KInv
  <2>2. \A u : PlacesIn(k2, u) = PlacesIn(k, u) /\ (Executes(k2, u) <=> Executes(k, u))
    BY <1>1, SamePlaces
  <2>3. \A u \in Threads : Alike(k, s, k2, s, u)
    BY <1>1, <2>2 DEF Alike
  <2>4. Idling(k2) /\ IsInjective(k2.wait_queue) /\ IsInjective(k2.swapin_queue)
    BY <1>1, <2>1 DEF Good, Idling
  <2> QED
    BY <2>1, <2>3, <2>4, GoodStays
<1>3. KInv(k2, s)
  BY <1>1, <1>2 DEF KInv
<1> QED
  BY <1>1, <1>3 DEF k2

LEMMA TimerLooksKeeps ==
  ASSUME IInv, NEW t \in Threads, TimerLooks(t)
  PROVE  IInv'
<1> DEFINE s == Settled(swapper)
           event == thread[t].wait_event
           m == IF event = NoEvent THEN TimerOff ELSE [at |-> "clearing", event |-> event]
           k == [Kernel EXCEPT !.timer[t] = m]
           k2 == IF event = NoEvent THEN ClearWait(k, t, event, "TIMED_OUT") ELSE k
<1>1. KInv(Kernel, s) /\ Kernel \in Kernels
  BY DEF IInv, KInv
<1>2. m \in Timers /\ m.at # "set"
  <2>1. thread[t] \in ThreadRecord
    BY <1>1, KernelFields, KernelIs
  <2>2. event \in AllEvents
    BY <2>1 DEF ThreadRecord
  <2> QED
    BY <2>2 DEF Timers, TimerRecord, TimerOff, AllEvents
<1>3. Becomes(k2) /\ timer[t].at = "fired" /\ UNCHANGED <<call, swapper>>
  BY DEF TimerLooks
<1> HIDE DEF m
<1>4. KInv(k, s) /\ k.thread = thread
  BY <1>1, <1>2, <1>3, KernelIs, TimerQuiet
<1> HIDE DEF k
<1>5. KInv(k2, s)
  <2>1. event = NoEvent => k.thread[t].wait_event = NoEvent
    BY <1>4
  <2> HIDE DEF event
  <2>2. KInv(ClearWait(k, t, event, "TIMED_OUT"), s)
    BY <1>4, <2>1, ClearWaitKeeps DEF WaitResults
  <2> QED
    BY <1>4, <2>2
<1> HIDE DEF k2
<1> QED
  BY <1>3, <1>5, StepKeeps, SameCalls DEF IInv

LEMMA TimerEndsKeeps ==
  ASSUME IInv, NEW t \in Threads, TimerEnds(t)
  PROVE  IInv'
<1> DEFINE s == Settled(swapper)
           event == timer[t].event
           k == [Kernel EXCEPT !.timer[t] = TimerOff]
           k2 == ClearWait(k, t, event, "TIMED_OUT")
<1>1. KInv(Kernel, s) /\ Kernel \in Kernels
  BY DEF IInv, KInv
<1>2. timer[t].at = "clearing" /\ event # NoEvent
  <2>1. timer[t] \in Timers
    BY <1>1, KernelFields, KernelIs
  <2> QED
    BY <2>1 DEF Timers, TimerEnds
<1>3. Becomes(k2) /\ UNCHANGED <<call, swapper>>
  BY DEF TimerEnds
<1>4. TimerOff \in Timers /\ TimerOff.at # "set"
  BY DEF Timers, TimerRecord, TimerOff, AllEvents
<1>5. KInv(k, s)
  BY <1>1, <1>2, <1>4, KernelIs, TimerQuiet
<1> HIDE DEF k, event
<1>6. KInv(k2, s)
  BY <1>2, <1>5, ClearWaitKeeps DEF WaitResults
<1> HIDE DEF k2
<1> QED
  BY <1>3, <1>6, StepKeeps, SameCalls DEF IInv

LEMMA WakeupStep ==
  ASSUME IInv, NEW event, Wakeup(event)
  PROVE  IInv'
<1>1. KInv(thread_wakeup(Kernel, event, "AWAKENED"), Settled(swapper))
  BY WakeupKeeps DEF IInv, WaitResults
<1>2. KInv(thread_wakeup_one(Kernel, event), Settled(swapper))
  BY WakeupOneKeeps DEF IInv
<1>3. CallsOK' /\ UNCHANGED swapper
  BY SameCalls DEF IInv, Wakeup
<1>4. CASE Becomes(thread_wakeup(Kernel, event, "AWAKENED"))
  BY <1>1, <1>3, <1>4, StepKeeps
<1>5. CASE Becomes(thread_wakeup_one(Kernel, event))
  BY <1>2, <1>3, <1>5, StepKeeps
<1> QED
  BY <1>4, <1>5 DEF Wakeup

LEMMA SignalKeeps ==
  ASSUME IInv, NEW c \in Threads, NEW t \in Threads, Signal(c, t)
  PROVE  IInv'
<1>1. CallsOK'
  BY EnterOK DEF Signal, IInv, Points
<1> QED
  BY <1>1, CallsOnly DEF Signal

LEMMA ClearReturnsOK ==
  ASSUME CallsOK, NEW c \in Threads, call[c].target \in Threads, ClearReturns(c)
  PROVE  CallsOK'
<1>1. CASE call[c].from = "halt"
  <2> DEFINE r == [call[c] EXCEPT !.at = "halt_check", !.event = NoEvent]
  <2>1. call[c] \in CallRecord
    BY DEF CallsOK
  <2>2. r \in CallRecord /\ r.at = "halt_check" /\ r.target = call[c].target
    BY <2>1 DEF CallRecord, Points, AllEvents
  <2>3. CallOK(r)
    BY <2>2 DEF CallOK
  <2>4. call' = [call EXCEPT ![c] = r]
    BY <1>1 DEF ClearReturns
  <2> HIDE DEF r
  <2> QED
    BY <2>2, <2>3, <2>4, SetCall
<1>2. CASE call[c].from # "halt"
  BY <1>2, ReturnOK DEF ClearReturns
<1> QED
  BY <1>1, <1>2

LEMMA ClearLooksKeeps ==
  ASSUME IInv, NEW c \in Threads, ClearLooks(c)
  PROVE  IInv'
<1> DEFINE s == Settled(swapper)
           t == call[c].target
           event == thread[t].wait_event
           k2 == IF thread[t].interruptible /\ event = NoEvent
                 THEN ClearWait(Kernel, t, event, "INTERRUPTED") ELSE Kernel
<1>1. CallsOK /\ call[c] \in CallRecord /\ t \in Threads
  BY AtExecutes DEF IInv, CallsOK, CallOK, ClearLooks
<1>2. KInv(k2, s)
  <2>1. KInv(Kernel, s)
    BY DEF IInv
  <2>2. event = NoEvent => KInv(ClearWait(Kernel, t, event, "INTERRUPTED"), s)
    <3>1. event = NoEvent => Kernel.thread[t].wait_event = NoEvent
      BY KernelIs
    <3> HIDE DEF event, t
    <3> QED
      BY <1>1, <2>1, <3>1, ClearWaitKeeps DEF WaitResults
  <2> QED
    BY <2>1, <2>2
<1>3. Becomes(k2) /\ UNCHANGED swapper
  BY DEF ClearLooks
<1>4. CallsOK'
  <2>1. CASE ClearReturns(c)
    BY <1>1, <2>1, ClearReturnsOK
  <2>2. CASE event # NoEvent /\ call' = [call EXCEPT ![c].at = "clear_locked", ![c].event = event]
    <3> DEFINE r == [call[c] EXCEPT !.at = "clear_locked", !.event = event]
    <3>1. event \in AllEvents
      <4>1. thread[t] \in ThreadRecord
        BY <1>1, KernelFields, KernelIs DEF IInv, KInv
      <4> QED
        BY <4>1 DEF ThreadRecord
    <3>2. r \in CallRecord /\ r.at = "clear_locked" /\ r.target = t /\ r.event = event
      BY <1>1, <3>1 DEF CallRecord, Points
    <3>3. CallOK(r)
      BY <1>1, <2>2, <3>2 DEF CallOK
    <3>4. call' = [call EXCEPT ![c] = r]
      BY <1>1, <2>2 DEF CallsOK
    <3> HIDE DEF r
    <3> QED
      BY <1>1, <3>2, <3>3, <3>4, SetCall
  <2> QED
    BY <2>1, <2>2 DEF ClearLooks
<1> HIDE DEF k2
<1> QED
  BY <1>2, <1>3, <1>4, StepKeeps

LEMMA ClearEndsKeeps ==
  ASSUME IInv, NEW c \in Threads, ClearEnds(c)
  PROVE  IInv'
<1> DEFINE s == Settled(swapper)
           t == call[c].target
           event == call[c].event
           k2 == ClearWait(Kernel, t, event, "INTERRUPTED")
<1>1. CallsOK /\ t \in Threads /\ event # NoEvent
  BY AtExecutes DEF IInv, CallsOK, CallOK, ClearEnds
<1>2. Becomes(k2) /\ UNCHANGED swapper /\ CallsOK'
  BY <1>1, ClearReturnsOK DEF ClearEnds
<1> HIDE DEF t, event
<1>3. KInv(k2, s)
  BY <1>1, ClearWaitKeeps DEF IInv, WaitResults
<1> HIDE DEF k2
<1> QED
  BY <1>2, <1>3, StepKeeps

-----------------------------------------------------------------------------
(* Stopping.                                                               *)

\* The target of a routine at work.
LEMMA Targets ==
  ASSUME IInv, NEW c \in Threads, NEW at, At(c, at),
         at \notin {"run", "asserted", "halt_self", "halted"}
  PROVE  call[c] \in CallRecord /\ call[c].target \in Threads
BY AtExecutes DEF IInv, CallsOK, CallOK

LEMMA SuspendKeeps ==
  ASSUME IInv, NEW c \in Threads, NEW t \in Threads, thread_suspend(c, t)
  PROVE  IInv'
<1> DEFINE r == [thread[t] EXCEPT !.user_stop_count = @ + 1]
<1>1. thread[t] \in ThreadRecord
  BY KernelFields, KernelIs DEF IInv, KInv
<1>2. QuietRecord(thread[t], r)
  BY <1>1 DEF ThreadRecord, QuietRecord
<1>3. thread' = [thread EXCEPT ![t] = r]
  BY DEF thread_suspend
<1>4. CallsOK'
  BY EnterOK, SameCalls DEF thread_suspend, IInv, Points
<1> HIDE DEF r
<1> QED
  BY <1>2, <1>3, <1>4, QuietStep DEF thread_suspend, unswapped

LEMMA ResumeKeeps ==
  ASSUME IInv, NEW c \in Threads, NEW t \in Threads, thread_resume(c, t)
  PROVE  IInv'
<1> DEFINE r == [thread[t] EXCEPT !.user_stop_count = @ - 1]
<1>1. thread[t] \in ThreadRecord
  BY KernelFields, KernelIs DEF IInv, KInv
<1>2. QuietRecord(thread[t], r)
  <2>1. thread[t].user_stop_count \in Nat /\ thread[t].user_stop_count > 0
    BY <1>1 DEF ThreadRecord, thread_resume
  <2>2. thread[t].user_stop_count - 1 \in Nat
    BY <2>1
  <2> QED
    BY <1>1, <2>2 DEF ThreadRecord, QuietRecord
<1>3. thread' = [thread EXCEPT ![t] = r]
  BY DEF thread_resume
<1>4. CallsOK'
  BY EnterOK, SameCalls DEF thread_resume, IInv, Points
<1> HIDE DEF r
<1> QED
  BY <1>2, <1>3, <1>4, QuietStep DEF thread_resume, unswapped

LEMMA HoldStep ==
  ASSUME IInv, NEW c \in Threads, Hold(c)
  PROVE  IInv'
<1> DEFINE t == call[c].target
           k == thread_hold(Kernel, t)
<1>1. t \in Threads
  BY Targets DEF Hold
<1>2. Becomes(k) /\ UNCHANGED swapper
  BY DEF Hold
<1>3. CallsOK'
  BY <1>1, GotoOK DEF Hold, IInv, Points
<1> HIDE DEF t
<1>4. KInv(k, Settled(swapper))
  BY <1>1, HoldKeeps DEF IInv
<1> HIDE DEF k
<1> QED
  BY <1>2, <1>3, <1>4, StepKeeps

LEMMA ReleaseStep ==
  ASSUME IInv, NEW c \in Threads, Release(c)
  PROVE  IInv'
<1> DEFINE t == call[c].target
           k == thread_release(Kernel, t)
<1>1. t \in Threads
  BY Targets DEF Release
<1>2. Becomes(k) /\ UNCHANGED swapper
  BY DEF Release
<1>3. CallsOK'
  BY ReturnOK DEF Release, IInv
<1> HIDE DEF t
<1>4. KInv(k, Settled(swapper))
  BY <1>1, ReleaseKeeps DEF IInv
<1> HIDE DEF k
<1> QED
  BY <1>2, <1>3, <1>4, StepKeeps

\* Flags of a thread that a routine sets.
LEMMA WakeActiveIs ==
  ASSUME NEW k, NEW s, NEW t \in Threads, NEW b \in BOOLEAN, KInv(k, s)
  PROVE  LET k2 == [k EXCEPT !.thread[t].wake_active = b]
         IN  KInv(k2, s) /\ k2.cpu = k.cpu
<1> DEFINE r == [k.thread[t] EXCEPT !.wake_active = b]
           k2 == [k EXCEPT !.thread[t] = r]
<1>1. k \in Kernels /\ k.thread[t] \in ThreadRecord
  BY KernelFields DEF KInv
<1>2. QuietRecord(k.thread[t], r)
  BY <1>1 DEF ThreadRecord, QuietRecord
<1>3. Quiet(k, k2)
  BY <1>1, <1>2, QuietThread
<1> HIDE DEF k2
<1>4. KInv(k2, s) /\ k2.cpu = k.cpu
  BY <1>3, QuietKeeps DEF Quiet
<1> QED
  BY <1>4 DEF k2

LEMMA AstHaltIs ==
  ASSUME NEW k, NEW s, NEW t \in Threads, NEW b \in BOOLEAN, KInv(k, s)
  PROVE  KInv([k EXCEPT !.thread[t].ast_halt = b], s)
<1> DEFINE r == [k.thread[t] EXCEPT !.ast_halt = b]
           k2 == [k EXCEPT !.thread[t] = r]
<1>1. k \in Kernels /\ k.thread[t] \in ThreadRecord
  BY KernelFields DEF KInv
<1>2. QuietRecord(k.thread[t], r)
  BY <1>1 DEF ThreadRecord, QuietRecord
<1>3. Quiet(k, k2)
  BY <1>1, <1>2, QuietThread
<1> HIDE DEF k2
<1>4. KInv(k2, s)
  BY <1>3, QuietKeeps
<1> QED
  BY <1>4 DEF k2

\* A thread that executes goes to sleep until the target's stop is announced.
LEMMA SleepKeeps ==
  ASSUME NEW k, NEW s, NEW c \in Threads, NEW t \in Threads, KInv(k, s), Executes(k, c)
  PROVE  KInv(assert_wait([k EXCEPT !.thread[t].wake_active = TRUE], c, WakeActive(t), TRUE), s)
<1> DEFINE k2 == [k EXCEPT !.thread[t].wake_active = TRUE]
<1>1. KInv(k2, s) /\ k2.cpu = k.cpu
  BY WakeActiveIs
<1> HIDE DEF k2
<1>2. Executes(k2, c)
  BY <1>1 DEF Executes
<1>3. WakeActive(t) \in AllEvents /\ WakeActive(t) # NoEvent
  BY NotEvents DEF QueuedEvents, AllEvents
<1> HIDE DEF WakeActive
<1>4. KInv(assert_wait(k2, c, WakeActive(t), TRUE), s)
  BY <1>1, <1>2, <1>3, AssertWaitKeeps
<1> QED
  BY <1>4 DEF k2

LEMMA DowaitReturnsOK ==
  ASSUME CallsOK, NEW c \in Threads, NEW stopped \in BOOLEAN, call[c].target \in Threads,
         DowaitReturns(c, stopped)
  PROVE  CallsOK'
<1>1. CASE call[c].from = "suspend"
  BY <1>1, ReturnOK DEF DowaitReturns
<1>2. CASE call[c].from # "suspend" /\ stopped
  <2>1. Goto(c, "clear")
    BY <1>2 DEF DowaitReturns
  <2> QED
    BY <2>1, GotoOK DEF Points
<1>3. CASE call[c].from # "suspend" /\ ~stopped
  <2>1. Goto(c, "halt_failed")
    BY <1>3 DEF DowaitReturns
  <2> QED
    BY <2>1, GotoOK DEF Points
<1> QED
  BY <1>1, <1>2, <1>3

LEMMA DowaitLoopKeeps ==
  ASSUME IInv, NEW c \in Threads, call[c].target \in Threads, Executes(Kernel, c),
         DowaitLoop(c), UNCHANGED swapper
  PROVE  IInv'
<1> DEFINE t == call[c].target
<1>1. CASE DowaitReturns(c, TRUE) /\ Becomes(Kernel)
  BY <1>1, DowaitReturnsOK, StepKeeps DEF IInv
<1>2. CASE Becomes(Sleep(c, t)) /\ Goto(c, "dowait_sleep")
  <2>1. CallsOK'
    BY <1>2, GotoOK DEF IInv, Points
  <2>2. KInv(Sleep(c, t), Settled(swapper))
    BY SleepKeeps DEF IInv, Sleep
  <2> HIDE DEF t
  <2> QED
    BY <1>2, <2>1, <2>2, StepKeeps
<1> QED
  BY <1>1, <1>2 DEF DowaitLoop

LEMMA DowaitAwakeKeeps ==
  ASSUME IInv, NEW c \in Threads, DowaitAwake(c)
  PROVE  IInv'
<1>1. call[c].target \in Threads /\ Executes(Kernel, c) /\ UNCHANGED swapper
  BY Targets, AtExecutes DEF DowaitAwake
<1>2. CASE DowaitReturns(c, FALSE) /\ Becomes(Kernel)
  BY <1>1, <1>2, DowaitReturnsOK, StepKeeps DEF IInv
<1>3. CASE DowaitLoop(c)
  BY <1>1, <1>3, DowaitLoopKeeps
<1> QED
  BY <1>2, <1>3 DEF DowaitAwake

LEMMA DowaitWakeupKeeps ==
  ASSUME IInv, NEW c \in Threads, DowaitWakeup(c)
  PROVE  IInv'
<1> DEFINE k == thread_wakeup(Kernel, WakeActive(call[c].target), "AWAKENED")
<1>1. call[c].target \in Threads
  BY Targets DEF DowaitWakeup
<1>2. Becomes(k) /\ UNCHANGED swapper /\ CallsOK'
  BY <1>1, DowaitReturnsOK DEF DowaitWakeup, IInv
<1>3. KInv(k, Settled(swapper))
  BY WakeupKeeps DEF IInv, WaitResults
<1> HIDE DEF k
<1> QED
  BY <1>2, <1>3, StepKeeps

\* thread_dowait takes a thread that is queued to run: it has no place then.
LEMMA TakenKeeps ==
  ASSUME NEW k, NEW s, NEW t \in Threads, KInv(k, s),
         k.thread[t].state = {"RUN", "SUSP"}, t \in k.runq
  PROVE  KInv([rem_runq(k, t) EXCEPT !.thread[t].state = {"SUSP"},
                                     !.thread[t].wake_active = FALSE], s)
<1> DEFINE k1 == rem_runq(k, t)
           k2 == [k1 EXCEPT !.thread[t].state = {"SUSP"}]
           r == [k2.thread[t] EXCEPT !.wake_active = FALSE]
           k3 == [k2 EXCEPT !.thread[t] = r]
<1>1. k \in Kernels /\ k.runq \subseteq Threads
  BY KernelFields DEF KInv
<1>2. /\ k1 \in Kernels /\ k1.runq = k.runq \ {t} /\ k1.thread = k.thread /\ k1.cpu = k.cpu
      /\ k1.idle_queue = k.idle_queue /\ k1.wait_queue = k.wait_queue
      /\ k1.swapin_queue = k.swapin_queue /\ k1.timer = k.timer /\ k1.panicked = k.panicked
  BY <1>1 DEF rem_runq, Kernels
<1> HIDE DEF k1
<1>3. ASSUME k1.panicked = "no" PROVE Leaving(k1, s, t)
  <2>1. Good(k, s) /\ Others(k, s, t) /\ Fine(k, s, t)
    BY <1>2, <1>3, GoodIs DEF KInv
  <2>2. PlacesIn(k, t) = {<<"runq">>}
    <3>1. <<"runq">> \in PlacesIn(k, t)
      BY PlaceIs
    <3>2. Ready(k.thread[t])
      BY DEF Ready
    <3> QED
      BY <2>1, <3>1, <3>2 DEF Fine, Placed
  <2>3. PlacesIn(k1, t) = {}
    BY <1>2, <2>2, RunqOnly DEF PlacesIn
  <2>4. Others(k1, s, t)
    <3>1. ASSUME NEW u \in Threads \ {t} PROVE Alike(k, s, k1, s, u)
      <4>1. PlacesIn(k1, u) = PlacesIn(k, u) /\ (Executes(k1, u) <=> Executes(k, u))
        BY <1>2, SamePlaces
      <4> QED
        BY <1>2, <4>1 DEF Alike
    <3>2. Idling(k1) /\ IsInjective(k1.wait_queue) /\ IsInjective(k1.swapin_queue)
      BY <1>2, <2>1 DEF Others, Idling
    <3> QED
      BY <2>1, <3>1, <3>2, OthersStay
  <2>5. /\ Swapping(k1, s, t) /\ AskedFor(k1, s, t) /\ Waiting(k1, t)
        /\ WaitsForSome(k1.thread[t], t) /\ Timing(k1, t)
    BY <1>2, <2>1 DEF Fine, Swapping, AskedFor, Waiting, WaitsForSome, Timing
  <2> QED
    BY <2>3, <2>4, <2>5 DEF Leaving
<1>4. Restates(k1, k2, t, {"SUSP"})
  BY <1>2, SetState DEF StateBits
<1>5. k2 \in Kernels /\ k2.thread[t] \in ThreadRecord /\ k2.thread[t].state = {"SUSP"}
  BY <1>4, KernelFields DEF Restates, ThreadOnly
<1> HIDE DEF k2
<1>6. QuietRecord(k2.thread[t], r)
  BY <1>5 DEF ThreadRecord, QuietRecord
<1>7. Restates(k2, k3, t, {"SUSP"})
  BY <1>5, <1>6, SetQuietly
<1>8. [rem_runq(k, t) EXCEPT !.thread[t].state = {"SUSP"}, !.thread[t].wake_active = FALSE] = k3
  BY DEF k1, k2
<1> HIDE DEF k3
<1>9. Restates(k1, k3, t, {"SUSP"})
  BY <1>4, <1>7, RestatesAgain
<1>10. KInv(k3, s)
  <2>1. k1.thread[t].state \ {"RUN"} = {"SUSP"} /\ "SUSP" \in k1.thread[t].state
    BY <1>2
  <2> QED
    BY <1>2, <1>3, <1>9, <2>1, LeavingStops
<1> QED
  BY <1>8, <1>10

LEMMA DowaitKeeps ==
  ASSUME IInv, NEW c \in Threads, thread_dowait(c)
  PROVE  IInv'
<1> DEFINE t == call[c].target
           taken == [rem_runq(Kernel, t) EXCEPT !.thread[t].state = {"SUSP"},
                                                !.thread[t].wake_active = FALSE]
<1>1. t \in Threads /\ Executes(Kernel, c) /\ UNCHANGED swapper /\ CallsOK
  BY Targets, AtExecutes DEF thread_dowait, IInv
<1>2. CASE Goto(c, "stop_self") /\ Becomes(Kernel)
  <2>1. CallsOK'
    BY <1>1, <1>2, GotoOK DEF Points
  <2> QED
    BY <1>1, <1>2, <2>1, StepKeeps DEF IInv
<1>3. CASE DowaitReturns(c, TRUE) /\ Becomes(Kernel)
  BY <1>1, <1>3, DowaitReturnsOK, StepKeeps DEF IInv
<1>4. CASE /\ CanBeTaken(t)
           /\ Becomes(taken)
           /\ IF thread[t].wake_active THEN Goto(c, "dowait_wakeup")
                                       ELSE DowaitReturns(c, TRUE)
  <2>1. CallsOK'
    <3>1. CASE Goto(c, "dowait_wakeup")
      BY <1>1, <3>1, GotoOK DEF Points
    <3>2. CASE DowaitReturns(c, TRUE)
      BY <1>1, <3>2, DowaitReturnsOK
    <3> QED
      BY <1>4, <3>1, <3>2
  <2>2. Kernel.thread[t].state = {"RUN", "SUSP"} /\ t \in Kernel.runq
    BY <1>4, KernelIs DEF CanBeTaken
  <2>3. Becomes(taken)
    BY <1>4
  <2> HIDE DEF t
  <2>4. KInv(taken, Settled(swapper))
    BY <1>1, <2>2, TakenKeeps DEF IInv
  <2> HIDE DEF taken
  <2> QED
    BY <1>1, <2>1, <2>3, <2>4, StepKeeps
<1>5. CASE DowaitLoop(c)
  BY <1>1, <1>5, DowaitLoopKeeps
<1> QED
  BY <1>2, <1>3, <1>4, <1>5 DEF thread_dowait

-----------------------------------------------------------------------------
(* Halting.                                                                *)

LEMMA HaltLoopKeeps ==
  ASSUME IInv, NEW c \in Threads, NEW t \in Threads, NEW k, NEW must \in BOOLEAN,
         KInv(k, Settled(swapper)), Executes(k, c),
         HaltLoop(c, t, k, must), UNCHANGED swapper
  PROVE  IInv'
<1> DEFINE asleep == assert_wait([k EXCEPT !.thread[t].wake_active = TRUE],
                                 c, WakeActive(t), TRUE)
           asked == [k EXCEPT !.thread[t].ast_halt = TRUE]
<1>1. CASE Becomes(asleep) /\ Enter(c, "halt_sleep", t, must, "halt")
  <2>1. CallsOK'
    BY <1>1, EnterOK DEF IInv, Points
  <2>2. KInv(asleep, Settled(swapper))
    BY SleepKeeps
  <2> HIDE DEF asleep
  <2> QED
    BY <1>1, <2>1, <2>2, StepKeeps
<1>2. CASE Becomes(asked) /\ Enter(c, "dowait", t, must, "halt")
  <2>1. CallsOK'
    BY <1>2, EnterOK DEF IInv, Points
  <2>2. KInv(asked, Settled(swapper))
    BY AstHaltIs
  <2> HIDE DEF asked
  <2> QED
    BY <1>2, <2>1, <2>2, StepKeeps
<1> QED
  BY <1>1, <1>2 DEF HaltLoop

LEMMA HaltKeeps ==
  ASSUME IInv, NEW c \in Threads, NEW t \in Threads, NEW must \in BOOLEAN,
         Executes(Kernel, c), thread_halt(c, t, must), UNCHANGED swapper
  PROVE  IInv'
<1> DEFINE r == [Kernel.thread[t] EXCEPT !.suspend_count = @ + 1]
           k1 == [Kernel EXCEPT !.thread[t] = r]
           k2 == thread_wakeup(Kernel, WakeActive(c), "INTERRUPTED")
           k3 == thread_hold(Kernel, t)
<1>1. KInv(Kernel, Settled(swapper)) /\ Kernel \in Kernels /\ CallsOK
  BY DEF IInv, KInv
<1>2. CASE Becomes(k1) /\ Enter(c, "halt_done", t, must, "halt")
  <2>1. CallsOK'
    BY <1>1, <1>2, EnterOK DEF Points
  <2>2. QuietRecord(Kernel.thread[t], r)
    <3>1. Kernel.thread[t] \in ThreadRecord
      BY <1>1, KernelFields
    <3> QED
      BY <3>1 DEF ThreadRecord, QuietRecord
  <2> HIDE DEF r
  <2>3. KInv(k1, Settled(swapper))
    BY <1>1, <2>2, QuietThread, QuietKeeps
  <2> HIDE DEF k1
  <2> QED
    BY <1>2, <2>1, <2>3, StepKeeps
<1>3. CASE Becomes(k2) /\ Return(c)
  <2>1. CallsOK'
    BY <1>1, <1>3, ReturnOK
  <2>2. KInv(k2, Settled(swapper))
    BY <1>1, WakeupKeeps DEF WaitResults
  <2> HIDE DEF k2
  <2> QED
    BY <1>3, <2>1, <2>2, StepKeeps
<1>4. CASE HaltLoop(c, t, k3, must)
  <2>1. KInv(k3, Settled(swapper)) /\ k3.cpu = Kernel.cpu
    BY <1>1, HoldKeeps
  <2> HIDE DEF k3
  <2>2. Executes(k3, c)
    BY <2>1 DEF Executes
  <2> QED
    BY <1>4, <2>1, <2>2, HaltLoopKeeps
<1> QED
  BY <1>2, <1>3, <1>4 DEF thread_halt

LEMMA AbortKeeps ==
  ASSUME IInv, NEW c \in Threads, NEW t \in Threads, thread_abort(c, t)
  PROVE  IInv'
BY AtExecutes, HaltKeeps DEF thread_abort

LEMMA HaltVictimKeeps ==
  ASSUME IInv, NEW c \in Threads, HaltVictim(c)
  PROVE  IInv'
<1>1. call[c].target \in Threads
  BY Targets DEF HaltVictim
<1>2. Executes(Kernel, c) /\ thread_halt(c, call[c].target, TRUE) /\ UNCHANGED swapper
  BY AtExecutes DEF HaltVictim
<1> QED
  BY <1>1, <1>2, HaltKeeps

LEMMA HaltLocksKeeps ==
  ASSUME IInv, NEW c \in Threads, HaltLocks(c)
  PROVE  IInv'
<1>1. call[c].target \in Threads /\ call[c].must \in BOOLEAN
  BY Targets DEF HaltLocks, CallRecord
<1>2. Executes(Kernel, c) /\ HaltLoop(c, call[c].target, Kernel, call[c].must) /\ UNCHANGED swapper
  BY AtExecutes DEF HaltLocks
<1> QED
  BY <1>1, <1>2, HaltLoopKeeps DEF IInv

LEMMA TerminateKeeps ==
  ASSUME IInv, NEW c \in Threads, NEW t \in Threads, thread_terminate(c, t)
  PROVE  IInv'
<1> DEFINE r == [thread[t] EXCEPT !.active = FALSE]
<1>1. thread[t] \in ThreadRecord
  BY KernelFields, KernelIs DEF IInv, KInv
<1>2. QuietRecord(thread[t], r)
  BY <1>1 DEF ThreadRecord, QuietRecord
<1>3. thread' = [thread EXCEPT ![t] = r]
  BY DEF thread_terminate
<1>4. CallsOK'
  BY EnterOK DEF thread_terminate, IInv, Points
<1> HIDE DEF r
<1> QED
  BY <1>2, <1>3, <1>4, QuietStep DEF thread_terminate, unswapped

LEMMA HaltAwakeKeeps ==
  ASSUME IInv, NEW c \in Threads, HaltAwake(c)
  PROVE  IInv'
<1>1. call[c].target \in Threads
  BY Targets DEF HaltAwake
<1>2. PICK at \in {"halt_done", "release", "halt_lock"} : Goto(c, at)
  BY DEF HaltAwake
<1>3. CallsOK'
  BY <1>1, <1>2, GotoOK DEF IInv, Points
<1> QED
  BY <1>3, CallsOnly DEF HaltAwake, unswapped

LEMMA HaltFailsKeeps ==
  ASSUME IInv, NEW c \in Threads, HaltFails(c)
  PROVE  IInv'
<1> DEFINE t == call[c].target
           k1 == [Kernel EXCEPT !.thread[t].ast_halt = FALSE]
           k2 == thread_wakeup(k1, WakeActive(t), "INTERRUPTED")
<1>1. t \in Threads
  BY Targets DEF HaltFails
<1>2. Becomes(k2) /\ Goto(c, "release") /\ UNCHANGED swapper
  BY DEF HaltFails
<1>3. CallsOK'
  BY <1>1, <1>2, GotoOK DEF IInv, Points
<1> HIDE DEF t
<1>4. KInv(k1, Settled(swapper))
  BY <1>1, AstHaltIs DEF IInv
<1> HIDE DEF k1
<1>5. KInv(k2, Settled(swapper))
  BY <1>4, WakeupKeeps DEF WaitResults
<1> HIDE DEF k2
<1> QED
  BY <1>2, <1>3, <1>5, StepKeeps

LEMMA HaltChecksKeeps ==
  ASSUME IInv, NEW c \in Threads, HaltChecks(c)
  PROVE  IInv'
<1> DEFINE t == call[c].target
           k == ForceRun(Kernel, t)
<1>1. t \in Threads /\ UNCHANGED swapper
  BY Targets DEF HaltChecks
<1>2. CASE Goto(c, "halt_done") /\ Becomes(Kernel)
  <2>1. CallsOK'
    BY <1>1, <1>2, GotoOK DEF IInv, Points
  <2> QED
    BY <1>1, <1>2, <2>1, StepKeeps DEF IInv
<1>3. CASE Goto(c, "dowait") /\ Becomes(k)
  <2>1. CallsOK'
    BY <1>1, <1>3, GotoOK DEF IInv, Points
  <2>2. Becomes(k)
    BY <1>3
  <2> HIDE DEF t
  <2>3. KInv(k, Settled(swapper))
    BY <1>1, ForceRunKeeps DEF IInv
  <2> HIDE DEF k
  <2> QED
    BY <1>1, <2>1, <2>2, <2>3, StepKeeps
<1> QED
  BY <1>2, <1>3 DEF HaltChecks

LEMMA HaltDoneKeeps ==
  ASSUME IInv, NEW c \in Threads, HaltDone(c)
  PROVE  IInv'
<1>1. call[c].target \in Threads
  BY Targets DEF HaltDone
<1>2. CallsOK'
  <2>1. CASE Return(c)
    BY <2>1, ReturnOK DEF IInv
  <2>2. CASE Goto(c, "release")
    BY <1>1, <2>2, GotoOK DEF IInv, Points
  <2> QED
    BY <2>1, <2>2 DEF HaltDone
<1> QED
  BY <1>2, CallsOnly DEF HaltDone, unswapped

LEMMA NoticeHaltKeeps ==
  ASSUME IInv, NEW t \in Threads, NoticeHalt(t)
  PROVE  IInv'
<1>1. CallsOK'
  BY GotoOK DEF NoticeHalt, IInv, Points
<1> QED
  BY <1>1, CallsOnly DEF NoticeHalt, unswapped

LEMMA HaltSelfKeeps ==
  ASSUME IInv, NEW t \in Threads, thread_halt_self(t)
  PROVE  IInv'
<1> DEFINE r == [thread[t] EXCEPT !.halted = TRUE, !.ast_halt = FALSE]
<1>1. thread[t] \in ThreadRecord /\ thread \in [Threads -> ThreadRecord]
  BY KernelFields, KernelIs DEF IInv, KInv
<1>2. QuietRecord(thread[t], r)
  BY <1>1 DEF ThreadRecord, QuietRecord
<1>3. thread' = [thread EXCEPT ![t] = r]
  BY <1>1 DEF thread_halt_self
<1>4. CallsOK'
  BY GotoOK DEF thread_halt_self, IInv, Points
<1> HIDE DEF r
<1> QED
  BY <1>2, <1>3, <1>4, QuietStep DEF thread_halt_self, unswapped

LEMMA StopStepKeeps ==
  ASSUME IInv, NEW c \in Threads, StopStep(c)
  PROVE  IInv'
BY HoldStep, ReleaseStep, DowaitKeeps, DowaitAwakeKeeps, DowaitWakeupKeeps, HaltVictimKeeps,
   HaltAwakeKeeps, HaltLocksKeeps, HaltFailsKeeps, HaltChecksKeeps, HaltDoneKeeps,
   NoticeHaltKeeps, HaltSelfKeeps DEF StopStep

LEMMA StopNextKeeps ==
  ASSUME IInv, StopNext
  PROVE  IInv'
<1>1. ASSUME NEW s \in MaySuspend, thread_suspend(s[1], s[2]) \/ thread_resume(s[1], s[2])
      PROVE  IInv'
  BY <1>1, StopsAreCalls, SuspendKeeps, ResumeKeeps
<1>2. ASSUME NEW s \in MayAbort, thread_abort(s[1], s[2])
      PROVE  IInv'
  BY <1>2, StopsAreCalls, AbortKeeps
<1>3. ASSUME NEW s \in MayTerminate, thread_terminate(s[1], s[2])
      PROVE  IInv'
  BY <1>3, StopsAreCalls, TerminateKeeps
<1> QED
  BY <1>1, <1>2, <1>3, StopStepKeeps DEF StopNext

-----------------------------------------------------------------------------
(* Swapping.                                                               *)

\* A step of a swapper thread.
LEMMA SwapStep ==
  ASSUME IInv, NEW k, Becomes(k), KInv(k, Settled(swapper')), swapper' \in Swappers,
         UNCHANGED call
  PROVE  IInv'
<1>1. Kernel' = k
  BY BecomesIs DEF KInv
<1>2. Settled(swapper)' = Settled(swapper')
  BY DEF Settled
<1>3. KInv(Kernel, Settled(swapper))'
  BY <1>1, <1>2
<1>4. CallsOK'
  BY SameCalls DEF IInv
<1> QED
  BY <1>3, <1>4 DEF IInv

LEMMA SwapoutStartsKeeps ==
  ASSUME IInv, NEW t \in Threads, SwapoutStarts(t)
  PROVE  IInv'
<1> DEFINE k == Kernel
           s == Settled(swapper)
           s2 == Settled(swapper')
           r == [thread[t] EXCEPT !.state = @ \cup {"SWAPPED"}, !.swap_state = "GOING_OUT"]
           k2 == [k EXCEPT !.thread[t] = r]
<1>1. KInv(k, s) /\ k \in Kernels /\ swapper \in Swappers
  BY DEF IInv, KInv
<1>2. /\ thread[t] \in ThreadRecord /\ thread \in [Threads -> ThreadRecord]
      /\ thread[t].state \in SUBSET StateBits
  BY <1>1, KernelFields, KernelIs DEF ThreadRecord
<1>3. /\ r \in ThreadRecord /\ r.state = thread[t].state \cup {"SWAPPED"}
      /\ r.swap_state = "GOING_OUT" /\ r.wait_event = thread[t].wait_event
      /\ r.timer_set = thread[t].timer_set
  BY <1>2 DEF ThreadRecord, SwapStates, StateBits
<1>4. Becomes(k2)
  BY <1>2, KernelIs DEF SwapoutStarts, Becomes, Kernel
<1>5. /\ swapper' \in Swappers
      /\ s.out = NoThread /\ s2.out = t /\ s2.in = s.in /\ s2.home = NoThread /\ s.home = NoThread
  BY <1>1 DEF SwapoutStarts, Swappers, Settled, SomeThread
<1> HIDE DEF r, s2
<1>6. ThreadOnly(k, k2, t) /\ k2.thread[t] = r
  BY <1>1, <1>3, SetThread
<1> HIDE DEF k2
<1>7. ASSUME k.panicked = "no" PROVE Good(k2, s2)
  <2>1. Others(k, s, t) /\ Fine(k, s, t)
    BY <1>1, <1>7, GoodIs DEF KInv
  <2>2. SwapperKept(s, s2, t)
    BY <1>5, NotThreads DEF SwapperKept
  <2>3. /\ PlacesIn(k2, t) = PlacesIn(k, t) /\ (Executes(k2, t) <=> Executes(k, t))
        /\ Others(k2, s2, t)
    BY <1>6, <2>1, <2>2, OnlyOthers
  <2>4. /\ "RUN" \notin k.thread[t].state /\ "SWAPPED" \notin k.thread[t].state
        /\ k.thread[t].swap_state = "IN" /\ k.thread[t] = thread[t]
    BY KernelIs DEF SwapoutStarts
  <2>5. Placed(k2, t) /\ Waiting(k2, t) /\ Asserted(k2, t) /\ Timing(k2, t)
    BY <1>3, <1>6, <2>1, <2>3, <2>4
       DEF ThreadOnly, Fine, Placed, Ready, Waiting, Asserted, Timing
  <2>6. Swapping(k2, s2, t) /\ AskedFor(k2, s2, t) /\ WaitsForSome(k2.thread[t], t)
    BY <1>3, <1>5, <1>6, <2>1, <2>4, NotThreads
       DEF ThreadOnly, Fine, Swapping, AskedFor, WaitsForSome
  <2> QED
    BY <2>3, <2>5, <2>6, GoodIs DEF Fine
<1>8. KInv(k2, s2)
  BY <1>6, <1>7 DEF KInv, ThreadOnly
<1> QED
  BY <1>4, <1>5, <1>8, SwapStep DEF SwapoutStarts, s2

LEMMA SwapoutEndsKeeps ==
  ASSUME IInv, SwapoutEnds
  PROVE  IInv'
<1> DEFINE k == Kernel
           t == swapper.out
           s == Settled(swapper)
           s2 == Settled(swapper')
           swap == thread[t].swap_state
           r == [thread[t] EXCEPT !.swap_state = "OUT", !.make_unswappable = FALSE]
           k2 == [k EXCEPT !.thread[t] = r]
           pin == thread[t].make_unswappable
           k3 == CASE swap = "GOING_OUT" -> k2
                   [] swap = "WANT_IN" -> thread_swapin(k2, t, pin)
                   [] OTHER -> Panic(k, "thread_swapout")
<1>1. KInv(k, s) /\ k \in Kernels /\ swapper \in Swappers
  BY DEF IInv, KInv
<1>2. t \in Threads /\ k.thread[t] = thread[t]
  BY <1>1, KernelIs DEF SwapoutEnds, Swappers, SomeThread
<1>3. /\ thread[t] \in ThreadRecord /\ thread \in [Threads -> ThreadRecord] /\ pin \in BOOLEAN
  BY <1>1, <1>2, KernelFields, KernelIs DEF ThreadRecord
<1>4. /\ r \in ThreadRecord /\ r.state = thread[t].state
      /\ r.swap_state = "OUT" /\ r.wait_event = thread[t].wait_event
      /\ r.timer_set = thread[t].timer_set
  BY <1>3 DEF ThreadRecord, SwapStates
<1>5. Becomes(k3)
  <2>1. Out(k, t) = k2 /\ k2.thread[t].make_unswappable = FALSE
    BY <1>1, <1>2, <1>3, KernelIs DEF Out, Kernels, ThreadRecord
  <2> QED
    BY <2>1 DEF SwapoutEnds
<1>6. /\ swapper' \in Swappers
      /\ s.out = t /\ s2.out = NoThread /\ s2.in = s.in /\ s2.home = NoThread /\ s.home = NoThread
  BY <1>1 DEF SwapoutEnds, Swappers, Settled, SomeThread
<1> HIDE DEF r, s2
<1>7. ThreadOnly(k, k2, t) /\ k2.thread[t] = r
  BY <1>1, <1>2, <1>4, SetThread
<1> HIDE DEF k2
<1>8. ASSUME k2.panicked = "no", swap \in {"GOING_OUT", "WANT_IN"}
      PROVE  /\ swap = "WANT_IN" => Unasked(k2, s2, t)
             /\ swap = "GOING_OUT" => Good(k2, s2)
  <2>1. Others(k, s, t) /\ Fine(k, s, t)
    BY <1>1, <1>2, <1>7, <1>8, GoodIs DEF KInv, ThreadOnly
  <2>2. SwapperKept(s, s2, t)
    BY <1>6, NotThreads DEF SwapperKept
  <2>3. /\ PlacesIn(k2, t) = PlacesIn(k, t) /\ (Executes(k2, t) <=> Executes(k, t))
        /\ Others(k2, s2, t)
    BY <1>7, <2>1, <2>2, OnlyOthers
  <2>4. Placed(k2, t) /\ Waiting(k2, t) /\ Asserted(k2, t) /\ Timing(k2, t)
    BY <1>2, <1>4, <1>7, <2>1, <2>3
       DEF ThreadOnly, Fine, Placed, Ready, Waiting, Asserted, Timing
  <2>5. Swapping(k2, s2, t) /\ WaitsForSome(k2.thread[t], t)
    BY <1>2, <1>4, <1>6, <1>7, <1>8, <2>1, NotThreads
       DEF ThreadOnly, Fine, Swapping, WaitsForSome
  <2>6. swap = "GOING_OUT" => AskedFor(k2, s2, t)
    BY <1>2, <1>4, <1>6, <1>7, <2>1, NotThreads DEF Fine, AskedFor
  <2>7. swap = "WANT_IN" => k2.thread[t].wait_event = NoEvent \/ t \in Pinned
    BY <1>2, <1>4, <1>7, <2>1 DEF Fine, AskedFor
  <2>8. swap = "GOING_OUT" => Good(k2, s2)
    BY <1>2, <2>3, <2>4, <2>5, <2>6, GoodIs DEF Fine
  <2>9. swap = "WANT_IN" => Unasked(k2, s2, t)
    BY <2>3, <2>4, <2>5, <2>7 DEF Unasked
  <2> QED
    BY <2>8, <2>9
<1>9. KInv(k3, s2)
  <2> HIDE DEF t, k, pin
  <2>1. CASE swap = "GOING_OUT"
    <3>1. k3 = k2
      BY <2>1
    <3>2. KInv(k2, s2)
      BY <1>7, <1>8, <2>1 DEF KInv, ThreadOnly
    <3> QED
      BY <3>1, <3>2
  <2>2. CASE swap = "WANT_IN"
    <3>1. k3 = thread_swapin(k2, t, pin)
      BY <2>2
    <3>2. k2.panicked = "no" => Unasked(k2, s2, t)
      BY <1>8, <2>2
    <3>3. k2 \in Kernels
      BY <1>7 DEF ThreadOnly
    <3> HIDE DEF k3
    <3>4. KInv(thread_swapin(k2, t, pin), s2)
      BY <1>2, <1>3, <3>2, <3>3, SwapinKeeps
    <3> QED
      BY <3>1, <3>4
  <2>3. CASE swap \notin {"GOING_OUT", "WANT_IN"}
    <3>1. k3 = Panic(k, "thread_swapout")
      BY <2>3
    <3>2. KInv(Panic(k, "thread_swapout"), s2)
      BY <1>1, PanicKeeps DEF Routines
    <3> QED
      BY <3>1, <3>2
  <2> QED
    BY <2>1, <2>2, <2>3
<1> HIDE DEF k3
<1> QED
  BY <1>5, <1>6, <1>9, SwapStep DEF SwapoutEnds, s2

LEMMA SwapinStartsKeeps ==
  ASSUME IInv, SwapinStarts
  PROVE  IInv'
<1> DEFINE k == Kernel
           t == Head(swapin_queue)
           s == Settled(swapper)
           s2 == Settled(swapper')
           q == Tail(swapin_queue)
           k2 == [k EXCEPT !.swapin_queue = q]
<1>1. KInv(k, s) /\ k \in Kernels /\ swapper \in Swappers
  BY DEF IInv, KInv
<1>2. swapin_queue \in Seq(Threads) /\ swapin_queue # <<>>
  BY <1>1, KernelFields, KernelIs DEF SwapinStarts
<1>3. /\ t \in ToSet(swapin_queue) /\ t \in Threads /\ q \in Seq(Threads)
      /\ IsInjective(swapin_queue) => IsInjective(q) /\ ToSet(q) = ToSet(swapin_queue) \ {t}
  BY <1>2, QueueTail
<1>4. Becomes(k2)
  BY KernelIs DEF SwapinStarts, Becomes, Kernel
<1> HIDE DEF t, q
<1>5. /\ swapper' \in Swappers
      /\ s.in = NoThread /\ s2.in = t /\ s2.out = s.out /\ s2.home = NoThread /\ s.home = NoThread
  BY <1>1, <1>3 DEF SwapinStarts, Swappers, Settled, SomeThread, t
<1> HIDE DEF s2
<1>6. /\ k2 \in Kernels /\ k2.thread = k.thread /\ k2.cpu = k.cpu /\ k2.runq = k.runq
      /\ k2.idle_queue = k.idle_queue /\ k2.wait_queue = k.wait_queue
      /\ k2.swapin_queue = q /\ k2.timer = k.timer /\ k2.panicked = k.panicked
  BY <1>1, <1>3 DEF Kernels
<1> HIDE DEF k2
<1>7. ASSUME k.panicked = "no" PROVE Good(k2, s2)
  <2>1. Others(k, s, t) /\ Fine(k, s, t)
    BY <1>1, <1>3, <1>7, GoodIs DEF KInv
  <2>2. IsInjective(q) /\ ToSet(q) = ToSet(k.swapin_queue) \ {t} /\ t \in ToSet(k.swapin_queue)
    BY <1>3, <2>1, KernelIs DEF Others
  <2>3. SwapperKept(s, s2, t) /\ Kept(k, k2, t)
    BY <1>5, <1>6, <2>1, <2>2, NotThreads DEF SwapperKept, Kept, Others
  <2>4. /\ PlacesIn(k2, t) = PlacesIn(k, t) /\ (Executes(k2, t) <=> Executes(k, t))
        /\ Others(k2, s2, t)
    BY <2>1, <2>3, KeptOthers
  <2>5. Placed(k2, t) /\ Waiting(k2, t) /\ Asserted(k2, t) /\ Timing(k2, t)
    BY <1>6, <2>1, <2>4 DEF Fine, Placed, Ready, Waiting, Asserted, Timing
  <2>6. Swapping(k2, s2, t) /\ AskedFor(k2, s2, t) /\ WaitsForSome(k2.thread[t], t)
    BY <1>3, <1>5, <1>6, <2>1, <2>2, NotThreads DEF Fine, Swapping, AskedFor, WaitsForSome
  <2> QED
    BY <1>3, <2>4, <2>5, <2>6, GoodIs DEF Fine
<1>8. KInv(k2, s2)
  BY <1>6, <1>7 DEF KInv
<1> QED
  BY <1>4, <1>5, <1>8, SwapStep DEF SwapinStarts, s2

LEMMA SwapinEndsKeeps ==
  ASSUME IInv, SwapinEnds
  PROVE  IInv'
<1> DEFINE k == thread_doswapin(Kernel, swapper.in)
<1>1. swapper \in Swappers /\ KInv(Kernel, Settled(swapper))
  BY DEF IInv
<1>2. swapper.in \in Threads
  BY <1>1 DEF SwapinEnds, Swappers, SomeThread
<1>3. /\ swapper' \in Swappers
      /\ Settled(swapper') = [out |-> swapper.out, in |-> NoThread, home |-> NoThread]
      /\ Settled(swapper) = [out |-> swapper.out, in |-> swapper.in, home |-> NoThread]
  BY <1>1 DEF SwapinEnds, Swappers, Settled, SomeThread
<1>4. KInv(k, Settled(swapper'))
  BY <1>1, <1>2, <1>3, DoswapinKeeps
<1>5. Becomes(k) /\ UNCHANGED call
  BY DEF SwapinEnds
<1> HIDE DEF k
<1> QED
  BY <1>3, <1>4, <1>5, SwapStep

\* Pinning a thread that is in, and letting it go.
LEMMA PinKeeps ==
  ASSUME NEW k, NEW s, NEW t \in Threads, NEW swap \in {"IN", "UNSWAPPABLE"}, KInv(k, s),
         k.thread[t].swap_state \in {"IN", "UNSWAPPABLE"}
  PROVE  KInv([k EXCEPT !.thread[t].swap_state = swap], s)
<1> DEFINE r == [k.thread[t] EXCEPT !.swap_state = swap]
           k2 == [k EXCEPT !.thread[t] = r]
<1>1. k \in Kernels /\ k.thread[t] \in ThreadRecord
  BY KernelFields DEF KInv
<1>2. /\ r \in ThreadRecord /\ r.state = k.thread[t].state /\ r.swap_state = swap
      /\ r.wait_event = k.thread[t].wait_event /\ r.timer_set = k.thread[t].timer_set
  BY <1>1 DEF ThreadRecord, SwapStates
<1> HIDE DEF r
<1>3. ThreadOnly(k, k2, t) /\ k2.thread[t] = r
  BY <1>1, <1>2, SetThread
<1> HIDE DEF k2
<1>4. ASSUME k.panicked = "no" PROVE Good(k2, s)
  <2>1. Others(k, s, t) /\ Fine(k, s, t) /\ SwapperKept(s, s, t)
    BY <1>4, GoodIs DEF KInv, SwapperKept
  <2>2. /\ PlacesIn(k2, t) = PlacesIn(k, t) /\ (Executes(k2, t) <=> Executes(k, t))
        /\ Others(k2, s, t)
    BY <1>3, <2>1, OnlyOthers
  <2>3. Placed(k2, t) /\ Waiting(k2, t) /\ Asserted(k2, t) /\ Timing(k2, t)
    BY <1>2, <1>3, <2>1, <2>2 DEF ThreadOnly, Fine, Placed, Ready, Waiting, Asserted, Timing
  <2>4. Swapping(k2, s, t) /\ AskedFor(k2, s, t) /\ WaitsForSome(k2.thread[t], t)
    BY <1>2, <1>3, <2>1 DEF ThreadOnly, Fine, Swapping, AskedFor, WaitsForSome
  <2> QED
    BY <2>2, <2>3, <2>4, GoodIs DEF Fine
<1>5. KInv(k2, s)
  BY <1>3, <1>4 DEF KInv, ThreadOnly
<1> QED
  BY <1>5 DEF k2, r

LEMMA AsksToPinKeeps ==
  ASSUME NEW k, NEW s, NEW c \in Threads, NEW t \in Pinned \cap Threads, KInv(k, s),
         Executes(k, c)
  PROVE  KInv(assert_wait(thread_swapin(k, t, TRUE), c, SwapEvent(t), FALSE), s)
<1> DEFINE k2 == thread_swapin(k, t, TRUE)
<1>1. k \in Kernels
  BY DEF KInv
<1>2. k.panicked = "no" => Unasked(k, s, t)
  <2>1. k.panicked = "no" => Others(k, s, t) /\ Fine(k, s, t)
    BY GoodIs DEF KInv
  <2> QED
    BY <2>1 DEF Unasked, Fine
<1>3. KInv(k2, s) /\ k2.cpu = k.cpu
  BY <1>1, <1>2, SwapinKeeps
<1> HIDE DEF k2
<1>4. Executes(k2, c)
  BY <1>3 DEF Executes
<1>5. SwapEvent(t) \in AllEvents /\ SwapEvent(t) # NoEvent
  BY NotEvents DEF QueuedEvents, AllEvents
<1> HIDE DEF SwapEvent
<1>6. KInv(assert_wait(k2, c, SwapEvent(t), FALSE), s)
  BY <1>3, <1>4, <1>5, AssertWaitKeeps
<1> QED
  BY <1>6 DEF k2

LEMMA MakeSwappableKeeps ==
  ASSUME IInv, NEW c, NEW t \in Threads, MakeSwappable(c, t)
  PROVE  IInv'
<1> DEFINE k == [Kernel EXCEPT !.thread[t].swap_state = "IN"]
<1>1. Kernel.thread[t].swap_state \in {"IN", "UNSWAPPABLE"}
  BY KernelIs DEF MakeSwappable
<1>2. Becomes(k)
  BY KernelIs DEF MakeSwappable, Becomes, Kernel
<1>3. KInv(k, Settled(swapper))
  BY <1>1, PinKeeps DEF IInv
<1> HIDE DEF k
<1> QED
  BY <1>2, <1>3, StepKeeps, SameCalls DEF MakeSwappable, IInv

LEMMA MakeUnswappableKeeps ==
  ASSUME IInv, NEW c \in Threads, NEW t \in Pinned \cap Threads, MakeUnswappable(c, t)
  PROVE  IInv'
<1> DEFINE k1 == [Kernel EXCEPT !.thread[t].swap_state = "UNSWAPPABLE"]
           k2 == assert_wait(thread_swapin(Kernel, t, TRUE), c, SwapEvent(t), FALSE)
<1>1. UNCHANGED swapper /\ Executes(Kernel, c)
  BY AtExecutes DEF MakeUnswappable
<1>2. CASE thread[t].swap_state = "IN" /\ Becomes(k1) /\ UNCHANGED call
  <2>1. Kernel.thread[t].swap_state \in {"IN", "UNSWAPPABLE"}
    BY <1>2, KernelIs
  <2>2. KInv(k1, Settled(swapper))
    BY <2>1, PinKeeps DEF IInv
  <2> HIDE DEF k1
  <2> QED
    BY <1>1, <1>2, <2>2, StepKeeps, SameCalls DEF IInv
<1>3. CASE Becomes(k2) /\ Enter(c, "swappable_sleep", t, FALSE, "swappable")
  <2>1. CallsOK'
    BY <1>3, EnterOK DEF IInv, Points
  <2>2. KInv(k2, Settled(swapper))
    BY <1>1, AsksToPinKeeps DEF IInv
  <2> HIDE DEF k2
  <2> QED
    BY <1>1, <1>3, <2>1, <2>2, StepKeeps
<1> QED
  BY <1>2, <1>3 DEF MakeUnswappable, AsksToPin

LEMMA SwappableAwakeKeeps ==
  ASSUME IInv, NEW c \in Threads, SwappableAwake(c)
  PROVE  IInv'
<1> DEFINE t == call[c].target
           k == assert_wait(thread_swapin(Kernel, t, TRUE), c, SwapEvent(t), FALSE)
<1>1. /\ UNCHANGED swapper /\ Executes(Kernel, c)
      /\ t \in Pinned \cap Threads
  <2>1. call[c].at = "swappable_awake"
    BY AtExecutes DEF SwappableAwake
  <2> QED
    BY <2>1, AtExecutes, Targets DEF SwappableAwake, IInv, CallsOK, CallOK
<1>2. CASE Return(c) /\ Becomes(Kernel)
  BY <1>1, <1>2, ReturnOK, StepKeeps DEF IInv
<1>3. CASE Becomes(k) /\ Goto(c, "swappable_sleep")
  <2>1. CallsOK'
    BY <1>1, <1>3, GotoOK DEF IInv, Points
  <2>2. Becomes(k)
    BY <1>3
  <2> HIDE DEF t
  <2>3. KInv(k, Settled(swapper))
    BY <1>1, AsksToPinKeeps DEF IInv
  <2> HIDE DEF k
  <2> QED
    BY <1>1, <2>1, <2>2, <2>3, StepKeeps
<1> QED
  BY <1>2, <1>3 DEF SwappableAwake, AsksToPin

LEMMA SwapNextKeeps ==
  ASSUME IInv, SwapNext
  PROVE  IInv'
<1>1. ASSUME NEW s \in MayMakeSwappable, MakeSwappable(s[1], s[2]) \/ MakeUnswappable(s[1], s[2])
      PROVE  IInv'
  <2>1. s[1] \in Threads /\ s[2] \in Pinned \cap Threads
    BY SwapsAreCalls DEF Pinned
  <2> QED
    BY <1>1, <2>1, MakeSwappableKeeps, MakeUnswappableKeeps
<1>2. ASSUME NEW t \in MaySwap, SwapoutStarts(t)
      PROVE  IInv'
  BY <1>2, SwapsAreCalls, SwapoutStartsKeeps
<1>3. ASSUME SwapperNext
      PROVE  IInv'
  BY <1>3, SwapoutEndsKeeps, SwapinStartsKeeps, SwapinEndsKeeps DEF SwapperNext
<1> QED
  BY <1>1, <1>2, <1>3, SwappableAwakeKeeps DEF SwapNext

-----------------------------------------------------------------------------
(* The invariant is inductive.                                             *)

LEMMA SwitchNextKeeps ==
  ASSUME IInv, SwitchNext
  PROVE  IInv'
BY ProcessorIdlesKeeps, SwitchContextKeeps, AnnounceStopKeeps, IdleDispatchedKeeps,
   IdleNotDispatchedKeeps, IdleBlocksKeeps DEF SwitchNext

LEMMA WaitNextKeeps ==
  ASSUME IInv, WaitNext
  PROVE  IInv'
<1>1. ASSUME NEW t \in MayTime,
             thread_set_timeout(t) \/ TimerExpires(t) \/ TimerLooks(t) \/ TimerEnds(t)
      PROVE  IInv'
  BY <1>1, WaitsAreCalls, SetTimeoutKeeps, TimerExpiresKeeps, TimerLooksKeeps, TimerEndsKeeps
<1>2. ASSUME NEW s \in MaySignal, Signal(s[1], s[2])
      PROVE  IInv'
  BY <1>2, WaitsAreCalls, SignalKeeps
<1>3. ASSUME NEW t \in Threads, NEW p \in Processors, thread_block(t, p)
      PROVE  IInv'
  BY <1>3, thread_blockKeeps
<1>4. ASSUME NEW c \in Threads, ClearLooks(c) \/ ClearEnds(c)
      PROVE  IInv'
  BY <1>4, ClearLooksKeeps, ClearEndsKeeps
<1> QED
  BY <1>1, <1>2, <1>3, <1>4, AssertWaitStep, WakeupStep DEF WaitNext

LEMMA NextKeeps ==
  ASSUME IInv, Next
  PROVE  IInv'
BY SwitchNextKeeps, WaitNextKeeps, StopNextKeeps, SwapNextKeeps DEF Next

LEMMA StutterKeeps ==
  ASSUME IInv, UNCHANGED vars
  PROVE  IInv'
<1>1. CallsOK'
  BY SameCalls DEF vars, IInv
<1> QED
  BY <1>1, CallsOnly DEF vars

LEMMA InitKeeps ==
  ASSUME Init
  PROVE  IInv
<1> DEFINE s == Settled(swapper)
           first == [state |-> {"RUN"}, interruptible |-> TRUE, wait_event |-> NoEvent,
                     wait_result |-> "AWAKENED", timer_set |-> FALSE,
                     wake_active |-> FALSE, suspend_count |-> 0, user_stop_count |-> 0,
                     halted |-> FALSE, active |-> TRUE, ast_halt |-> FALSE, swap_state |-> "IN",
                     make_unswappable |-> FALSE]
           start == [state |-> "RUNNING", next_thread |-> NoThread,
                     active |-> IdleThread, new_thread |-> NoThread, wake |-> NoThread]
<1>1. first \in ThreadRecord
  BY DEF ThreadRecord, StateBits, WaitResults, SwapStates, AllEvents
<1>2. start \in CpuRecord
  BY DEF CpuRecord, SomeThread
<1>3. thread = [t \in Threads |-> first] /\ cpu = [p \in Processors |-> start]
  BY DEF Init
<1>4. /\ first.state = {"RUN"} /\ first.wait_event = NoEvent /\ first.swap_state = "IN"
      /\ ~ first.timer_set
      /\ start.state = "RUNNING" /\ start.next_thread = NoThread /\ start.new_thread = NoThread
      /\ start.active = IdleThread
  OBVIOUS
<1> HIDE DEF first, start
<1>5. TimerOff \in Timers /\ TimerOff.at = "off"
  BY DEF Timers, TimerRecord, TimerOff, AllEvents
<1>6. /\ thread \in [Threads -> ThreadRecord] /\ cpu \in [Processors -> CpuRecord]
      /\ timer \in [Threads -> Timers] /\ runq = Threads /\ panicked = "no"
  BY <1>1, <1>2, <1>3, <1>5 DEF Init
<1>7. idle_queue = <<>> /\ wait_queue = <<>> /\ swapin_queue = <<>>
  BY DEF Init
<1>8. Kernel \in Kernels
  BY <1>6, <1>7 DEF Kernel, Kernels, Routines
<1>9. swapper \in Swappers /\ s.out = NoThread /\ s.in = NoThread /\ s.home = NoThread
  BY DEF Init, Swappers, SomeThread, Settled
<1>10. IsInjective(<<>>) /\ ToSet(<<>>) = {}
  BY DEF IsInjective, ToSet
<1>11. Idling(Kernel) /\ IsInjective(Kernel.wait_queue) /\ IsInjective(Kernel.swapin_queue)
  BY <1>3, <1>4, <1>7, <1>10, KernelIs DEF Idling
<1>12. ASSUME NEW t \in Threads PROVE Fine(Kernel, s, t)
  <2>1. t # NoThread /\ t # IdleThread
    BY NotThreads
  <2>2. PlacesIn(Kernel, t) = {<<"runq">>}
    BY <1>3, <1>4, <1>6, <2>1, KernelIs DEF PlacesIn
  <2>3. Kernel.thread[t] = first
    BY <1>3, KernelIs
  <2>4. Kernel.timer[t].at = "off"
    BY <1>5, KernelIs DEF Init
  <2>5. Placed(Kernel, t) /\ Waiting(Kernel, t) /\ Asserted(Kernel, t) /\ Timing(Kernel, t)
    BY <1>4, <1>7, <1>10, <2>2, <2>3, <2>4, KernelIs
       DEF Placed, Ready, Waiting, Asserted, Timing
  <2>6. Swapping(Kernel, s, t) /\ AskedFor(Kernel, s, t) /\ WaitsForSome(Kernel.thread[t], t)
    BY <1>4, <1>7, <1>9, <1>10, <2>1, <2>3, KernelIs DEF Swapping, AskedFor, WaitsForSome
  <2> QED
    BY <2>5, <2>6 DEF Fine
<1>13. KInv(Kernel, s)
  BY <1>8, <1>11, <1>12 DEF KInv, Good
<1>14. CallsOK
  <2>1. InUser \in CallRecord /\ CallOK(InUser)
    BY DEF InUser, CallRecord, CallOK, Points, SomeThread, AllEvents
  <2>2. call = [t \in Threads |-> InUser]
    BY DEF Init
  <2> QED
    BY <2>1, <2>2 DEF CallsOK
<1> QED
  BY <1>9, <1>13, <1>14 DEF IInv

\* Every reachable kernel state is typed and, if nobody panicked, good.
THEOREM Invariance == Spec => []IInv
<1>1. Init => IInv
  BY InitKeeps
<1>2. IInv /\ [Next]_vars => IInv'
  BY NextKeeps, StutterKeeps
<1> QED
  BY <1>1, <1>2, PTL DEF Spec

\* The queues, records and calls keep their types (struct thread, struct
\* processor), panic or not.
THEOREM TypeCorrect == Spec => []TypeOK
<1>1. ASSUME IInv PROVE TypeOK
  <2>1. Kernel \in Kernels /\ swapper \in Swappers /\ CallsOK
    BY <1>1 DEF IInv, KInv
  <2>2. /\ thread \in [Threads -> ThreadRecord] /\ cpu \in [Processors -> CpuRecord]
        /\ runq \subseteq Threads /\ idle_queue \in Seq(Processors)
        /\ wait_queue \in Seq(Threads) /\ swapin_queue \in Seq(Threads)
        /\ timer \in [Threads -> Timers]
    BY <2>1, KernelFields, KernelIs
  <2>3. timer \in [Threads -> TimerRecord]
    BY <2>2 DEF Timers
  <2>4. \A t \in Threads : call[t].target \in SomeThread
    <3>1. \A t \in Threads : call[t] \in CallRecord
      BY <2>1 DEF CallsOK
    <3> QED
      BY <3>1 DEF CallRecord
  <2> QED
    BY <2>1, <2>2, <2>3, <2>4 DEF TypeOK, Swappers
<1> QED
  BY <1>1, Invariance, PTL

LEMMA Sound ==
  ASSUME IInv, NoPanic, NEW t \in Threads
  PROVE  /\ Fine(Kernel, Settled(swapper), t)
         /\ IsInjective(wait_queue) /\ IsInjective(swapin_queue)
         /\ wait_queue \in Seq(Threads) /\ swapin_queue \in Seq(Threads)
BY KernelFields, KernelIs DEF IInv, KInv, Good, NoPanic

\* A runnable resident thread is in exactly one place where it will be run
\* from, any other in none: the routines of sched_prim.c lose no thread and
\* run none twice or without its stack, as long as none of them panicked.
THEOREM OnePlaceHolds == Spec => [](NoPanic => OnePlace)
<1>1. ASSUME IInv, NoPanic PROVE OnePlace
  <2> SUFFICES ASSUME NEW t \in Threads
               PROVE  Cardinality(Places(t)) =
                        IF "RUN" \in thread[t].state /\ "SWAPPED" \notin thread[t].state
                        THEN 1 ELSE 0
    BY DEF OnePlace
  <2>1. Places(t) = PlacesIn(Kernel, t)
    BY KernelIs DEF Places, PlacesIn
  <2>2. Placed(Kernel, t)
    BY <1>1, Sound DEF Fine
  <2>3. CASE Ready(thread[t])
    BY <2>1, <2>2, <2>3, KernelIs, FS_Singleton DEF Placed, Ready
  <2>4. CASE ~ Ready(thread[t])
    BY <2>1, <2>2, <2>4, KernelIs, FS_EmptySet DEF Placed, Ready
  <2> QED
    BY <2>3, <2>4
<1> QED
  BY <1>1, Invariance, PTL

\* The wait queues hold the threads that wait for an event, and a thread that
\* waits for none is runnable or stopped: no wakeup between assert_wait and
\* thread_block is lost, as long as no routine panicked.
THEOREM NoWakeupLost == Spec => [](NoPanic => NoLostWakeup)
<1>1. ASSUME IInv, NoPanic PROVE NoLostWakeup
  <2>1. ASSUME NEW t \in Threads
        PROVE  /\ (\E i \in DOMAIN wait_queue : wait_queue[i] = t)
                        <=> (thread[t].wait_event # NoEvent)
               /\ thread[t].wait_event # NoEvent => "WAIT" \in thread[t].state
               /\ "WAIT" \in thread[t].state =>
                        \/ thread[t].wait_event # NoEvent
                        \/ \E i \in BOOLEAN : <<t, NoEvent, i>> \in MayWait
               /\ thread[t].state \cap {"WAIT", "SUSP", "RUN"} # {}
    <3>1. Waiting(Kernel, t) /\ WaitsForSome(Kernel.thread[t], t)
      BY <1>1, Sound DEF Fine
    <3>2. t \in ToSet(wait_queue) <=> \E i \in DOMAIN wait_queue : wait_queue[i] = t
      BY DEF ToSet
    <3> QED
      BY <3>1, <3>2, KernelIs DEF Waiting, WaitsForSome
  <2> QED
    BY <2>1 DEF NoLostWakeup
<1> QED
  BY <1>1, Invariance, PTL

\* A timeout that is still to expire belongs to the wait the thread is in: the
\* wakeup routines cancel it (untimeout), as long as no routine panicked.
THEOREM NoTimerStale == Spec => [](NoPanic => NoStaleTimer)
<1>1. ASSUME IInv, NoPanic PROVE NoStaleTimer
  <2>1. ASSUME NEW t \in Threads PROVE Timing(Kernel, t)
    BY <1>1, Sound DEF Fine
  <2> QED
    BY <2>1, KernelIs DEF Timing, NoStaleTimer
<1> QED
  BY <1>1, Invariance, PTL

\* How often a thread is in a queue where nothing is twice.
LEMMA EntriesAre ==
  ASSUME NEW seq \in Seq(Threads), IsInjective(seq), NEW t
  PROVE  Entries(seq, t) = IF t \in ToSet(seq) THEN 1 ELSE 0
<1>1. CASE t \in ToSet(seq)
  <2>1. PICK i \in DOMAIN seq : seq[i] = t
    BY <1>1 DEF ToSet
  <2>2. {j \in DOMAIN seq : seq[j] = t} = {i}
    BY <2>1 DEF IsInjective
  <2> QED
    BY <1>1, <2>2, FS_Singleton DEF Entries
<1>2. CASE t \notin ToSet(seq)
  <2>1. {j \in DOMAIN seq : seq[j] = t} = {}
    BY <1>2 DEF ToSet
  <2> QED
    BY <1>2, <2>1, FS_EmptySet DEF Entries
<1> QED
  BY <1>1, <1>2

\* The swap state of thread_swap.c says where a thread is, and the swapper
\* threads and their queue hold it there once; one that became runnable while
\* it was out has been asked for.
THEOREM SwapAgrees == Spec => [](NoPanic => SwapConsistent)
<1>1. ASSUME IInv, NoPanic PROVE SwapConsistent
  <2> SUFFICES ASSUME NEW t \in Threads
               PROVE  LET swap == thread[t].swap_state
                      IN  /\ ("SWAPPED" \in thread[t].state) <=> swap \notin {"IN", "UNSWAPPABLE"}
                          /\ (swapper.out = t) <=> (swap \in {"GOING_OUT", "WANT_IN"})
                          /\ Entries(swapin_queue, t) + (IF swapper.in = t THEN 1 ELSE 0) =
                                IF swap = "COMING_IN" THEN 1 ELSE 0
                          /\ {"RUN", "SWAPPED"} \subseteq thread[t].state =>
                                swap \in {"WANT_IN", "COMING_IN"}
    BY DEF SwapConsistent
  <2>1. Swapping(Kernel, Settled(swapper), t) /\ AskedFor(Kernel, Settled(swapper), t)
    BY <1>1, Sound DEF Fine
  <2>2. /\ Settled(swapper).out = swapper.out /\ Settled(swapper).in = swapper.in
        /\ Settled(swapper).home # t
    BY NotThreads DEF Settled
  <2>3. Entries(swapin_queue, t) = IF t \in ToSet(swapin_queue) THEN 1 ELSE 0
    BY <1>1, Sound, EntriesAre
  <2> QED
    BY <2>1, <2>2, <2>3, KernelIs DEF Swapping, AskedFor
<1> QED
  BY <1>1, Invariance, PTL

LEMMA OneQueueAtATime ==
  ASSUME IInv, NoPanic, NEW t \in Threads \ Pinned
  PROVE  OnOneQueue(t)
<1> DEFINE s == Settled(swapper)
           waits == t \in ToSet(wait_queue)
           comes == t \in ToSet(swapin_queue)
<1>1. Fine(Kernel, s, t)
  BY Sound
<1>2. /\ Entries(wait_queue, t) = IF waits THEN 1 ELSE 0
      /\ Entries(swapin_queue, t) = IF comes THEN 1 ELSE 0
  BY Sound, EntriesAre
<1>3. waits => thread[t].wait_event # NoEvent /\ "WAIT" \in thread[t].state
  BY <1>1, KernelIs DEF Fine, Waiting
<1>4. comes => thread[t].swap_state = "COMING_IN"
  BY <1>1, KernelIs DEF Fine, Swapping
<1>5. comes => ~ waits
  BY <1>1, <1>3, <1>4, KernelIs DEF Fine, AskedFor
<1>6. ASSUME t \in runq PROVE ~ waits /\ ~ comes
  <2>1. <<"runq">> \in PlacesIn(Kernel, t)
    BY <1>6, KernelIs, PlaceIs
  <2>2. Ready(thread[t]) /\ PlacesIn(Kernel, t) = {<<"runq">>}
    BY <1>1, <2>1, KernelIs DEF Fine, Placed
  <2>3. ~ Executes(Kernel, t)
    BY <2>2, RunqOnly DEF Executes
  <2>4. ~ waits
    BY <1>1, <1>3, <2>2, <2>3, KernelIs DEF Fine, Asserted, Ready
  <2>5. ~ comes
    BY <1>1, <1>4, <2>2, NotThreads, KernelIs DEF Fine, Swapping, Settled, Ready
  <2> QED
    BY <2>4, <2>5
<1> QED
  BY <1>2, <1>5, <1>6 DEF OnOneQueue

UnpinnedInOneQueue == \A t \in Threads \ Pinned : OnOneQueue(t)

\* A thread's queue links serve one queue at a time, for a thread that no
\* other pins with thread_swappable: it waits, is queued to run or is queued to
\* be swapped in, as long as no routine panicked.
THEOREM UnpinnedHolds == Spec => [](NoPanic => UnpinnedInOneQueue)
<1>1. IInv /\ NoPanic => UnpinnedInOneQueue
  BY OneQueueAtATime DEF UnpinnedInOneQueue
<1> QED
  BY <1>1, Invariance, PTL

\* So it is for all threads where nobody calls thread_swappable.  (A thread that
\* is pinned while it waits swapped out is in two queues.)
THEOREM OneQueueHolds == Spec => [](NoPanic /\ Pinned = {} => OneQueue)
<1>1. IInv /\ NoPanic /\ Pinned = {} => OneQueue
  BY OneQueueAtATime DEF OneQueue
<1> QED
  BY <1>1, Invariance, PTL
=============================================================================
