--------------------------- MODULE RunQueueProofs ---------------------------
(***************************************************************************)
(* Proofs that the run queue's count, hint and runq fields are exact, for  *)
(* any set of threads and processors and any number of priorities.         *)
(***************************************************************************)
EXTENDS RunQueue, FiniteSetTheorems, WellFoundedInduction, TLAPS

QueuedThreads == {t \in Threads : queued[t]}

\* A thread is queued at one priority, if its runq field says so, else nowhere.
Placed ==
  /\ \A t \in Threads : queued[t] <=> \E i \in Prios : t \in runq[i]
  /\ \A t \in Threads : \A i, j \in Prios :
       t \in runq[i] /\ t \in runq[j] => i = j

Counted == count = Cardinality(QueuedThreads)

Hinted == count > 0 => \A i \in Prios : i < low => runq[i] = {}

\* The points at which a routine has its thread locked.
LockedPoints == {"setrun", "rem_runq", "rem_locked", "removed", "off", "unlock"}

Locks(c, t) == job[c].at \in LockedPoints /\ job[c].thread = t

Locking ==
  /\ \A c \in Cpus, t \in Threads : Locks(c, t) <=> th_lock[t] = c
  /\ \A c \in Cpus :
       job[c].at \in LockedPoints \cup {"scan_lock"} => job[c].thread \in Threads

\* Only the holder of a thread's lock queues it: off the queue it stays off.
OffQueue ==
  \A c \in Cpus :
    job[c].at \in {"setrun", "removed", "off"} => ~queued[job[c].thread]

\* A thread's lock is dropped only with the thread at its priority.
Settled ==
  \A t \in Threads :
    queued[t] /\ (th_lock[t] = Free \/ job[th_lock[t]].at = "unlock")
      => t \in runq[Whichq(sched_pri[t])]

QueueType ==
  /\ runq \in [Prios -> SUBSET Threads]
  /\ low \in 0 .. NRQS
  /\ queued \in [Threads -> BOOLEAN]

QueueOK == QueueType /\ Placed /\ Counted /\ Hinted

\* The other variables' types.
RestType ==
  /\ sched_pri \in [Threads -> 0 .. MaxPri]
  /\ rq_lock \in Cpus \cup {Free}
  /\ th_lock \in [Threads -> Cpus \cup {Free}]
  /\ job \in [Cpus -> [at: LockedPoints \cup {"none", "scan", "scan_lock"},
                       thread: Threads \cup {Free},
                       pri: {NoPri} \cup 0 .. MaxPri]]
  /\ stuck \subseteq Threads
  /\ lost = FALSE

\* The inductive invariant.
IInv == QueueOK /\ RestType /\ Locking /\ OffQueue /\ Settled

-----------------------------------------------------------------------------
(* Facts about numbers and sets.                                           *)

\* A set of natural numbers has a least element: among the initial segments
\* that end in it, one has no other as a strict subset.
LEMMA Least ==
  ASSUME NEW T \in SUBSET Nat, T # {}
  PROVE  \E m \in T : \A k \in T : m <= k
<1> DEFINE Segments == {0 .. k : k \in T}
<1>1. IsWellFoundedOn(StrictSubsetOrdering(Nat), FiniteSubsetsOf(Nat))
  BY FS_StrictSubsetOrderingWellFounded
<1>2. Segments \subseteq FiniteSubsetsOf(Nat)
  <2>1. \A k \in T : 0 .. k \subseteq Nat /\ IsFiniteSet(0 .. k)
    BY FS_Interval
  <2> QED
    BY <2>1 DEF FiniteSubsetsOf
<1>3. Segments # {}
  OBVIOUS
<1> HIDE DEF Segments
<1>4. PICK s \in Segments :
        \A r \in Segments : ~ (<<r, s>> \in StrictSubsetOrdering(Nat))
  BY <1>1, <1>2, <1>3, WFMin
<1>5. PICK m \in T : s = 0 .. m
  BY DEF Segments
<1>6. ASSUME NEW k \in T, k < m
      PROVE  FALSE
  <2>1. 0 .. k \in Segments
    BY DEF Segments
  <2>2. 0 .. k \subseteq Nat /\ 0 .. m \subseteq Nat
    OBVIOUS
  <2>3. 0 .. k \subseteq 0 .. m /\ 0 .. k # 0 .. m
    <3>1. m \in 0 .. m /\ ~ (m \in 0 .. k)
      BY <1>6
    <3> QED
      BY <1>6, <3>1
  <2>4. <<0 .. k, 0 .. m>> \in StrictSubsetOrdering(Nat)
    BY <2>2, <2>3 DEF StrictSubsetOrdering
  <2> QED
    BY <2>1, <2>4, <1>4, <1>5
<1> QED
  BY <1>6

LEMMA WhichqType ==
  ASSUME NEW pri \in Nat
  PROVE  Whichq(pri) \in Prios
BY NRQSPositive DEF Whichq, Prios

LEMMA QueuedFinite == IsFiniteSet(QueuedThreads)
<1>1. QueuedThreads \subseteq Threads
  BY DEF QueuedThreads
<1> QED
  BY <1>1, FiniteThreads, FS_Subset

\* The count is zero exactly when nothing is queued.
LEMMA CountZero ==
  ASSUME Counted
  PROVE  /\ count \in Nat
         /\ count = 0 <=> \A t \in Threads : ~queued[t]
<1>1. count = Cardinality(QueuedThreads)
  BY DEF Counted
<1>2. count = 0 <=> QueuedThreads = {}
  BY <1>1, QueuedFinite, FS_EmptySet
<1> QED
  BY <1>1, <1>2, QueuedFinite, FS_CardinalityType DEF QueuedThreads

\* choose_pset_thread does not panic: the search from the hint finds a thread.
LEMMA FoundExists ==
  ASSUME QueueOK, count > 0
  PROVE  \E i \in Prios : Found(i)
<1> DEFINE T == {i \in Prios : i >= low /\ runq[i] # {}}
<1>1. PICK t \in Threads : queued[t]
  BY CountZero DEF QueueOK
<1>2. PICK i \in Prios : t \in runq[i]
  BY <1>1 DEF QueueOK, Placed
<1>3. Prios \subseteq Nat /\ low \in Nat
  BY NRQSPositive DEF QueueOK, QueueType, Prios
<1>4. i \in T
  BY <1>2, <1>3 DEF QueueOK, Hinted
<1>5. T \in SUBSET Nat /\ T # {}
  BY <1>3, <1>4
<1> HIDE DEF T
<1>6. PICK m \in T : \A k \in T : m <= k
  BY <1>5, Least
<1>7. m \in Prios /\ m >= low /\ runq[m] # {}
  BY DEF T
<1>8. \A j \in Prios : low <= j /\ j < m => runq[j] = {}
  <2> SUFFICES ASSUME NEW j \in Prios, low <= j, j < m, runq[j] # {}
               PROVE  FALSE
    OBVIOUS
  <2>1. j \in T
    BY <1>3 DEF T
  <2> QED
    BY <2>1, <1>6, <1>3, <1>7
<1> QED
  BY <1>7, <1>8 DEF Found


-----------------------------------------------------------------------------
(* The two sections under the queue's lock.                                *)

\* run_queue_enqueue, of a thread that is off the queue.
LEMMA EnqueueKeeps ==
  ASSUME QueueOK, NEW t \in Threads, NEW pri \in 0 .. MaxPri,
         ~queued[t], Enqueue(t, pri)
  PROVE  QueueOK' /\ t \in runq'[Whichq(pri)]
<1> DEFINE w == Whichq(pri)
<1>1. w \in Prios /\ Prios \subseteq Nat /\ NRQS \in Nat
  BY WhichqType, MaxPriNat, NRQSPositive DEF Prios
<1> HIDE DEF w
<1>2. /\ runq' = [runq EXCEPT ![w] = @ \cup {t}]
      /\ low' = LowAfter(w)
      /\ count' = count + 1
      /\ queued' = [queued EXCEPT ![t] = TRUE]
  BY DEF Enqueue, w
<1>3. /\ runq \in [Prios -> SUBSET Threads]
      /\ low \in 0 .. NRQS
      /\ queued \in [Threads -> BOOLEAN]
  BY DEF QueueOK, QueueType
<1>4. QueueType'
  BY <1>1, <1>2, <1>3, NRQSPositive DEF QueueType, LowAfter, Prios
<1>5. Placed'
  BY <1>1, <1>2, <1>3 DEF QueueOK, Placed
<1>6. Counted'
  <2>1. QueuedThreads' = QueuedThreads \cup {t} /\ t \notin QueuedThreads
    BY <1>2, <1>3 DEF QueuedThreads
  <2> QED
    BY <2>1, <1>2, QueuedFinite, FS_AddElement DEF QueueOK, Counted
<1>7. Hinted'
  <2> SUFFICES ASSUME NEW i \in Prios, i < low'
               PROVE  runq'[i] = {}
    BY DEF Hinted
  <2>1. i # w /\ (count = 0 \/ i < low)
    BY <1>1, <1>2, <1>3 DEF LowAfter
  <2>2. runq[i] = {}
    <3>1. CASE count = 0
      BY <3>1, CountZero, <1>3 DEF QueueOK, Placed
    <3>2. CASE count # 0 /\ i < low
      BY <3>2, CountZero DEF QueueOK, Hinted
    <3> QED
      BY <2>1, <3>1, <3>2
  <2> QED
    BY <2>1, <2>2, <1>2, <1>3
<1> QED
  BY <1>1, <1>2, <1>3, <1>4, <1>5, <1>6, <1>7 DEF QueueOK, w

\* A thread is taken out; the hint stays, or is where the thread was found.
LEMMA DequeueKeeps ==
  ASSUME QueueOK, NEW t \in Threads, queued[t], Dequeue(t),
         low' = low \/ \E i \in Prios : Found(i) /\ low' = i
  PROVE  QueueOK'
<1>1. Prios \subseteq Nat /\ NRQS \in Nat /\ Prios \subseteq 0 .. NRQS
  BY NRQSPositive DEF Prios
<1>2. /\ runq' = [i \in Prios |-> runq[i] \ {t}]
      /\ count' = count - 1
      /\ queued' = [queued EXCEPT ![t] = FALSE]
  BY DEF Dequeue
<1>3. /\ runq \in [Prios -> SUBSET Threads]
      /\ low \in 0 .. NRQS
      /\ queued \in [Threads -> BOOLEAN]
  BY DEF QueueOK, QueueType
<1>4. QueueType'
  BY <1>1, <1>2, <1>3 DEF QueueType
<1>5. Placed'
  BY <1>2, <1>3 DEF QueueOK, Placed
<1>6. Counted'
  <2>1. QueuedThreads' = QueuedThreads \ {t} /\ t \in QueuedThreads
    BY <1>2, <1>3 DEF QueuedThreads
  <2> QED
    BY <2>1, <1>2, QueuedFinite, FS_RemoveElement DEF QueueOK, Counted
<1>7. Hinted'
  <2> SUFFICES ASSUME NEW i \in Prios, i < low'
               PROVE  runq'[i] = {}
    BY DEF Hinted
  <2>1. count > 0
    BY CountZero DEF QueueOK
  <2>2. runq[i] = {}
    <3>1. CASE i < low
      BY <3>1, <2>1 DEF QueueOK, Hinted
    <3>2. CASE ~ (i < low)
      BY <3>2, <1>1, <1>3 DEF Found
    <3> QED
      BY <3>1, <3>2
  <2> QED
    BY <2>2, <1>2
<1> QED
  BY <1>4, <1>5, <1>6, <1>7 DEF QueueOK

LEMMA QueueStays ==
  ASSUME QueueOK, UNCHANGED <<runq, low, count, queued>>
  PROVE  QueueOK'
BY DEF QueueOK, QueueType, Placed, Counted, Hinted, QueuedThreads

-----------------------------------------------------------------------------
(* Taking and dropping a thread's lock.                                    *)

\* Processors that have threads locked have different threads locked.
LEMMA OneHolder ==
  ASSUME IInv, NEW c \in Cpus, NEW d \in Cpus,
         job[c].at \in LockedPoints, job[d].at \in LockedPoints,
         job[c].thread = job[d].thread
  PROVE  c = d
BY DEF IInv, Locking, Locks

\* What LockThread leaves to prove: with no thread queued or moved, the
\* invariant holds if it holds of the thread that was locked.
LEMMA LockKeeps ==
  ASSUME IInv, NEW c \in Cpus, NEW t \in Threads,
         NEW at \in {"setrun", "rem_runq", "unlock"},
         NEW pri \in {NoPri} \cup 0 .. MaxPri,
         LockThread(c, t, at, pri),
         UNCHANGED <<runq, low, count, queued, rq_lock, lost>>,
         sched_pri' \in [Threads -> 0 .. MaxPri],
         \A u \in Threads \ {t} : sched_pri'[u] = sched_pri[u],
         stuck' \subseteq Threads,
         at = "setrun" => ~queued[t],
         at = "unlock" => sched_pri'[t] = sched_pri[t]
  PROVE  IInv'
<1>1. /\ job[c].at = "none" /\ th_lock[t] = Free
      /\ th_lock' = [th_lock EXCEPT ![t] = c]
      /\ job' = [job EXCEPT ![c] = [at |-> at, thread |-> t, pri |-> pri]]
  BY DEF LockThread, Locked
<1>2. QueueOK'
  BY QueueStays DEF IInv
<1>3. RestType'
  BY <1>1 DEF IInv, RestType, LockedPoints
<1>4. Locking'
  <2>1. ASSUME NEW d \in Cpus, NEW u \in Threads
        PROVE  Locks(d, u)' <=> th_lock'[u] = d
    BY <1>1, FreeIsNobody DEF IInv, RestType, Locking, Locks, LockedPoints
  <2>2. ASSUME NEW d \in Cpus,
               job'[d].at \in LockedPoints \cup {"scan_lock"}
        PROVE  job'[d].thread \in Threads
    BY <2>2, <1>1 DEF IInv, RestType, Locking
  <2> QED
    BY <2>1, <2>2 DEF Locking
<1>5. OffQueue'
  BY <1>1 DEF IInv, RestType, OffQueue
<1>6. Settled'
  <2> SUFFICES ASSUME NEW u \in Threads, queued[u],
                      th_lock'[u] = Free \/ job'[th_lock'[u]].at = "unlock"
               PROVE  u \in runq[Whichq(sched_pri'[u])]
    BY DEF Settled
  <2>1. CASE u = t
    BY <2>1, <1>1, FreeIsNobody DEF IInv, RestType, Settled
  <2>2. CASE u # t
    <3>1. th_lock'[u] = th_lock[u] /\ th_lock[u] \in Cpus \cup {Free}
      BY <2>2, <1>1 DEF IInv, RestType
    <3>2. th_lock[u] # c
      BY <1>1 DEF IInv, Locking, Locks, LockedPoints
    <3> QED
      BY <2>2, <3>1, <3>2, <1>1 DEF IInv, RestType, Settled
  <2> QED
    BY <2>1, <2>2
<1> QED
  BY <1>2, <1>3, <1>4, <1>5, <1>6 DEF IInv

-----------------------------------------------------------------------------
(* The routines that have a thread locked.                                 *)

\* A holder that goes on to another point with its thread locked.
LEMMA GotoKeeps ==
  ASSUME IInv, NEW c \in Cpus, job[c].at \in LockedPoints,
         NEW at \in LockedPoints, Goto(c, at), UNCHANGED th_lock
  PROVE  /\ job' \in [Cpus -> [at: LockedPoints \cup {"none", "scan", "scan_lock"},
                               thread: Threads \cup {Free},
                               pri: {NoPri} \cup 0 .. MaxPri]]
         /\ Locking'
         /\ job'[c].at = at
         /\ \A d \in Cpus : job'[d].thread = job[d].thread
         /\ \A d \in Cpus \ {c} : job'[d] = job[d]
<1>1. job' = [job EXCEPT ![c].at = at]
  BY DEF Goto
<1>2. job' \in [Cpus -> [at: LockedPoints \cup {"none", "scan", "scan_lock"},
                         thread: Threads \cup {Free},
                         pri: {NoPri} \cup 0 .. MaxPri]]
  BY <1>1 DEF IInv, RestType
<1>3. /\ job'[c].at = at
      /\ \A d \in Cpus : job'[d].thread = job[d].thread
      /\ \A d \in Cpus \ {c} : job'[d] = job[d]
  BY <1>1 DEF IInv, RestType
<1>4. Locking'
  BY <1>3 DEF IInv, Locking, Locks
<1> QED
  BY <1>2, <1>3, <1>4

\* The thread that a holder works on.
LEMMA Holds ==
  ASSUME IInv, NEW c \in Cpus, job[c].at \in LockedPoints
  PROVE  /\ job[c].thread \in Threads
         /\ th_lock[job[c].thread] = c
         /\ \A u \in Threads \ {job[c].thread} : th_lock[u] # c
         /\ \A d \in Cpus \ {c} :
              job[d].at \in LockedPoints => job[d].thread # job[c].thread
BY DEF IInv, Locking, Locks

LEMMA SetrunKeeps ==
  ASSUME IInv, NEW c \in Cpus, NEW pri \in 0 .. MaxPri, thread_setrun(c, pri)
  PROVE  IInv'
<1> DEFINE t == job[c].thread
<1>1. /\ job[c].at = "setrun" /\ Goto(c, "unlock")
      /\ sched_pri' = [sched_pri EXCEPT ![t] = pri]
      /\ UNCHANGED <<rq_lock, th_lock, stuck, lost>>
      /\ UNCHANGED <<runq, low, count, queued>> \/ Enqueue(t, pri)
  BY DEF thread_setrun, Locked
<1>2. /\ t \in Threads /\ th_lock[t] = c
      /\ \A u \in Threads \ {t} : th_lock[u] # c
      /\ \A d \in Cpus \ {c} : job[d].at \in LockedPoints => job[d].thread # t
  BY <1>1, Holds DEF LockedPoints
<1>3. ~queued[t]
  BY <1>1 DEF IInv, OffQueue
<1> HIDE DEF t
<1>4. /\ job' \in [Cpus -> [at: LockedPoints \cup {"none", "scan", "scan_lock"},
                            thread: Threads \cup {Free},
                            pri: {NoPri} \cup 0 .. MaxPri]]
      /\ Locking'
      /\ job'[c].at = "unlock"
      /\ \A d \in Cpus : job'[d].thread = job[d].thread
      /\ \A d \in Cpus \ {c} : job'[d] = job[d]
  BY <1>1, GotoKeeps DEF LockedPoints
<1>5. /\ QueueOK'
      /\ queued'[t] => t \in runq'[Whichq(pri)]
      /\ \A u \in Threads \ {t} : queued'[u] = queued[u]
      /\ \A u \in Threads \ {t}, i \in Prios : u \in runq[i] => u \in runq'[i]
  <2>1. CASE UNCHANGED <<runq, low, count, queued>>
    BY <2>1, <1>3, QueueStays DEF IInv
  <2>2. CASE Enqueue(t, pri)
    <3>1. QueueOK' /\ t \in runq'[Whichq(pri)]
      BY <2>2, <1>2, <1>3, EnqueueKeeps DEF IInv
    <3> QED
      BY <3>1, <2>2 DEF IInv, QueueOK, QueueType, Enqueue
  <2> QED
    BY <1>1, <2>1, <2>2
<1>6. RestType'
  BY <1>1, <1>2, <1>4 DEF IInv, RestType
<1>7. OffQueue'
  BY <1>2, <1>4, <1>5 DEF IInv, OffQueue, Locking, LockedPoints
<1>8. Settled'
  <2> SUFFICES ASSUME NEW u \in Threads, queued'[u],
                      th_lock[u] = Free \/ job'[th_lock[u]].at = "unlock"
               PROVE  u \in runq'[Whichq(sched_pri'[u])]
    BY <1>1 DEF Settled
  <2>1. CASE u = t
    BY <2>1, <1>1, <1>2, <1>5 DEF IInv, RestType
  <2>2. CASE u # t
    <3>1. sched_pri'[u] = sched_pri[u] /\ sched_pri[u] \in Nat
      BY <2>2, <1>1, MaxPriNat DEF IInv, RestType
    <3>2. th_lock[u] = Free \/ job[th_lock[u]].at = "unlock"
      BY <2>2, <1>2, <1>4 DEF IInv, RestType
    <3>3. u \in runq[Whichq(sched_pri[u])]
      BY <2>2, <3>2, <1>5 DEF IInv, Settled
    <3> QED
      BY <2>2, <3>1, <3>3, <1>5, WhichqType
  <2> QED
    BY <2>1, <2>2
<1> QED
  BY <1>4, <1>5, <1>6, <1>7, <1>8 DEF IInv

\* Steps of a holder that move no thread and give none a priority, but its own.
LEMMA HolderKeeps ==
  ASSUME IInv, NEW c \in Cpus, job[c].at \in LockedPoints,
         NEW at \in LockedPoints, Goto(c, at),
         UNCHANGED <<runq, low, count, queued, rq_lock, th_lock, stuck, lost>>,
         sched_pri' \in [Threads -> 0 .. MaxPri],
         \A u \in Threads \ {job[c].thread} : sched_pri'[u] = sched_pri[u],
         at \in {"setrun", "removed", "off", "unlock"} => ~queued[job[c].thread]
  PROVE  IInv'
<1> DEFINE t == job[c].thread
<1>1. /\ t \in Threads /\ th_lock[t] = c
      /\ \A u \in Threads \ {t} : th_lock[u] # c
      /\ \A d \in Cpus \ {c} : job[d].at \in LockedPoints => job[d].thread # t
  BY Holds
<1> HIDE DEF t
<1>2. /\ job' \in [Cpus -> [at: LockedPoints \cup {"none", "scan", "scan_lock"},
                            thread: Threads \cup {Free},
                            pri: {NoPri} \cup 0 .. MaxPri]]
      /\ Locking'
      /\ job'[c].at = at
      /\ \A d \in Cpus : job'[d].thread = job[d].thread
      /\ \A d \in Cpus \ {c} : job'[d] = job[d]
  BY GotoKeeps
<1>3. QueueOK'
  BY QueueStays DEF IInv
<1>4. RestType'
  BY <1>2 DEF IInv, RestType
<1>5. OffQueue'
  BY <1>2 DEF IInv, OffQueue
<1>6. Settled'
  <2> SUFFICES ASSUME NEW u \in Threads, queued[u],
                      th_lock[u] = Free \/ job'[th_lock[u]].at = "unlock"
               PROVE  u \in runq[Whichq(sched_pri'[u])]
    BY DEF Settled
  <2>1. CASE u = t
    BY <2>1, <1>1, <1>2, FreeIsNobody DEF t
  <2>2. CASE u # t
    BY <2>2, <1>1, <1>2 DEF IInv, RestType, Settled, t
  <2> QED
    BY <2>1, <2>2
<1> QED
  BY <1>2, <1>3, <1>4, <1>5, <1>6 DEF IInv

LEMMA RemLooksKeeps ==
  ASSUME IInv, NEW c \in Cpus, RemLooks(c)
  PROVE  IInv'
<1> DEFINE at == IF queued[job[c].thread] THEN "rem_locked" ELSE "off"
<1>1. /\ job[c].at = "rem_runq" /\ Goto(c, at)
      /\ UNCHANGED <<runq, low, count, queued, rq_lock, th_lock, stuck, lost>>
      /\ UNCHANGED sched_pri
  BY DEF RemLooks, Locked
<1>2. /\ at \in LockedPoints /\ job[c].at \in LockedPoints
      /\ at \in {"setrun", "removed", "off", "unlock"} => ~queued[job[c].thread]
  BY <1>1 DEF LockedPoints
<1>3. /\ sched_pri' \in [Threads -> 0 .. MaxPri]
      /\ \A u \in Threads \ {job[c].thread} : sched_pri'[u] = sched_pri[u]
  BY <1>1 DEF IInv, RestType
<1> HIDE DEF at
<1> QED
  BY <1>1, <1>2, <1>3, HolderKeeps

LEMMA SetPriKeeps ==
  ASSUME IInv, NEW c \in Cpus, SetPri(c)
  PROVE  IInv'
<1> DEFINE at == IF job[c].at = "removed" THEN "setrun" ELSE "unlock"
           t == job[c].thread
<1>1. /\ job[c].at \in {"removed", "off"} /\ Goto(c, at)
      /\ job[c].pri # NoPri
      /\ sched_pri' = [sched_pri EXCEPT ![t] = job[c].pri]
      /\ UNCHANGED <<runq, low, count, queued, rq_lock, th_lock, stuck, lost>>
  BY DEF SetPri, Locked
<1>2. /\ at \in LockedPoints /\ job[c].at \in LockedPoints
      /\ ~queued[t]
  BY <1>1 DEF LockedPoints, IInv, OffQueue
<1>3. job[c].pri \in 0 .. MaxPri
  BY <1>1 DEF IInv, RestType
<1>4. /\ sched_pri' \in [Threads -> 0 .. MaxPri]
      /\ \A u \in Threads \ {t} : sched_pri'[u] = sched_pri[u]
  BY <1>1, <1>3 DEF IInv, RestType
<1> HIDE DEF at
<1> QED
  BY <1>1, <1>2, <1>4, HolderKeeps

\* rem_runq takes its thread out, unless it has left since it was looked at.
LEMMA RemLockedKeeps ==
  ASSUME IInv, NEW c \in Cpus, RemLocked(c)
  PROVE  IInv'
<1> DEFINE t == job[c].thread
<1>1. /\ job[c].at = "rem_locked"
      /\ UNCHANGED <<low, sched_pri, rq_lock, th_lock, stuck, lost>>
      /\ \/ queued[t] /\ Dequeue(t) /\ Goto(c, "removed")
         \/ ~queued[t] /\ Goto(c, "off") /\ UNCHANGED <<runq, count, queued>>
  BY DEF RemLocked, Locked
<1>2. /\ t \in Threads /\ th_lock[t] = c
      /\ \A u \in Threads \ {t} : th_lock[u] # c
      /\ \A d \in Cpus \ {c} : job[d].at \in LockedPoints => job[d].thread # t
  BY <1>1, Holds DEF LockedPoints
<1>3. CASE ~queued[t] /\ Goto(c, "off") /\ UNCHANGED <<runq, count, queued>>
  <2>1. "off" \in LockedPoints /\ job[c].at \in LockedPoints
    BY <1>1 DEF LockedPoints
  <2>2. /\ sched_pri' \in [Threads -> 0 .. MaxPri]
        /\ \A u \in Threads \ {t} : sched_pri'[u] = sched_pri[u]
    BY <1>1 DEF IInv, RestType
  <2> QED
    BY <1>1, <1>3, <2>1, <2>2, HolderKeeps
<1>4. CASE queued[t] /\ Dequeue(t) /\ Goto(c, "removed")
  <2>1. /\ job' \in [Cpus -> [at: LockedPoints \cup {"none", "scan", "scan_lock"},
                              thread: Threads \cup {Free},
                              pri: {NoPri} \cup 0 .. MaxPri]]
        /\ Locking'
        /\ job'[c].at = "removed"
        /\ \A d \in Cpus : job'[d].thread = job[d].thread
        /\ \A d \in Cpus \ {c} : job'[d] = job[d]
    BY <1>1, <1>4, GotoKeeps DEF LockedPoints
  <2>2. QueueOK'
    BY <1>1, <1>2, <1>4, DequeueKeeps DEF IInv
  <2>3. /\ ~queued'[t]
        /\ \A u \in Threads \ {t} : queued'[u] = queued[u]
        /\ \A u \in Threads \ {t}, i \in Prios : u \in runq[i] => u \in runq'[i]
    BY <1>2, <1>4 DEF Dequeue, IInv, QueueOK, QueueType
  <2>4. RestType'
    BY <1>1, <2>1 DEF IInv, RestType
  <2>5. OffQueue'
    BY <1>2, <2>1, <2>3 DEF IInv, OffQueue, Locking, LockedPoints
  <2>6. Settled'
    <3> SUFFICES ASSUME NEW u \in Threads, queued'[u],
                        th_lock[u] = Free \/ job'[th_lock[u]].at = "unlock"
                 PROVE  u \in runq'[Whichq(sched_pri[u])]
      BY <1>1 DEF Settled
    <3>1. u # t /\ th_lock[u] # c
      BY <1>2, <2>3
    <3>2. u \in runq[Whichq(sched_pri[u])]
      BY <3>1, <2>1, <2>3 DEF IInv, RestType, Settled
    <3>3. Whichq(sched_pri[u]) \in Prios
      BY WhichqType, MaxPriNat DEF IInv, RestType
    <3> QED
      BY <3>1, <3>2, <3>3, <2>3
  <2> QED
    BY <2>1, <2>2, <2>4, <2>5, <2>6 DEF IInv
<1> QED
  BY <1>1, <1>3, <1>4

LEMMA UnlockKeeps ==
  ASSUME IInv, NEW c \in Cpus, Unlock(c)
  PROVE  IInv'
<1> DEFINE t == job[c].thread
<1>1. /\ job[c].at \in {"unlock", "removed", "off"}
      /\ th_lock' = [th_lock EXCEPT ![t] = Free]
      /\ job' = [job EXCEPT ![c] = NoJob]
      /\ UNCHANGED <<runq, low, count, queued, sched_pri, rq_lock, stuck, lost>>
  BY DEF Unlock, Locked
<1>2. /\ t \in Threads /\ th_lock[t] = c
      /\ \A u \in Threads \ {t} : th_lock[u] # c
      /\ \A d \in Cpus \ {c} : job[d].at \in LockedPoints => job[d].thread # t
  BY <1>1, Holds DEF LockedPoints
<1> HIDE DEF t
<1>3. QueueOK'
  BY <1>1, QueueStays DEF IInv
<1>4. RestType'
  BY <1>1 DEF IInv, RestType, NoJob
<1>5. Locking'
  <2>1. ASSUME NEW d \in Cpus, NEW u \in Threads
        PROVE  Locks(d, u)' <=> th_lock'[u] = d
    BY <1>1, <1>2, FreeIsNobody
    DEF IInv, RestType, Locking, Locks, LockedPoints, NoJob
  <2>2. ASSUME NEW d \in Cpus,
               job'[d].at \in LockedPoints \cup {"scan_lock"}
        PROVE  job'[d].thread \in Threads
    BY <2>2, <1>1 DEF IInv, RestType, Locking, LockedPoints, NoJob
  <2> QED
    BY <2>1, <2>2 DEF Locking
<1>6. OffQueue'
  BY <1>1 DEF IInv, RestType, OffQueue, NoJob
<1>7. Settled'
  <2> SUFFICES ASSUME NEW u \in Threads, queued[u],
                      th_lock'[u] = Free \/ job'[th_lock'[u]].at = "unlock"
               PROVE  u \in runq[Whichq(sched_pri[u])]
    BY <1>1 DEF Settled
  <2>1. CASE u = t
    BY <2>1, <1>1, <1>2 DEF IInv, OffQueue, Settled, t
  <2>2. CASE u # t
    <3>1. th_lock'[u] = th_lock[u] /\ th_lock[u] # c
      BY <2>2, <1>1, <1>2 DEF IInv, RestType
    <3> QED
      BY <3>1, <1>1 DEF IInv, RestType, Settled
  <2> QED
    BY <2>1, <2>2
<1> QED
  BY <1>3, <1>4, <1>5, <1>6, <1>7 DEF IInv

-----------------------------------------------------------------------------
(* The routines that start from the queue, and the scan.                   *)

\* A thread leaves the queue without its lock: those who hold locks are not
\* concerned, for it only makes fewer threads queued.
LEMMA ChooseKeeps ==
  ASSUME IInv, NEW c \in Cpus, choose_pset_thread(c)
  PROVE  IInv'
<1>1. count > 0 /\ UNCHANGED <<sched_pri, rq_lock, th_lock, job, stuck>>
  BY DEF choose_pset_thread
<1>9. PICK i \in Prios : \E t \in runq[i] :
        Found(i) /\ Dequeue(t) /\ low' = i /\ UNCHANGED lost
  BY <1>1, FoundExists DEF choose_pset_thread, IInv
<1>2. PICK t \in runq[i] :
        Found(i) /\ Dequeue(t) /\ low' = i /\ UNCHANGED lost
  BY <1>9
<1>3. t \in Threads /\ queued[t]
  BY DEF IInv, QueueOK, QueueType, Placed
<1>4. QueueOK'
  BY <1>2, <1>3, DequeueKeeps DEF IInv
<1>5. /\ ~queued'[t]
      /\ \A u \in Threads \ {t} : queued'[u] = queued[u]
      /\ \A u \in Threads \ {t}, j \in Prios : u \in runq[j] => u \in runq'[j]
  BY <1>2, <1>3 DEF Dequeue, IInv, QueueOK, QueueType
<1>6. RestType' /\ Locking'
  BY <1>1, <1>2 DEF IInv, RestType, Locking, Locks
<1>7. OffQueue'
  BY <1>1, <1>5 DEF IInv, OffQueue, Locking, LockedPoints
<1>8. Settled'
  <2> SUFFICES ASSUME NEW u \in Threads, queued'[u],
                      th_lock[u] = Free \/ job[th_lock[u]].at = "unlock"
               PROVE  u \in runq'[Whichq(sched_pri[u])]
    BY <1>1 DEF Settled
  <2>1. u # t /\ queued[u] /\ u \in runq[Whichq(sched_pri[u])]
    BY <1>5 DEF IInv, Settled
  <2>2. Whichq(sched_pri[u]) \in Prios
    BY WhichqType, MaxPriNat DEF IInv, RestType
  <2> QED
    BY <2>1, <2>2, <1>5
<1> QED
  BY <1>4, <1>6, <1>7, <1>8 DEF IInv

\* The hint moves to the first thread.
LEMMA AstKeeps ==
  ASSUME IInv, NEW c \in Cpus, ast_check(c)
  PROVE  IInv'
<1>1. /\ count > 0
      /\ UNCHANGED <<runq, count, queued>>
      /\ UNCHANGED <<sched_pri, rq_lock, th_lock, job, stuck, lost>>
  BY DEF ast_check
<1>2. PICK i \in Prios : Found(i) /\ low' = i
  BY <1>1, FoundExists DEF ast_check, IInv
<1>3. Prios \subseteq 0 .. NRQS /\ low \in Nat
  BY NRQSPositive DEF Prios, IInv, QueueOK, QueueType
<1>4. QueueType' /\ Placed' /\ Counted'
  BY <1>1, <1>2, <1>3
  DEF IInv, QueueOK, QueueType, Placed, Counted, QueuedThreads
<1>5. Hinted'
  <2> SUFFICES ASSUME NEW j \in Prios, j < i
               PROVE  runq[j] = {}
    BY <1>1, <1>2 DEF Hinted
  <2> QED
    BY <1>1, <1>2, <1>3 DEF IInv, QueueOK, Hinted, Found
<1>6. RestType' /\ Locking' /\ OffQueue' /\ Settled'
  BY <1>1 DEF IInv, RestType, Locking, Locks, OffQueue, Settled
<1> QED
  BY <1>4, <1>5, <1>6 DEF IInv, QueueOK

\* The scan's own steps change its place, and who is stuck.
LEMMA ScanKeeps ==
  ASSUME IInv, NEW c \in Cpus,
         \/ ScanStarts(c)
         \/ \E t \in Threads : ScanFinds(c, t)
         \/ ScanTakes(c)
         \/ ScanEnds(c)
  PROVE  IInv'
<1>1. /\ UNCHANGED <<runq, low, count, queued, sched_pri, th_lock, lost>>
      /\ job[c].at \in {"none", "scan", "scan_lock"}
      /\ rq_lock' \in {rq_lock, c, Free}
  BY DEF ScanStarts, ScanFinds, ScanTakes, ScanEnds, Locked
<1>2. /\ job' \in [Cpus -> [at: LockedPoints \cup {"none", "scan", "scan_lock"},
                            thread: Threads \cup {Free},
                            pri: {NoPri} \cup 0 .. MaxPri]]
      /\ \A d \in Cpus \ {c} : job'[d] = job[d]
      /\ job'[c].at \in {"none", "scan", "scan_lock"}
      /\ job'[c].at = "scan_lock" => job'[c].thread \in Threads
  <2>1. CASE ScanStarts(c)
    BY <2>1 DEF ScanStarts, Goto, IInv, RestType
  <2>2. CASE \E t \in Threads : ScanFinds(c, t)
    <3>1. PICK t \in Threads :
            job' = [job EXCEPT ![c].at = "scan_lock", ![c].thread = t]
      BY <2>2 DEF ScanFinds
    <3>2. job' = [job EXCEPT ![c] = [@ EXCEPT !.at = "scan_lock", !.thread = t]]
      BY <3>1 DEF IInv, RestType
    <3> QED
      BY <3>2 DEF IInv, RestType
  <2>3. CASE ScanTakes(c)
    BY <2>3 DEF ScanTakes, IInv, RestType
  <2>4. CASE ScanEnds(c)
    BY <2>4 DEF ScanEnds, NoJob, IInv, RestType
  <2> QED
    BY <2>1, <2>2, <2>3, <2>4
<1>3. stuck' \subseteq Threads
  <2>1. job[c].at = "scan_lock" => job[c].thread \in Threads
    BY DEF IInv, Locking
  <2> QED
    BY <2>1
    DEF ScanStarts, ScanFinds, ScanTakes, ScanEnds, Locked, IInv, RestType
<1>4. QueueOK'
  BY <1>1, QueueStays DEF IInv
<1>5. RestType'
  BY <1>1, <1>2, <1>3 DEF IInv, RestType
<1>6. Locking'
  BY <1>1, <1>2, FreeIsNobody DEF IInv, RestType, Locking, Locks, LockedPoints
<1>7. OffQueue'
  BY <1>1, <1>2 DEF IInv, RestType, OffQueue
<1>8. Settled'
  BY <1>1, <1>2 DEF IInv, RestType, Settled
<1> QED
  BY <1>4, <1>5, <1>6, <1>7, <1>8 DEF IInv

-----------------------------------------------------------------------------
(* The specification keeps the invariant.                                  *)

LEMMA InitHolds == Init => IInv
<1> SUFFICES ASSUME Init
             PROVE  IInv
  OBVIOUS
<1>1. Counted
  <2>1. QueuedThreads = {}
    BY DEF Init, QueuedThreads
  <2> QED
    BY <2>1, FS_EmptySet DEF Init, Counted
<1>2. QueueType /\ Placed /\ Hinted
  BY NRQSPositive DEF Init, QueueType, Placed, Hinted
<1>3. RestType
  BY DEF Init, RestType, NoJob
<1>4. Locking /\ OffQueue /\ Settled
  BY FreeIsNobody
  DEF Init, Locking, Locks, LockedPoints, OffQueue, Settled, NoJob
<1> QED
  BY <1>1, <1>2, <1>3, <1>4 DEF IInv, QueueOK

\* The steps that lock a thread: each begins a routine that may do so.
LEMMA StartKeeps ==
  ASSUME IInv, NEW c \in Cpus, NEW t \in Threads,
         NEW pri \in {NoPri} \cup 0 .. MaxPri,
         \/ StartSetrun(c, t)
         \/ StartRemove(c, t, pri)
         \/ NoLongerStuck(c, t)
         \/ FixStuck(c, t, pri) /\ pri \in 0 .. MaxPri
  PROVE  IInv'
<1>1. sched_pri \in [Threads -> 0 .. MaxPri] /\ stuck \subseteq Threads
  BY DEF IInv, RestType
<1>2. CASE StartSetrun(c, t)
  BY <1>1, <1>2, LockKeeps DEF StartSetrun
<1>3. CASE StartRemove(c, t, pri)
  BY <1>1, <1>3, LockKeeps DEF StartRemove
<1>4. CASE NoLongerStuck(c, t)
  BY <1>1, <1>4, LockKeeps DEF NoLongerStuck
<1>5. CASE FixStuck(c, t, pri) /\ pri \in 0 .. MaxPri
  <2>1. /\ sched_pri' \in [Threads -> 0 .. MaxPri]
        /\ \A u \in Threads \ {t} : sched_pri'[u] = sched_pri[u]
        /\ stuck' \subseteq Threads
    BY <1>1, <1>5 DEF FixStuck
  <2> QED
    BY <1>5, <2>1, LockKeeps DEF FixStuck
<1> QED
  BY <1>2, <1>3, <1>4, <1>5

LEMMA NextKeeps == IInv /\ [Next]_vars => IInv'
<1> SUFFICES ASSUME IInv, [Next]_vars
             PROVE  IInv'
  OBVIOUS
<1>1. ASSUME NEW c \in Cpus, Step(c)
      PROVE  IInv'
  BY <1>1, SetrunKeeps, RemLooksKeeps, RemLockedKeeps, SetPriKeeps, UnlockKeeps
  DEF Step
<1>2. ASSUME NEW c \in Cpus,
             \/ \E t \in Threads : StartSetrun(c, t)
             \/ \E t \in Threads, pri \in {NoPri} \cup 0 .. MaxPri :
                  StartRemove(c, t, pri)
      PROVE  IInv'
  BY <1>2, StartKeeps
<1>3. ASSUME NEW c \in Cpus, Scan(c)
      PROVE  IInv'
  <2>1. CASE \/ ScanStarts(c)
             \/ \E t \in Threads : ScanFinds(c, t)
             \/ ScanTakes(c)
             \/ ScanEnds(c)
    BY <2>1, ScanKeeps
  <2>2. CASE \/ \E t \in Threads : NoLongerStuck(c, t)
             \/ \E t \in Threads, pri \in 0 .. MaxPri : FixStuck(c, t, pri)
    BY <2>2, StartKeeps
  <2> QED
    BY <1>3, <2>1, <2>2 DEF Scan
<1>4. CASE UNCHANGED vars
  BY <1>4 DEF vars, IInv, QueueOK, QueueType, Placed, Counted, Hinted,
              QueuedThreads, RestType, Locking, Locks, OffQueue, Settled
<1> QED
  BY <1>1, <1>2, <1>3, <1>4, ChooseKeeps, AstKeeps, ScannersAreCpus DEF Next

\* Whatever is removed, moved, woken and scanned, on whatever processors, the
\* run queue's fields, the threads' and the locks agree.
THEOREM Invariance == Spec => []IInv
<1> QED
  BY InitHolds, NextKeeps, PTL DEF Spec

\* The fields of struct run_queue and of the threads keep their types, the
\* hint stays between 0 and the number of queues, and the count is never
\* negative.
THEOREM TypeCorrect == Spec => []TypeOK
<1>1. IInv => TypeOK
  BY CountZero
  DEF IInv, QueueOK, QueueType, RestType, TypeOK, LockedPoints
<1> QED
  BY <1>1, Invariance, PTL

\* run_queue_enqueue and the places that take threads out keep the count and
\* the threads' runq fields exact, though rem_runq works from the thread and
\* choose_pset_thread from the queue.
THEOREM CountIsExact == Spec => []QueueExact
<1>1. ASSUME IInv, NEW t \in Threads
      PROVE  Cardinality({i \in Prios : t \in runq[i]}) = IF queued[t] THEN 1 ELSE 0
  <2>1. CASE queued[t]
    <3>1. PICK i \in Prios : t \in runq[i]
      BY <1>1, <2>1 DEF IInv, QueueOK, Placed
    <3>2. {j \in Prios : t \in runq[j]} = {i}
      BY <1>1, <3>1 DEF IInv, QueueOK, Placed
    <3>3. Cardinality({i}) = 1
      BY FS_Singleton
    <3> QED
      BY <2>1, <3>2, <3>3
  <2>2. CASE ~queued[t]
    <3>1. {j \in Prios : t \in runq[j]} = {}
      BY <1>1, <2>2 DEF IInv, QueueOK, Placed
    <3> QED
      BY <2>2, <3>1, FS_EmptySet
  <2> QED
    BY <2>1, <2>2
<1>2. IInv => QueueExact
  BY <1>1 DEF QueueExact, IInv, QueueOK, Counted, QueuedThreads
<1> QED
  BY <1>2, Invariance, PTL

\* No thread is queued below the hint that run_queue_enqueue, choose_pset_thread
\* and ast_check leave, and choose_pset_thread never reaches its panic.
THEOREM HintIsSound == Spec => []HintSound
<1>1. IInv => HintSound
  BY DEF IInv, QueueOK, Hinted, RestType, HintSound
<1> QED
  BY <1>1, Invariance, PTL

\* A thread that set_pri or the scan's second pass moves ends up in the queue
\* of its new priority, whoever else handled it meanwhile.
THEOREM StaysAtPriority == Spec => []AtItsPriority
<1>1. IInv => AtItsPriority
  BY DEF IInv, Settled, AtItsPriority
<1> QED
  BY <1>1, Invariance, PTL

\* thread_setrun's assertion that the thread is off the queue.
THEOREM SetrunAsserted == Spec => []SetrunAsserts
<1>1. IInv => SetrunAsserts
  BY DEF IInv, OffQueue, SetrunAsserts
<1> QED
  BY <1>1, Invariance, PTL

=============================================================================
