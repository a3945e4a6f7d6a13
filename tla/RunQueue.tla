------------------------------ MODULE RunQueue ------------------------------
(***************************************************************************)
(* struct run_queue (kern/sched.h) and the routines of kern/sched_prim.c   *)
(* that keep it: run_queue_enqueue, rem_runq, choose_pset_thread, set_pri, *)
(* the hint's repair in ast_check (kern/ast.c) and the scan for stuck      *)
(* threads.                                                                *)
(*                                                                         *)
(* The queue has one lock, every thread has one, and the thread's runq     *)
(* field changes hands between them: "If its value is RUN_QUEUE_NULL, then *)
(* it is locked by the thread_lock, but if its value is something else ... *)
(* then it is locked by that run_queue's lock" (thread.h:155-159).  So     *)
(* choose_pset_thread takes threads out with the queue's lock alone, and   *)
(* rem_runq, which starts from the thread, must look twice.                *)
(*                                                                         *)
(* A section under the queue's lock is one step, but for the scan, which   *)
(* waits for threads' locks inside it; thread locks are held across steps. *)
(* The order of the threads of one priority is not modelled.               *)
(***************************************************************************)
EXTENDS Integers, FiniteSets

CONSTANTS
    Threads,        \* the threads that run on this queue
    Cpus,           \* the processors that execute the routines
    Scanners,       \* those among them that scan for stuck threads
    Free,           \* nobody: an open lock
    NRQS,           \* number of priorities
    MaxPri          \* bound on the priorities that threads are given

ASSUME NRQSPositive == NRQS \in Nat \ {0}
ASSUME MaxPriNat == MaxPri \in Nat
ASSUME FiniteThreads == IsFiniteSet(Threads)
ASSUME FreeIsNobody == Free \notin Cpus /\ Free \notin Threads
ASSUME ScannersAreCpus == Scanners \subseteq Cpus

Prios == 0 .. NRQS - 1

VARIABLES
    runq,       \* the threads queued at each priority
    low,        \* no thread is queued below this priority (a hint)
    count,      \* how many are queued
    queued,     \* thread->runq # RUN_QUEUE_NULL
    sched_pri,  \* the threads' priorities
    rq_lock,    \* who holds the queue's lock across steps
    th_lock,    \* who holds each thread's lock
    job,        \* the routine each processor is in: its point, its thread, and
                \* the priority to give it (or NoPri)
    stuck,      \* stuck_threads
    lost        \* choose_pset_thread found nothing where count promised a thread

vars == <<runq, low, count, queued, sched_pri, rq_lock, th_lock, job, stuck, lost>>

NoPri == -1
NoJob == [at |-> "none", thread |-> Free, pri |-> NoPri]

\* A thread begins off the queue: it is running, or stopped.
Init ==
    /\ runq = [i \in Prios |-> {}]
    /\ low = 0
    /\ count = 0
    /\ queued = [t \in Threads |-> FALSE]
    /\ sched_pri \in [Threads -> 0 .. MaxPri]
    /\ rq_lock = Free
    /\ th_lock = [t \in Threads |-> Free]
    /\ job = [c \in Cpus |-> NoJob]
    /\ stuck = {}
    /\ lost = FALSE

-----------------------------------------------------------------------------
(* The sections under the queue's lock.                                    *)

\* A priority beyond the last queue is put in the last one.
Whichq(pri) == IF pri >= NRQS THEN NRQS - 1 ELSE pri

\* (mutant) An empty queue keeps its old hint.
BadLowAfter(whichq) == IF whichq < low /\ count # 0 THEN whichq ELSE low
LowAfter(whichq) == IF whichq < low \/ count = 0 THEN whichq ELSE low

Enqueue(t, pri) ==
    LET whichq == Whichq(pri)
    IN  /\ runq' = [runq EXCEPT ![whichq] = @ \cup {t}]
        /\ low' = LowAfter(whichq)
        /\ count' = count + 1
        /\ queued' = [queued EXCEPT ![t] = TRUE]

\* remqueue finds the thread by its links, wherever it is queued.
Dequeue(t) ==
    /\ runq' = [i \in Prios |-> runq[i] \ {t}]
    /\ count' = count - 1
    /\ queued' = [queued EXCEPT ![t] = FALSE]

\* The first non-empty queue from the hint on.
Found(i) ==
    /\ i \in Prios /\ i >= low
    /\ runq[i] # {}
    /\ \A j \in Prios : low <= j /\ j < i => runq[j] = {}

-----------------------------------------------------------------------------
(* Routines called with the thread locked.                                 *)

Locked(c, at) == job[c].at = at

LockThread(c, t, at, pri) ==
    /\ Locked(c, "none")
    /\ th_lock[t] = Free
    /\ th_lock' = [th_lock EXCEPT ![t] = c]
    /\ job' = [job EXCEPT ![c] = [at |-> at, thread |-> t, pri |-> pri]]

\* thread_setrun, of a thread that was woken or switched out.
StartSetrun(c, t) ==
    /\ ~queued[t]
    /\ LockThread(c, t, "setrun", NoPri)
    /\ UNCHANGED <<runq, low, count, queued, sched_pri, rq_lock, stuck, lost>>

\* rem_runq, of a thread that is to stop; set_pri, of any thread.
StartRemove(c, t, pri) ==
    /\ LockThread(c, t, "rem_runq", pri)
    /\ UNCHANGED <<runq, low, count, queued, sched_pri, rq_lock, stuck, lost>>

Goto(c, at) == job' = [job EXCEPT ![c].at = at]

\* thread_setrun brings the priority up to date, then gives the thread to an
\* idle processor or queues it.
thread_setrun(c, pri) ==
    LET t == job[c].thread
    IN  /\ Locked(c, "setrun")
        /\ sched_pri' = [sched_pri EXCEPT ![t] = pri]
        /\ \/ UNCHANGED <<runq, low, count, queued>>
           \/ rq_lock = Free /\ Enqueue(t, pri)
        /\ Goto(c, "unlock")
        /\ UNCHANGED <<rq_lock, th_lock, stuck, lost>>

\* rem_runq first reads the field without the queue's lock.
RemLooks(c) ==
    /\ Locked(c, "rem_runq")
    /\ Goto(c, IF queued[job[c].thread] THEN "rem_locked" ELSE "off")
    /\ UNCHANGED <<runq, low, count, queued, sched_pri, rq_lock, th_lock, stuck, lost>>

\* (mutant) It does not look again.
BadRemLocked(c) ==
    /\ Locked(c, "rem_locked")
    /\ rq_lock = Free
    /\ Dequeue(job[c].thread)
    /\ Goto(c, "removed")
    /\ UNCHANGED <<low, sched_pri, rq_lock, th_lock, stuck, lost>>

\* With the queue's lock it looks again: the thread may have left.
RemLocked(c) ==
    LET t == job[c].thread
    IN  /\ Locked(c, "rem_locked")
        /\ rq_lock = Free
        /\ \/ queued[t] /\ Dequeue(t) /\ Goto(c, "removed")
           \/ ~queued[t] /\ Goto(c, "off") /\ UNCHANGED <<runq, count, queued>>
        /\ UNCHANGED <<low, sched_pri, rq_lock, th_lock, stuck, lost>>

\* (mutant) set_pri leaves a queued thread where it is.
BadSetPri(c) ==
    /\ Locked(c, "rem_runq") /\ job[c].pri # NoPri
    /\ sched_pri' = [sched_pri EXCEPT ![job[c].thread] = job[c].pri]
    /\ Goto(c, "unlock")
    /\ UNCHANGED <<runq, low, count, queued, rq_lock, th_lock, stuck, lost>>

\* (mutant) set_pri queues a thread again that it did not remove.
RequeuesAtOnce(c) ==
    /\ Locked(c, "rem_runq") /\ job[c].pri # NoPri
    /\ sched_pri' = [sched_pri EXCEPT ![job[c].thread] = job[c].pri]
    /\ Goto(c, IF queued[job[c].thread] THEN "setrun" ELSE "unlock")
    /\ UNCHANGED <<runq, low, count, queued, rq_lock, th_lock, stuck, lost>>

\* set_pri, after rem_runq: queue the thread again if it was queued.
SetPri(c) ==
    /\ Locked(c, "removed") \/ Locked(c, "off")
    /\ job[c].pri # NoPri
    /\ sched_pri' = [sched_pri EXCEPT ![job[c].thread] = job[c].pri]
    /\ Goto(c, IF Locked(c, "removed") THEN "setrun" ELSE "unlock")
    /\ UNCHANGED <<runq, low, count, queued, rq_lock, th_lock, stuck, lost>>

Unlock(c) ==
    /\ \/ Locked(c, "unlock")
       \/ job[c].pri = NoPri /\ (Locked(c, "removed") \/ Locked(c, "off"))
    /\ th_lock' = [th_lock EXCEPT ![job[c].thread] = Free]
    /\ job' = [job EXCEPT ![c] = NoJob]
    /\ UNCHANGED <<runq, low, count, queued, sched_pri, rq_lock, stuck, lost>>

-----------------------------------------------------------------------------
(* Routines that start from the queue.                                     *)

\* thread_block's quick path and choose_pset_thread.  The quick path takes a
\* thread at the hint; with none there it steps the hint and calls the other,
\* which looks on from there.  Neither locks the thread.
choose_pset_thread(c) ==
    /\ Locked(c, "none")
    /\ rq_lock = Free
    /\ count > 0
    /\ \/ \E i \in Prios : \E t \in runq[i] :
            Found(i) /\ Dequeue(t) /\ low' = i /\ UNCHANGED lost
       \/ /\ ~\E i \in Prios : Found(i)
          /\ lost' = TRUE
          /\ UNCHANGED <<runq, low, count, queued>>
    /\ UNCHANGED <<sched_pri, rq_lock, th_lock, job, stuck>>

\* ast_check moves the hint up to the first thread, or past the end.
ast_check(c) ==
    /\ Locked(c, "none")
    /\ rq_lock = Free
    /\ count > 0
    /\ low < NRQS => runq[low] = {}
    /\ \/ \E i \in Prios : Found(i) /\ low' = i
       \/ (~\E i \in Prios : Found(i)) /\ low' = NRQS
    /\ UNCHANGED <<runq, count, queued, sched_pri, rq_lock, th_lock, job, stuck, lost>>

-----------------------------------------------------------------------------
(* The scan for stuck threads: which threads are stuck is a matter of time *)
(* and not modelled.                                                       *)

ScanStarts(c) ==
    /\ Locked(c, "none")
    /\ stuck = {}
    /\ rq_lock = Free
    /\ rq_lock' = c
    /\ Goto(c, "scan")
    /\ UNCHANGED <<runq, low, count, queued, sched_pri, th_lock, stuck, lost>>

\* A stuck thread is found; to take a reference it must be locked.
ScanFinds(c, t) ==
    /\ Locked(c, "scan")
    /\ queued[t] /\ t \notin stuck
    /\ job' = [job EXCEPT ![c].at = "scan_lock", ![c].thread = t]
    /\ UNCHANGED <<runq, low, count, queued, sched_pri, rq_lock, th_lock, stuck, lost>>

ScanTakes(c) ==
    /\ Locked(c, "scan_lock")
    /\ th_lock[job[c].thread] = Free
    /\ stuck' = stuck \cup {job[c].thread}
    /\ job' = [job EXCEPT ![c].at = "scan", ![c].thread = Free]
    /\ UNCHANGED <<runq, low, count, queued, sched_pri, rq_lock, th_lock, lost>>

ScanEnds(c) ==
    /\ Locked(c, "scan")
    /\ rq_lock' = Free
    /\ job' = [job EXCEPT ![c] = NoJob]
    /\ UNCHANGED <<runq, low, count, queued, sched_pri, th_lock, stuck, lost>>

\* Pass two: with the thread locked, update_priority and set_pri, unless it
\* is no longer stuck.
NoLongerStuck(c, t) ==
    /\ t \in stuck
    /\ stuck' = stuck \ {t}
    /\ LockThread(c, t, "unlock", NoPri)
    /\ UNCHANGED <<runq, low, count, queued, sched_pri, rq_lock, lost>>

FixStuck(c, t, pri) ==
    /\ t \in stuck
    /\ stuck' = stuck \ {t}
    /\ LockThread(c, t, "rem_runq", pri)
    /\ sched_pri' = [sched_pri EXCEPT ![t] = pri]
    /\ UNCHANGED <<runq, low, count, queued, rq_lock, lost>>

-----------------------------------------------------------------------------

Step(c) ==
    \/ \E pri \in 0 .. MaxPri : thread_setrun(c, pri)
    \/ RemLooks(c)
    \/ RemLocked(c)
    \/ SetPri(c)
    \/ Unlock(c)

Scan(c) ==
    \/ ScanStarts(c)
    \/ \E t \in Threads : ScanFinds(c, t)
    \/ ScanTakes(c)
    \/ ScanEnds(c)
    \/ \E t \in Threads : NoLongerStuck(c, t)
    \/ \E t \in Threads, pri \in 0 .. MaxPri : FixStuck(c, t, pri)

Next ==
    \/ \E c \in Cpus :
        \/ Step(c)
        \/ choose_pset_thread(c)
        \/ ast_check(c)
        \/ \E t \in Threads : StartSetrun(c, t)
        \/ \E t \in Threads, pri \in {NoPri} \cup 0 .. MaxPri : StartRemove(c, t, pri)
    \/ \E c \in Scanners : Scan(c)

Spec == Init /\ [][Next]_vars

-----------------------------------------------------------------------------
(* Properties.                                                             *)

TypeOK ==
    /\ runq \in [Prios -> SUBSET Threads]
    /\ low \in 0 .. NRQS
    /\ count \in Nat
    /\ queued \in [Threads -> BOOLEAN]
    /\ sched_pri \in [Threads -> 0 .. MaxPri]
    /\ rq_lock \in Cpus \cup {Free}
    /\ th_lock \in [Threads -> Cpus \cup {Free}]
    /\ job \in [Cpus -> [at: {"none", "setrun", "rem_runq", "rem_locked", "removed",
                              "off", "unlock", "scan", "scan_lock"},
                         thread: Threads \cup {Free}, pri: {NoPri} \cup 0 .. MaxPri]]
    /\ stuck \subseteq Threads
    /\ lost \in BOOLEAN

\* "thread->runq" says whether the thread is on the queue, and it is there
\* once; the count is exact.  do_runq_scan runs off the end of the queues, and
\* choose_pset_thread panics, if the count is too high.
QueueExact ==
    /\ \A t \in Threads :
        Cardinality({i \in Prios : t \in runq[i]}) = IF queued[t] THEN 1 ELSE 0
    /\ count = Cardinality({t \in Threads : queued[t]})

\* No thread is queued below the hint, however threads were removed, moved and
\* added since it was computed, so that the first thread found from the hint
\* on is the best one; choose_pset_thread never finds the queue empty.
HintSound ==
    /\ count > 0 => \A i \in Prios : i < low => runq[i] = {}
    /\ ~lost

\* A queued thread is at its priority, except while set_pri has it locked.
AtItsPriority ==
    \A t \in Threads :
        queued[t] /\ th_lock[t] = Free => t \in runq[Whichq(sched_pri[t])]

\* thread_setrun's assertion: "assert(th->runq == RUN_QUEUE_NULL)"
\* (sched_prim.c:1352), though other processors take threads out meanwhile.
SetrunAsserts ==
    \A c \in Cpus : job[c].at = "setrun" => ~queued[job[c].thread]

\* The two passes of the scan are there because the queue's lock "cannot be
\* held during updates [set_pri will deadlock]" (sched_prim.c:1932-1933): the
\* scan and a routine that has a thread locked never wait for each other.
ScanCannotDeadlock ==
    \A c, s \in Cpus :
        ~ /\ job[c].at \in {"setrun", "rem_locked"}
          /\ rq_lock = s
          /\ job[s].at = "scan_lock"
          /\ th_lock[job[s].thread] = c

=============================================================================
