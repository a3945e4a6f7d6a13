---------------------------- MODULE ThreadState ----------------------------
(***************************************************************************)
(* The data the Mach scheduler keeps (struct thread of kern/thread.h,      *)
(* struct processor of kern/processor.h, the run, wait, idle and swapin    *)
(* queues) and the routines of kern/sched_prim.c and kern/thread_swap.c    *)
(* that other routines call with the thread already locked.                *)
(*                                                                         *)
(* The routines are functions from kernel states to kernel states, so that *)
(* they compose as calls do: thread_release calls thread_swapin, which     *)
(* calls thread_wakeup, which calls thread_setrun.  An action of the       *)
(* modules that extend this one is one section of code between taking and  *)
(* dropping the locks: it is atomic for everybody who respects the locks.  *)
(***************************************************************************)
EXTENDS Integers, Sequences, FiniteSets, SequencesExt

CONSTANTS
    Threads,        \* the threads that exist
    Processors,     \* the processors, all in one processor set
    Events,         \* what threads wait for, besides the kernel's own events
    NoThread,       \* THREAD_NULL
    IdleThread,     \* any processor's idle thread (state TH_RUN | TH_IDLE)
    NoEvent         \* event 0: not in the wait queues, ended by clear_wait

ASSUME NotThreads == /\ NoThread \notin Threads /\ IdleThread \notin Threads
                     /\ NoThread # IdleThread

VARIABLES
    thread,         \* struct thread, by thread
    cpu,            \* struct processor, by processor
    runq,           \* the processor set's run queue, without its priorities
    idle_queue,     \* the processor set's queue of idle processors
    wait_queue,     \* threads queued for an event, in the order they came
    swapin_queue,   \* threads the swapin thread is to bring in
    timer,          \* thread_timeout's progress for each thread
    call,           \* the kernel routine each thread is in, and its locals
    swapper,        \* the thread being swapped out and the one being swapped in
    panicked        \* the routine that called panic(), or "no"

vars == <<thread, cpu, runq, idle_queue, wait_queue, swapin_queue, timer,
          call, swapper, panicked>>

-----------------------------------------------------------------------------
(* Types.  A thread's state is the set of its TH_ bits.                    *)

StateBits == {"WAIT", "SUSP", "RUN", "SWAPPED"}
SwapStates == {"UNSWAPPABLE", "IN", "GOING_OUT", "WANT_IN", "OUT", "COMING_IN"}
WaitResults == {"AWAKENED", "TIMED_OUT", "INTERRUPTED"}
WakeActive(t) == <<"wake_active", t>>     \* the event &thread->wake_active
SwapEvent(t) == <<"swap_state", t>>       \* the event &thread->swap_state
QueuedEvents == Events \cup {WakeActive(t) : t \in Threads}
                       \cup {SwapEvent(t) : t \in Threads}

ASSUME NotEvents == NoEvent \notin QueuedEvents

AllEvents == QueuedEvents \cup {NoEvent}
SomeThread == Threads \cup {NoThread}

ThreadRecord ==
    [state: SUBSET StateBits, interruptible: BOOLEAN, wait_event: AllEvents,
     wait_result: WaitResults, timer_set: BOOLEAN, wake_active: BOOLEAN,
     suspend_count: Int, user_stop_count: Nat, halted: BOOLEAN, active: BOOLEAN,
     ast_halt: BOOLEAN, swap_state: SwapStates, make_unswappable: BOOLEAN]

\* cpu[p].new_thread is thread_block's choice until the context is switched;
\* cpu[p].wake is the thread that thread_continue has still to announce.
CpuRecord ==
    [state: {"RUNNING", "IDLE", "DISPATCHING"}, next_thread: SomeThread,
     active: Threads \cup {IdleThread},
     new_thread: SomeThread \cup {IdleThread}, wake: SomeThread]

TimerRecord == [at: {"off", "set", "fired", "clearing"}, event: AllEvents]

-----------------------------------------------------------------------------
(* Kernel states as values, and the step that installs one.                *)

Kernel ==
    [thread |-> thread, cpu |-> cpu, runq |-> runq, idle_queue |-> idle_queue,
     wait_queue |-> wait_queue, swapin_queue |-> swapin_queue,
     timer |-> timer, panicked |-> panicked]

Becomes(k) ==
    /\ thread' = k.thread
    /\ cpu' = k.cpu
    /\ runq' = k.runq
    /\ idle_queue' = k.idle_queue
    /\ wait_queue' = k.wait_queue
    /\ swapin_queue' = k.swapin_queue
    /\ timer' = k.timer
    /\ panicked' = k.panicked

Panic(k, routine) == [k EXCEPT !.panicked = routine]

-----------------------------------------------------------------------------
(* Run queue and dispatch.                                                 *)

\* An idle processor takes the thread directly, else it is queued.
thread_setrun(k, t) ==
    IF k.idle_queue # <<>>
    THEN LET p == Head(k.idle_queue)
         IN  [k EXCEPT !.idle_queue = Tail(@),
                       !.cpu[p].next_thread = t,
                       !.cpu[p].state = "DISPATCHING"]
    ELSE [k EXCEPT !.runq = @ \cup {t}]

\* Take t off the run queue.  On other threads it changes nothing, which its
\* caller learns from its result: t \in k.runq.
rem_runq(k, t) == [k EXCEPT !.runq = @ \ {t}]

-----------------------------------------------------------------------------
(* Waiting.                                                                *)

assert_wait(k, t, event, interruptible) ==
    IF k.thread[t].wait_event # NoEvent
    THEN Panic(k, "assert_wait")
    ELSE [k EXCEPT
            !.wait_queue = IF event = NoEvent THEN @ ELSE Append(@, t),
            !.thread[t].wait_event = event,
            !.thread[t].state = @ \cup {"WAIT"},
            !.thread[t].interruptible = interruptible]

\* (mutant) The callout stays in the clock's queue.
BadUntimeout(k, t) == [k EXCEPT !.thread[t].timer_set = FALSE]

\* untimeout(thread_timeout, t).  It finds nothing once the routine runs.
untimeout(k, t) ==
    IF k.thread[t].timer_set
    THEN [k EXCEPT !.thread[t].timer_set = FALSE,
                   !.timer[t].at = IF @ = "set" THEN "off" ELSE @]
    ELSE k

\* (mutant) The thread's links stay in the queue.
BadRemqueue(k, t) == [k EXCEPT !.thread[t].wait_event = NoEvent]

\* The thread leaves the queue of its event.
remqueue(k, t) ==
    [k EXCEPT !.wait_queue = RemoveFirst(@, t),
              !.thread[t].wait_event = NoEvent]

\* The switch of thread_swapin on the swap state.
AskSwapin(k, t) ==
    CASE k.thread[t].swap_state = "OUT" ->
            [k EXCEPT !.thread[t].swap_state = "COMING_IN",
                      !.swapin_queue = Append(@, t)]
      [] k.thread[t].swap_state = "GOING_OUT" ->
            [k EXCEPT !.thread[t].swap_state = "WANT_IN"]
      [] k.thread[t].swap_state \in {"WANT_IN", "COMING_IN"} -> k
      [] OTHER -> Panic(k, "thread_swapin")

\* thread_wakeup(&swapin_queue) is left out: the swapin thread looks at the
\* queue and asserts its wait under one lock, so it never misses a thread.
thread_swapin(k, t, make_unswappable) ==
    LET asked == AskSwapin(k, t)
    IN  IF make_unswappable /\ asked.panicked = k.panicked
        THEN [asked EXCEPT !.thread[t].make_unswappable = TRUE]
        ELSE asked

\* (mutant) A thread woken before it has blocked is left as it is.
BadEndWait(k, t, result) ==
    LET told == [k EXCEPT !.thread[t].wait_result = result]
    IN  CASE k.thread[t].state = {"WAIT", "SUSP"} ->
                [told EXCEPT !.thread[t].state = {"SUSP"}]
          [] k.thread[t].state = {"WAIT"} ->
                thread_setrun([told EXCEPT !.thread[t].state = {"RUN"}], t)
          [] k.thread[t].state = {"WAIT", "SWAPPED"} ->
                thread_swapin([told EXCEPT
                    !.thread[t].state = {"RUN", "SWAPPED"}], t, FALSE)
          [] OTHER -> told

\* (mutant) A suspended waiter is made to run.
WakesSuspended(k, t, result) ==
    LET told == [k EXCEPT !.thread[t].wait_result = result,
                          !.thread[t].state = @ \ {"WAIT"}]
    IN  IF k.thread[t].state \in {{"WAIT"}, {"WAIT", "SUSP"}}
        THEN thread_setrun([told EXCEPT !.thread[t].state = @ \cup {"RUN"}], t)
        ELSE IF k.thread[t].state = {"WAIT", "SWAPPED"}
        THEN thread_swapin([told EXCEPT !.thread[t].state = {"RUN", "SWAPPED"}],
                           t, FALSE)
        ELSE [told EXCEPT !.thread[t].interruptible = TRUE]

\* The switch on the state of a thread that both wakeup routines end with.
\* A thread that is not waiting is left as it is (wakeups panic before).
EndWait(k, t, result) ==
    LET state == k.thread[t].state
        told == [k EXCEPT !.thread[t].wait_result = result]
    IN  CASE state = {"WAIT", "SUSP"} /\ k.thread[t].interruptible ->
                [told EXCEPT !.thread[t].state = {"SUSP"}]
          [] \/ state = {"WAIT"}
             \/ state = {"WAIT", "SUSP"} /\ ~k.thread[t].interruptible ->
                thread_setrun([told EXCEPT
                    !.thread[t].state = (@ \ {"WAIT"}) \cup {"RUN"}], t)
          [] state = {"WAIT", "SWAPPED"} ->
                thread_swapin([told EXCEPT
                    !.thread[t].state = {"RUN", "SWAPPED"}], t, FALSE)
          [] OTHER ->
                IF "WAIT" \in state
                THEN [told EXCEPT !.thread[t].state = @ \ {"WAIT"},
                                  !.thread[t].interruptible = TRUE]
                ELSE k

Wake(k, t, result) ==
    IF "WAIT" \in k.thread[t].state
    THEN EndWait(untimeout(remqueue(k, t), t), t, result)
    ELSE Panic(k, "thread_wakeup")

\* The waiters of an event, by their position in the queue.
Waiters(k, event) ==
    {i \in DOMAIN k.wait_queue : k.thread[k.wait_queue[i]].wait_event = event}

\* Wake every waiter of an event, in the order they queued: woken[n] is the
\* state once the first n threads of the queue were looked at.
thread_wakeup(k, event, result) ==
    LET woken[n \in 0 .. Len(k.wait_queue)] ==
            IF n = 0 THEN k
            ELSE IF n \in Waiters(k, event)
            THEN Wake(woken[n - 1], k.wait_queue[n], result)
            ELSE woken[n - 1]
    IN  woken[Len(k.wait_queue)]

thread_wakeup_one(k, event) ==
    IF Waiters(k, event) = {} THEN k
    ELSE Wake(k, k.wait_queue[Min(Waiters(k, event))], "AWAKENED")

-----------------------------------------------------------------------------
(* Where threads are and which routine they execute.                       *)

\* The locals of a routine in progress: the thread it works on, must_halt,
\* who called thread_dowait or thread_release, and the event clear_wait saw.
InUser == [at |-> "run", target |-> NoThread, must |-> FALSE,
           from |-> "user", event |-> NoEvent]

\* t executes on p: no context switch is in progress, and what thread_continue
\* had to do for the previous thread is done.
RunsOn(t, p) ==
    /\ cpu[p].active = t
    /\ cpu[p].new_thread = NoThread
    /\ cpu[p].wake = NoThread

\* t is at the point `at' of its routine and has a processor to go on.
At(t, at) == call[t].at = at /\ \E p \in Processors : RunsOn(t, p)

Goto(t, at) == call' = [call EXCEPT ![t].at = at]
Return(t) == call' = [call EXCEPT ![t] = InUser]
Enter(t, at, target, must, from) ==
    call' = [call EXCEPT ![t] = [InUser EXCEPT !.at = at, !.target = target,
                                               !.must = must, !.from = from]]

thread_hold(k, t) ==
    [k EXCEPT !.thread[t].suspend_count = @ + 1,
              !.thread[t].state = @ \cup {"SUSP"}]

\* (mutant) A thread that waits or runs keeps its suspension.
ReleasesStoppedOnly(k, t) ==
    LET less == [k EXCEPT !.thread[t].suspend_count = @ - 1]
        ready == [less EXCEPT !.thread[t].halted = FALSE,
                              !.thread[t].state = (@ \ {"SUSP"}) \cup {"RUN"}]
    IN  IF less.thread[t].suspend_count # 0 THEN less
        ELSE CASE less.thread[t].state = {"SUSP", "SWAPPED"} ->
                    thread_swapin(ready, t, FALSE)
               [] less.thread[t].state = {"SUSP"} -> thread_setrun(ready, t)
               [] OTHER -> less

thread_release(k, t) ==
    LET less == [k EXCEPT !.thread[t].suspend_count = @ - 1]
        free == [less EXCEPT !.thread[t].halted = FALSE,
                             !.thread[t].state = @ \ {"SUSP"}]
        ready == [free EXCEPT !.thread[t].state = @ \cup {"RUN"}]
    IN  IF less.thread[t].suspend_count # 0 THEN less
        ELSE CASE free.thread[t].state = {"SWAPPED"} ->
                    thread_swapin(ready, t, FALSE)
               [] free.thread[t].state = {} -> thread_setrun(ready, t)
               [] OTHER -> free

=============================================================================
