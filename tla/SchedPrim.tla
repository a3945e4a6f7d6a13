----------------------------- MODULE SchedPrim -----------------------------
(***************************************************************************)
(* kern/sched_prim.c: waiting, waking, timeouts, and the choice of the     *)
(* thread a processor runs next.                                           *)
(*                                                                         *)
(* A context switch takes three steps on its processor, with interrupts    *)
(* off but with other processors running: thread_block chooses a thread,   *)
(* the processor enters the idle queue if there was none, and              *)
(* thread_continue disposes of the thread that was switched out.           *)
(* clear_wait takes two steps, because it must drop the thread's lock to   *)
(* take the lock of the wait queue first.                                  *)
(***************************************************************************)
EXTENDS ThreadState

CONSTANTS
    MasterProcessor,    \* goes to the end of the idle queue
    MayWait,            \* <<t, event, interruptible>>: waits that threads make
    MayTime,            \* threads that set a timeout on their waits
    MaySignal           \* <<c, t>>: c interrupts the waits of t (psignal)

ASSUME MasterIsProcessor == MasterProcessor \in Processors
ASSUME WaitsAreCalls == /\ MayWait \subseteq Threads \X AllEvents \X BOOLEAN
                        /\ MayTime \subseteq Threads
                        /\ MaySignal \subseteq Threads \X Threads

-----------------------------------------------------------------------------
(* Going to sleep.                                                         *)

AssertWait(t, event, interruptible) ==
    /\ At(t, "run")
    /\ Becomes(assert_wait(Kernel, t, event, interruptible))
    /\ Goto(t, "asserted")
    /\ UNCHANGED swapper

\* One timeout of a thread is in progress at a time (a bound of the model).
thread_set_timeout(t) ==
    /\ At(t, "asserted")
    /\ timer[t].at = "off"
    /\ "WAIT" \in thread[t].state
    /\ thread' = [thread EXCEPT ![t].timer_set = TRUE]
    /\ timer' = [timer EXCEPT ![t].at = "set"]
    /\ UNCHANGED <<cpu, runq, idle_queue, wait_queue, swapin_queue, call,
                   swapper, panicked>>

\* The points of a routine at which it calls thread_block, and where it goes
\* on once the thread has a processor again.
After(at) ==
    CASE at = "dowait_sleep" -> "dowait_awake"
      [] at = "halt_sleep" -> "halt_awake"
      [] at = "swappable_sleep" -> "swappable_awake"
      [] OTHER -> "run"

BlockPoints == {"run", "asserted", "stop_self", "halted", "dowait_sleep",
                "halt_sleep", "swappable_sleep"}

Resumed(t) ==
    IF After(call[t].at) = "run" THEN InUser
    ELSE [call[t] EXCEPT !.at = After(@)]

-----------------------------------------------------------------------------
(* The context switch.                                                     *)

\* (mutant) The chosen thread stays in the run queue.
BadChoose(p) ==
    \/ /\ runq = {}
       /\ cpu' = [cpu EXCEPT ![p].new_thread = IdleThread]
       /\ UNCHANGED <<thread, runq>>
    \/ \E n \in runq :
        /\ cpu' = [cpu EXCEPT ![p].new_thread = n]
        /\ thread' = [thread EXCEPT ![n].interruptible = TRUE]
        /\ UNCHANGED runq

\* The choice of choose_pset_thread and of thread_block's quick path: any
\* runnable thread, for priorities are not modelled, else the idle thread.
Choose(p) ==
    \/ /\ runq = {}
       /\ cpu' = [cpu EXCEPT ![p].new_thread = IdleThread]
       /\ UNCHANGED <<thread, runq>>
    \/ \E n \in runq :
        /\ runq' = runq \ {n}
        /\ cpu' = [cpu EXCEPT ![p].new_thread = n]
        /\ thread' = [thread EXCEPT ![n].interruptible = TRUE]

\* Nothing else is runnable and the thread is: thread_block returns at once.
KeepsRunning(t) == runq = {} /\ thread[t].state = {"RUN"}

thread_block(t, p) ==
    /\ RunsOn(t, p)
    /\ call[t].at \in BlockPoints
    /\ IF KeepsRunning(t) THEN UNCHANGED <<thread, cpu, runq>> ELSE Choose(p)
    /\ call' = [call EXCEPT ![t] = Resumed(t)]
    /\ UNCHANGED <<idle_queue, wait_queue, swapin_queue, timer, swapper,
                   panicked>>

\* choose_pset_thread has dropped the run queue's lock by now: threads may
\* have been queued meanwhile.
ProcessorIdles(p) ==
    /\ cpu[p].new_thread = IdleThread
    /\ cpu[p].state = "RUNNING"
    /\ cpu' = [cpu EXCEPT ![p].state = "IDLE"]
    /\ idle_queue' = IF p = MasterProcessor THEN Append(idle_queue, p)
                                            ELSE <<p>> \o idle_queue
    /\ UNCHANGED <<thread, runq, wait_queue, swapin_queue, timer, call,
                   swapper, panicked>>

\* Does thread_continue stop the thread it switched out?
Stops(k, t) == "SUSP" \in k.thread[t].state /\ k.thread[t].interruptible

\* (mutant) Those who wait for the stop are not told.
StopsSilently(k, t, p) ==
    LET state == k.thread[t].state
    IN  IF "RUN" \notin state \/ "SWAPPED" \in state
        THEN Panic(k, "thread_continue")
        ELSE IF Stops(k, t)
        THEN [k EXCEPT !.thread[t].state = @ \ {"RUN"},
                       !.thread[t].wake_active = FALSE]
        ELSE IF "WAIT" \in state
        THEN [k EXCEPT !.thread[t].state = @ \ {"RUN"}]
        ELSE thread_setrun(k, t)

\* The wakeup of those who wait for the stop comes after the unlock.
thread_continue(k, t, p) ==
    LET state == k.thread[t].state
        halted == [k EXCEPT !.thread[t].state = @ \ {"RUN"}]
    IN  IF "RUN" \notin state \/ "SWAPPED" \in state
        THEN Panic(k, "thread_continue")
        ELSE IF Stops(k, t) /\ k.thread[t].wake_active
        THEN [halted EXCEPT !.thread[t].wake_active = FALSE, !.cpu[p].wake = t]
        ELSE IF Stops(k, t) \/ "WAIT" \in state
        THEN halted
        ELSE thread_setrun(k, t)

SwitchContext(p) ==
    LET switched == [Kernel EXCEPT !.cpu[p].active = cpu[p].new_thread,
                                   !.cpu[p].new_thread = NoThread]
    IN  /\ cpu[p].new_thread # NoThread
        /\ cpu[p].new_thread = IdleThread => cpu[p].state # "RUNNING"
        /\ Becomes(IF cpu[p].active = IdleThread THEN switched
                   ELSE thread_continue(switched, cpu[p].active, p))
        /\ UNCHANGED <<call, swapper>>

AnnounceStop(p) ==
    /\ cpu[p].wake # NoThread
    /\ cpu[p].new_thread = NoThread
    /\ Becomes(thread_wakeup([Kernel EXCEPT !.cpu[p].wake = NoThread],
                             WakeActive(cpu[p].wake), "AWAKENED"))
    /\ UNCHANGED <<call, swapper>>

-----------------------------------------------------------------------------
(* The idle thread.                                                        *)

IdleDispatched(p) ==
    LET n == cpu[p].next_thread
    IN  /\ RunsOn(IdleThread, p)
        /\ cpu[p].state = "DISPATCHING"
        /\ cpu' = [cpu EXCEPT ![p].state = "RUNNING",
                              ![p].next_thread = NoThread,
                              ![p].new_thread = n]
        /\ thread' = [thread EXCEPT ![n].interruptible = TRUE]
        /\ UNCHANGED <<runq, idle_queue, wait_queue, swapin_queue, timer, call,
                       swapper, panicked>>

\* (mutant) The idle thread watches next_thread only.
BadIdleNotDispatched(p) == FALSE /\ UNCHANGED vars

\* Threads are queued but nobody dispatched the processor ("Rare").
IdleNotDispatched(p) ==
    /\ RunsOn(IdleThread, p)
    /\ cpu[p].state = "IDLE"
    /\ runq # {}
    /\ cpu' = [cpu EXCEPT ![p].state = "RUNNING"]
    /\ idle_queue' = RemoveFirst(idle_queue, p)
    /\ UNCHANGED <<thread, runq, wait_queue, swapin_queue, timer, call,
                   swapper, panicked>>

IdleBlocks(p) ==
    /\ RunsOn(IdleThread, p)
    /\ cpu[p].state = "RUNNING"
    /\ Choose(p)
    /\ UNCHANGED <<idle_queue, wait_queue, swapin_queue, timer, call, swapper,
                   panicked>>

-----------------------------------------------------------------------------
(* Waking up.                                                              *)

\* A running thread or a device interrupt makes an event happen.
Wakeup(event) ==
    /\ Waiters(Kernel, event) # {}
    /\ \/ Becomes(thread_wakeup(Kernel, event, "AWAKENED"))
       \/ Becomes(thread_wakeup_one(Kernel, event))
    /\ UNCHANGED <<call, swapper>>

\* What clear_wait does when it holds the locks it needs: nothing if the
\* thread no longer waits for the event it saw.
ClearWait(k, t, event, result) ==
    CASE event = NoEvent -> EndWait(untimeout(k, t), t, result)
      [] event # NoEvent /\ k.thread[t].wait_event = event ->
            EndWait(untimeout(remqueue(k, t), t), t, result)
      [] OTHER -> k

\* clear_wait(t, THREAD_INTERRUPTED, TRUE), called by thread c as a signal is
\* posted or from thread_halt.
Signal(c, t) ==
    /\ At(c, "run")
    /\ Enter(c, "clear", t, FALSE, "user")
    /\ UNCHANGED <<thread, cpu, runq, idle_queue, wait_queue, swapin_queue,
                   timer, swapper, panicked>>

ClearReturns(c) ==
    IF call[c].from = "halt"
    THEN call' = [call EXCEPT ![c].at = "halt_check", ![c].event = NoEvent]
    ELSE Return(c)

\* First section, under the thread's lock only.
ClearLooks(c) ==
    LET t == call[c].target
        event == thread[t].wait_event
        ends == thread[t].interruptible /\ event = NoEvent
    IN  /\ At(c, "clear")
        /\ \/ /\ thread[t].interruptible
              /\ event # NoEvent
              /\ call' = [call EXCEPT ![c].at = "clear_locked",
                                      ![c].event = event]
           \/ /\ ~thread[t].interruptible \/ event = NoEvent
              /\ ClearReturns(c)
        /\ Becomes(IF ends THEN ClearWait(Kernel, t, event, "INTERRUPTED")
                           ELSE Kernel)
        /\ UNCHANGED swapper

\* Second section, under the queue's lock and the thread's.
ClearEnds(c) ==
    /\ At(c, "clear_locked")
    /\ Becomes(ClearWait(Kernel, call[c].target, call[c].event, "INTERRUPTED"))
    /\ ClearReturns(c)
    /\ UNCHANGED swapper

\* thread_timeout, from the clock's interrupt: it clears timer_set and calls
\* clear_wait(t, THREAD_TIMED_OUT, FALSE).
TimerExpires(t) ==
    /\ timer[t].at = "set"
    /\ thread' = [thread EXCEPT ![t].timer_set = FALSE]
    /\ timer' = [timer EXCEPT ![t].at = "fired"]
    /\ UNCHANGED <<cpu, runq, idle_queue, wait_queue, swapin_queue, call,
                   swapper, panicked>>

TimerOff == [at |-> "off", event |-> NoEvent]

TimerLooks(t) ==
    LET event == thread[t].wait_event
        next == IF event = NoEvent THEN TimerOff
                ELSE [at |-> "clearing", event |-> event]
        k == [Kernel EXCEPT !.timer[t] = next]
    IN  /\ timer[t].at = "fired"
        /\ Becomes(IF event = NoEvent THEN ClearWait(k, t, event, "TIMED_OUT")
                                      ELSE k)
        /\ UNCHANGED <<call, swapper>>

TimerEnds(t) ==
    /\ timer[t].at = "clearing"
    /\ Becomes(ClearWait([Kernel EXCEPT !.timer[t] = TimerOff],
                         t, timer[t].event, "TIMED_OUT"))
    /\ UNCHANGED <<call, swapper>>

-----------------------------------------------------------------------------

SwitchNext ==
    \E p \in Processors :
        \/ ProcessorIdles(p)
        \/ SwitchContext(p)
        \/ AnnounceStop(p)
        \/ IdleDispatched(p)
        \/ IdleNotDispatched(p)
        \/ IdleBlocks(p)

WaitNext ==
    \/ \E w \in MayWait : AssertWait(w[1], w[2], w[3])
    \/ \E t \in MayTime : thread_set_timeout(t)
    \/ \E t \in MayTime : TimerExpires(t) \/ TimerLooks(t) \/ TimerEnds(t)
    \/ \E t \in Threads, p \in Processors : thread_block(t, p)
    \/ \E event \in Events : Wakeup(event)
    \/ \E s \in MaySignal : Signal(s[1], s[2])
    \/ \E c \in Threads : ClearLooks(c) \/ ClearEnds(c)

=============================================================================
