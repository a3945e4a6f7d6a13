----------------------------- MODULE Scheduler -----------------------------
(***************************************************************************)
(* The whole scheduler: waiting and dispatch (SchedPrim), stopping threads *)
(* (ThreadStop) and swapping their stacks (ThreadSwap), on the state of    *)
(* ThreadState, with the properties that relate them.                      *)
(***************************************************************************)
EXTENDS ThreadStop, ThreadSwap

\* Every thread has been started; the processors come from their start-up
\* with their idle threads, about to look for work.
Init ==
    /\ thread = [t \in Threads |->
            [state |-> {"RUN"}, interruptible |-> TRUE, wait_event |-> NoEvent,
             wait_result |-> "AWAKENED", timer_set |-> FALSE,
             wake_active |-> FALSE, suspend_count |-> 0, user_stop_count |-> 0,
             halted |-> FALSE, active |-> TRUE, ast_halt |-> FALSE, swap_state |-> "IN",
             make_unswappable |-> FALSE]]
    /\ cpu = [p \in Processors |->
            [state |-> "RUNNING", next_thread |-> NoThread,
             active |-> IdleThread, new_thread |-> NoThread, wake |-> NoThread]]
    /\ runq = Threads
    /\ idle_queue = <<>>
    /\ wait_queue = <<>>
    /\ swapin_queue = <<>>
    /\ timer = [t \in Threads |-> TimerOff]
    /\ call = [t \in Threads |-> InUser]
    /\ swapper = [out |-> NoThread, in |-> NoThread]
    /\ panicked = "no"

\* A panic does not stop the model: NoPanic says that there is none.
Next ==
    \/ SwitchNext
    \/ WaitNext
    \/ StopNext
    \/ SwapNext

Spec == Init /\ [][Next]_vars

-----------------------------------------------------------------------------
(* Fairness.  A processor makes progress; the clock makes a running thread *)
(* enter thread_block sooner or later (ast_check) and the priorities age,  *)
(* so that a runnable thread is chosen if the choice comes up for ever;    *)
(* a thread that has a processor goes on with its routine; the swapper     *)
(* threads work; every event that is waited for happens.                   *)

TakesProcessor(t) ==
    /\ \E p \in Processors : IdleBlocks(p) \/ \E u \in Threads : thread_block(u, p)
    /\ t \in runq \ runq'

ProcessorStep(p) ==
    \/ ProcessorIdles(p)
    \/ SwitchContext(p)
    \/ AnnounceStop(p)
    \/ IdleDispatched(p)
    \/ IdleBlocks(p)

\* A thread returns to user mode sooner or later, where it takes its ASTs.
LeavesKernel(t) ==
    call[t].at = "run" /\ \E p \in Processors : thread_block(t, p)

Happens(event) ==
    Becomes(thread_wakeup(Kernel, event, "AWAKENED")) /\ UNCHANGED <<call, swapper>>

Fairness ==
    /\ \A p \in Processors : WF_vars(ProcessorStep(p))
    /\ \A p \in Processors : WF_vars(IdleNotDispatched(p))
    /\ \A t \in Threads, p \in Processors : WF_vars(thread_block(t, p))
    /\ \A t \in Threads : SF_vars(TakesProcessor(t)) /\ SF_vars(LeavesKernel(t))
    /\ \A c \in Threads : SF_vars(StopStep(c) \/ ClearLooks(c) \/ ClearEnds(c))
    /\ \A c \in Threads : WF_vars(SwappableAwake(c))
    /\ WF_vars(SwapoutEnds)
    /\ WF_vars(SwapinStarts \/ SwapinEnds)
    /\ \A event \in Events : WF_vars(Happens(event))

FairSpec == Spec /\ Fairness

-----------------------------------------------------------------------------

TypeOK ==
    /\ thread \in [Threads -> ThreadRecord]
    /\ cpu \in [Processors -> CpuRecord]
    /\ runq \subseteq Threads
    /\ idle_queue \in Seq(Processors)
    /\ wait_queue \in Seq(Threads)
    /\ swapin_queue \in Seq(Threads)
    /\ timer \in [Threads -> TimerRecord]
    /\ \A t \in Threads : call[t].target \in SomeThread
    /\ swapper \in [out: SomeThread, in: SomeThread]

\* No routine finds a thread in a state it has no case for: the panics of
\* assert_wait, thread_wakeup, thread_continue, thread_halt, thread_swapin and
\* thread_swapout are never reached, whatever the wakeups, stops and swaps in
\* progress at the same time.
NoPanic == panicked = "no"

-----------------------------------------------------------------------------
(* Dispatch.                                                               *)

Places(t) ==
    (IF t \in runq THEN {<<"runq">>} ELSE {})
    \cup {<<"next", p>> : p \in {q \in Processors : cpu[q].next_thread = t}}
    \cup {<<"new", p>> : p \in {q \in Processors : cpu[q].new_thread = t}}
    \cup {<<"active", p>> : p \in {q \in Processors : cpu[q].active = t}}

\* A runnable resident thread is in exactly one place where it will be run
\* from (the run queue, an idle processor's next_thread, a context switch, a
\* processor), and any other thread in none: no thread is lost, none runs on
\* two processors, none runs without a kernel stack.
OnePlace ==
    \A t \in Threads :
        Cardinality(Places(t)) =
            IF "RUN" \in thread[t].state /\ "SWAPPED" \notin thread[t].state
            THEN 1 ELSE 0

Entries(seq, t) == Cardinality({i \in DOMAIN seq : seq[i] = t})

OnOneQueue(t) ==
    Entries(wait_queue, t) + Entries(swapin_queue, t) + (IF t \in runq THEN 1 ELSE 0) <= 1

\* A thread has one set of queue links, so it is on one queue at most: "It is
\* not possible to be waiting and runnable at the same time"
\* (sched_prim.c:309-310), nor either of them and queued for the swapin thread.
OneQueue == \A t \in Threads : OnOneQueue(t)

\* A processor does not stay idle while threads are queued: the idle thread
\* finds those that were queued while its processor was entering the idle queue.
NoIdlingWithWork ==
    \A p \in Processors :
        (cpu[p].state = "IDLE" /\ runq # {}) ~> (cpu[p].state # "IDLE" \/ runq = {})

-----------------------------------------------------------------------------
(* Waiting.                                                                *)

\* A thread is in the wait queue exactly while it waits for an event, and a
\* thread that waits for none (but for event 0) is runnable or stopped: the
\* wakeups between assert_wait and thread_block are not lost.
NoLostWakeup ==
    \A t \in Threads :
        /\ (\E i \in DOMAIN wait_queue : wait_queue[i] = t)
                <=> (thread[t].wait_event # NoEvent)
        /\ thread[t].wait_event # NoEvent => "WAIT" \in thread[t].state
        /\ "WAIT" \in thread[t].state =>
                \/ thread[t].wait_event # NoEvent
                \/ \E i \in BOOLEAN : <<t, NoEvent, i>> \in MayWait
        /\ thread[t].state \cap {"WAIT", "SUSP", "RUN"} # {}

\* "If it is waiting on a different event, or no event at all, then someone
\* else did our job for us" (sched_prim.c:494-496): a timeout or a signal that
\* is late for the wait it saw does not end a wait for another event.
LateClearHarmless ==
    /\ [][\A t \in Threads :
            timer[t].at = "clearing" /\ timer'[t].at = "off"
                /\ thread'[t].wait_event # thread[t].wait_event
            => thread[t].wait_event = timer[t].event]_vars
    /\ [][\A c \in Threads :
            LET t == call[c].target
            IN  call[c].at = "clear_locked" /\ call'[c].at # "clear_locked"
                    /\ thread'[t].wait_event # thread[t].wait_event
                => thread[t].wait_event = call[c].event]_vars

\* When a wait ends its timeout is cancelled: a timer that is still to expire
\* belongs to the wait the thread is in (a timeout already under way may be late).
NoStaleTimer ==
    \A t \in Threads :
        /\ thread[t].timer_set <=> (timer[t].at = "set")
        /\ timer[t].at = "set" => "WAIT" \in thread[t].state

\* "Don't wake up the thread if it isn't interruptible" (sched_prim.c:456-457,
\* clear_wait's interrupt_only): a signal ends interruptible waits only.
SignalsOnlyInterruptible ==
    [][\A c \in Threads :
        LET t == call[c].target
        IN  (/\ call[c].at = "clear_locked"
             /\ call'[c].at # "clear_locked"
             /\ thread[t].wait_event # NoEvent
             /\ thread'[t].wait_event = NoEvent)
            => thread[t].interruptible]_vars

-----------------------------------------------------------------------------
(* Stopping.                                                               *)

InStop(t) ==
    \E c \in Threads : call[c].target = t /\ call[c].from \in {"suspend", "resume", "halt"}

\* Between calls, a thread is held exactly while its user stop count or a
\* completed halt says so, "If the count becomes zero the thread is resumed"
\* (thread_resume.2:26-27).
CountsAgree ==
    \A t \in Threads :
        ~InStop(t) =>
            /\ thread[t].suspend_count >= 0
            /\ ("SUSP" \in thread[t].state) <=> (thread[t].suspend_count > 0)
            /\ ~thread[t].halted =>
                (thread[t].suspend_count > 0) <=> (thread[t].user_stop_count > 0)

\* The user's view of the same: "If the count becomes zero the thread is
\* resumed" (thread_resume.2:26-27), once the calls are over.
ResumedAtZero ==
    \A t \in Threads :
        ~InStop(t) /\ ~thread[t].halted /\ thread[t].user_stop_count = 0
            => "SUSP" \notin thread[t].state

\* A thread whose suspension is complete is stopped, or sleeps where it can be
\* stopped, until it is resumed: no wakeup, timeout, swap or released halt
\* makes it run.  (A thread that suspends itself is stopped by its context
\* switch.)
SuspendedStaysStopped ==
    \A t \in Threads :
        thread[t].user_stop_count > 0 /\ ~InStop(t) =>
            \/ IsStopped(t)
            \/ \E p \in Processors : cpu[p].active = t /\ cpu[p].new_thread # NoThread

\* A thread that is stopped, without other states or swapped out, "must be
\* interruptible" (thread.c:1510-1513, the comment of thread_dowait's cases).
StoppedIsInterruptible ==
    \A t \in Threads :
        thread[t].state \in StoppedStates => thread[t].interruptible

\* "Don't need a lock because it really is stopped" (thread.c:1333): the halter
\* that waited for the stop and succeeds leaves the target stopped where it
\* halted itself, also while others suspend, halt and swap it.
StoppedWhenHalted ==
    [][\A c \in Threads :
        call[c].at = "halt_check" /\ call'[c].at = "halt_done" =>
            LET t == call[c].target
            IN  thread[t].halted /\ thread[t].state \in {{"SUSP"}, {"SUSP", "SWAPPED"}}]_vars

\* "Halt a thread at a clean point, leaving it suspended" (thread.c:1186): when
\* thread_halt succeeds the target has halted itself and executes no more.
HaltedAtCleanPoint ==
    \A c \in Threads :
        call[c].at = "halt_done" =>
            LET t == call[c].target
            IN  thread[t].halted /\ "RUN" \notin thread[t].state

\* "If someone else is halting it, wait for that to complete" (thread.c:1273):
\* a thread that is asked to halt has a halter who sees to it, so that others
\* who sleep until the halt is over do not sleep for ever.
Halts(c, t) ==
    /\ call[c].target = t /\ call[c].from = "halt"
    /\ call[c].at \notin {"halt", "halt_sleep", "halt_awake", "halt_lock", "halt_done"}

HaltHasHalter ==
    \A t \in Threads :
        thread[t].ast_halt => \E c \in Threads : Halts(c, t)

\* A thread that suspends another is not left asleep for ever.
SuspenderReturns ==
    \A c \in Threads :
        (call[c].from = "suspend" /\ call[c].at = "dowait_sleep")
            ~> (call[c].from # "suspend")

\* A thread_halt ends, by success or failure, also among threads that halt
\* each other.
HaltEnds ==
    \A c \in Threads : (call[c].from = "halt") ~> (call[c].from # "halt")

-----------------------------------------------------------------------------
(* Swapping.                                                               *)

\* The swap state of a thread says where it is: with the swapout thread, out,
\* or with the swapin thread, there exactly once; and a thread that became
\* runnable while it was out has been asked for.
SwapConsistent ==
    \A t \in Threads :
        LET swap == thread[t].swap_state
        IN  /\ ("SWAPPED" \in thread[t].state) <=> swap \notin {"IN", "UNSWAPPABLE"}
            /\ (swapper.out = t) <=> (swap \in {"GOING_OUT", "WANT_IN"})
            /\ Entries(swapin_queue, t) + (IF swapper.in = t THEN 1 ELSE 0) =
                    IF swap = "COMING_IN" THEN 1 ELSE 0
            /\ {"RUN", "SWAPPED"} \subseteq thread[t].state =>
                    swap \in {"WANT_IN", "COMING_IN"}

\* A thread that is runnable but swapped out gets its stack back.
RunnableComesIn ==
    \A t \in Threads :
        ({"RUN", "SWAPPED"} \subseteq thread[t].state)
            ~> ("SWAPPED" \notin thread[t].state)

=============================================================================
