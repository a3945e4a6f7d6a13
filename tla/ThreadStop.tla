----------------------------- MODULE ThreadStop -----------------------------
(***************************************************************************)
(* kern/thread.c: stopping other threads.  thread_suspend and              *)
(* thread_resume keep the user's count of suspends; thread_halt stops a    *)
(* thread at a clean point, where it holds nothing inside the kernel,      *)
(* forcing a stopped thread to run until it gets there; thread_dowait is   *)
(* how both wait for the target to stop.  Each action is executed by the   *)
(* caller c, who may lose its processor or wait between any two of them.   *)
(***************************************************************************)
EXTENDS SchedPrim

CONSTANTS
    MaySuspend,     \* <<c, t>>: c suspends and resumes t
    MayAbort,       \* <<c, t>>: c aborts t (halts it, then lets it go)
    MayTerminate,   \* <<c, t>>: c terminates t (halts it for good)
    MaxStops        \* bound on a thread's user_stop_count

ASSUME StopsBound == MaxStops \in Nat
ASSUME StopsAreCalls ==
    MaySuspend \cup MayAbort \cup MayTerminate \subseteq Threads \X Threads

unswapped == <<runq, idle_queue, swapin_queue, timer, swapper, panicked>>

-----------------------------------------------------------------------------
(* Suspend and resume: the count and the hold are separate sections.       *)

thread_suspend(c, t) ==
    /\ At(c, "run")
    /\ thread[t].user_stop_count < MaxStops
    /\ thread' = [thread EXCEPT ![t].user_stop_count = @ + 1]
    /\ IF thread[t].user_stop_count = 0
       THEN Enter(c, "hold", t, TRUE, "suspend")
       ELSE UNCHANGED call
    /\ UNCHANGED <<cpu, wait_queue, unswapped>>

Hold(c) ==
    /\ At(c, "hold")
    /\ Becomes(thread_hold(Kernel, call[c].target))
    /\ Goto(c, "dowait")
    /\ UNCHANGED swapper

thread_resume(c, t) ==
    /\ At(c, "run")
    /\ thread[t].user_stop_count > 0
    /\ thread' = [thread EXCEPT ![t].user_stop_count = @ - 1]
    /\ IF thread[t].user_stop_count = 1
       THEN Enter(c, "release", t, TRUE, "resume")
       ELSE UNCHANGED call
    /\ UNCHANGED <<cpu, wait_queue, unswapped>>

Release(c) ==
    /\ At(c, "release")
    /\ Becomes(thread_release(Kernel, call[c].target))
    /\ Return(c)
    /\ UNCHANGED swapper

-----------------------------------------------------------------------------
(* thread_dowait.                                                          *)

DowaitReturns(c, stopped) ==
    IF call[c].from = "suspend" THEN Return(c)
    ELSE Goto(c, IF stopped THEN "clear" ELSE "halt_failed")

\* (mutant) A thread in a non-interruptible wait counts as stopped.
BadIsStopped(t) == thread[t].state \cap {"RUN", "SUSP"} = {"SUSP"}

\* The thread is stopped, or sleeps where it may be stopped.
IsStopped(t) ==
    thread[t].state \cap {"RUN", "SUSP"} = {"SUSP"} /\ thread[t].interruptible

\* thread_sleep on the target's wake_active, with the target locked.
Sleep(c, t) ==
    assert_wait([Kernel EXCEPT !.thread[t].wake_active = TRUE],
                c, WakeActive(t), TRUE)

\* The loop of thread_dowait: another round, or the answer.
DowaitLoop(c) ==
    LET t == call[c].target
    IN  \/ /\ IsStopped(t)
           /\ DowaitReturns(c, TRUE)
           /\ Becomes(Kernel)
        \/ /\ ~IsStopped(t)
           /\ Becomes(Sleep(c, t))
           /\ Goto(c, "dowait_sleep")

\* The cases of the switch.  A thread that somebody released meanwhile has
\* none of these states, and thread_dowait returns.
StoppedStates == {{"SUSP"}, {"SUSP", "SWAPPED"}, {"SUSP", "WAIT", "SWAPPED"}}
CanBeTaken(t) ==
    thread[t].state = {"RUN", "SUSP"} /\ thread[t].interruptible /\ t \in runq

thread_dowait(c) ==
    LET t == call[c].target
        won == thread[t].state \in StoppedStates \/ "SUSP" \notin thread[t].state
        taken == [rem_runq(Kernel, t) EXCEPT !.thread[t].state = {"SUSP"},
                                             !.thread[t].wake_active = FALSE]
    IN  /\ At(c, "dowait")
        /\ \/ /\ t = c
              /\ Goto(c, "stop_self")
              /\ Becomes(Kernel)
           \/ /\ t # c /\ won
              /\ DowaitReturns(c, TRUE)
              /\ Becomes(Kernel)
           \/ /\ t # c /\ CanBeTaken(t)
              /\ Becomes(taken)
              /\ IF thread[t].wake_active THEN Goto(c, "dowait_wakeup")
                                          ELSE DowaitReturns(c, TRUE)
           \/ /\ t # c /\ ~won /\ ~CanBeTaken(t)
              /\ DowaitLoop(c)
        /\ UNCHANGED swapper

DowaitAwake(c) ==
    /\ At(c, "dowait_awake")
    /\ IF thread[c].wait_result # "AWAKENED" /\ ~call[c].must
       THEN DowaitReturns(c, FALSE) /\ Becomes(Kernel)
       ELSE DowaitLoop(c)
    /\ UNCHANGED swapper

\* The wakeup of the others who wait for the target, after the unlock.
DowaitWakeup(c) ==
    /\ At(c, "dowait_wakeup")
    /\ Becomes(thread_wakeup(Kernel, WakeActive(call[c].target), "AWAKENED"))
    /\ DowaitReturns(c, TRUE)
    /\ UNCHANGED swapper

-----------------------------------------------------------------------------
(* thread_halt.                                                            *)

\* With the target locked: wait for another halter, or become the halter.
HaltLoop(c, t, k, must) ==
    IF thread[t].ast_halt /\ ~thread[t].halted
    THEN /\ Becomes(assert_wait([k EXCEPT !.thread[t].wake_active = TRUE],
                                c, WakeActive(t), TRUE))
         /\ Enter(c, "halt_sleep", t, must, "halt")
    ELSE /\ Becomes([k EXCEPT !.thread[t].ast_halt = TRUE])
         /\ Enter(c, "dowait", t, must, "halt")

\* (mutant) Halt cycles are not looked for.
BadInHaltCycle(c, must) == FALSE

\* Two threads that halt each other are told apart by the second, which
\* interrupts the first and fails.
InHaltCycle(c, must) == ~must /\ thread[c].ast_halt

thread_halt(c, t, must) ==
    \/ /\ thread[t].halted
       /\ Becomes([Kernel EXCEPT !.thread[t].suspend_count = @ + 1])
       /\ Enter(c, "halt_done", t, must, "halt")
    \/ /\ ~thread[t].halted
       /\ InHaltCycle(c, must)
       /\ Becomes(thread_wakeup(Kernel, WakeActive(c), "INTERRUPTED"))
       /\ Return(c)
    \/ /\ ~thread[t].halted
       /\ ~InHaltCycle(c, must)
       /\ HaltLoop(c, t, thread_hold(Kernel, t), must)

thread_abort(c, t) ==
    /\ At(c, "run")
    /\ thread_halt(c, t, FALSE)
    /\ UNCHANGED swapper

\* The first to make the thread inactive halts it, in a later section.
thread_terminate(c, t) ==
    /\ At(c, "run")
    /\ thread[c].active /\ thread[t].active
    /\ thread' = [thread EXCEPT ![t].active = FALSE]
    /\ Enter(c, "halt", t, TRUE, "halt")
    /\ UNCHANGED <<cpu, wait_queue, unswapped>>

HaltVictim(c) ==
    /\ At(c, "halt")
    /\ thread_halt(c, call[c].target, TRUE)
    /\ UNCHANGED swapper

\* After the sleep, halted and wait_result are read without the lock.
HaltAwake(c) ==
    /\ At(c, "halt_awake")
    /\ Goto(c, CASE thread[call[c].target].halted -> "halt_done"
                 [] /\ ~thread[call[c].target].halted
                    /\ thread[c].wait_result # "AWAKENED"
                    /\ ~call[c].must -> "release"
                 [] OTHER -> "halt_lock")
    /\ UNCHANGED <<thread, cpu, wait_queue, unswapped>>

HaltLocks(c) ==
    /\ At(c, "halt_lock")
    /\ HaltLoop(c, call[c].target, Kernel, call[c].must)
    /\ UNCHANGED swapper

\* The wait was interrupted: tell the other halters and let the target go.
HaltFails(c) ==
    LET t == call[c].target
    IN  /\ At(c, "halt_failed")
        /\ Becomes(thread_wakeup([Kernel EXCEPT !.thread[t].ast_halt = FALSE],
                                 WakeActive(t), "INTERRUPTED"))
        /\ Goto(c, "release")
        /\ UNCHANGED swapper

\* The target is stopped: done if that is a clean point, else make it run
\* there, uninterruptible until it is dispatched.
ForceRun(k, t) ==
    LET run == [k EXCEPT !.thread[t].state = @ \cup {"RUN"},
                         !.thread[t].interruptible = FALSE]
    IN  CASE k.thread[t].state = {"SUSP", "SWAPPED"} ->
                thread_swapin(run, t, FALSE)
          [] k.thread[t].state = {"SUSP"} -> thread_setrun(run, t)
          [] OTHER -> Panic(k, "thread_halt")

\* (mutant) Any stop will do.
BadHaltChecks(c) ==
    /\ At(c, "halt_check")
    /\ Goto(c, "halt_done")
    /\ UNCHANGED <<thread, cpu, wait_queue, unswapped>>

HaltChecks(c) ==
    LET t == call[c].target
    IN  /\ At(c, "halt_check")
        /\ IF thread[t].halted
           THEN Goto(c, "halt_done") /\ Becomes(Kernel)
           ELSE Goto(c, "dowait") /\ Becomes(ForceRun(Kernel, t))
        /\ UNCHANGED swapper

\* thread_abort releases the thread it has halted; a terminated one stays.
HaltDone(c) ==
    /\ At(c, "halt_done")
    /\ IF call[c].must THEN Return(c) ELSE Goto(c, "release")
    /\ UNCHANGED <<thread, cpu, wait_queue, unswapped>>

-----------------------------------------------------------------------------
(* The target's side: on its way out of the kernel it notices AST_HALT,    *)
(* without a lock, and halts itself.                                       *)

NoticeHalt(t) ==
    /\ At(t, "run")
    /\ thread[t].ast_halt
    /\ Goto(t, "halt_self")
    /\ UNCHANGED <<thread, cpu, wait_queue, unswapped>>

thread_halt_self(t) ==
    /\ At(t, "halt_self")
    /\ thread' = [thread EXCEPT ![t].halted = TRUE, ![t].ast_halt = FALSE]
    /\ Goto(t, "halted")
    /\ UNCHANGED <<cpu, wait_queue, unswapped>>

-----------------------------------------------------------------------------

\* The steps of a stop in progress.
StopStep(c) ==
    \/ Hold(c)
    \/ Release(c)
    \/ thread_dowait(c)
    \/ DowaitAwake(c)
    \/ DowaitWakeup(c)
    \/ HaltVictim(c)
    \/ HaltAwake(c)
    \/ HaltLocks(c)
    \/ HaltFails(c)
    \/ HaltChecks(c)
    \/ HaltDone(c)
    \/ NoticeHalt(c)
    \/ thread_halt_self(c)

StopNext ==
    \/ \E s \in MaySuspend : thread_suspend(s[1], s[2]) \/ thread_resume(s[1], s[2])
    \/ \E h \in MayAbort : thread_abort(h[1], h[2])
    \/ \E h \in MayTerminate : thread_terminate(h[1], h[2])
    \/ \E c \in Threads : StopStep(c)

=============================================================================
