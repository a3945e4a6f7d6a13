-------------------------------- MODULE Task --------------------------------
(***************************************************************************)
(* kern/task.c: tasks are suspended, resumed, halted by exit() and         *)
(* terminated, each time by a walk over their threads which gives the      *)
(* task's lock up at every thread; threads come and go meanwhile.          *)
(* thread_create is here because it needs the task.                        *)
(***************************************************************************)
EXTENDS ThreadLife

-----------------------------------------------------------------------------
(* Calls.                                                                  *)

\* A task reached by its port, with a reference for the call.
TaskCall(c, tk, op, at) ==
    /\ At(c, "user")
    /\ task[tk].port = "on"
    /\ call' = [call EXCEPT ![c] = [User EXCEPT !.at = at, !.op = op,
                                                !.task = tk, !.held = "task"]]

\* The user's count and the hold are changed in two sections.
task_suspend(c, tk) ==
    /\ TaskCall(c, tk, "suspend", IF task[tk].user_stop_count = 0
                                  THEN "task_hold" ELSE "return")
    /\ task[tk].user_stop_count < MaxStops
    /\ task' = [task EXCEPT ![tk].user_stop_count = @ + 1,
                            ![tk].ref_count = @ + 1]
    /\ UNCHANGED <<thread, running, reaper_queue, panicked>>

task_resume(c, tk) ==
    /\ TaskCall(c, tk, "resume", IF task[tk].user_stop_count = 1
                                 THEN "task_release" ELSE "return")
    /\ task[tk].user_stop_count > 0
    /\ task' = [task EXCEPT ![tk].user_stop_count = @ - 1,
                            ![tk].ref_count = @ + 1]
    /\ UNCHANGED <<thread, running, reaper_queue, panicked>>

HoldAll(k, c, tk) ==
    FoldLeft(LAMBDA done, t : IF t = c THEN done ELSE thread_hold(done, t),
             [k EXCEPT !.task[tk].suspend_count = @ + 1],
             k.task[tk].thread_list)

\* An inactive task is not held, and the suspend fails.
task_hold(c) ==
    LET tk == call[c].task
    IN  /\ At(c, "task_hold")
        /\ IF task[tk].active
           THEN Becomes(HoldAll(Kernel, c, tk)) /\ Goto(c, "walk")
           ELSE Becomes(Kernel) /\ Goto(c, "return")

task_release(c) ==
    LET tk == call[c].task
    IN  /\ At(c, "task_release")
        /\ Becomes(IF task[tk].active
                   THEN FoldLeft(thread_release,
                                 [Kernel EXCEPT !.task[tk].suspend_count = @ - 1],
                                 task[tk].thread_list)
                   ELSE Kernel)
        /\ Goto(c, "return")

-----------------------------------------------------------------------------
(* The walk of task_dowait and task_halt.                                  *)

\* The element after t: of the list, or of t's own links if it was removed.
After(tk, t) ==
    LET list == task[tk].thread_list
        i == IF t = NoThread THEN 0
             ELSE CHOOSE n \in 1..Len(list) : list[n] = t
    IN  IF t # NoThread /\ ~Contains(list, t) THEN thread[t].thread_list
        ELSE IF i = Len(list) THEN NoThread ELSE list[i + 1]

\* The next thread to visit: the current thread is skipped.
NextThread(c, tk, t) ==
    IF After(tk, t) = c THEN After(tk, c) ELSE After(tk, t)

WalkEnds(c, failed) ==
    LET l == call[c]
        then == CASE l.op = "exit" -> "terminate"
                  [] l.op = "terminate" -> "loop"
                  [] l.op = "suspend" ->
                        IF ~failed /\ thread[c].task = l.task THEN "hold_self"
                                                              ELSE "return"
        rest == [l EXCEPT !.prev = NoThread, !.why = "none"]
    IN  /\ IF l.prev = NoThread
           THEN call' = [call EXCEPT ![c] = [rest EXCEPT !.at = then]]
           ELSE Deallocate(c, l.prev, rest, then)
        /\ Becomes(Kernel)

\* With the task locked: take a reference to the next thread; with the task
\* unlocked again, give up the one to the thread before.
Walk(c) ==
    LET l == call[c]
        next == NextThread(c, l.task, l.prev)
        visit == [l EXCEPT !.at = IF l.op = "exit" THEN "halt" ELSE "dowait",
                           !.target = next, !.prev = NoThread, !.why = "walk"]
    IN  /\ At(c, "walk")
        /\ IF /\ l.op = "suspend" /\ ~task[l.task].active
              /\ After(l.task, l.prev) # NoThread
           THEN WalkEnds(c, TRUE)
           ELSE IF next = NoThread
           THEN WalkEnds(c, FALSE)
           ELSE /\ Becomes(thread_reference(Kernel, next))
                /\ IF l.prev = NoThread
                   THEN call' = [call EXCEPT ![c] = visit]
                   ELSE Deallocate(c, l.prev, visit, visit.at)

\* A thread that suspends its own task stops itself last.
HoldSelf(c) ==
    /\ At(c, "hold_self")
    /\ Becomes(thread_hold(Kernel, c))
    /\ Goto(c, "stop_self")

StopSelf(c) ==
    /\ At(c, "stop_self")
    /\ Becomes(Block(Kernel, c))
    /\ Goto(c, "return")

-----------------------------------------------------------------------------
(* thread_create.                                                          *)

thread_create(c, tk) ==
    /\ TaskCall(c, tk, "create", "create")
    /\ \E t \in Threads : thread[t].memory = "free"
    /\ task' = [task EXCEPT ![tk].ref_count = @ + 1]
    /\ UNCHANGED <<thread, running, reaper_queue, panicked>>

\* (mutant) The holds on the task are not taken over.
BadNewThread(tk) ==
    [Unused EXCEPT !.task = tk, !.state = {"SUSP"}, !.ref_count = 1,
                   !.suspend_count = 1, !.user_stop_count = 1,
                   !.active = TRUE, !.memory = "used"]

\* A new thread is held by its creator and as often as its task.
NewThread(tk) ==
    [Unused EXCEPT !.task = tk, !.state = {"SUSP"}, !.ref_count = 1,
                   !.suspend_count = task[tk].suspend_count + 1,
                   !.user_stop_count = 1, !.active = TRUE, !.memory = "used"]

\* In a task that is inactive by now the new thread is terminated at once.
CreateThread(c) ==
    LET tk == call[c].task
    IN  /\ At(c, "create")
        /\ IF \A t \in Threads : thread[t].memory # "free"
           THEN Goto(c, "return") /\ Becomes(Kernel)
           ELSE LET new == CHOOSE t \in Threads : thread[t].memory = "free"
                IN  /\ Becomes([Kernel EXCEPT
                        !.thread[new] = NewThread(tk),
                        !.task[tk].thread_list = Append(@, new),
                        !.task[tk].ref_count = @ + 1])
                    /\ call' = [call EXCEPT
                        ![c].object = new,
                        ![c].at = IF task[tk].active THEN "enable" ELSE "kill"]

EnableThread(c) ==
    /\ At(c, "enable")
    /\ Becomes(ipc_thread_enable(Kernel, call[c].object))
    /\ Goto(c, "return")

-----------------------------------------------------------------------------
(* task_terminate and exit().                                              *)

task_terminate(c, tk) ==
    /\ TaskCall(c, tk, "terminate", "terminate")
    /\ task' = [task EXCEPT ![tk].ref_count = @ + 1]
    /\ UNCHANGED <<thread, running, reaper_queue, panicked>>

\* exit() halts the other threads of the task (task_halt) and terminates it.
exit(c) ==
    /\ At(c, "user")
    /\ call' = [call EXCEPT ![c] =
            [User EXCEPT !.at = "walk", !.op = "exit",
                         !.task = thread[c].task, !.exiting = TRUE]]
    /\ UNCHANGED <<thread, task, running, reaper_queue, panicked>>

\* The caller leaves its task's list, which others may be walking, and shuts
\* its IPC down.
LeavesList(k, c, tk) ==
    LET after == After(tk, c)
    IN  ipc_thread_terminate(ipc_thread_disable(
            [k EXCEPT !.thread[c].thread_list = after,
                      !.task[tk].thread_list = SelectSeq(@, LAMBDA u : u # c)],
            c), c)

\* The checks of task_terminate, with the task, the caller's task and the
\* caller locked.
TerminateChecks(c) ==
    LET tk == call[c].task
        own == thread[c].task = tk
        dead == [Kernel EXCEPT !.task[tk].active = FALSE]
        begins == call' = [call EXCEPT ![c].at = "disable",
                                       ![c].op = "terminate"]
    IN  /\ At(c, "terminate")
        /\ IF IF own THEN task[tk].active /\ ~thread[c].active
                     ELSE BeingTerminated(c)
           THEN Becomes(TerminateSelf(Kernel, c)) /\ Goto(c, "return")
           ELSE IF ~task[tk].active
           THEN Becomes(Kernel) /\ Goto(c, "return")
           ELSE IF own
           THEN Becomes(LeavesList(dead, c, tk)) /\ begins
           ELSE Becomes(dead) /\ begins

\* ipc_task_disable; task_hold fails, because the task is inactive; the walk
\* of task_dowait begins.
TerminateDisables(c) ==
    /\ At(c, "disable")
    /\ Becomes(ipc_task_disable(Kernel, call[c].task))
    /\ Goto(c, "walk")

\* The loop: as long as a thread is in the list, the first is terminated.
TerminateLoop(c) ==
    LET list == task[call[c].task].thread_list
    IN  /\ At(c, "loop")
        /\ IF list = <<>>
           THEN Goto(c, "shut")
           ELSE call' = [call EXCEPT ![c].at = "force", ![c].why = "force",
                                     ![c].target = Head(list)]
        /\ Becomes(Kernel)

\* thread_force_terminate, without a reference to the thread.
thread_force_terminate(c) ==
    LET t == call[c].target
    IN  /\ At(c, "force")
        /\ Becomes([ipc_thread_disable(Kernel, t) EXCEPT
                        !.thread[t].active = FALSE])
        /\ call' = [call EXCEPT ![c].at = "halt",
                                ![c].deallocate_here = thread[t].active]

\* The task gives up its reference to itself; a caller in the task goes back
\* to its list and terminates itself.
TerminateShuts(c) ==
    LET tk == call[c].task
        shut == [ReleaseTask(Kernel, tk) EXCEPT !.task[tk].port = "gone"]
    IN  /\ At(c, "shut")
        /\ Becomes(IF thread[c].task = tk
                   THEN TerminateSelf([shut EXCEPT
                            !.task[tk].thread_list = Append(@, c)], c)
                   ELSE shut)
        /\ Goto(c, "return")

-----------------------------------------------------------------------------

\* What a thread goes on with once it is in the kernel, or must notice.
TaskStep(c) ==
    \/ task_hold(c)
    \/ task_release(c)
    \/ Walk(c)
    \/ HoldSelf(c)
    \/ StopSelf(c)
    \/ CreateThread(c)
    \/ EnableThread(c)
    \/ TerminateChecks(c)
    \/ TerminateDisables(c)
    \/ TerminateLoop(c)
    \/ thread_force_terminate(c)
    \/ TerminateShuts(c)

\* What a thread in user mode may ask for.
Request ==
    \/ \E s \in MaySuspend : task_suspend(s[1], s[2]) \/ task_resume(s[1], s[2])
    \/ \E s \in MayTerminate : task_terminate(s[1], s[2])
    \/ \E s \in MayCreate : thread_create(s[1], s[2])
    \/ \E s \in MayCreate, t \in Threads :
            thread[t].task = s[2] /\ thread_resume(s[1], t)
    \/ \E s \in MayKill : thread_terminate(s[1], s[2])
    \/ \E c \in MayExit : exit(c)

Next ==
    /\ panicked = "no"
    /\ \/ Request
       \/ \E c \in Threads :
            \/ ThreadStep(c)
            \/ TaskStep(c)
            \/ Dispatch(c)
            \/ Preempt(c)
            \/ WaitForPage(c)
            \/ PageArrives(c)

Spec == Init /\ [][Next]_vars

-----------------------------------------------------------------------------
(* References: what the counts stand for.                                  *)

Live(t) == thread[t].memory = "used"

\* A thread's reference to itself, until it is queued for the reaper or
\* somebody has made it inactive and has to give the reference up.
OwnReference(t) ==
    \/ thread[t].active
    \/ t \in ToSet(reaper_queue)
    \/ "TERMINATE" \in thread[t].ast /\ call[t].at \notin {"zombie", "dead"}

\* The references c's call holds to t, by what it holds them for.
ReferencesOf(c, t) ==
    LET l == call[c]
    IN  {r \in {"object", "target", "prev", "victim"} :
            \/ r = "object" /\ l.held = "thread" /\ l.object = t
            \/ /\ r = "target" /\ l.target = t
               /\ l.why \in {"walk", "kill", "reap"} \/ l.deallocate_here
            \/ r = "prev" /\ l.prev = t
            \/ r = "victim" /\ l.victim = t}

Count(S) == Cardinality(S)

ThreadReferences(t) ==
    Count({r \in {"own"} : OwnReference(t)})
    + Count({r \in {"port"} : thread[t].port = "on"})
    + Count({<<c, r>> \in Threads \X {"object", "target", "prev", "victim"} :
                r \in ReferencesOf(c, t)})

TaskReferences(tk) ==
    Count({r \in {"own"} : task[tk].port # "gone"})
    + Count({r \in {"port"} : task[tk].port = "on"})
    + Count({t \in Threads : Live(t) /\ thread[t].task = tk})
    + Count({c \in Threads : call[c].held = "task" /\ call[c].task = tk})

\* ref_count is what every deallocate trusts: it counts the thread's or task's
\* reference to itself, its port's, the calls on it and the walks at it
\* (thread.c:722, task.c:241); what has not been freed has a reference.
CountsExact ==
    /\ \A t \in Threads : Live(t) =>
            thread[t].ref_count = ThreadReferences(t) /\ thread[t].ref_count > 0
    /\ \A tk \in Tasks : task[tk].memory = "used" =>
            task[tk].ref_count = TaskReferences(tk)

\* The threads a call works on.
InUse(c) ==
    ({call[c].target, call[c].prev, call[c].victim} \cup
        IF call[c].op \in {"kill", "resume"} \/ call[c].at \in {"enable", "kill"}
        THEN {call[c].object} ELSE {}) \ {NoThread}

\* Nobody goes on with a thread that has been freed ("Caller holds a
\* reference to thread", ipc_tt.c:441), nor with a freed task.
HeldWhileUsed ==
    \A c \in Threads :
        /\ \A t \in InUse(c) : Live(t)
        /\ call[c].task # NoTask /\ call[c].at # "user" =>
                task[call[c].task].memory = "used"

\* A suspend or resume of tk has still to change what runs.
ChangesPending(tk) ==
    \E c \in Threads : call[c].task = tk /\ call[c].op \in {"suspend", "resume"}

\* "Once suspended, a thread may not execute again until its suspend count is
\* zero, and the suspend count for its task is also zero" (mach.defs:660):
\* whatever is created, halted or terminated meanwhile.
SuspendedStays ==
    \A t \in running :
        t # Reaper /\ call[t].at = "user" =>
            /\ thread[t].user_stop_count = 0
            /\ LET tk == thread[t].task
               IN  task[tk].active /\ task[tk].user_stop_count > 0 =>
                        ChangesPending(tk)

\* A thread that has called exit() or has terminated itself never runs again
\* ("NOTREACHED", kern_exit.c:414; "the zombie walks!", thread.c:1419), and
\* none is freed before it has stopped (thread.c:850-854).
DeadStayDead ==
    /\ panicked = "no"
    /\ \A c \in running : call[c].at = "user" => ~call[c].exiting

\* c waits for t to halt, whatever happens.
Halts(c, t) ==
    /\ call[c].target = t
    /\ call[c].halting \/ call[c].at = "halt_awake"

\* Two threads never halt each other: "If must_halt is TRUE, this operation
\* can never cause a deadlock" (thread.c:1236-1237).
NoHaltCycle == ~\E c, t \in Threads : Halts(c, t) /\ Halts(t, c)

-----------------------------------------------------------------------------

\* A thread in the kernel keeps its processor; the others get one in turn.
Fairness ==
    \A c \in Threads :
        /\ WF_vars(panicked = "no" /\ (ThreadStep(c) \/ TaskStep(c)))
        /\ WF_vars(panicked = "no" /\ Preempt(c))
        /\ WF_vars(panicked = "no" /\ PageArrives(c))
        /\ SF_vars(panicked = "no" /\ Dispatch(c))

FairSpec == Spec /\ Fairness

\* "The thread will eventually disappear.  Thus the loop will terminate"
\* (task.c:405-407): a task that is being terminated is freed.
TerminationEnds ==
    \A tk \in Tasks : ~task[tk].active ~> task[tk].memory = "freed"

===============================================================================
