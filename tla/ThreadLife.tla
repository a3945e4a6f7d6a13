----------------------------- MODULE ThreadLife -----------------------------
(***************************************************************************)
(* The life of threads (kern/thread.c): created, halted at a clean point,  *)
(* terminated by another thread or by themselves, and freed by whoever     *)
(* gives up the last reference, often the reaper thread.  Module Task adds *)
(* the operations on tasks.                                                *)
(*                                                                         *)
(* ThreadStop has one stop of one thread in full.  Here a thread that      *)
(* waits for another to stop is woken when it has stopped; timeouts,       *)
(* swapping and run queues are left out.  There is one processor, as in    *)
(* the Macintosh, and the kernel is not preempted: a thread has it until   *)
(* it waits, stops or is in user mode.                                     *)
(***************************************************************************)
EXTENDS Integers, FiniteSets, SequencesExt

CONSTANTS
    Threads,        \* thread structures, and the reaper's
    Reaper,         \* the reaper thread, of a task that stays out of this
    NoThread,       \* THREAD_NULL
    Tasks,
    NoTask,         \* TASK_NULL
    Home,           \* the task each thread starts in, NoTask: yet to be made
    MaySuspend,     \* <<c, tk>>: c suspends and resumes task tk
    MayTerminate,   \* <<c, tk>>: c terminates task tk
    MayCreate,      \* <<c, tk>>: c creates and resumes threads in task tk
    MayKill,        \* <<c, t>>: c terminates thread t
    MayExit,        \* threads that call exit()
    MayWait,        \* threads that wait in the kernel without interruption
    MaxStops,       \* bound on a task's user_stop_count
    MaxHolds        \* bound on the holds that thread_halt adds to a halted thread

ASSUME ReaperIsThread == Reaper \in Threads /\ Home[Reaper] = NoTask
ASSUME HomeIsTask == Home \in [Threads -> Tasks \cup {NoTask}]
ASSUME NoneIsNone == NoThread \notin Threads /\ NoTask \notin Tasks
ASSUME TaskBounds == MaxStops \in Nat /\ MaxHolds \in Nat

VARIABLES
    thread,         \* struct thread, by thread
    task,           \* struct task, by task
    running,        \* the thread that has the processor, if any
    reaper_queue,   \* threads that have terminated themselves
    call,           \* the kernel routine each thread is in, and its locals
    panicked        \* the routine that called panic(), or "no"

vars == <<thread, task, running, reaper_queue, call, panicked>>

-----------------------------------------------------------------------------
(* Types.                                                                  *)

SomeThread == Threads \cup {NoThread}

\* The thread's port: not enabled yet, its object the thread, disabled, or
\* given up (thread_self is PORT_NULL).
Ports == {"new", "on", "off", "gone"}
Memory == {"free", "used", "freed"}

ThreadRecord ==
    [task: Tasks \cup {NoTask}, state: SUBSET {"RUN", "WAIT", "SUSP"},
     interruptible: BOOLEAN, suspend_count: Int, user_stop_count: Nat,
     ref_count: Int, active: BOOLEAN, halted: BOOLEAN,
     ast: SUBSET {"HALT", "TERMINATE"}, port: Ports, memory: Memory,
     thread_list: SomeThread]

TaskRecord ==
    [thread_list: Seq(Threads), suspend_count: Int, user_stop_count: Nat,
     ref_count: Int, active: BOOLEAN, port: Ports, memory: Memory]

\* The locals of a routine in progress: the task of the call, the object
\* whose reference the message interface holds for it, the thread the walk or
\* the stop works on and why, the thread before it, the reference that
\* thread_deallocate gives up and where it returns to.
CallRecord ==
    [at: STRING, op: STRING, task: Tasks \cup {NoTask}, object: SomeThread,
     held: {"none", "task", "thread"}, target: SomeThread, prev: SomeThread,
     why: {"none", "walk", "kill", "force", "reap"}, halting: BOOLEAN,
     deallocate_here: BOOLEAN, exiting: BOOLEAN,
     victim: SomeThread, then: STRING]

User == [at |-> "user", op |-> "none", task |-> NoTask, object |-> NoThread,
         held |-> "none", target |-> NoThread, prev |-> NoThread,
         why |-> "none", halting |-> FALSE, deallocate_here |-> FALSE,
         exiting |-> FALSE, victim |-> NoThread, then |-> "user"]

\* Type invariant.
TypeOK ==
    /\ thread \in [Threads -> ThreadRecord]
    /\ task \in [Tasks -> TaskRecord]
    /\ running \subseteq Threads
    /\ reaper_queue \in Seq(Threads)
    /\ call \in [Threads -> CallRecord]
    /\ panicked \in STRING

Unused == [task |-> NoTask, state |-> {}, interruptible |-> TRUE,
           suspend_count |-> 0, user_stop_count |-> 0, ref_count |-> 0,
           active |-> FALSE, halted |-> FALSE, ast |-> {}, port |-> "new",
           memory |-> "free", thread_list |-> NoThread]

Members(tk) == {t \in Threads : Home[t] = tk}

Init ==
    /\ thread = [t \in Threads |->
            IF Home[t] # NoTask \/ t = Reaper
            THEN [Unused EXCEPT !.task = Home[t], !.state = {"RUN"},
                                !.ref_count = 2, !.active = TRUE,
                                !.port = "on", !.memory = "used"]
            ELSE Unused]
    /\ task = [tk \in Tasks |->
            [thread_list |-> SetToSeq(Members(tk)), suspend_count |-> 0,
             user_stop_count |-> 0, ref_count |-> 2 + Cardinality(Members(tk)),
             active |-> TRUE, port |-> "on", memory |-> "used"]]
    /\ running = {}
    /\ reaper_queue = <<>>
    /\ call = [t \in Threads |-> IF t = Reaper THEN [User EXCEPT !.at = "reap"]
                                               ELSE User]
    /\ panicked = "no"

-----------------------------------------------------------------------------
(* Kernel states as values; c has the processor, at a point of a call.     *)

Kernel == [thread |-> thread, task |-> task, running |-> running,
           reaper_queue |-> reaper_queue, panicked |-> panicked]

Becomes(k) ==
    /\ thread' = k.thread
    /\ task' = k.task
    /\ running' = k.running
    /\ reaper_queue' = k.reaper_queue
    /\ panicked' = k.panicked

Panic(k, routine) == [k EXCEPT !.panicked = routine]

At(c, at) == c \in running /\ call[c].at = at

Goto(c, at) == call' = [call EXCEPT ![c].at = at]

-----------------------------------------------------------------------------
(* Stopping and going on.                                                  *)

IsStopped(k, t) ==
    k.thread[t].state \cap {"RUN", "SUSP"} = {"SUSP"} /\ k.thread[t].interruptible

\* The end of a wait (the switch of thread_wakeup_prim and clear_wait).
EndWait(k, t) ==
    IF "WAIT" \notin k.thread[t].state THEN k
    ELSE IF k.thread[t].state = {"WAIT", "SUSP"} /\ k.thread[t].interruptible
    THEN [k EXCEPT !.thread[t].state = {"SUSP"}]
    ELSE [k EXCEPT !.thread[t].state = (@ \ {"WAIT"}) \cup {"RUN"}]

\* Those who sleep on t's wake_active.
Waiters(t) ==
    {c \in Threads : call[c].at \in {"dowait_loop", "halt_awake"}
                     /\ call[c].target = t}

\* thread_wakeup(&t->wake_active), once t has stopped.
WakeWaiters(k, t) ==
    [k EXCEPT !.thread = [u \in Threads |->
        IF u \in Waiters(t) THEN EndWait(k, u).thread[u] ELSE k.thread[u]]]

\* thread_block of a thread that is not waiting.
Block(k, t) ==
    LET off == [k EXCEPT !.running = @ \ {t}]
    IN  IF "SUSP" \in k.thread[t].state /\ k.thread[t].interruptible
        THEN WakeWaiters([off EXCEPT !.thread[t].state = @ \ {"RUN"}], t)
        ELSE off

\* assert_wait and thread_block, and what thread_sleep is.
Sleep(k, t, interruptible) ==
    LET off == [k EXCEPT !.running = @ \ {t},
                         !.thread[t].state = (@ \ {"RUN"}) \cup {"WAIT"},
                         !.thread[t].interruptible = interruptible]
    IN  IF IsStopped(off, t) THEN WakeWaiters(off, t) ELSE off

thread_hold(k, t) ==
    [k EXCEPT !.thread[t].suspend_count = @ + 1,
              !.thread[t].state = @ \cup {"SUSP"}]

thread_release(k, t) ==
    LET less == [k EXCEPT !.thread[t].suspend_count = @ - 1]
        free == [less EXCEPT !.thread[t].halted = FALSE,
                             !.thread[t].state = @ \ {"SUSP"}]
    IN  IF less.thread[t].suspend_count # 0 THEN less
        ELSE IF free.thread[t].state = {}
        THEN [free EXCEPT !.thread[t].state = {"RUN"}]
        ELSE free

\* The processor takes a runnable thread, which on its way to user mode notices
\* the requests to halt; one that has terminated itself is not to go on.
Dispatch(t) ==
    /\ running = {} /\ "RUN" \in thread[t].state
    /\ running' = {t}
    /\ thread' = [thread EXCEPT ![t].interruptible = TRUE]
    /\ IF call[t].at = "user" /\ thread[t].ast # {} THEN Goto(t, "halt_self")
                                                    ELSE UNCHANGED call
    /\ panicked' = IF call[t].at = "dead" THEN "the zombie walks!" ELSE "no"
    /\ UNCHANGED <<task, reaper_queue>>

\* In user mode, at the end of the quantum or for a thread that has woken.
Preempt(t) ==
    /\ At(t, "user")
    /\ \E u \in Threads \ {t} : "RUN" \in thread[u].state
    /\ Becomes(Block(Kernel, t))
    /\ UNCHANGED call

\* A wait that nobody can interrupt, for a page or a disk, and its end.
WaitForPage(t) ==
    /\ At(t, "user") /\ t \in MayWait
    /\ Becomes(Sleep(Kernel, t, FALSE))
    /\ UNCHANGED call

PageArrives(t) ==
    /\ call[t].at = "user" /\ "WAIT" \in thread[t].state
    /\ Becomes(EndWait(Kernel, t))
    /\ UNCHANGED call

-----------------------------------------------------------------------------
(* References.                                                             *)

ReleaseTask(k, tk) ==
    [k EXCEPT !.task[tk].ref_count = @ - 1,
              !.task[tk].memory =
                    IF k.task[tk].ref_count = 1 THEN "freed" ELSE @]

\* (mutant) No reference is taken.
NoReference(k, t) == k

thread_reference(k, t) == [k EXCEPT !.thread[t].ref_count = @ + 1]

\* One of several references.
ReleaseThread(k, t) == [k EXCEPT !.thread[t].ref_count = @ - 1]

\* The end of thread_deallocate, once no reference is left.
FreeThread(k, c, t) ==
    LET tk == k.thread[t].task
        gone == [k EXCEPT !.thread[t].ref_count = 0, !.thread[t].memory = "freed",
                          !.task[tk].thread_list =
                                SelectSeq(@, LAMBDA u : u # t)]
    IN  IF t = c THEN Panic(gone, "thread deallocating itself")
        ELSE IF k.thread[t].state \ {"RUN"} # {"SUSP"}
        THEN Panic(gone, "unstopped thread destroyed!")
        ELSE ReleaseTask(gone, tk)

\* Where a routine of c returns to; on the way to user mode it notices the
\* requests to halt.
ReturnTo(c, at) ==
    IF at = "user" /\ thread[c].ast # {} THEN "halt_self" ELSE at

\* c goes to give up the reference to t that the rest of `locals' has no more.
Deallocate(c, t, locals, then) ==
    call' = [call EXCEPT ![c] =
                [locals EXCEPT !.at = "dealloc", !.victim = t, !.then = then]]

\* The last reference is given up with the task locked, in a second section.
thread_deallocate(c) ==
    LET t == call[c].victim
    IN  /\ At(c, "dealloc")
        /\ IF thread[t].ref_count > 1
           THEN /\ Becomes(ReleaseThread(Kernel, t))
                /\ call' = [call EXCEPT ![c].at = ReturnTo(c, call[c].then),
                                        ![c].victim = NoThread]
           ELSE /\ Goto(c, "dealloc_last")
                /\ Becomes(Kernel)

DeallocateLast(c) ==
    LET t == call[c].victim
    IN  /\ At(c, "dealloc_last")
        /\ Becomes(IF thread[t].ref_count > 1 THEN ReleaseThread(Kernel, t)
                                              ELSE FreeThread(Kernel, c, t))
        /\ call' = [call EXCEPT ![c].at = ReturnTo(c, call[c].then),
                                ![c].victim = NoThread]

\* (mutant) The port's reference is given up whenever the port is disabled.
BadDisable(k, t) == [ReleaseThread(k, t) EXCEPT !.thread[t].port = "off"]

\* Ports name what the kernel can be asked to do something with.
ipc_thread_disable(k, t) ==
    IF k.thread[t].port = "on"
    THEN [ReleaseThread(k, t) EXCEPT !.thread[t].port = "off"]
    ELSE k

ipc_thread_enable(k, t) ==
    IF k.thread[t].port = "gone" THEN k
    ELSE [thread_reference(k, t) EXCEPT !.thread[t].port = "on"]

ipc_thread_terminate(k, t) == [k EXCEPT !.thread[t].port = "gone"]

ipc_task_disable(k, tk) ==
    IF k.task[tk].port = "on"
    THEN [ReleaseTask(k, tk) EXCEPT !.task[tk].port = "off"]
    ELSE k

-----------------------------------------------------------------------------
(* thread_dowait: what it returns to.                                      *)

\* The visited thread becomes the one before, whose reference is kept.
Visited(l) == [l EXCEPT !.at = "walk", !.prev = l.target, !.target = NoThread,
                        !.halting = FALSE]

DowaitReturns(c) ==
    LET l == call[c]
    IN  IF l.halting THEN Goto(c, "halt_check")
        ELSE IF l.why = "reap"
        THEN Deallocate(c, l.target, [l EXCEPT !.target = NoThread,
                                               !.why = "none"], "reap")
        ELSE call' = [call EXCEPT ![c] = Visited(l)]

\* The loop of thread_dowait.
DowaitLoop(c, k) ==
    IF IsStopped(k, call[c].target)
    THEN DowaitReturns(c) /\ Becomes(k)
    ELSE Becomes(Sleep(k, c, TRUE)) /\ Goto(c, "dowait_loop")

\* A thread on the run queue is taken off it and stopped; one that has been
\* released meanwhile is in none of the switch's cases.
thread_dowait(c) ==
    LET t == call[c].target
        state == thread[t].state
    IN  /\ At(c, "dowait")
        /\ IF "SUSP" \notin state
           THEN DowaitReturns(c) /\ Becomes(Kernel)
           ELSE IF /\ state = {"RUN", "SUSP"} /\ thread[t].interruptible
                   /\ t \notin running
           THEN /\ Becomes(WakeWaiters([Kernel EXCEPT
                            !.thread[t].state = {"SUSP"}], t))
                /\ DowaitReturns(c)
           ELSE DowaitLoop(c, Kernel)

DowaitAwake(c) == At(c, "dowait_loop") /\ DowaitLoop(c, Kernel)

-----------------------------------------------------------------------------
(* thread_halt(t, TRUE).                                                   *)

HaltReturns(c) ==
    LET l == call[c]
    IN  IF l.why = "walk" THEN call' = [call EXCEPT ![c] = Visited(l)]
                          ELSE Goto(c, "halted")

\* Wait for another halter, or become the halter.
HaltLoop(c, k) ==
    LET t == call[c].target
    IN  IF "HALT" \in k.thread[t].ast /\ ~k.thread[t].halted
        THEN Becomes(Sleep(k, c, TRUE)) /\ Goto(c, "halt_awake")
        ELSE /\ Becomes([k EXCEPT !.thread[t].ast = @ \cup {"HALT"}])
             /\ call' = [call EXCEPT ![c].at = "dowait", ![c].halting = TRUE]

thread_halt(c) ==
    LET t == call[c].target
    IN  /\ At(c, "halt")
        /\ IF thread[t].halted
           THEN /\ Becomes([Kernel EXCEPT !.thread[t].suspend_count =
                                IF @ < MaxHolds THEN @ + 1 ELSE @])
                /\ HaltReturns(c)
           ELSE HaltLoop(c, thread_hold(Kernel, t))

HaltAwake(c) ==
    /\ At(c, "halt_awake")
    /\ IF thread[call[c].target].halted
       THEN HaltReturns(c) /\ Becomes(Kernel)
       ELSE HaltLoop(c, Kernel)

\* The target has stopped: end its interruptible wait, and if it is not at a
\* clean point make it run there, uninterruptible until it is dispatched.
HaltChecks(c) ==
    LET t == call[c].target
        awake == IF thread[t].interruptible THEN EndWait(Kernel, t) ELSE Kernel
    IN  /\ At(c, "halt_check")
        /\ IF awake.thread[t].halted
           THEN HaltReturns(c) /\ Becomes(awake)
           ELSE /\ Goto(c, "dowait")
                /\ Becomes(IF awake.thread[t].state = {"SUSP"}
                           THEN [awake EXCEPT !.thread[t].state = @ \cup {"RUN"},
                                              !.thread[t].interruptible = FALSE]
                           ELSE Panic(awake, "thread_halt"))

\* (mutant) Without a hold of its own.
BadGiveToReaper(k, c) ==
    EndWait([ipc_thread_terminate(k, c) EXCEPT
                !.reaper_queue = Append(@, c), !.thread[c].halted = TRUE],
            Reaper)

GiveToReaper(k, c) ==
    EndWait([thread_hold(ipc_thread_terminate(k, c), c) EXCEPT
                !.reaper_queue = Append(@, c), !.thread[c].halted = TRUE],
            Reaper)

\* thread_halt_self, and the context switch it ends with.
thread_halt_self(c) ==
    /\ At(c, "halt_self")
    /\ IF "TERMINATE" \in thread[c].ast
       THEN /\ Becomes(GiveToReaper(Kernel, c))
            /\ call' = [call EXCEPT ![c] = [User EXCEPT !.at = "zombie"]]
       ELSE /\ Becomes([Kernel EXCEPT !.thread[c].halted = TRUE,
                                      !.thread[c].ast = @ \ {"HALT"}])
            /\ Goto(c, "halting")

HaltBlocks(c) ==
    /\ \/ At(c, "halting") /\ Goto(c, "user")
       \/ At(c, "zombie") /\ Goto(c, "dead")
    /\ Becomes(Block(Kernel, c))

-----------------------------------------------------------------------------
(* thread_terminate.                                                       *)

\* Of the current thread: it will queue itself for the reaper on its way out.
TerminateSelf(k, c) ==
    LET deaf == ipc_thread_disable(k, c)
    IN  IF k.thread[c].active
        THEN [deaf EXCEPT !.thread[c].active = FALSE,
                          !.thread[c].ast = @ \cup {"TERMINATE"}]
        ELSE deaf

BeingTerminated(c) ==
    \/ ~thread[c].active
    \/ thread[c].task # NoTask /\ ~task[thread[c].task].active

\* A thread reached by its port, with a reference for the call.
ThreadCall(c, t, op, at) ==
    /\ At(c, "user")
    /\ thread[t].port = "on"
    /\ call' = [call EXCEPT ![c] = [User EXCEPT !.at = at, !.op = op,
                                                !.object = t, !.held = "thread"]]

thread_terminate(c, t) ==
    /\ ThreadCall(c, t, "kill", "kill")
    /\ thread' = [thread EXCEPT ![t].ref_count = @ + 1]
    /\ UNCHANGED <<task, running, reaper_queue, panicked>>

\* The port is disabled before the checks, and stays so when they fail.
KillChecks(c) ==
    LET t == call[c].object
        deaf == ipc_thread_disable(Kernel, t)
    IN  /\ At(c, "kill")
        /\ IF t = c \/ BeingTerminated(c)
           THEN Becomes(TerminateSelf(deaf, c)) /\ Goto(c, "return")
           ELSE IF ~thread[t].active
           THEN Becomes(deaf) /\ Goto(c, "return")
           ELSE /\ Becomes([deaf EXCEPT !.thread[t].active = FALSE])
                /\ call' = [call EXCEPT ![c].at = "halt", ![c].target = t,
                                        ![c].why = "kill"]

\* The victim is halted: thread_terminate and thread_force_terminate shut its
\* IPC down, and whoever made it inactive gives its own reference up.
VictimHalted(c) ==
    LET l == call[c]
        then == IF l.why = "force" THEN "loop" ELSE "return"
        rest == [l EXCEPT !.target = NoThread, !.why = "none",
                          !.halting = FALSE, !.deallocate_here = FALSE]
    IN  /\ At(c, "halted")
        /\ Becomes(ipc_thread_terminate(Kernel, l.target))
        /\ IF l.why = "kill" \/ l.deallocate_here
           THEN Deallocate(c, l.target, rest, then)
           ELSE call' = [call EXCEPT ![c] = [rest EXCEPT !.at = then]]

\* The reaper waits for a thread to have stopped and frees it.
ReaperStep(c) ==
    /\ c = Reaper /\ At(c, "reap")
    /\ IF reaper_queue = <<>>
       THEN Becomes(Sleep(Kernel, c, FALSE)) /\ UNCHANGED call
       ELSE /\ Becomes([Kernel EXCEPT !.reaper_queue = Tail(@)])
            /\ call' = [call EXCEPT ![c].at = "dowait", ![c].why = "reap",
                                    ![c].target = Head(reaper_queue)]

-----------------------------------------------------------------------------
(* thread_resume, here of a thread that was created stopped.               *)

thread_resume(c, t) ==
    /\ ThreadCall(c, t, "resume", IF thread[t].user_stop_count = 1
                                  THEN "release" ELSE "return")
    /\ thread[t].user_stop_count > 0
    /\ thread' = [thread EXCEPT ![t].user_stop_count = @ - 1,
                                ![t].ref_count = @ + 1]
    /\ UNCHANGED <<task, running, reaper_queue, panicked>>

ResumeReleases(c) ==
    /\ At(c, "release")
    /\ Becomes(thread_release(Kernel, call[c].object))
    /\ Goto(c, "return")

\* The end of a call: the message interface gives its reference up.
ReturnFromCall(c) ==
    LET l == call[c]
    IN  /\ At(c, "return")
        /\ CASE l.held = "thread" ->
                    Deallocate(c, l.object, User, "user") /\ Becomes(Kernel)
             [] l.held = "task" ->
                    /\ Becomes(ReleaseTask(Kernel, l.task))
                    /\ call' = [call EXCEPT ![c] =
                            [User EXCEPT !.at = ReturnTo(c, "user")]]
             [] l.held = "none" ->
                    /\ Becomes(Kernel)
                    /\ call' = [call EXCEPT ![c].at =
                            IF l.exiting THEN "halt_self"
                                         ELSE ReturnTo(c, "user")]

ThreadStep(c) ==
    \/ thread_deallocate(c)
    \/ DeallocateLast(c)
    \/ thread_dowait(c)
    \/ DowaitAwake(c)
    \/ thread_halt(c)
    \/ HaltAwake(c)
    \/ HaltChecks(c)
    \/ thread_halt_self(c)
    \/ HaltBlocks(c)
    \/ KillChecks(c)
    \/ VictimHalted(c)
    \/ ReaperStep(c)
    \/ ResumeReleases(c)
    \/ ReturnFromCall(c)

=============================================================================
