----------------------------- MODULE ThreadSwap -----------------------------
(***************************************************************************)
(* kern/thread_swap.c: the threads that unwire and wire the kernel stacks  *)
(* of other threads, and thread_swappable, which pins a thread in memory.  *)
(* Each of the two swapper threads works on one thread at a time; the      *)
(* paging it does in between takes any time, and the thread may be woken   *)
(* or stopped meanwhile.                                                   *)
(***************************************************************************)
EXTENDS ThreadState

CONSTANTS
    MaySwap,            \* threads idle for long enough to be swapped out
    MayMakeSwappable    \* <<c, t>>: c calls thread_swappable on t

ASSUME SwapsAreCalls == /\ MaySwap \subseteq Threads
                        /\ MayMakeSwappable \subseteq Threads \X Threads

-----------------------------------------------------------------------------
(* The swapout thread.                                                     *)

\* swapout_scan picks the thread; how long it slept is not modelled.
SwapoutStarts(t) ==
    /\ swapper.out = NoThread
    /\ thread[t].state \cap {"RUN", "SWAPPED"} = {}
    /\ thread[t].swap_state = "IN"
    /\ thread[t].interruptible
    /\ thread' = [thread EXCEPT ![t].state = @ \cup {"SWAPPED"},
                                ![t].swap_state = "GOING_OUT"]
    /\ swapper' = [swapper EXCEPT !.out = t]
    /\ UNCHANGED <<cpu, runq, idle_queue, wait_queue, swapin_queue, timer, call,
                   panicked>>

\* thread_swapout's last section: the stack is unwired by now.
Out(k, t) == [k EXCEPT !.thread[t].swap_state = "OUT",
                       !.thread[t].make_unswappable = FALSE]

\* (mutant) A thread that was woken meanwhile is forgotten.
BadSwapoutEnds ==
    /\ swapper.out # NoThread
    /\ Becomes(Out(Kernel, swapper.out))
    /\ swapper' = [swapper EXCEPT !.out = NoThread]
    /\ UNCHANGED call

SwapoutEnds ==
    LET t == swapper.out
        k == Out(Kernel, t)
    IN  /\ t # NoThread
        /\ Becomes(CASE thread[t].swap_state = "GOING_OUT" -> k
                     [] thread[t].swap_state = "WANT_IN" ->
                            thread_swapin(k, t, thread[t].make_unswappable)
                     [] OTHER -> Panic(Kernel, "thread_swapout"))
        /\ swapper' = [swapper EXCEPT !.out = NoThread]
        /\ UNCHANGED call

-----------------------------------------------------------------------------
(* The swapin thread.                                                      *)

SwapinStarts ==
    /\ swapper.in = NoThread
    /\ swapin_queue # <<>>
    /\ swapper' = [swapper EXCEPT !.in = Head(swapin_queue)]
    /\ swapin_queue' = Tail(swapin_queue)
    /\ UNCHANGED <<thread, cpu, runq, idle_queue, wait_queue, timer, call,
                   panicked>>

\* thread_doswapin's last section: the stack is wired by now.
thread_doswapin(k, t) ==
    LET pinned == k.thread[t].make_unswappable
        in == [k EXCEPT
                !.thread[t].swap_state = IF pinned THEN "UNSWAPPABLE" ELSE "IN",
                !.thread[t].make_unswappable = FALSE]
        told == IF pinned THEN thread_wakeup(in, SwapEvent(t), "AWAKENED")
                ELSE in
        here == [told EXCEPT !.thread[t].state = @ \ {"SWAPPED"}]
    IN  IF "RUN" \in here.thread[t].state THEN thread_setrun(here, t) ELSE here

SwapinEnds ==
    /\ swapper.in # NoThread
    /\ Becomes(thread_doswapin(Kernel, swapper.in))
    /\ swapper' = [swapper EXCEPT !.in = NoThread]
    /\ UNCHANGED call

-----------------------------------------------------------------------------
(* thread_swappable.                                                       *)

MakeSwappable(c, t) ==
    /\ At(c, "run")
    /\ thread[t].swap_state = "UNSWAPPABLE"
    /\ thread' = [thread EXCEPT ![t].swap_state = "IN"]
    /\ UNCHANGED <<cpu, runq, idle_queue, wait_queue, swapin_queue, timer, call,
                   swapper, panicked>>

\* The body of its loop: ask the swapin thread to pin t, and sleep.
AsksToPin(c, t) ==
    Becomes(assert_wait(thread_swapin(Kernel, t, TRUE), c, SwapEvent(t), FALSE))

MakeUnswappable(c, t) ==
    /\ At(c, "run")
    /\ \/ /\ thread[t].swap_state = "IN"
          /\ Becomes([Kernel EXCEPT !.thread[t].swap_state = "UNSWAPPABLE"])
          /\ UNCHANGED call
       \/ /\ thread[t].swap_state \notin {"IN", "UNSWAPPABLE"}
          /\ AsksToPin(c, t)
          /\ Enter(c, "swappable_sleep", t, FALSE, "swappable")
    /\ UNCHANGED swapper

\* It sleeps again unless it finds the thread pinned.
SwappableAwake(c) ==
    LET t == call[c].target
    IN  /\ At(c, "swappable_awake")
        /\ \/ /\ thread[t].swap_state = "UNSWAPPABLE"
              /\ Return(c)
              /\ Becomes(Kernel)
           \/ /\ thread[t].swap_state # "UNSWAPPABLE"
              /\ AsksToPin(c, t)
              /\ Goto(c, "swappable_sleep")
        /\ UNCHANGED swapper

-----------------------------------------------------------------------------

SwapperNext == SwapoutEnds \/ SwapinStarts \/ SwapinEnds

SwapNext ==
    \/ \E t \in MaySwap : SwapoutStarts(t)
    \/ SwapperNext
    \/ \E s \in MayMakeSwappable :
            MakeSwappable(s[1], s[2]) \/ MakeUnswappable(s[1], s[2])
    \/ \E c \in Threads : SwappableAwake(c)

=============================================================================
