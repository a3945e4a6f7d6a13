------------------------------ MODULE KernLock ------------------------------
(***************************************************************************)
(* The reader/writer sleep lock of kern/lock.c (struct lock, kern/lock.h). *)
(*                                                                         *)
(* Every routine takes l->interlock, works on the fields of the lock and   *)
(* lets the interlock go, so a section between simple_lock and             *)
(* simple_unlock (or thread_sleep, which drops it) is one step here.  A    *)
(* routine that has to wait goes round a loop; pc[t] names the loop and    *)
(* phase[t] says how thread t waits in it: "awake" is about to test the    *)
(* condition, "spin" has let the interlock go for lock_wait_time, "asleep" *)
(* is in thread_sleep on the event (int)l.                                 *)
(*                                                                         *)
(* mode and nested are what the callers hold.  The code does not keep      *)
(* them: lock_done and lock_write_to_read guess what is released from the  *)
(* fields, and that the guess is right is what the invariants say.         *)
(*                                                                         *)
(* An operator named Bad... is a faulty variant of the definition after    *)
(* it, which a property must be able to tell from the right one.           *)
(***************************************************************************)
EXTENDS Integers, FiniteSets

CONSTANTS
  Threads,        \* the threads that use the lock
  NoThread,       \* (char *)-1, "nobody" in l->thread
  lock_wait_time, \* turns of the spin loop, 0 on a uniprocessor
  MaxNest         \* bound on nested holds of a recursive owner

ASSUME ThreadsAssumption == IsFiniteSet(Threads) /\ NoThread \notin Threads
ASSUME WaitTimeAssumption == lock_wait_time \in Nat
ASSUME MaxNestAssumption == MaxNest \in Nat

VARIABLES
  want_write,      \* a writer is waiting or has the lock
  want_upgrade,    \* an upgrade is waiting or has the lock
  waiting,         \* somebody sleeps on the lock
  can_sleep,       \* attempts to lock may sleep
  read_count,      \* accepted readers
  thread,          \* recursive owner
  recursion_depth, \* nested write holds of the owner
  pc,              \* the wait loop each thread is in, or "idle"
  phase,           \* how it waits there
  mode,            \* caller's view: what each thread holds
  nested           \* caller's view: nested read holds of the owner

flags == <<want_write, want_upgrade>>
sleepers == <<waiting, phase>>
owner == <<thread, recursion_depth>>
holds == <<mode, nested>>
vars == <<flags, sleepers, can_sleep, read_count, owner, pc, holds>>

Loops == {"want_write", "drain", "read", "upgrade", "try_upgrade"}

Modes == {"none", "read", "write", "upgrade"}

\* Values can_sleep may have.  Without a spin time a thread that may not
\* sleep would turn in its loop with the interlock held, for ever.
Sleepable == IF lock_wait_time = 0 THEN {TRUE} ELSE BOOLEAN

TypeOK ==
  /\ want_write \in BOOLEAN
  /\ want_upgrade \in BOOLEAN
  /\ waiting \in BOOLEAN
  /\ can_sleep \in Sleepable
  /\ read_count \in Nat
  /\ thread \in Threads \cup {NoThread}
  /\ recursion_depth \in Nat
  /\ pc \in [Threads -> Loops \cup {"idle"}]
  /\ phase \in [Threads -> {"awake", "spin", "asleep"}]
  /\ mode \in [Threads -> Modes]
  /\ nested \in Nat

\* lock_init
Init ==
  /\ want_write = FALSE
  /\ want_upgrade = FALSE
  /\ waiting = FALSE
  /\ can_sleep \in Sleepable
  /\ read_count = 0
  /\ thread = NoThread
  /\ recursion_depth = 0
  /\ pc = [t \in Threads |-> "idle"]
  /\ phase = [t \in Threads |-> "awake"]
  /\ mode = [t \in Threads |-> "none"]
  /\ nested = 0

-----------------------------------------------------------------------------
(* Sleeping and waking                                                     *)

\* thread_wakeup((int) l), if l->waiting says that somebody sleeps.
WakeSleepers ==
  /\ waiting' = FALSE
  /\ phase' = IF waiting
              THEN [t \in Threads |->
                     IF phase[t] = "asleep" THEN "awake" ELSE phase[t]]
              ELSE phase

\* thread_sleep((int) l, interlock, FALSE)
Sleep(t) ==
  /\ waiting' = TRUE
  /\ phase' = [phase EXCEPT ![t] = "asleep"]

\* Body of a wait loop whose condition holds: spin first if there is a spin
\* time, then sleep if the lock is sleepable, else go round again.
Pause(t, loop, spun) ==
  /\ pc' = [pc EXCEPT ![t] = loop]
  /\ \/ /\ lock_wait_time > 0 /\ ~spun
        /\ phase' = [phase EXCEPT ![t] = "spin"]
        /\ UNCHANGED waiting
     \/ /\ lock_wait_time = 0 \/ spun
        /\ can_sleep
        /\ Sleep(t)
     \/ /\ lock_wait_time = 0 \/ spun
        /\ ~can_sleep
        /\ phase' = [phase EXCEPT ![t] = "awake"]
        /\ UNCHANGED waiting

\* The routine returns to its caller, which then holds m.
Return(t, m) ==
  /\ pc' = [pc EXCEPT ![t] = "idle"]
  /\ phase' = [phase EXCEPT ![t] = "awake"]
  /\ mode' = [mode EXCEPT ![t] = m]
  /\ UNCHANGED waiting

\* Thread t is in a wait loop and able to take the interlock again.
InLoop(t, loop) == pc[t] = loop /\ phase[t] # "asleep"

Spun(t) == phase[t] = "spin"

Readers == {t \in Threads : mode[t] = "read"}

-----------------------------------------------------------------------------
(* lock_write                                                              *)

\* Faulty: the writer does not wait for an upgrade.
BadReadersOrUpgrade == read_count # 0

ReadersOrUpgrade == read_count # 0 \/ want_upgrade

\* The second loop: wait for readers and upgrades to finish.
Drain(t, spun) ==
  \/ /\ ReadersOrUpgrade
     /\ Pause(t, "drain", spun)
     /\ UNCHANGED mode
  \/ /\ ~ReadersOrUpgrade
     /\ Return(t, "write")

\* The first loop: acquire the want_write bit, then fall into the second.
AcquireWantWrite(t, spun) ==
  /\ \/ /\ want_write
        /\ Pause(t, "want_write", spun)
        /\ UNCHANGED <<want_write, mode>>
     \/ /\ ~want_write
        /\ want_write' = TRUE
        /\ Drain(t, FALSE)
  /\ UNCHANGED <<want_upgrade, can_sleep, read_count, owner, nested>>

\* lock_write and lock_try_write by the recursive owner, while it holds the
\* lock for writing (vm_fault_unwire's use of the map lock).
NestedWrite(t) ==
  /\ thread = t
  /\ mode[t] = "write" /\ recursion_depth < MaxNest
  /\ recursion_depth' = recursion_depth + 1
  /\ UNCHANGED <<flags, sleepers, can_sleep, read_count, thread, pc, holds>>

lock_write(t) ==
  /\ pc[t] = "idle"
  /\ \/ NestedWrite(t)
     \/ /\ thread # t
        /\ mode[t] = "none"
        /\ AcquireWantWrite(t, FALSE)

lock_write_loop(t) ==
  \/ InLoop(t, "want_write") /\ AcquireWantWrite(t, Spun(t))
  \/ /\ InLoop(t, "drain")
     /\ Drain(t, Spun(t))
     /\ UNCHANGED <<flags, can_sleep, read_count, owner, nested>>

-----------------------------------------------------------------------------
(* lock_read                                                               *)

\* Faulty: readers do not wait behind a writer.
BadWriterOrUpgrade == want_upgrade

WriterOrUpgrade == want_write \/ want_upgrade

AcquireRead(t, spun) ==
  /\ \/ /\ WriterOrUpgrade
        /\ Pause(t, "read", spun)
        /\ UNCHANGED <<read_count, mode>>
     \/ /\ ~WriterOrUpgrade
        /\ read_count' = read_count + 1
        /\ Return(t, "read")
  /\ UNCHANGED <<flags, can_sleep, owner, nested>>

\* lock_read and lock_try_read by the recursive owner.
NestedRead(t) ==
  /\ thread = t
  /\ nested < MaxNest
  /\ read_count' = read_count + 1
  /\ nested' = nested + 1
  /\ UNCHANGED <<flags, sleepers, can_sleep, owner, pc, mode>>

lock_read(t) ==
  /\ pc[t] = "idle"
  /\ \/ NestedRead(t)
     \/ thread # t /\ mode[t] = "none" /\ AcquireRead(t, FALSE)

lock_read_loop(t) == InLoop(t, "read") /\ AcquireRead(t, Spun(t))

-----------------------------------------------------------------------------
(* lock_done and lock_write_to_read                                        *)

\* What the caller means to release: a nested hold of the owner, or what
\* the thread holds.  Nested reads go before nested writes.
NestedHolds == nested + recursion_depth

ReleaseHold(t) ==
  IF thread = t
    THEN /\ nested' = IF nested > 0 THEN nested - 1 ELSE nested
         /\ UNCHANGED mode
    ELSE /\ mode' = [mode EXCEPT ![t] = "none"]
         /\ UNCHANGED nested

\* Faulty: want_write is tried before want_upgrade.
Bad_lock_done(t) ==
  /\ pc[t] = "idle"
  /\ mode[t] # "none"
  /\ thread = t => NestedHolds > 0
  /\ \/ /\ read_count # 0
        /\ read_count' = read_count - 1
        /\ UNCHANGED <<flags, recursion_depth>>
     \/ /\ read_count = 0 /\ recursion_depth # 0
        /\ recursion_depth' = recursion_depth - 1
        /\ UNCHANGED <<flags, read_count>>
     \/ /\ read_count = 0 /\ recursion_depth = 0
        /\ want_write' = FALSE
        /\ want_upgrade' = (want_write /\ want_upgrade)
        /\ UNCHANGED <<recursion_depth, read_count>>
  /\ ReleaseHold(t)
  /\ WakeSleepers
  /\ UNCHANGED <<can_sleep, thread, pc>>

\* The owner clears its mark before it releases its last hold (vm_map.c).
lock_done(t) ==
  /\ pc[t] = "idle"
  /\ mode[t] # "none"
  /\ thread = t => NestedHolds > 0
  /\ \/ /\ read_count # 0
        /\ read_count' = read_count - 1
        /\ UNCHANGED <<flags, recursion_depth>>
     \/ /\ read_count = 0 /\ recursion_depth # 0
        /\ recursion_depth' = recursion_depth - 1
        /\ UNCHANGED <<flags, read_count>>
     \/ /\ read_count = 0 /\ recursion_depth = 0 /\ want_upgrade
        /\ want_upgrade' = FALSE
        /\ UNCHANGED <<want_write, recursion_depth, read_count>>
     \/ /\ read_count = 0 /\ recursion_depth = 0 /\ ~want_upgrade
        /\ want_write' = FALSE
        /\ UNCHANGED <<want_upgrade, recursion_depth, read_count>>
  /\ ReleaseHold(t)
  /\ WakeSleepers
  /\ UNCHANGED <<can_sleep, thread, pc>>

\* The caller holds the lock for writing; a nested write hold of the owner
\* becomes a nested read hold.
lock_write_to_read(t) ==
  /\ pc[t] = "idle"
  /\ mode[t] \in {"write", "upgrade"}
  /\ read_count' = read_count + 1
  /\ \/ /\ recursion_depth # 0
        /\ recursion_depth' = recursion_depth - 1
        /\ nested < MaxNest
        /\ nested' = nested + 1
        /\ UNCHANGED <<flags, mode>>
     \/ /\ recursion_depth = 0
        /\ IF want_upgrade
             THEN want_upgrade' = FALSE /\ UNCHANGED want_write
             ELSE want_write' = FALSE /\ UNCHANGED want_upgrade
        /\ mode' = [mode EXCEPT ![t] = "read"]
        /\ UNCHANGED <<nested, recursion_depth>>
  /\ WakeSleepers
  /\ UNCHANGED <<can_sleep, thread, pc>>

-----------------------------------------------------------------------------
(* lock_read_to_write and lock_try_read_to_write                           *)

\* A nested read hold of the owner becomes a nested write hold.
NestedUpgrade(t) ==
  /\ thread = t
  /\ mode[t] = "write" /\ nested > 0 /\ recursion_depth < MaxNest
  /\ read_count' = read_count - 1
  /\ nested' = nested - 1
  /\ recursion_depth' = recursion_depth + 1
  /\ UNCHANGED <<flags, sleepers, can_sleep, thread, pc, mode>>

\* Wait for the readers left (rc of them) to finish.
DrainReaders(t, rc, spun) ==
  \/ rc # 0 /\ Pause(t, "upgrade", spun) /\ mode' = [mode EXCEPT ![t] = "none"]
  \/ rc = 0 /\ Return(t, "upgrade")

\* Faulty: the read lock is given up and nobody is told.
BadUpgradeFails(t) ==
  /\ want_upgrade
  /\ mode' = [mode EXCEPT ![t] = "none"]
  /\ UNCHANGED <<want_upgrade, pc, sleepers>>

\* Somebody else is upgrading: the read lock is given up and he is woken.
UpgradeFails(t) ==
  /\ want_upgrade
  /\ mode' = [mode EXCEPT ![t] = "none"]
  /\ WakeSleepers
  /\ UNCHANGED <<want_upgrade, pc>>

UpgradeStarts(t) ==
  /\ ~want_upgrade
  /\ want_upgrade' = TRUE
  /\ DrainReaders(t, read_count - 1, FALSE)

lock_read_to_write(t) ==
  /\ pc[t] = "idle"
  /\ \/ NestedUpgrade(t)
     \/ /\ thread # t
        /\ mode[t] = "read"
        /\ read_count' = read_count - 1
        /\ UpgradeFails(t) \/ UpgradeStarts(t)
        /\ UNCHANGED <<want_write, can_sleep, owner, nested>>

lock_read_to_write_loop(t) ==
  /\ InLoop(t, "upgrade")
  /\ DrainReaders(t, read_count, Spun(t))
  /\ UNCHANGED <<flags, can_sleep, read_count, owner, nested>>

\* This variant neither spins nor asks can_sleep before it sleeps.
TryDrainReaders(t, rc) ==
  \/ /\ rc # 0
     /\ pc' = [pc EXCEPT ![t] = "try_upgrade"]
     /\ Sleep(t)
     /\ mode' = [mode EXCEPT ![t] = "none"]
  \/ rc = 0 /\ Return(t, "upgrade")

\* FALSE is returned, and the read lock kept, when somebody else upgrades.
lock_try_read_to_write(t) ==
  /\ pc[t] = "idle"
  /\ \/ NestedUpgrade(t)
     \/ /\ thread # t
        /\ mode[t] = "read"
        /\ ~want_upgrade
        /\ want_upgrade' = TRUE
        /\ read_count' = read_count - 1
        /\ TryDrainReaders(t, read_count - 1)
        /\ UNCHANGED <<want_write, can_sleep, owner, nested>>

lock_try_read_to_write_loop(t) ==
  /\ InLoop(t, "try_upgrade")
  /\ TryDrainReaders(t, read_count)
  /\ UNCHANGED <<flags, can_sleep, read_count, owner, nested>>

-----------------------------------------------------------------------------
(* lock_try_write, lock_try_read: nothing changes when they fail           *)

\* Faulty: an upgrade under way is not seen.
Bad_lock_try_write(t) ==
  /\ pc[t] = "idle"
  /\ thread # t
  /\ ~(want_write \/ read_count # 0)
  /\ want_write' = TRUE
  /\ Return(t, "write")
  /\ UNCHANGED <<want_upgrade, can_sleep, read_count, owner, nested>>

lock_try_write(t) ==
  /\ pc[t] = "idle"
  /\ \/ NestedWrite(t)
     \/ /\ thread # t
        /\ ~(want_write \/ want_upgrade \/ read_count # 0)
        /\ want_write' = TRUE
        /\ Return(t, "write")
        /\ UNCHANGED <<want_upgrade, can_sleep, read_count, owner, nested>>

lock_try_read(t) ==
  /\ pc[t] = "idle"
  /\ \/ NestedRead(t)
     \/ /\ thread # t
        /\ mode[t] = "none"
        /\ ~WriterOrUpgrade
        /\ read_count' = read_count + 1
        /\ Return(t, "read")
        /\ UNCHANGED <<flags, can_sleep, owner, nested>>

-----------------------------------------------------------------------------
(* Recursive locking, and lock_sleepable                                   *)

\* The caller got the lock with lock_write; it panics without want_write.
lock_set_recursive(t) ==
  /\ pc[t] = "idle"
  /\ mode[t] = "write" /\ thread # t
  /\ want_write
  /\ thread' = t
  /\ UNCHANGED <<flags, sleepers, can_sleep, read_count, recursion_depth, pc,
                 holds>>

\* The mark stays while nested write holds are left.
lock_clear_recursive(t) ==
  /\ pc[t] = "idle"
  /\ thread = t /\ nested = 0
  /\ thread' = IF recursion_depth = 0 THEN NoThread ELSE thread
  /\ UNCHANGED <<flags, sleepers, can_sleep, read_count, recursion_depth, pc,
                 holds>>

lock_sleepable(value) ==
  /\ can_sleep' = value
  /\ UNCHANGED <<flags, sleepers, read_count, owner, pc, holds>>

-----------------------------------------------------------------------------
Call(t) ==
  \/ lock_write(t) \/ lock_read(t)
  \/ lock_done(t) \/ lock_write_to_read(t)
  \/ lock_read_to_write(t) \/ lock_try_read_to_write(t)
  \/ lock_try_write(t) \/ lock_try_read(t)
  \/ lock_set_recursive(t) \/ lock_clear_recursive(t)

Loop(t) ==
  \/ lock_write_loop(t) \/ lock_read_loop(t)
  \/ lock_read_to_write_loop(t) \/ lock_try_read_to_write_loop(t)

Next ==
  \/ \E t \in Threads : Call(t) \/ Loop(t)
  \/ \E value \in Sleepable : lock_sleepable(value)

Spec == Init /\ [][Next]_vars

\* The release that gives up the thread's own hold, not a nested one.
GivesUp(t) == thread # t /\ lock_done(t)

\* A thread that can take the interlock does so; and no caller keeps the
\* lock for ever: nested holds end, the recursive mark is cleared, and the
\* thread's own hold is given up if it can be given up again and again.
Fairness ==
  \A t \in Threads :
    /\ WF_vars(Loop(t))
    /\ SF_vars(lock_done(t)) /\ SF_vars(GivesUp(t))
    /\ SF_vars(lock_clear_recursive(t))

FairSpec == Spec /\ Fairness

-----------------------------------------------------------------------------
(* Properties                                                              *)

HoldsWrite(t) == mode[t] \in {"write", "upgrade"}

\* A thread that lock_write, lock_try_write or an upgrade has let in is
\* alone: no other thread holds the lock in any mode.
Exclusion ==
  \A t, u \in Threads : t # u /\ HoldsWrite(t) => mode[u] = "none"

\* What keeps a waiting thread in its loop.
Blocked(t) ==
  \/ pc[t] = "want_write" /\ want_write
  \/ pc[t] = "drain" /\ ReadersOrUpgrade
  \/ pc[t] = "read" /\ WriterOrUpgrade
  \/ pc[t] \in {"upgrade", "try_upgrade"} /\ read_count # 0

\* No wakeup is lost: whoever sleeps still has a reason to, and the waiting
\* flag is set, so that the release that removes the reason wakes him.
NoLostWakeup ==
  \A t \in Threads : phase[t] = "asleep" => waiting /\ Blocked(t)

\* From the moment lock_read_to_write gives up its read hold until it
\* returns, nobody else gets the write lock: what the caller read under the
\* read lock is still true when the upgrade succeeds (vm_map_lookup).
Upgrading(t) == pc[t] \in {"upgrade", "try_upgrade"}

UpgradeAtomic ==
  \A t, u \in Threads : t # u /\ Upgrading(t) => ~HoldsWrite(u)

\* The guess lock_done makes from the fields is what the callers hold:
\* read_count counts them, so "lock upgrade w/o read lock" cannot happen,
\* want_write and want_upgrade are set exactly while somebody has or awaits
\* that hold, and at most one thread does.
FieldsExact ==
  /\ read_count = Cardinality(Readers) + nested
  /\ want_write <=> \E t \in Threads : mode[t] = "write" \/ pc[t] = "drain"
  /\ want_upgrade <=> \E t \in Threads : mode[t] = "upgrade" \/ Upgrading(t)
  /\ thread = NoThread => nested = 0 /\ recursion_depth = 0

\* A writer that has the want_write bit gets the lock: new readers are kept
\* out, and upgrades run dry because an upgraded hold ends.
WriterGetsIn ==
  \A t \in Threads : pc[t] = "drain" ~> mode[t] = "write"

\* An upgrade that has started is completed.
UpgraderGetsIn ==
  \A t \in Threads : Upgrading(t) ~> mode[t] = "upgrade"

\* The lock's fields and loops implement a reader/writer lock whose waiting
\* writer and waiting upgrader are the threads in those loops.
Abstract == INSTANCE RWLock
  WITH claimed <- {t \in Threads : pc[t] = "drain"},
       upgrading <- {t \in Threads : Upgrading(t)}

ImplementsRWLock == Abstract!Spec
=============================================================================
