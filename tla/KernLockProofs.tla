--------------------------- MODULE KernLockProofs ---------------------------
(***************************************************************************)
(* Proofs that the lock of kern/lock.c excludes, never loses a wakeup and  *)
(* implements RWLock, for any set of threads, spin time and nesting bound. *)
(***************************************************************************)
EXTENDS KernLock, FiniteSetTheorems, TLAPS

Waits(t) == pc[t] \in {"upgrade", "try_upgrade"}

\* Who may be in together: a thread with a write hold is alone, and at most
\* one thread owns, or waits for readers to own, each of the two bits.
Apart ==
  \A t, u \in Threads : t # u =>
    /\ mode[t] \in {"write", "upgrade"} => mode[u] = "none"
    /\ Waits(t) => mode[u] \notin {"write", "upgrade"} /\ ~Waits(u)
    /\ pc[t] = "drain" => mode[u] # "write" /\ pc[u] # "drain"

\* A thread that waits holds nothing, one that does not is awake.  The
\* recursive owner holds what it got with lock_write, or what it has
\* downgraded that to, and has nested write holds only in the first case.
Holding ==
  /\ \A t \in Threads :
       /\ pc[t] # "idle" => mode[t] = "none"
       /\ pc[t] = "idle" => phase[t] = "awake"
  /\ thread # NoThread => mode[thread] \in {"write", "read"}
  /\ thread = NoThread => nested = 0 /\ recursion_depth = 0
  /\ recursion_depth > 0 => mode[thread] = "write"

Counted == read_count = Cardinality(Readers) + nested

Bits ==
  /\ want_write <=> \E t \in Threads : mode[t] = "write" \/ pc[t] = "drain"
  /\ want_upgrade <=> \E t \in Threads : mode[t] = "upgrade" \/ Waits(t)

\* NoLostWakeup, spelled out.
Sleeping ==
  \A t \in Threads : phase[t] = "asleep" =>
    /\ waiting
    /\ \/ pc[t] = "want_write" /\ want_write
       \/ pc[t] = "drain" /\ (read_count # 0 \/ want_upgrade)
       \/ pc[t] = "read" /\ (want_write \/ want_upgrade)
       \/ Waits(t) /\ read_count # 0

\* The inductive invariant.
IInv == TypeOK /\ Apart /\ Holding /\ Counted /\ Bits /\ Sleeping

-----------------------------------------------------------------------------
(* What a change of one thread's mode does to the number of readers.       *)

LEMMA ReadersFinite ==
  IsFiniteSet(Readers) /\ Cardinality(Readers) \in Nat
<1>1. Readers \subseteq Threads
  BY DEF Readers
<1>2. IsFiniteSet(Readers)
  BY <1>1, ThreadsAssumption, FS_Subset
<1> QED
  BY <1>2, FS_CardinalityType

\* lock_read lets a thread in.
LEMMA ReaderComes ==
  ASSUME TypeOK, NEW t \in Threads, mode[t] # "read",
         mode' = [mode EXCEPT ![t] = "read"]
  PROVE  Cardinality(Readers)' = Cardinality(Readers) + 1
<1>1. Readers' = Readers \cup {t}
  BY DEF Readers, TypeOK
<1>2. t \notin Readers
  BY DEF Readers
<1> QED
  BY <1>1, <1>2, ReadersFinite, FS_AddElement

\* A reader releases or upgrades.
LEMMA ReaderGoes ==
  ASSUME TypeOK, NEW t \in Threads, mode[t] = "read", NEW m, m # "read",
         mode' = [mode EXCEPT ![t] = m]
  PROVE  Cardinality(Readers)' = Cardinality(Readers) - 1
<1>1. Readers' = Readers \ {t}
  BY DEF Readers, TypeOK
<1>2. t \in Readers
  BY DEF Readers
<1> QED
  BY <1>1, <1>2, ReadersFinite, FS_RemoveElement

\* Any other change.
LEMMA ReadersStay ==
  ASSUME TypeOK, NEW t \in Threads, mode[t] # "read", NEW m, m # "read",
         mode' = [mode EXCEPT ![t] = m]
  PROVE  Cardinality(Readers)' = Cardinality(Readers)
<1>1. Readers' = Readers
  BY DEF Readers, TypeOK
<1> QED
  BY <1>1

\* A zero read_count really means that nobody reads.
LEMMA ZeroMeansNone ==
  ASSUME TypeOK, Counted
  PROVE  read_count = 0 => nested = 0 /\ \A u \in Threads : mode[u] # "read"
<1> SUFFICES ASSUME read_count = 0
    PROVE  nested = 0 /\ \A u \in Threads : mode[u] # "read"
  OBVIOUS
<1>1. Cardinality(Readers) = 0 /\ nested = 0
  BY ReadersFinite DEF Counted, TypeOK
<1>2. Readers = {}
  BY <1>1, ReadersFinite, FS_EmptySet
<1> QED
  BY <1>1, <1>2 DEF Readers

\* One reader left is the only one.
LEMMA OneMeansAlone ==
  ASSUME TypeOK, Counted, NEW t \in Threads, mode[t] = "read"
  PROVE  /\ read_count > 0
         /\ read_count - 1 = 0 =>
              nested = 0 /\ \A u \in Threads : u # t => mode[u] # "read"
<1>1. t \in Readers /\ IsFiniteSet(Readers \ {t})
  BY ReadersFinite, FS_RemoveElement DEF Readers
<1>2. /\ Cardinality(Readers \ {t}) = Cardinality(Readers) - 1
      /\ Cardinality(Readers \ {t}) \in Nat
  BY <1>1, ReadersFinite, FS_RemoveElement, FS_CardinalityType
<1>3. read_count > 0
  BY <1>2, ReadersFinite DEF Counted, TypeOK
<1>4. ASSUME read_count - 1 = 0
      PROVE  nested = 0 /\ Cardinality(Readers \ {t}) = 0
  BY <1>2, <1>4, ReadersFinite DEF Counted, TypeOK
<1>5. ASSUME read_count - 1 = 0
      PROVE  nested = 0 /\ \A u \in Threads : u # t => mode[u] # "read"
  <2>1. Readers \ {t} = {}
    BY <1>1, <1>4, <1>5, FS_EmptySet
  <2> QED
    BY <1>4, <1>5, <2>1 DEF Readers
<1> QED
  BY <1>3, <1>5

-----------------------------------------------------------------------------
(* One lemma for each routine or loop that changes a thread's hold.        *)

USE DEF Waits

\* After a wakeup nobody sleeps.
LEMMA Wakes ==
  ASSUME TypeOK, Sleeping, WakeSleepers
  PROVE  /\ waiting' = FALSE
         /\ phase' \in [Threads -> {"awake", "spin", "asleep"}]
         /\ \A u \in Threads : phase'[u] # "asleep"
         /\ \A u \in Threads : phase[u] = "awake" => phase'[u] = "awake"
<1>1. CASE waiting
  BY <1>1 DEF WakeSleepers, TypeOK
<1>2. CASE ~waiting
  BY <1>2 DEF WakeSleepers, Sleeping, TypeOK
<1> QED
  BY <1>1, <1>2 DEF TypeOK

\* A thread that finds no reader, and no bit that is not its own, is alone.
LEMMA Alone ==
  ASSUME IInv, NEW t \in Threads, read_count = 0,
         ~want_write \/ mode[t] = "write" \/ pc[t] = "drain" \/ Waits(t),
         ~want_upgrade \/ mode[t] = "upgrade" \/ Waits(t)
  PROVE  nested = 0 /\ \A u \in Threads : u # t => mode[u] = "none"
BY ZeroMeansNone DEF IInv, TypeOK, Modes, Apart, Bits

-----------------------------------------------------------------------------
(* One lemma for each effect that a pass through a routine can have.  It   *)
(* keeps the invariant, and is a step of RWLock or shows nothing there.    *)

RWStep == [Abstract!Next]_(Abstract!vars)

\* What Pause does to the lock, whether t spins, sleeps or turns round.
Paused(t, how) ==
  /\ how \in {"awake", "spin", "asleep"}
  /\ phase' = [phase EXCEPT ![t] = how]
  /\ waiting' = (waiting \/ how = "asleep")

LEMMA PauseEffect ==
  ASSUME TypeOK, NEW t \in Threads, NEW loop, NEW spun, Pause(t, loop, spun)
  PROVE  /\ pc' = [pc EXCEPT ![t] = loop]
         /\ \E how : Paused(t, how)
BY DEF Pause, Paused, Sleep, TypeOK

\* t goes on waiting, for a reason that is still there.
LEMMA Waiting ==
  ASSUME IInv, NEW t \in Threads, NEW loop \in Loops, NEW how,
         pc[t] = loop \/ (pc[t] = "idle" /\ loop \in {"want_write", "read"}),
         mode[t] = "none",
         \/ loop = "want_write" /\ want_write
         \/ loop = "drain" /\ (read_count # 0 \/ want_upgrade)
         \/ loop = "read" /\ (want_write \/ want_upgrade)
         \/ loop \in {"upgrade", "try_upgrade"} /\ read_count # 0,
         pc' = [pc EXCEPT ![t] = loop],
         Paused(t, how),
         UNCHANGED <<want_write, want_upgrade, can_sleep, read_count, thread,
                     recursion_depth, mode, nested>>
  PROVE  IInv' /\ RWStep
<1> USE DEF IInv, Paused
<1>1. TypeOK'
  BY DEF TypeOK
<1>2. Apart'
  BY DEF TypeOK, Apart
<1>3. Holding'
  BY DEF TypeOK, Holding, Loops
<1>4. Counted'
  BY DEF Counted, Readers
<1>5. Bits'
  BY DEF TypeOK, Bits
<1>6. Sleeping'
  BY DEF TypeOK, Sleeping
<1>7. \A u \in Threads : /\ pc'[u] = "drain" <=> pc[u] = "drain"
                        /\ Waits(u)' <=> Waits(u)
  BY DEF TypeOK, Loops
<1>8. UNCHANGED Abstract!vars
  BY <1>7 DEF Abstract!vars, Upgrading
<1> QED
  BY <1>1, <1>2, <1>3, <1>4, <1>5, <1>6, <1>8 DEF RWStep

\* t gets want_write, and waits for readers and upgrades.
LEMMA Claiming ==
  ASSUME IInv, NEW t \in Threads, NEW how,
         pc[t] = "idle" \/ pc[t] = "want_write", mode[t] = "none",
         ~want_write, read_count # 0 \/ want_upgrade,
         want_write' = TRUE,
         pc' = [pc EXCEPT ![t] = "drain"],
         Paused(t, how),
         UNCHANGED <<want_upgrade, can_sleep, read_count, thread,
                     recursion_depth, mode, nested>>
  PROVE  IInv' /\ RWStep
<1> USE DEF IInv, Paused
<1>1. TypeOK'
  BY DEF TypeOK, Loops
<1>2. Apart'
  BY DEF TypeOK, Apart, Bits
<1>3. Holding'
  BY DEF TypeOK, Holding
<1>4. Counted'
  BY DEF Counted, Readers
<1>5. Bits'
  BY DEF TypeOK, Bits
<1>6. Sleeping'
  BY DEF TypeOK, Sleeping
<1>7. Abstract!Claim(t)
  BY DEF Abstract!Claim, TypeOK, Bits, Upgrading
<1> QED
  BY <1>1, <1>2, <1>3, <1>4, <1>5, <1>6, <1>7 DEF RWStep, Abstract!Next

\* t gets the lock for writing.
LEMMA EnteringWrite ==
  ASSUME IInv, NEW t \in Threads,
         mode[t] = "none", ~Waits(t),
         ~want_write \/ pc[t] = "drain", ~want_upgrade, read_count = 0,
         pc' = [pc EXCEPT ![t] = "idle"],
         phase' = [phase EXCEPT ![t] = "awake"],
         mode' = [mode EXCEPT ![t] = "write"],
         want_write' = TRUE,
         UNCHANGED <<want_upgrade, waiting, can_sleep, read_count, thread,
                     recursion_depth, nested>>
  PROVE  IInv' /\ RWStep
<1> USE DEF IInv
<1>1. \A u \in Threads : u # t => mode[u] = "none"
  BY Alone
<1>2. TypeOK'
  BY DEF TypeOK, Loops, Modes
<1>3. Apart'
  BY <1>1 DEF TypeOK, Apart, Bits
<1>4. Holding'
  BY <1>1 DEF TypeOK, Holding
<1>5. Counted'
  BY ReadersStay, ReadersFinite DEF Counted
<1>6. Bits'
  BY <1>1 DEF TypeOK, Bits
<1>7. Sleeping'
  BY DEF TypeOK, Sleeping
<1>8. Abstract!Write(t)
  <2>1. Abstract!OthersGone(t) /\ Abstract!Holds(t, "write")
    BY <1>1 DEF Abstract!OthersGone, Abstract!Holds
  <2>2. {u \in Threads : pc[u] = "drain"} \subseteq {t}
    BY DEF Apart, Bits
  <2>3. {u \in Threads : pc'[u] = "drain"} = {}
    BY <2>2 DEF TypeOK
  <2>4. {u \in Threads : Upgrading(u)} = {}
    BY DEF Bits, Upgrading
  <2>5. {u \in Threads : Upgrading(u)}' = {}
    BY <2>4 DEF TypeOK, Upgrading
  <2> QED
    BY <2>1, <2>2, <2>3, <2>4, <2>5 DEF Abstract!Write
<1> QED
  BY <1>2, <1>3, <1>4, <1>5, <1>6, <1>7, <1>8 DEF RWStep, Abstract!Next

\* t gets the lock for reading.
LEMMA EnteringRead ==
  ASSUME IInv, NEW t \in Threads,
         mode[t] = "none", pc[t] \in {"idle", "read"}, thread # t,
         ~want_write, ~want_upgrade,
         pc' = [pc EXCEPT ![t] = "idle"],
         phase' = [phase EXCEPT ![t] = "awake"],
         mode' = [mode EXCEPT ![t] = "read"],
         read_count' = read_count + 1,
         UNCHANGED <<want_write, want_upgrade, waiting, can_sleep, thread,
                     recursion_depth, nested>>
  PROVE  IInv' /\ RWStep
<1> USE DEF IInv
<1>1. TypeOK'
  BY DEF TypeOK, Loops, Modes
<1>2. Apart'
  BY DEF TypeOK, Apart, Bits
<1>3. Holding'
  BY DEF TypeOK, Holding
<1>4. Counted'
  <2>1. Cardinality(Readers)' = Cardinality(Readers) + 1
    BY ReaderComes
  <2> QED
    BY <2>1, ReadersFinite DEF Counted, TypeOK
<1>5. Bits'
  BY DEF TypeOK, Bits
<1>6. Sleeping'
  BY DEF TypeOK, Sleeping
<1>7. Abstract!Read(t)
  <2>1. Abstract!NoWriter /\ Abstract!Holds(t, "read")
    BY DEF Abstract!NoWriter, Abstract!Holds, Bits
  <2>2. {u \in Threads : pc[u] = "drain"} = {}
    BY DEF Bits
  <2>3. {u \in Threads : pc'[u] = "drain"} = {}
    BY <2>2 DEF TypeOK
  <2>4. {u \in Threads : Upgrading(u)} = {}
    BY DEF Bits, Upgrading
  <2>5. {u \in Threads : Upgrading(u)}' = {}
    BY <2>4 DEF TypeOK, Upgrading
  <2> QED
    BY <2>1, <2>2, <2>3, <2>4, <2>5 DEF Abstract!Read
<1> QED
  BY <1>1, <1>2, <1>3, <1>4, <1>5, <1>6, <1>7 DEF RWStep, Abstract!Next

\* A reader gives up its hold and waits to upgrade it.
LEMMA StartingUpgrade ==
  ASSUME IInv, NEW t \in Threads, NEW how, NEW loop,
         loop \in {"upgrade", "try_upgrade"},
         pc[t] = "idle", mode[t] = "read", thread # t,
         ~want_upgrade, read_count - 1 # 0,
         want_upgrade' = TRUE,
         read_count' = read_count - 1,
         pc' = [pc EXCEPT ![t] = loop],
         mode' = [mode EXCEPT ![t] = "none"],
         Paused(t, how),
         UNCHANGED <<want_write, can_sleep, thread, recursion_depth, nested>>
  PROVE  IInv' /\ RWStep
<1> USE DEF IInv, Paused
<1>1. read_count - 1 \in Nat
  BY OneMeansAlone DEF TypeOK
<1>2. TypeOK'
  BY <1>1 DEF TypeOK, Loops, Modes
<1>3. Apart'
  BY DEF TypeOK, Apart, Bits
<1>4. Holding'
  BY DEF TypeOK, Holding
<1>5. Counted'
  <2>1. Cardinality(Readers)' = Cardinality(Readers) - 1
    BY ReaderGoes
  <2> QED
    BY <2>1, ReadersFinite DEF Counted, TypeOK
<1>6. Bits'
  BY DEF TypeOK, Bits
<1>7. Sleeping'
  BY DEF TypeOK, Sleeping, Bits
<1>8. Abstract!StartUpgrade(t)
  <2>1. {u \in Threads : Upgrading(u)} = {}
    BY DEF Bits, Upgrading
  <2>2. {u \in Threads : Upgrading(u)}' = {t}
    BY <2>1 DEF TypeOK, Upgrading
  <2>3. \A u \in Threads : pc'[u] = "drain" <=> pc[u] = "drain"
    BY DEF TypeOK
  <2> QED
    BY <2>1, <2>2, <2>3 DEF Abstract!StartUpgrade, Abstract!Holds
<1> QED
  BY <1>2, <1>3, <1>4, <1>5, <1>6, <1>7, <1>8 DEF RWStep, Abstract!Next

\* An upgrade succeeds; rc is what the reader's own release leaves.
LEMMA EnteringUpgrade ==
  ASSUME IInv, NEW t \in Threads,
         \/ /\ mode[t] = "read" /\ pc[t] = "idle" /\ thread # t
            /\ ~want_upgrade /\ read_count - 1 = 0
         \/ mode[t] = "none" /\ Waits(t) /\ read_count = 0,
         want_upgrade' = TRUE,
         read_count' = 0,
         pc' = [pc EXCEPT ![t] = "idle"],
         phase' = [phase EXCEPT ![t] = "awake"],
         mode' = [mode EXCEPT ![t] = "upgrade"],
         UNCHANGED <<want_write, waiting, can_sleep, thread, recursion_depth,
                     nested>>
  PROVE  IInv' /\ RWStep
<1> USE DEF IInv
<1>1. \A u \in Threads : u # t => mode[u] = "none"
  <2>1. CASE mode[t] = "read"
    BY <2>1, OneMeansAlone DEF TypeOK, Modes, Apart
  <2>2. CASE mode[t] # "read"
    BY <2>2, ZeroMeansNone DEF TypeOK, Modes, Apart
  <2> QED
    BY <2>1, <2>2
<1>2. nested = 0 /\ thread # t /\ \A u \in Threads : u # t => ~Waits(u)
  <2>1. CASE mode[t] = "read"
    BY <2>1, OneMeansAlone DEF Bits
  <2>2. CASE mode[t] # "read"
    BY <2>2, ZeroMeansNone, ThreadsAssumption DEF Apart, Holding
  <2> QED
    BY <2>1, <2>2
<1>3. TypeOK'
  BY DEF TypeOK, Loops, Modes
<1>4. Apart'
  BY <1>1, <1>2 DEF TypeOK, Apart
<1>5. Holding'
  BY <1>1, <1>2 DEF TypeOK, Holding
<1>6. Counted'
  <2>1. CASE mode[t] = "read"
    <3>1. Cardinality(Readers)' = Cardinality(Readers) - 1
      BY <2>1, ReaderGoes
    <3> QED
      BY <1>2, <2>1, <3>1, ReadersFinite DEF Counted, TypeOK
  <2>2. CASE mode[t] # "read"
    BY <1>2, <2>2, ReadersStay, ReadersFinite DEF Counted, TypeOK
  <2> QED
    BY <2>1, <2>2
<1>7. Bits'
  BY <1>2 DEF TypeOK, Bits
<1>8. Sleeping'
  BY <1>2 DEF TypeOK, Sleeping
<1>9. Abstract!Upgrade(t)
  <2>1. Abstract!OthersGone(t) /\ Abstract!Holds(t, "upgrade")
    BY <1>1 DEF Abstract!OthersGone, Abstract!Holds
  <2>2. {u \in Threads : Upgrading(u)}' = {}
    BY <1>2 DEF TypeOK, Upgrading
  <2>3. {u \in Threads : Upgrading(u)} = IF mode[t] = "read" THEN {} ELSE {t}
    BY <1>2 DEF Upgrading
  <2>4. \A u \in Threads : pc'[u] = "drain" <=> pc[u] = "drain"
    BY DEF TypeOK
  <2> QED
    BY <2>1, <2>2, <2>3, <2>4 DEF Abstract!Upgrade
<1> QED
  BY <1>3, <1>4, <1>5, <1>6, <1>7, <1>8, <1>9 DEF RWStep, Abstract!Next

\* An upgrade that finds another one under way costs the read hold, and so
\* does a reader's release.
LEMMA LeavingRead ==
  ASSUME IInv, NEW t \in Threads,
         pc[t] = "idle", mode[t] = "read", thread # t,
         read_count' = read_count - 1,
         mode' = [mode EXCEPT ![t] = "none"],
         WakeSleepers,
         UNCHANGED <<want_write, want_upgrade, can_sleep, thread,
                     recursion_depth, pc, nested>>
  PROVE  IInv' /\ RWStep
<1> USE DEF IInv
<1>1. read_count - 1 \in Nat
  BY OneMeansAlone DEF TypeOK
<1>2. TypeOK'
  BY <1>1, Wakes DEF TypeOK, Modes
<1>3. Apart'
  BY DEF TypeOK, Apart
<1>4. Holding'
  <2>1. \A u \in Threads : phase[u] = "awake" => phase'[u] = "awake"
    BY Wakes
  <2> QED
    BY <2>1 DEF TypeOK, Holding
<1>5. Counted'
  <2>1. Cardinality(Readers)' = Cardinality(Readers) - 1
    BY ReaderGoes
  <2> QED
    BY <2>1, ReadersFinite DEF Counted, TypeOK
<1>6. Bits'
  BY DEF TypeOK, Bits
<1>7. Sleeping'
  BY Wakes DEF Sleeping
<1>8. Abstract!Release(t)
  BY DEF Abstract!Release, Abstract!Holds, Upgrading
<1> QED
  BY <1>2, <1>3, <1>4, <1>5, <1>6, <1>7, <1>8 DEF RWStep, Abstract!Next

\* Whoever holds the lock for writing is alone; nested holds are the
\* recursive owner's, who is then that thread.
LEMMA WriterAlone ==
  ASSUME IInv, NEW t \in Threads, mode[t] \in {"write", "upgrade"}
  PROVE  /\ \A u \in Threads : u # t => mode[u] = "none" /\ ~Waits(u)
         /\ read_count = nested
         /\ thread # t => nested = 0 /\ recursion_depth = 0
         /\ mode[t] = "upgrade" => thread # t
         /\ want_upgrade <=> mode[t] = "upgrade"
<1> USE DEF IInv
<1>1. \A u \in Threads : u # t => mode[u] = "none" /\ ~Waits(u)
  BY DEF Apart
<1>2. Readers = {}
  BY <1>1 DEF Readers
<1>3. read_count = nested
  BY <1>2, FS_EmptySet DEF Counted, TypeOK
<1>4. thread # t => thread = NoThread
  BY <1>1 DEF Holding, TypeOK
<1>5. ~Waits(t)
  BY DEF Holding
<1>6. want_upgrade <=> mode[t] = "upgrade"
  BY <1>1, <1>5 DEF Bits
<1> QED
  BY <1>1, <1>3, <1>4, <1>6, ThreadsAssumption DEF Holding

\* lock_done or lock_write_to_read by the thread that has the lock.
LEMMA LeavingWrite ==
  ASSUME IInv, NEW t \in Threads, NEW m \in {"none", "read"},
         pc[t] = "idle", mode[t] \in {"write", "upgrade"},
         recursion_depth = 0, m = "none" => thread # t,
         IF want_upgrade
           THEN want_upgrade' = FALSE /\ UNCHANGED want_write
           ELSE want_write' = FALSE /\ UNCHANGED want_upgrade,
         read_count' = read_count + (IF m = "read" THEN 1 ELSE 0),
         mode' = [mode EXCEPT ![t] = m],
         WakeSleepers,
         UNCHANGED <<can_sleep, thread, recursion_depth, pc, nested>>
  PROVE  IInv' /\ RWStep
<1> USE DEF IInv
<1>1. \A u \in Threads : u # t => mode[u] = "none" /\ ~Waits(u)
  BY WriterAlone
<1>2. want_upgrade <=> mode[t] = "upgrade"
  BY WriterAlone
<1>3. TypeOK'
  <2>1. phase' \in [Threads -> {"awake", "spin", "asleep"}] /\ waiting' = FALSE
    BY Wakes
  <2>2. want_write' \in BOOLEAN /\ want_upgrade' \in BOOLEAN
    BY DEF TypeOK
  <2>3. read_count' \in Nat
    BY DEF TypeOK
  <2> QED
    BY <2>1, <2>2, <2>3 DEF TypeOK, Modes
<1>4. Apart'
  BY <1>1 DEF TypeOK, Apart
<1>5. Holding'
  <2>1. \A u \in Threads : phase[u] = "awake" => phase'[u] = "awake"
    BY Wakes
  <2>2. thread = t => m = "read"
    OBVIOUS
  <2> QED
    BY <1>1, <2>1, <2>2 DEF TypeOK, Holding
<1>6. Counted'
  <2>1. CASE m = "none"
    <3>1. Cardinality(Readers)' = Cardinality(Readers)
      BY <2>1, ReadersStay
    <3> QED
      BY <2>1, <3>1, ReadersFinite DEF Counted, TypeOK
  <2>2. CASE m = "read"
    <3>1. Cardinality(Readers)' = Cardinality(Readers) + 1
      BY <2>2, ReaderComes
    <3> QED
      BY <2>2, <3>1, ReadersFinite DEF Counted, TypeOK
  <2> QED
    BY <2>1, <2>2
<1>7. Bits'
  <2>1. CASE want_upgrade
    BY <1>1, <1>2, <2>1 DEF TypeOK, Bits, Holding
  <2>2. CASE ~want_upgrade
    BY <1>1, <1>2, <2>2 DEF TypeOK, Bits, Holding, Apart
  <2> QED
    BY <2>1, <2>2
<1>8. Sleeping'
  BY Wakes DEF Sleeping
<1>9. Abstract!Release(t) \/ Abstract!Downgrade(t)
  BY DEF Abstract!Release, Abstract!Downgrade, Abstract!Holds, Upgrading
<1> QED
  BY <1>3, <1>4, <1>5, <1>6, <1>7, <1>8, <1>9 DEF RWStep, Abstract!Next

\* The recursive owner turns nested holds into one another, gains or drops
\* one: dn and dr are what that does to nested reads and nested writes.
LEMMA Nesting ==
  ASSUME IInv, NEW t \in Threads, NEW dn \in Int, NEW dr \in Int,
         pc[t] = "idle", thread = t,
         nested + dn >= 0, recursion_depth + dr >= 0,
         recursion_depth + dr > 0 => mode[t] = "write",
         read_count' = read_count + dn,
         nested' = nested + dn,
         recursion_depth' = recursion_depth + dr,
         WakeSleepers \/ (UNCHANGED sleepers /\ (mode[t] = "write" \/ dn >= 0)),
         UNCHANGED <<want_write, want_upgrade, can_sleep, thread, pc, mode>>
  PROVE  IInv' /\ RWStep
<1> USE DEF IInv
<1>1. Cardinality(Readers)' = Cardinality(Readers)
  BY DEF Readers
<1>2. read_count + dn \in Nat
  BY ReadersFinite DEF Counted, TypeOK
<1>3. phase' \in [Threads -> {"awake", "spin", "asleep"}] /\ waiting' \in BOOLEAN
  BY Wakes DEF TypeOK, sleepers
<1>4. TypeOK'
  BY <1>2, <1>3 DEF TypeOK
<1>5. Apart'
  BY DEF Apart
<1>6. Holding'
  <2>1. \A u \in Threads : phase[u] = "awake" => phase'[u] = "awake"
    BY Wakes DEF sleepers
  <2> QED
    BY <2>1, ThreadsAssumption DEF TypeOK, Holding
<1>7. Counted'
  BY <1>1, ReadersFinite DEF Counted, TypeOK
<1>8. Bits'
  BY DEF Bits
<1>9. Sleeping'
  <2>1. CASE WakeSleepers
    BY <2>1, Wakes DEF Sleeping
  <2>2. CASE UNCHANGED sleepers /\ mode[t] = "write"
    <3>1. \A u \in Threads : ~Waits(u) /\ pc[u] # "drain"
      BY <2>2 DEF Apart, Holding
    <3> QED
      BY <2>2, <3>1 DEF Sleeping, sleepers
  <2>3. CASE UNCHANGED sleepers /\ dn >= 0
    BY <2>3 DEF Sleeping, sleepers, TypeOK
  <2> QED
    BY <2>1, <2>2, <2>3
<1>10. UNCHANGED Abstract!vars
  BY DEF Abstract!vars, Upgrading
<1> QED
  BY <1>4, <1>5, <1>6, <1>7, <1>8, <1>9, <1>10 DEF RWStep

\* Marking and unmarking the recursive owner, and lock_sleepable.
LEMMA Marking ==
  ASSUME IInv, thread' \in Threads \cup {NoThread}, can_sleep' \in Sleepable,
         thread' # NoThread => mode[thread'] \in {"write", "read"},
         thread' = NoThread => nested = 0 /\ recursion_depth = 0,
         recursion_depth > 0 => mode[thread'] = "write",
         UNCHANGED <<want_write, want_upgrade, waiting, read_count,
                     recursion_depth, pc, phase, mode, nested>>
  PROVE  IInv' /\ RWStep
<1> USE DEF IInv
<1>1. TypeOK' /\ Apart' /\ Holding' /\ Counted' /\ Bits' /\ Sleeping'
  BY DEF TypeOK, Apart, Holding, Counted, Bits, Sleeping, Readers
<1>2. UNCHANGED Abstract!vars
  BY DEF Abstract!vars, Upgrading
<1> QED
  BY <1>1, <1>2 DEF RWStep

-----------------------------------------------------------------------------
(* The routines, one pass each, have those effects.                        *)

LEMMA NotOwner ==
  ASSUME IInv, NEW t \in Threads, mode[t] = "none"
  PROVE  thread # t
BY ThreadsAssumption DEF IInv, Holding

LEMMA AcquireWantWriteKeeps ==
  ASSUME IInv, NEW t \in Threads, NEW spun,
         mode[t] = "none", pc[t] \in {"idle", "want_write"},
         AcquireWantWrite(t, spun)
  PROVE  IInv' /\ RWStep
<1> USE DEF AcquireWantWrite, owner
<1>1. CASE want_write
  BY <1>1, PauseEffect, Waiting DEF IInv, Loops
<1>2. CASE ~want_write /\ ReadersOrUpgrade
  <2>1. Pause(t, "drain", FALSE) /\ UNCHANGED mode
    BY <1>2 DEF Drain
  <2>2. PICK how : Paused(t, how) /\ pc' = [pc EXCEPT ![t] = "drain"]
    BY <2>1, PauseEffect DEF IInv
  <2> QED
    BY <1>2, <2>1, <2>2, Claiming DEF ReadersOrUpgrade
<1>3. CASE ~want_write /\ ~ReadersOrUpgrade
  BY <1>3, EnteringWrite DEF Drain, Return, ReadersOrUpgrade
<1> QED
  BY <1>1, <1>2, <1>3

LEMMA DrainKeeps ==
  ASSUME IInv, NEW t \in Threads, NEW spun, pc[t] = "drain", Drain(t, spun),
         UNCHANGED <<flags, can_sleep, read_count, owner, nested>>
  PROVE  IInv' /\ RWStep
<1> USE DEF Drain, flags, owner, ReadersOrUpgrade
<1>1. mode[t] = "none" /\ want_write
  BY DEF IInv, Holding, Bits
<1>2. CASE ReadersOrUpgrade
  BY <1>1, <1>2, PauseEffect, Waiting DEF IInv, Loops
<1>3. CASE ~ReadersOrUpgrade
  <2>1. want_write' = TRUE
    BY <1>1 DEF IInv, TypeOK
  <2> QED
    BY <1>1, <1>3, <2>1, EnteringWrite DEF Return
<1> QED
  BY <1>2, <1>3

LEMMA AcquireReadKeeps ==
  ASSUME IInv, NEW t \in Threads, NEW spun,
         mode[t] = "none", pc[t] \in {"idle", "read"},
         AcquireRead(t, spun)
  PROVE  IInv' /\ RWStep
<1> USE DEF AcquireRead, flags, owner, WriterOrUpgrade
<1>1. CASE WriterOrUpgrade
  BY <1>1, PauseEffect, Waiting DEF IInv, Loops
<1>2. CASE ~WriterOrUpgrade
  BY <1>2, NotOwner, EnteringRead DEF Return
<1> QED
  BY <1>1, <1>2

LEMMA NestedReadKeeps ==
  ASSUME IInv, NEW t \in Threads, pc[t] = "idle", NestedRead(t)
  PROVE  IInv' /\ RWStep
<1>1. /\ nested + 1 >= 0 /\ recursion_depth + 0 >= 0
      /\ recursion_depth + 0 > 0 => mode[t] = "write"
      /\ recursion_depth' = recursion_depth + 0
  BY DEF IInv, TypeOK, Holding, NestedRead, owner
<1> QED
  BY <1>1, Nesting DEF NestedRead, flags, owner, sleepers

LEMMA NestedWriteKeeps ==
  ASSUME IInv, NEW t \in Threads, pc[t] = "idle", NestedWrite(t)
  PROVE  IInv' /\ RWStep
<1>1. /\ nested + 0 >= 0 /\ recursion_depth + 1 >= 0
      /\ read_count' = read_count + 0 /\ nested' = nested + 0
  BY DEF IInv, TypeOK, NestedWrite, holds
<1> QED
  BY <1>1, Nesting DEF NestedWrite, flags, holds, sleepers

LEMMA NestedUpgradeKeeps ==
  ASSUME IInv, NEW t \in Threads, pc[t] = "idle", NestedUpgrade(t)
  PROVE  IInv' /\ RWStep
<1>1. /\ nested + (-1) >= 0 /\ recursion_depth + 1 >= 0
      /\ read_count' = read_count + (-1) /\ nested' = nested + (-1)
  BY DEF IInv, TypeOK, NestedUpgrade
<1> QED
  BY <1>1, Nesting DEF NestedUpgrade, flags, sleepers

LEMMA DoneKeeps ==
  ASSUME IInv, NEW t \in Threads, lock_done(t)
  PROVE  IInv' /\ RWStep
<1> USE DEF lock_done, ReleaseHold, flags
<1>1. CASE thread = t /\ nested > 0
  <2>1. read_count # 0
    BY <1>1, ZeroMeansNone DEF IInv
  <2>2. /\ nested + (-1) >= 0 /\ recursion_depth + 0 >= 0
        /\ recursion_depth + 0 > 0 => mode[t] = "write"
        /\ read_count' = read_count + (-1) /\ nested' = nested + (-1)
        /\ recursion_depth' = recursion_depth + 0
    BY <1>1, <2>1 DEF IInv, TypeOK, Holding
  <2>3. UNCHANGED <<want_write, want_upgrade>>
    BY <2>1
  <2> QED
    BY <1>1, <2>2, <2>3, Nesting
<1>2. CASE thread = t /\ ~(nested > 0)
  <2>1. recursion_depth > 0 /\ nested = 0
    BY <1>2 DEF NestedHolds, IInv, TypeOK
  <2>2. mode[t] = "write" /\ read_count = 0
    BY <1>2, <2>1, WriterAlone DEF IInv, Holding
  <2>3. /\ nested + 0 >= 0 /\ recursion_depth + (-1) >= 0
        /\ read_count' = read_count + 0 /\ nested' = nested + 0
        /\ recursion_depth' = recursion_depth + (-1)
    BY <1>2, <2>1, <2>2 DEF IInv, TypeOK
  <2>4. UNCHANGED <<want_write, want_upgrade, mode>>
    BY <1>2, <2>1, <2>2
  <2> QED
    BY <1>2, <2>2, <2>3, <2>4, Nesting
<1>3. CASE thread # t /\ mode[t] = "read"
  <2>1. read_count # 0
    BY <1>3, ZeroMeansNone DEF IInv
  <2> QED
    BY <1>3, <2>1, LeavingRead
<1>4. CASE thread # t /\ mode[t] \in {"write", "upgrade"}
  <2>1. read_count = 0 /\ recursion_depth = 0
    BY <1>4, WriterAlone
  <2>2. /\ mode' = [mode EXCEPT ![t] = "none"]
        /\ UNCHANGED <<can_sleep, thread, recursion_depth, pc, nested>>
        /\ read_count' = read_count + 0
        /\ IF want_upgrade
             THEN want_upgrade' = FALSE /\ UNCHANGED want_write
             ELSE want_write' = FALSE /\ UNCHANGED want_upgrade
    BY <1>4, <2>1
  <2> QED
    BY <1>4, <2>1, <2>2, LeavingWrite
<1> QED
  BY <1>1, <1>2, <1>3, <1>4 DEF IInv, TypeOK, Modes

LEMMA WriteToReadKeeps ==
  ASSUME IInv, NEW t \in Threads, lock_write_to_read(t)
  PROVE  IInv' /\ RWStep
<1> USE DEF lock_write_to_read, flags
<1>1. CASE recursion_depth # 0
  <2>1. thread = t /\ mode[t] = "write"
    BY <1>1, WriterAlone DEF IInv, Holding, TypeOK
  <2>2. /\ nested + 1 >= 0 /\ recursion_depth + (-1) >= 0
        /\ recursion_depth' = recursion_depth + (-1)
    BY <1>1 DEF IInv, TypeOK
  <2> QED
    BY <1>1, <2>1, <2>2, Nesting
<1>2. CASE recursion_depth = 0
  <2>1. /\ mode' = [mode EXCEPT ![t] = "read"]
        /\ UNCHANGED <<can_sleep, thread, recursion_depth, pc, nested>>
        /\ read_count' = read_count + 1
        /\ IF want_upgrade
             THEN want_upgrade' = FALSE /\ UNCHANGED want_write
             ELSE want_write' = FALSE /\ UNCHANGED want_upgrade
    BY <1>2
  <2> QED
    BY <1>2, <2>1, LeavingWrite
<1> QED
  BY <1>1, <1>2

LEMMA ReadToWriteKeeps ==
  ASSUME IInv, NEW t \in Threads, lock_read_to_write(t)
  PROVE  IInv' /\ RWStep
<1> USE DEF lock_read_to_write, owner
<1>1. CASE NestedUpgrade(t)
  BY <1>1, NestedUpgradeKeeps
<1>2. CASE ~NestedUpgrade(t) /\ UpgradeFails(t)
  BY <1>2, LeavingRead DEF UpgradeFails
<1>3. CASE ~NestedUpgrade(t) /\ UpgradeStarts(t) /\ read_count - 1 # 0
  <2>1. PICK how : Paused(t, how) /\ pc' = [pc EXCEPT ![t] = "upgrade"]
    BY <1>3, PauseEffect DEF IInv, UpgradeStarts, DrainReaders
  <2> QED
    BY <1>3, <2>1, StartingUpgrade DEF UpgradeStarts, DrainReaders
<1>4. CASE ~NestedUpgrade(t) /\ UpgradeStarts(t) /\ read_count - 1 = 0
  <2>1. read_count' = 0
    BY <1>4
  <2> QED
    BY <1>4, <2>1, EnteringUpgrade DEF UpgradeStarts, DrainReaders, Return
<1> QED
  BY <1>1, <1>2, <1>3, <1>4

LEMMA UpgradeLoopKeeps ==
  ASSUME IInv, NEW t \in Threads, lock_read_to_write_loop(t)
  PROVE  IInv' /\ RWStep
<1> USE DEF lock_read_to_write_loop, InLoop, DrainReaders, flags, owner
<1>1. mode[t] = "none" /\ want_upgrade
  BY DEF IInv, Holding, Bits
<1>2. CASE read_count # 0
  <2>1. mode' = mode
    BY <1>1, <1>2 DEF IInv, TypeOK
  <2>2. PICK how : Paused(t, how) /\ pc' = [pc EXCEPT ![t] = "upgrade"]
    BY <1>2, PauseEffect DEF IInv
  <2> QED
    BY <1>1, <1>2, <2>1, <2>2, Waiting DEF Loops
<1>3. CASE read_count = 0
  <2>1. want_upgrade' = TRUE
    BY <1>1 DEF IInv, TypeOK
  <2> QED
    BY <1>1, <1>3, <2>1, EnteringUpgrade DEF Return
<1> QED
  BY <1>2, <1>3

LEMMA TryReadToWriteKeeps ==
  ASSUME IInv, NEW t \in Threads, lock_try_read_to_write(t)
  PROVE  IInv' /\ RWStep
<1> USE DEF lock_try_read_to_write, TryDrainReaders, owner
<1>1. CASE NestedUpgrade(t)
  BY <1>1, NestedUpgradeKeeps
<1>2. CASE ~NestedUpgrade(t) /\ read_count - 1 # 0
  <2>1. Paused(t, "asleep")
    BY <1>2 DEF Paused, Sleep
  <2> QED
    BY <1>2, <2>1, StartingUpgrade
<1>3. CASE ~NestedUpgrade(t) /\ read_count - 1 = 0
  <2>1. read_count' = 0
    BY <1>3
  <2> QED
    BY <1>3, <2>1, EnteringUpgrade DEF Return
<1> QED
  BY <1>1, <1>2, <1>3

LEMMA TryUpgradeLoopKeeps ==
  ASSUME IInv, NEW t \in Threads, lock_try_read_to_write_loop(t)
  PROVE  IInv' /\ RWStep
<1> USE DEF lock_try_read_to_write_loop, InLoop, TryDrainReaders, flags, owner
<1>1. mode[t] = "none" /\ want_upgrade
  BY DEF IInv, Holding, Bits
<1>2. CASE read_count # 0
  <2>1. mode' = mode
    BY <1>1, <1>2 DEF IInv, TypeOK
  <2>2. Paused(t, "asleep")
    BY <1>2 DEF Paused, Sleep
  <2> QED
    BY <1>1, <1>2, <2>1, <2>2, Waiting DEF Loops
<1>3. CASE read_count = 0
  <2>1. want_upgrade' = TRUE
    BY <1>1 DEF IInv, TypeOK
  <2> QED
    BY <1>1, <1>3, <2>1, EnteringUpgrade DEF Return
<1> QED
  BY <1>2, <1>3

LEMMA TryWriteKeeps ==
  ASSUME IInv, NEW t \in Threads, lock_try_write(t)
  PROVE  IInv' /\ RWStep
<1>1. CASE NestedWrite(t)
  BY <1>1, NestedWriteKeeps DEF lock_try_write
<1>2. CASE ~NestedWrite(t)
  <2>1. ~want_write /\ ~want_upgrade /\ read_count = 0
    BY <1>2 DEF lock_try_write
  <2>2. mode[t] = "none"
    BY <2>1, ZeroMeansNone DEF IInv, TypeOK, Modes, Bits
  <2> QED
    BY <1>2, <2>1, <2>2, EnteringWrite DEF lock_try_write, Return, owner
<1> QED
  BY <1>1, <1>2

LEMMA TryReadKeeps ==
  ASSUME IInv, NEW t \in Threads, lock_try_read(t)
  PROVE  IInv' /\ RWStep
<1> USE DEF lock_try_read
<1>1. CASE NestedRead(t)
  BY <1>1, NestedReadKeeps
<1>2. CASE ~NestedRead(t)
  BY <1>2, EnteringRead DEF WriterOrUpgrade, Return, flags, owner
<1> QED
  BY <1>1, <1>2

LEMMA RecursiveKeeps ==
  ASSUME IInv, NEW t \in Threads,
         lock_set_recursive(t) \/ lock_clear_recursive(t)
  PROVE  IInv' /\ RWStep
<1> USE DEF flags, sleepers, holds
<1>1. CASE lock_set_recursive(t)
  <2>1. recursion_depth = 0
    BY <1>1, WriterAlone DEF lock_set_recursive
  <2> QED
    BY <1>1, <2>1, ThreadsAssumption, Marking
    DEF IInv, TypeOK, lock_set_recursive
<1>2. CASE lock_clear_recursive(t) /\ recursion_depth = 0
  BY <1>2, Marking DEF IInv, TypeOK, lock_clear_recursive
<1>3. CASE lock_clear_recursive(t) /\ recursion_depth # 0
  BY <1>3, Marking DEF IInv, TypeOK, Holding, lock_clear_recursive
<1> QED
  BY <1>1, <1>2, <1>3

LEMMA SleepableKeeps ==
  ASSUME IInv, NEW value \in Sleepable, lock_sleepable(value)
  PROVE  IInv' /\ RWStep
BY Marking DEF IInv, TypeOK, Holding, lock_sleepable, flags, sleepers, owner,
  holds

-----------------------------------------------------------------------------
(* The theorems.                                                           *)

LEMMA InitHolds == Init => IInv /\ Abstract!Init
<1> SUFFICES ASSUME Init PROVE IInv /\ Abstract!Init
  OBVIOUS
<1> USE DEF Init
<1>1. TypeOK
  BY DEF TypeOK, Loops, Modes
<1>2. Counted
  <2>1. Readers = {}
    BY DEF Readers
  <2> QED
    BY <2>1, FS_EmptySet DEF Counted
<1>3. Apart /\ Holding /\ Bits /\ Sleeping
  BY DEF Apart, Holding, Bits, Sleeping
<1>4. Abstract!Init
  BY DEF Abstract!Init, Upgrading
<1> QED
  BY <1>1, <1>2, <1>3, <1>4 DEF IInv

LEMMA NextKeeps == IInv /\ [Next]_vars => IInv' /\ RWStep
<1> SUFFICES ASSUME IInv, [Next]_vars PROVE IInv' /\ RWStep
  OBVIOUS
<1>1. ASSUME NEW t \in Threads, Call(t)
      PROVE  IInv' /\ RWStep
  <2>1. CASE lock_write(t)
    BY <2>1, NestedWriteKeeps, AcquireWantWriteKeeps DEF lock_write
  <2>2. CASE lock_read(t)
    BY <2>2, NestedReadKeeps, AcquireReadKeeps DEF lock_read
  <2>3. CASE lock_done(t)
    BY <2>3, DoneKeeps
  <2>4. CASE lock_write_to_read(t)
    BY <2>4, WriteToReadKeeps
  <2>5. CASE lock_read_to_write(t)
    BY <2>5, ReadToWriteKeeps
  <2>6. CASE lock_try_read_to_write(t)
    BY <2>6, TryReadToWriteKeeps
  <2>7. CASE lock_try_write(t)
    BY <2>7, TryWriteKeeps
  <2>8. CASE lock_try_read(t)
    BY <2>8, TryReadKeeps
  <2>9. CASE lock_set_recursive(t) \/ lock_clear_recursive(t)
    BY <2>9, RecursiveKeeps
  <2> QED
    BY <1>1, <2>1, <2>2, <2>3, <2>4, <2>5, <2>6, <2>7, <2>8, <2>9 DEF Call
<1>2. ASSUME NEW t \in Threads, Loop(t)
      PROVE  IInv' /\ RWStep
  <2>1. pc[t] # "idle" => mode[t] = "none"
    BY DEF IInv, Holding
  <2>2. CASE lock_write_loop(t)
    BY <2>1, <2>2, AcquireWantWriteKeeps, DrainKeeps
    DEF lock_write_loop, InLoop
  <2>3. CASE lock_read_loop(t)
    BY <2>1, <2>3, AcquireReadKeeps DEF lock_read_loop, InLoop
  <2>4. CASE lock_read_to_write_loop(t)
    BY <2>4, UpgradeLoopKeeps
  <2>5. CASE lock_try_read_to_write_loop(t)
    BY <2>5, TryUpgradeLoopKeeps
  <2> QED
    BY <1>2, <2>2, <2>3, <2>4, <2>5 DEF Loop
<1>3. ASSUME NEW value \in Sleepable, lock_sleepable(value)
      PROVE  IInv' /\ RWStep
  BY <1>3, SleepableKeeps
<1>4. CASE UNCHANGED vars
  BY <1>4, Marking
  DEF IInv, TypeOK, Holding, vars, flags, sleepers, owner, holds
<1> QED
  BY <1>1, <1>2, <1>3, <1>4 DEF Next

\* The inductive invariant holds of every execution.
THEOREM Invariance == Spec => []IInv
<1> QED
  BY InitHolds, NextKeeps, PTL DEF Spec

\* The fields of the lock keep their types: read_count and recursion_depth
\* never go below zero, whoever releases what in whatever order.
THEOREM TypeCorrect == Spec => []TypeOK
<1>1. IInv => TypeOK
  BY DEF IInv
<1> QED
  BY Invariance, <1>1, PTL

\* A thread lock_write or an upgrade has let in is alone.
THEOREM Excludes == Spec => []Exclusion
<1>1. IInv => Exclusion
  BY DEF IInv, Apart, Exclusion, HoldsWrite
<1> QED
  BY Invariance, <1>1, PTL

\* Nobody writes between the start of an upgrade and its end.
THEOREM UpgradesAreAtomic == Spec => []UpgradeAtomic
<1>1. IInv => UpgradeAtomic
  BY DEF IInv, Apart, UpgradeAtomic, Upgrading, HoldsWrite
<1> QED
  BY Invariance, <1>1, PTL

\* Whoever sleeps on the lock has a reason to, and will be woken.
THEOREM NoWakeupIsLost == Spec => []NoLostWakeup
<1>1. IInv => NoLostWakeup
  BY DEF IInv, Sleeping, NoLostWakeup, Blocked, ReadersOrUpgrade,
    WriterOrUpgrade
<1> QED
  BY Invariance, <1>1, PTL

\* What lock_done reads off the fields is what the callers hold.
THEOREM FieldsAreExact == Spec => []FieldsExact
<1>1. IInv => FieldsExact
  BY DEF IInv, Counted, Bits, Holding, FieldsExact, Upgrading
<1> QED
  BY Invariance, <1>1, PTL

\* The lock implements RWLock.
THEOREM Refinement == Spec => ImplementsRWLock
<1>1. Spec => Abstract!Init
  BY InitHolds DEF Spec
<1>2. IInv /\ [Next]_vars => [Abstract!Next]_(Abstract!vars)
  BY NextKeeps DEF RWStep
<1> QED
  BY Invariance, <1>1, <1>2, PTL DEF Spec, ImplementsRWLock, Abstract!Spec
=============================================================================
