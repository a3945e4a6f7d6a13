---------------------------- MODULE MsgQueueProofs ----------------------------
(***************************************************************************)
(* Theorems about MsgQueue, for any threads, ports, sets and messages and  *)
(* any choice of who may send, receive, move and destroy what: the         *)
(* inductive invariant of MsgQueueLemmas is kept by port sets, receivers   *)
(* and deliveries too, and so always holds.                                *)
(***************************************************************************)
EXTENDS MsgQueueLemmas

\* A port joins a set or leaves it, with no message of its in the set's queue.
Moves(P, P2, p, x) ==
    /\ P2 \in [Ports -> PortRecord]
    /\ P2[p].set = x
    /\ \A y \in Ports : /\ P2[y].in_use = P[y].in_use /\ P2[y].receiver = P[y].receiver
                        /\ P2[y].count = P[y].count /\ P2[y].blocked = P[y].blocked
                        /\ y # p => P2[y].set = P[y].set

\* A port without messages outside its own queue joins or leaves a set.
LEMMA PortSetKeeps ==
  ASSUME NEW P, NEW S, NEW Q, NEW T, NEW M, NEW E, NEW N, NEW D, NEW P2, NEW S2,
         NEW p \in Ports, NEW x \in Sets \cup {Nil},
         Base(P, S, Q, T, M, E, N, D), Moves(P, P2, p, x), x # Nil => P[p].receiver = "task",
         S2 \in [Sets -> SetRecord], SetsFit(P2, S2, Q),
         \A q \in Queues : \A m \in ToSet(Q[q].messages) : M[m].to = p => q = p,
         \A t \in Threads : T[t].at = "deliver" => M[T[t].msg].to # p
  PROVE  Base(P2, S2, Q, T, M, E, N, D)
<1>1. \A y \in Ports : /\ P2[y].in_use = P[y].in_use /\ P2[y].receiver = P[y].receiver
                       /\ P2[y].count = P[y].count /\ P2[y].blocked = P[y].blocked
                       /\ y # p => P2[y].set = P[y].set
  BY DEF Moves
<1>2. P2[p].set = x
  BY DEF Moves
<1>3. Queued(P2, Q, T, M)
  <2>1. Queued(P, Q, T, M)
    BY DEF Base
  <2>2. ASSUME NEW q \in Queues, NEW m \in Msgs, m \in ToSet(Q[q].messages)
        PROVE  q = M[m].to \/ q = P2[M[m].to].set
    <3>1. M[m].to \in Ports /\ (q = M[m].to \/ q = P[M[m].to].set)
      BY <2>2, QueuedIs
    <3>2. CASE M[m].to = p
      BY <2>2, <3>2
    <3>3. CASE M[m].to # p
      BY <1>1, <3>1, <3>3
    <3> QED
      BY <3>2, <3>3
  <2> QED
    BY <2>1, <2>2 DEF Queued
<1>4. Counts(P2, Q, T, M)
  <2>1. Counts(P, Q, T, M)
    BY DEF Base
  <2> QED
    BY <1>1, <2>1 DEF Counts, CountOf
<1>5. SendLists(P2, T, M, D)
  <2>1. SendLists(P, T, M, D)
    BY DEF Base
  <2> QED
    BY <1>1, <2>1 DEF SendLists
<1>6. PortsFit(P2, Q, D)
  <2>1. ASSUME NEW y \in Ports PROVE PortFits(P2[y], Q[y], D[y], y)
    <3>1. PortFits(P[y], Q[y], D[y], y)
      BY DEF Base, PortsFit
    <3>2. P2[y].set # Nil => P2[y].receiver = "task"
      BY <1>1, <1>2, <3>1 DEF PortFits
    <3> QED
      BY <1>1, <3>1, <3>2 DEF PortFits
  <2> QED
    BY <2>1 DEF PortsFit
<1>7. Locks(P2, Q, T, M)
  <2>1. Locks(P, Q, T, M)
    BY DEF Base
  <2>2. ASSUME NEW t \in Threads, T[t].at = "deliver"
        PROVE  LET y == M[T[t].msg].to
               IN  /\ Q[T[t].obj].lock = t
                   /\ T[t].obj = IF P2[y].set # Nil THEN P2[y].set ELSE y
    <3>1. T[t].msg \in Msgs /\ Carries(T[t], T[t].msg)
      BY <2>2 DEF Base, Locals, Local, Carries
    <3>2. M[T[t].msg].to \in Ports
      BY <3>1 DEF Base, Stages, Addressed
    <3>3. P2[M[T[t].msg].to].set = P[M[T[t].msg].to].set
      BY <1>1, <2>2, <3>2
    <3> QED
      BY <2>1, <2>2, <3>3 DEF Locks
  <2> QED
    BY <2>1, <2>2 DEF Locks
<1>8. Promises(P2, T, M, E, N)
  <2>1. Promises(P, T, M, E, N)
    BY DEF Base
  <2> QED
    BY <1>1, <2>1 DEF Promises
<1>9. Typed(P2, S2, Q, T)
  BY DEF Base, Typed, Moves
<1> QED
  BY <1>3, <1>4, <1>5, <1>6, <1>7, <1>8, <1>9 DEF Base

\* Nobody brings a message to a port whose queue, or whose set's, is unlocked.
Free(P, Q, p) == Q[p].lock = Nil /\ (P[p].set # Nil => Q[P[p].set].lock = Nil)
NoDelivery(T, M, p) == \A t \in Threads : T[t].at = "deliver" => M[T[t].msg].to # p

\* Nobody brings a message to a port whose queue is not locked.
LEMMA NobodyDelivers ==
  ASSUME NEW P, NEW S, NEW Q, NEW T, NEW M, NEW E, NEW N, NEW D, NEW p \in Ports,
         Base(P, S, Q, T, M, E, N, D), Free(P, Q, p)
  PROVE  NoDelivery(T, M, p)
<1>1. ASSUME NEW t \in Threads, T[t].at = "deliver", M[T[t].msg].to = p PROVE FALSE
  <2>1. Q[T[t].obj].lock = t /\ T[t].obj = IF P[p].set # Nil THEN P[p].set ELSE p
    BY <1>1 DEF Base, Locks
  <2> QED
    BY <2>1, Names DEF Free
<1> QED
  BY <1>1 DEF NoDelivery

-----------------------------------------------------------------------------
(* The states that the operations on sets go through.                      *)

Whole == [port: [Ports -> PortRecord], set: [Sets -> SetRecord],
          queue: [Queues -> QueueRecord], thread: [Threads -> ThreadRecord],
          failed: {"no"}]

\* The invariant, and the part of it that a port may break while it moves.
Sound(k) ==
    k \in Whole /\ Base(k.port, k.set, k.queue, k.thread, kmsg, entry, notice, dying)
Fit(k) == Sound(k) /\ AllJoined(k.port, k.queue)

\* The types of what the operations on sets take along.
LEMMA WholeFields ==
  ASSUME NEW k \in Whole
  PROVE  /\ k.port \in [Ports -> PortRecord] /\ k.set \in [Sets -> SetRecord]
         /\ k.queue \in [Queues -> QueueRecord] /\ k.thread \in [Threads -> ThreadRecord]
         /\ k.failed = "no"
BY DEF Whole

\* The state is fit for the operations on sets.
LEMMA StateIsFit ==
  ASSUME IInv
  PROVE  Fit(State)
<1>1. /\ Base(port, set, queue, thread, kmsg, entry, notice, dying)
      /\ AllJoined(port, queue) /\ failed = "no"
  BY InvParts
<1>2. State \in Whole
  BY <1>1, Exactly DEF State, Whole
<1>3. State.port = port /\ State.set = set /\ State.queue = queue /\ State.thread = thread
  BY DEF State
<1> QED
  BY <1>1, <1>2, <1>3 DEF Sound, Fit

\* What they make of it is the next state.
LEMMA BecomesFit ==
  ASSUME NEW k, Fit(k), Becomes(k), UNCHANGED <<kmsg, entry, notice, dying>>
  PROVE  IInv'
<1>1. k.failed = "no"
  BY WholeFields DEF Fit, Sound
<1>2. Base(port', set', queue', thread', kmsg', entry', notice', dying')
  BY DEF Fit, Sound, Becomes
<1>3. AllJoined(port', queue')
  BY DEF Fit, Becomes
<1> QED
  BY <1>1, <1>2, <1>3 DEF IInv, Inv, Becomes

\* What set_remove_member does to each part of the state.
Removed(k, k2, s, p) ==
    /\ k2 \in Whole /\ k2.thread = k.thread
    /\ Moves(k.port, k2.port, p, Nil)
    /\ GivesBack(k.queue, k2.queue, kmsg, s, p)
    /\ k2.set \in [Sets -> SetRecord]
    /\ \A x \in Sets \ {s} : k2.set[x] = k.set[x]
    /\ k2.set[s].in_use = k.set[s].in_use /\ k2.set[s].next = k.set[s].next
    /\ k2.set[s].traversal = IF k.set[s].traversal = p THEN Nil ELSE k.set[s].traversal

\* What set_remove_member does.
LEMMA RemovedIs ==
  ASSUME NEW k \in Whole, NEW s \in Sets, NEW p \in Ports,
         k.port[p].set = s, k.queue[p].blocked = <<>>
  PROVE  Removed(k, set_remove_member(k, s, p), s, p)
<1> DEFINE pr == [k.port[p] EXCEPT !.set = Nil]
           sr == [k.set[s] EXCEPT !.traversal = IF @ = p THEN Nil ELSE @]
           back == k.queue[p].messages \o Among(k.queue[s].messages, Mine(kmsg, p))
           kept == Among(k.queue[s].messages, Msgs \ Mine(kmsg, p))
           q1 == [k.queue[p] EXCEPT !.messages = back]
           q2 == [k.queue[s] EXCEPT !.messages = kept]
           P2 == [k.port EXCEPT ![p] = pr]
           S2 == [k.set EXCEPT ![s] = sr]
           Q2 == [k.queue EXCEPT ![p] = q1, ![s] = q2]
           k2 == [k EXCEPT !.port = P2, !.set = S2, !.queue = Q2]
<1>1. /\ k.port \in [Ports -> PortRecord] /\ k.set \in [Sets -> SetRecord]
      /\ k.queue \in [Queues -> QueueRecord] /\ k.thread \in [Threads -> ThreadRecord]
  BY WholeFields
<1>2. p \in Queues /\ s \in Queues /\ p # s
  BY Names DEF Queues
<1>3. set_remove_member(k, s, p) = k2
  <2>1. MessagesTo(p) = Mine(kmsg, p)
    BY DEF MessagesTo, Mine
  <2>2. set_remove_member(k, s, p) =
            [k EXCEPT !.port[p].set = Nil,
                      !.set[s].traversal = IF @ = p THEN Nil ELSE @,
                      !.queue[p].messages = @ \o Among(k.queue[s].messages, Mine(kmsg, p)),
                      !.queue[s].messages = Among(@, Msgs \ Mine(kmsg, p))]
    BY <2>1 DEF set_remove_member, Checked
  <2> QED
    BY <1>1, <1>2, <2>2 DEF Whole
<1>4. back \in Seq(Msgs) /\ kept \in Seq(Msgs)
  <2>1. k.queue[p] \in QueueRecord /\ k.queue[s] \in QueueRecord
    BY <1>1, <1>2
  <2>2. k.queue[p].messages \in Seq(Msgs) /\ k.queue[s].messages \in Seq(Msgs)
    BY <2>1 DEF QueueRecord
  <2>3. Among(k.queue[s].messages, Mine(kmsg, p)) \in Seq(Msgs) /\ kept \in Seq(Msgs)
    BY <2>2, AmongIs
  <2> QED
    BY <2>2, <2>3, QueueConcat
<1> HIDE DEF back, kept
<1>5. /\ pr \in PortRecord /\ pr.set = Nil /\ pr.in_use = k.port[p].in_use
      /\ pr.receiver = k.port[p].receiver /\ pr.count = k.port[p].count
      /\ pr.blocked = k.port[p].blocked
  <2>1. k.port[p] \in PortRecord
    BY <1>1
  <2> QED
    BY <2>1 DEF PortRecord
<1>6. /\ sr \in SetRecord /\ sr.in_use = k.set[s].in_use /\ sr.next = k.set[s].next
      /\ sr.traversal = IF k.set[s].traversal = p THEN Nil ELSE k.set[s].traversal
  <2>1. k.set[s] \in SetRecord
    BY <1>1
  <2> QED
    BY <2>1 DEF SetRecord
<1>7. /\ q1 \in QueueRecord /\ q1.messages = back /\ q1.blocked = k.queue[p].blocked
      /\ q1.lock = k.queue[p].lock
      /\ q2 \in QueueRecord /\ q2.messages = kept /\ q2.blocked = k.queue[s].blocked
      /\ q2.lock = k.queue[s].lock
  <2>1. k.queue[p] \in QueueRecord /\ k.queue[s] \in QueueRecord
    BY <1>1, <1>2
  <2> QED
    BY <1>4, <2>1 DEF QueueRecord
<1> HIDE DEF pr, sr, q1, q2
<1>8. Moves(k.port, P2, p, Nil)
  BY <1>1, <1>5 DEF Moves
<1>9. /\ S2 \in [Sets -> SetRecord] /\ \A x \in Sets \ {s} : S2[x] = k.set[x]
      /\ S2[s].in_use = k.set[s].in_use /\ S2[s].next = k.set[s].next
      /\ S2[s].traversal = IF k.set[s].traversal = p THEN Nil ELSE k.set[s].traversal
  BY <1>1, <1>6
<1>10. /\ Q2 \in [Queues -> QueueRecord] /\ Q2[p] = q1 /\ Q2[s] = q2
       /\ \A q \in Queues \ {s, p} : Q2[q] = k.queue[q]
  BY <1>1, <1>2, <1>7
<1> HIDE DEF P2, S2, Q2
<1>11. GivesBack(k.queue, Q2, kmsg, s, p)
  <2>1. \A q \in Queues : Q2[q].blocked = k.queue[q].blocked /\ Q2[q].lock = k.queue[q].lock
    BY <1>7, <1>10
  <2> QED
    BY <1>7, <1>10, <2>1 DEF GivesBack, back, kept
<1>12. /\ k2.port = P2 /\ k2.set = S2 /\ k2.queue = Q2 /\ k2.thread = k.thread
       /\ k2.failed = k.failed
  BY DEF Whole
<1>13. k2 \in Whole
  <2>1. P2 \in [Ports -> PortRecord]
    BY <1>8 DEF Moves
  <2> QED
    BY <1>9, <1>10, <2>1 DEF Whole
<1> HIDE DEF k2
<1> QED
  BY <1>3, <1>8, <1>9, <1>11, <1>12, <1>13 DEF Removed

\* The sets, when port p leaves s.
LEMMA SetsLeft ==
  ASSUME NEW P, NEW S, NEW Q, NEW P2, NEW S2, NEW Q2, NEW s \in Sets, NEW p \in Ports,
         S \in [Sets -> SetRecord], P[p].set = s, Moves(P, P2, p, Nil), SetsFit(P, S, Q),
         \A q \in Queues : Q2[q].blocked = Q[q].blocked,
         \A x \in Sets \ {s} : S2[x] = S[x],
         S2[s].in_use = S[s].in_use, S2[s].next = S[s].next,
         S2[s].traversal = IF S[s].traversal = p THEN Nil ELSE S[s].traversal
  PROVE  SetsFit(P2, S2, Q2)
<1>1. P2[p].set = Nil /\ \A y \in Ports : y # p => P2[y].set = P[y].set
  BY DEF Moves
<1>2. \A x \in Sets : S[x].next \in Ports \cup {Nil}
  BY DEF SetRecord
<1>3. ASSUME NEW x \in Sets PROVE SetFits(P2, S2[x], Q2[x], x)
  <2>1. SetFits(P, S[x], Q[x], x) /\ Q2[x].blocked = Q[x].blocked /\ x # Nil
    BY Names DEF SetsFit, Queues
  <2>2. \A y \in Ports : P[y].set # x => P2[y].set # x
    BY <1>1, <2>1
  <2>3. CASE x = s
    BY <1>1, <1>2, <2>1, <2>2, <2>3 DEF SetFits
  <2>4. CASE x # s
    BY <1>1, <1>2, <2>1, <2>2, <2>4 DEF SetFits
  <2> QED
    BY <2>3, <2>4
<1> QED
  BY <1>3 DEF SetsFit

\* set_remove_member, with the port and the set locked.
LEMMA RemovedKeeps ==
  ASSUME NEW k, NEW k2, NEW s \in Sets, NEW p \in Ports, Fit(k), k.port[p].set = s,
         k.queue[p].lock = Nil, k.queue[s].lock = Nil, Removed(k, k2, s, p)
  PROVE  Fit(k2)
<1>1. /\ Base(k.port, k.set, k.queue, k.thread, kmsg, entry, notice, dying)
      /\ AllJoined(k.port, k.queue) /\ k \in Whole
  BY DEF Fit, Sound
<1>2. s # Nil /\ p \in Queues /\ s \in Queues /\ p # s
  BY Names DEF Queues
<1>3. k.queue[p].blocked = <<>>
  BY <1>1, <1>2 DEF AllJoined, Joined
<1>4. /\ k2 \in Whole /\ k2.thread = k.thread
      /\ Moves(k.port, k2.port, p, Nil)
      /\ GivesBack(k.queue, k2.queue, kmsg, s, p)
      /\ k2.set \in [Sets -> SetRecord]
      /\ \A x \in Sets \ {s} : k2.set[x] = k.set[x]
      /\ k2.set[s].in_use = k.set[s].in_use /\ k2.set[s].next = k.set[s].next
      /\ k2.set[s].traversal = IF k.set[s].traversal = p THEN Nil ELSE k.set[s].traversal
  BY DEF Removed
<1>5. /\ Base(k.port, k.set, k2.queue, k.thread, kmsg, entry, notice, dying)
      /\ \A q \in Queues : \A m \in ToSet(k2.queue[q].messages) : kmsg[m].to = p => q = p
  BY <1>1, <1>3, <1>4, GivesBackKeeps
<1>6. /\ \A q \in Queues : /\ k2.queue[q].blocked = k.queue[q].blocked
                           /\ k2.queue[q].lock = k.queue[q].lock
      /\ \A q \in Queues \ {s, p} : k2.queue[q].messages = k.queue[q].messages
  BY <1>4 DEF GivesBack
<1>7. \A t \in Threads : k.thread[t].at = "deliver" => kmsg[k.thread[t].msg].to # p
  <2>1. Free(k.port, k.queue, p)
    BY DEF Free
  <2>2. NoDelivery(k.thread, kmsg, p)
    BY <1>1, <2>1, NobodyDelivers
  <2> QED
    BY <2>2 DEF NoDelivery
<1>8. SetsFit(k2.port, k2.set, k2.queue)
  <2>1. SetsFit(k.port, k.set, k.queue) /\ k.set \in [Sets -> SetRecord]
    BY <1>1, Exactly DEF Base
  <2> QED
    BY <1>4, <1>6, <2>1, SetsLeft
<1>9. Base(k2.port, k2.set, k2.queue, k2.thread, kmsg, entry, notice, dying)
  <2>1. Base(k2.port, k2.set, k2.queue, k.thread, kmsg, entry, notice, dying)
    BY <1>4, <1>5, <1>7, <1>8, PortSetKeeps
  <2> QED
    BY <1>4, <2>1
<1>10. AllJoined(k2.port, k2.queue)
  <2>1. ASSUME NEW y \in Ports PROVE Joined(k2.port[y], k2.queue[y])
    <3>1. Joined(k.port[y], k.queue[y]) /\ y \in Queues /\ y # s
      BY <1>1, Names DEF AllJoined, Queues
    <3>2. CASE y = p
      BY <1>4, <3>2 DEF Joined, Moves
    <3>3. CASE y # p
      <4>1. k2.port[y].set = k.port[y].set
        BY <1>4, <3>3 DEF Moves
      <4>2. k2.queue[y].messages = k.queue[y].messages
        BY <1>6, <3>1, <3>3
      <4>3. k2.queue[y].blocked = k.queue[y].blocked
        BY <1>6, <3>1
      <4> QED
        BY <3>1, <4>1, <4>2, <4>3 DEF Joined
    <3> QED
      BY <3>2, <3>3
  <2> QED
    BY <2>1 DEF AllJoined
<1> QED
  BY <1>4, <1>9, <1>10 DEF Fit, Sound

\* set_remove_member keeps the invariant.
LEMMA RemoveKeeps ==
  ASSUME NEW k, NEW s \in Sets, NEW p \in Ports, Fit(k), k.port[p].set = s,
         k.queue[p].lock = Nil, k.queue[s].lock = Nil
  PROVE  LET k2 == set_remove_member(k, s, p)
         IN  /\ Fit(k2) /\ k2.thread = k.thread
             /\ Moves(k.port, k2.port, p, Nil)
             /\ \A q \in Queues : /\ k2.queue[q].blocked = k.queue[q].blocked
                                  /\ k2.queue[q].lock = k.queue[q].lock
             /\ \A x \in Sets : k2.set[x].in_use = k.set[x].in_use /\ k2.set[x].next = k.set[x].next
<1> DEFINE k2 == set_remove_member(k, s, p)
<1>1. k \in Whole /\ k.queue[p].blocked = <<>>
  BY Names DEF Fit, Sound, AllJoined, Joined
<1>2. Removed(k, k2, s, p)
  BY <1>1, RemovedIs
<1> HIDE DEF k2
<1>3. Fit(k2)
  BY <1>2, RemovedKeeps
<1>4. /\ k2.thread = k.thread
      /\ Moves(k.port, k2.port, p, Nil)
      /\ \A q \in Queues : /\ k2.queue[q].blocked = k.queue[q].blocked
                           /\ k2.queue[q].lock = k.queue[q].lock
      /\ \A x \in Sets : k2.set[x].in_use = k.set[x].in_use /\ k2.set[x].next = k.set[x].next
  BY <1>2 DEF Removed, GivesBack
<1> QED
  BY <1>3, <1>4 DEF k2

-----------------------------------------------------------------------------
(* Leaving sets, and the end of a set.                                     *)

RcvReasons == {"RCV_TOO_LARGE", "RCV_PORT_CHANGE", "RCV_INVALID_PORT"}

\* The queue q with its receivers gone.
Emptied(Q, Q2, q) ==
    /\ Q2[q].blocked = <<>>
    /\ \A y \in Queues : /\ Q2[y].messages = Q[y].messages /\ Q2[y].lock = Q[y].lock
                         /\ y # q => Q2[y].blocked = Q[y].blocked

\* Everybody who sleeps at q is told x, whatever becomes of the sets.
LEMMA ChangedIs ==
  ASSUME NEW k \in Whole, NEW S, NEW q \in Queues, NEW x \in RcvReasons,
         Base(k.port, S, k.queue, k.thread, kmsg, entry, notice, dying)
  PROVE  LET k2 == msg_queue_changed(k, q, x)
         IN  /\ k2 \in Whole /\ k2.port = k.port /\ k2.set = k.set
             /\ Base(k.port, S, k2.queue, k2.thread, kmsg, entry, notice, dying)
             /\ Emptied(k.queue, k2.queue, q)
<1> DEFINE w == k.queue[q].blocked
           none == <<>>
           T2 == WakeAll(k.thread, w, x)
           Q2 == [k.queue EXCEPT ![q].blocked = none]
           k2 == [k EXCEPT !.thread = T2, !.queue = Q2]
<1>1. k.queue \in [Queues -> QueueRecord] /\ k.queue[q] \in QueueRecord
  BY WholeFields
<1>2. w \in Seq(Threads) /\ none \in Seq(Threads) /\ ToSet(none) = {} /\ IsInjective(none)
  <2>1. w \in Seq(Threads)
    BY <1>1 DEF QueueRecord
  <2> QED
    BY <2>1 DEF ToSet, IsInjective
<1>3. msg_queue_changed(k, q, x) = k2
  BY <1>1 DEF msg_queue_changed, Whole
<1>4. /\ Q2[q].blocked = none /\ Q2[q].messages = k.queue[q].messages
      /\ Q2[q].lock = k.queue[q].lock
      /\ \A y \in Queues \ {q} : Q2[y] = k.queue[y]
  BY <1>1 DEF QueueRecord
<1> HIDE DEF none
<1>5. Base(k.port, S, Q2, T2, kmsg, entry, notice, dying)
  <2>1. ToSet(w) \subseteq ToSet(w) /\ ToSet(none) = ToSet(w) \ ToSet(w)
    BY <1>2
  <2> HIDE DEF T2
  <2> QED
    BY <1>2, <2>1, WakeReceiversKeeps DEF RcvReasons, T2
<1> HIDE DEF T2, Q2
<1>6. T2 \in [Threads -> ThreadRecord] /\ Q2 \in [Queues -> QueueRecord]
  BY <1>5, Exactly
<1>7. k2 \in Whole /\ k2.port = k.port /\ k2.set = k.set /\ k2.queue = Q2 /\ k2.thread = T2
  BY <1>6 DEF Whole
<1>8. Emptied(k.queue, Q2, q)
  BY <1>4 DEF Emptied, none
<1> HIDE DEF k2
<1> QED
  BY <1>3, <1>5, <1>7, <1>8

\* Emptying a list of receivers leaves the members of sets as they are.
LEMMA JoinedStays ==
  ASSUME NEW P, NEW Q, NEW Q2, NEW q, AllJoined(P, Q), Emptied(Q, Q2, q)
  PROVE  AllJoined(P, Q2)
<1>1. ASSUME NEW p \in Ports PROVE Joined(P[p], Q2[p])
  <2>1. Joined(P[p], Q[p]) /\ p \in Queues
    BY DEF AllJoined, Queues
  <2>2. Q2[p].messages = Q[p].messages /\ (Q2[p].blocked = Q[p].blocked \/ Q2[p].blocked = <<>>)
    BY <2>1 DEF Emptied
  <2> QED
    BY <2>1, <2>2 DEF Joined
<1> QED
  BY <1>1 DEF AllJoined

\* msg_queue_changed wakes all receivers of a queue.
LEMMA ChangedKeeps ==
  ASSUME NEW k, NEW q \in Queues, NEW x \in RcvReasons, Sound(k)
  PROVE  LET k2 == msg_queue_changed(k, q, x)
         IN  Sound(k2) /\ k2.port = k.port /\ k2.set = k.set /\ Emptied(k.queue, k2.queue, q)
<1> DEFINE k2 == msg_queue_changed(k, q, x)
<1>1. k \in Whole /\ Base(k.port, k.set, k.queue, k.thread, kmsg, entry, notice, dying)
  BY DEF Sound
<1>2. /\ k2 \in Whole /\ k2.port = k.port /\ k2.set = k.set
      /\ Base(k.port, k.set, k2.queue, k2.thread, kmsg, entry, notice, dying)
      /\ Emptied(k.queue, k2.queue, q)
  BY <1>1, ChangedIs
<1> HIDE DEF k2
<1>3. Sound(k2)
  BY <1>2 DEF Sound
<1> QED
  BY <1>2, <1>3 DEF k2

\* The locks that the operations on a port take: PortUnlocked, in a state k.
LEMMA LeavesSetKeeps ==
  ASSUME NEW k, NEW p \in Ports, Fit(k), Free(k.port, k.queue, p)
  PROVE  LET k2 == LeavesSet(k, p)
         IN  /\ Fit(k2) /\ k2.port[p].set = Nil
             /\ \A y \in Ports : /\ k2.port[y].in_use = k.port[y].in_use
                                 /\ k2.port[y].receiver = k.port[y].receiver
             /\ \A q \in Queues : /\ k2.queue[q].blocked = k.queue[q].blocked
                                  /\ k2.queue[q].lock = k.queue[q].lock
             /\ \A s \in Sets : k2.set[s].in_use = k.set[s].in_use /\ k2.set[s].next = k.set[s].next
<1> DEFINE s == k.port[p].set
<1>1. s \in Sets \cup {Nil}
  <2>1. k.port \in [Ports -> PortRecord]
    BY WholeFields DEF Fit, Sound
  <2> QED
    BY <2>1 DEF PortRecord
<1>2. CASE s = Nil
  <2>1. LeavesSet(k, p) = k
    BY <1>2 DEF LeavesSet
  <2> QED
    BY <1>2, <2>1
<1>3. CASE s # Nil
  <2> DEFINE k2 == set_remove_member(k, s, p)
  <2>1. s \in Sets /\ k.queue[p].lock = Nil /\ k.queue[s].lock = Nil /\ k.port[p].set = s
    BY <1>1, <1>3 DEF Free
  <2>2. LeavesSet(k, p) = k2
    BY <1>3 DEF LeavesSet
  <2> HIDE DEF s
  <2>3. /\ Fit(k2) /\ k2.thread = k.thread
        /\ Moves(k.port, k2.port, p, Nil)
        /\ \A q \in Queues : /\ k2.queue[q].blocked = k.queue[q].blocked
                             /\ k2.queue[q].lock = k.queue[q].lock
        /\ \A x \in Sets : k2.set[x].in_use = k.set[x].in_use /\ k2.set[x].next = k.set[x].next
    BY <2>1, RemoveKeeps
  <2> HIDE DEF k2
  <2>4. k2.port[p].set = Nil /\ \A y \in Ports : /\ k2.port[y].in_use = k.port[y].in_use
                                                /\ k2.port[y].receiver = k.port[y].receiver
    BY <2>3 DEF Moves
  <2> QED
    BY <2>2, <2>3, <2>4
<1> QED
  BY <1>2, <1>3

\* The queue of a port that is not locked.
LEMMA PortIsFree ==
  ASSUME NEW p \in Ports, PortUnlocked(p)
  PROVE  Free(State.port, State.queue, p)
<1>1. State.port = port /\ State.queue = queue
  BY DEF State
<1> QED
  BY <1>1 DEF PortUnlocked, Unlocked, Free

\* port_set_remove.
LEMMA SetRemoveKeeps ==
  ASSUME IInv, NEW p \in Ports, port_set_remove(p)
  PROVE  IInv'
<1>1. Fit(State) /\ Free(State.port, State.queue, p)
  BY StateIsFit, PortIsFree DEF port_set_remove
<1>2. Fit(LeavesSet(State, p))
  BY <1>1, LeavesSetKeeps
<1>3. Becomes(LeavesSet(State, p)) /\ UNCHANGED <<kmsg, entry, notice, dying>>
  BY DEF port_set_remove
<1> QED
  BY <1>2, <1>3, BecomesFit

\* The port without its receivers and out of its set.
LEMMA ClearedIs ==
  ASSUME NEW k, NEW p \in Ports, Fit(k), Free(k.port, k.queue, p)
  PROVE  LET k2 == IF k.port[p].set # Nil THEN set_remove_member(k, k.port[p].set, p)
                   ELSE msg_queue_changed(k, p, "RCV_INVALID_PORT")
         IN  /\ Fit(k2) /\ k2.port[p].set = Nil /\ k2.queue[p].blocked = <<>>
             /\ \A y \in Ports : /\ k2.port[y].in_use = k.port[y].in_use
                                 /\ k2.port[y].receiver = k.port[y].receiver
<1> DEFINE k2 == IF k.port[p].set # Nil THEN set_remove_member(k, k.port[p].set, p)
                 ELSE msg_queue_changed(k, p, "RCV_INVALID_PORT")
<1>1. CASE k.port[p].set # Nil
  <2>1. k2 = LeavesSet(k, p)
    BY <1>1 DEF LeavesSet
  <2>2. /\ Fit(LeavesSet(k, p)) /\ LeavesSet(k, p).port[p].set = Nil
        /\ \A y \in Ports : /\ LeavesSet(k, p).port[y].in_use = k.port[y].in_use
                            /\ LeavesSet(k, p).port[y].receiver = k.port[y].receiver
        /\ \A q \in Queues : LeavesSet(k, p).queue[q].blocked = k.queue[q].blocked
    BY LeavesSetKeeps
  <2>3. k.queue[p].blocked = <<>>
    BY <1>1 DEF Fit, AllJoined, Joined
  <2>4. p \in Queues
    BY DEF Queues
  <2> HIDE DEF k2
  <2> QED
    BY <2>1, <2>2, <2>3, <2>4 DEF k2
<1>2. CASE k.port[p].set = Nil
  <2> DEFINE k3 == msg_queue_changed(k, p, "RCV_INVALID_PORT")
  <2>1. k2 = k3
    BY <1>2
  <2>2. p \in Queues /\ "RCV_INVALID_PORT" \in RcvReasons /\ Sound(k) /\ AllJoined(k.port, k.queue)
    BY DEF Queues, RcvReasons, Fit
  <2>3. Sound(k3) /\ k3.port = k.port /\ Emptied(k.queue, k3.queue, p)
    BY <2>2, ChangedKeeps
  <2> HIDE DEF k3
  <2>4. AllJoined(k3.port, k3.queue)
    BY <2>2, <2>3, JoinedStays
  <2> QED
    BY <1>2, <2>1, <2>3, <2>4 DEF Fit, Emptied
<1> QED
  BY <1>1, <1>2

-----------------------------------------------------------------------------
(* The receive right leaves its task, or dies.                             *)

\* The right of port p, which is in no set and at which nobody receives.
RightTurned(P, P2, Q, D, D2, p) ==
    /\ P2 \in [Ports -> PortRecord] /\ D2 \in [Ports -> DyingRecord]
    /\ \A y \in Ports \ {p} : P2[y] = P[y] /\ D2[y] = D[y]
    /\ P2[p].count = P[p].count /\ P2[p].set = P[p].set /\ P2[p].blocked = P[p].blocked
    /\ P2[p].in_use => P[p].in_use
    /\ D2[p].poked = D[p].poked
    /\ PortFits(P2[p], Q[p], D2[p], p)

\* A port loses its receiver, or dies.
LEMMA RightTurnsKeeps ==
  ASSUME NEW k, NEW p \in Ports, NEW P2, NEW D2, Fit(k),
         RightTurned(k.port, P2, k.queue, dying, D2, p)
  PROVE  /\ Base(P2, k.set, k.queue, k.thread, kmsg, entry, notice, D2)
         /\ AllJoined(P2, k.queue)
<1>1. /\ Base(k.port, k.set, k.queue, k.thread, kmsg, entry, notice, dying)
      /\ AllJoined(k.port, k.queue)
  BY DEF Fit, Sound
<1>2. PortTurned(k.port, P2, dying, D2)
  <2>1. ASSUME NEW y \in Ports
        PROVE  /\ P2[y].count = k.port[y].count /\ P2[y].set = k.port[y].set
               /\ P2[y].blocked = k.port[y].blocked
               /\ P2[y].in_use => k.port[y].in_use
               /\ D2[y].poked = dying[y].poked
    <3>1. CASE y = p
      BY <3>1 DEF RightTurned
    <3>2. CASE y # p
      BY <3>2 DEF RightTurned
    <3> QED
      BY <3>1, <3>2
  <2>2. P2 \in [Ports -> PortRecord] /\ D2 \in [Ports -> DyingRecord]
    BY DEF RightTurned
  <2> QED
    BY <2>1, <2>2 DEF PortTurned
<1>3. PortsFit(P2, k.queue, D2)
  <2>1. ASSUME NEW y \in Ports PROVE PortFits(P2[y], k.queue[y], D2[y], y)
    <3>1. CASE y = p
      BY <3>1 DEF RightTurned
    <3>2. CASE y # p
      BY <1>1, <3>2 DEF RightTurned, Base, PortsFit
    <3> QED
      BY <3>1, <3>2
  <2> QED
    BY <2>1 DEF PortsFit
<1>4. Base(P2, k.set, k.queue, k.thread, kmsg, entry, notice, D2)
  BY <1>1, <1>2, <1>3, PortTurnsKeeps
<1>5. AllJoined(P2, k.queue)
  BY <1>1, <1>2 DEF AllJoined, Joined, PortTurned
<1> QED
  BY <1>4, <1>5

\* A receive right leaves in a message.
LEMMA LeavesKeeps ==
  ASSUME IInv, NEW p \in Ports, RightLeaves(p)
  PROVE  IInv'
<1> DEFINE k == IF port[p].set # Nil THEN set_remove_member(State, port[p].set, p)
                ELSE msg_queue_changed(State, p, "RCV_INVALID_PORT")
           pr == [k.port[p] EXCEPT !.receiver = "transit"]
           P2 == [k.port EXCEPT ![p] = pr]
<1>1. /\ Fit(k) /\ k.port[p].set = Nil /\ k.queue[p].blocked = <<>>
      /\ \A y \in Ports : /\ k.port[y].in_use = port[y].in_use
                          /\ k.port[y].receiver = port[y].receiver
  <2>1. Fit(State) /\ Free(State.port, State.queue, p) /\ State.port = port
    BY StateIsFit, PortIsFree DEF RightLeaves, State
  <2> QED
    BY <2>1, ClearedIs
<1>2. Becomes([k EXCEPT !.port[p].receiver = "transit"])
  <2>1. State.port = port
    BY DEF State
  <2> QED
    BY <2>1 DEF RightLeaves, port_clear_receiver
<1> HIDE DEF k
<1>3. k.port \in [Ports -> PortRecord] /\ k.port[p] \in PortRecord /\ k \in Whole
  BY <1>1, WholeFields DEF Fit, Sound
<1>4. /\ port' = P2 /\ set' = k.set /\ queue' = k.queue /\ thread' = k.thread
      /\ failed' = k.failed /\ k.failed = "no"
  BY <1>2, <1>3 DEF Becomes, Whole
<1>5. /\ pr \in PortRecord /\ pr.count = k.port[p].count /\ pr.set = k.port[p].set
      /\ pr.blocked = k.port[p].blocked /\ pr.in_use = k.port[p].in_use
      /\ pr.receiver = "transit"
  BY <1>3 DEF PortRecord
<1>6. Base(k.port, k.set, k.queue, k.thread, kmsg, entry, notice, dying) /\ dying \in [Ports -> DyingRecord]
  <2>1. Base(k.port, k.set, k.queue, k.thread, kmsg, entry, notice, dying)
    BY <1>1 DEF Fit, Sound
  <2> QED
    BY <2>1, Exactly
<1>7. PortFits(pr, k.queue[p], dying[p], p)
  <2>1. PortFits(k.port[p], k.queue[p], dying[p], p)
    BY <1>6 DEF Base, PortsFit
  <2>2. k.port[p].receiver = "task"
    BY <1>1 DEF RightLeaves
  <2> QED
    BY <1>1, <1>5, <2>1, <2>2 DEF PortFits
<1> HIDE DEF pr
<1>8. RightTurned(k.port, P2, k.queue, dying, dying, p)
  BY <1>3, <1>5, <1>6, <1>7 DEF RightTurned
<1> HIDE DEF P2
<1>9. Base(P2, k.set, k.queue, k.thread, kmsg, entry, notice, dying) /\ AllJoined(P2, k.queue)
  BY <1>1, <1>8, RightTurnsKeeps
<1>10. UNCHANGED <<kmsg, entry, notice, dying>>
  BY DEF RightLeaves
<1> QED
  BY <1>4, <1>9, <1>10 DEF IInv, Inv

\* port_destroy begins.
LEMMA DestroyKeeps ==
  ASSUME IInv, NEW p \in Ports, port_destroy(p)
  PROVE  IInv'
<1> DEFINE cleared == IF port[p].set # Nil THEN set_remove_member(State, port[p].set, p)
                      ELSE msg_queue_changed(State, p, "RCV_INVALID_PORT")
           k == IF port[p].receiver = "task" THEN cleared ELSE State
           pr == [k.port[p] EXCEPT !.receiver = "dead", !.in_use = FALSE]
           P2 == [k.port EXCEPT ![p] = pr]
           dr == [dying[p] EXCEPT !.at = "drain"]
<1>1. Fit(State) /\ State.port = port /\ State.queue = queue
  BY StateIsFit DEF State
<1>2. /\ Base(port, set, queue, thread, kmsg, entry, notice, dying)
      /\ port[p] \in PortRecord /\ dying \in [Ports -> DyingRecord]
  BY InvParts, Exactly
<1>3. /\ Fit(k) /\ k.port[p].set = Nil /\ k.queue[p].blocked = <<>>
      /\ \A y \in Ports : /\ k.port[y].in_use = port[y].in_use
                          /\ k.port[y].receiver = port[y].receiver
  <2>1. CASE port[p].receiver = "task"
    <3>1. Free(State.port, State.queue, p)
      BY <2>1, PortIsFree DEF port_destroy
    <3>2. k = cleared
      BY <2>1
    <3>3. /\ Fit(cleared) /\ cleared.port[p].set = Nil /\ cleared.queue[p].blocked = <<>>
          /\ \A y \in Ports : /\ cleared.port[y].in_use = port[y].in_use
                              /\ cleared.port[y].receiver = port[y].receiver
      BY <1>1, <3>1, ClearedIs
    <3> HIDE DEF cleared, k
    <3> QED
      BY <3>2, <3>3
  <2>2. CASE port[p].receiver # "task"
    <3>1. PortFits(port[p], queue[p], dying[p], p)
      BY <1>2 DEF Base, PortsFit
    <3>2. port[p].set = Nil /\ queue[p].blocked = <<>>
      BY <2>2, <3>1 DEF PortFits
    <3>3. k = State
      BY <2>2
    <3> HIDE DEF k
    <3> QED
      BY <1>1, <3>2, <3>3
  <2> QED
    BY <2>1, <2>2
<1>4. Becomes([[k EXCEPT !.port[p].receiver = "dead"] EXCEPT !.port[p].in_use = FALSE])
  <2>1. CASE port[p].receiver = "task"
    <3>1. k = cleared
      BY <2>1
    <3>2. port_clear_receiver(State, p, "dead") = [cleared EXCEPT !.port[p].receiver = "dead"]
      BY <1>1 DEF port_clear_receiver
    <3> HIDE DEF cleared, k
    <3> QED
      BY <2>1, <3>1, <3>2 DEF port_destroy
  <2>2. CASE port[p].receiver # "task"
    <3>1. k = State
      BY <2>2
    <3> HIDE DEF k
    <3> QED
      BY <2>2, <3>1 DEF port_destroy
  <2> QED
    BY <2>1, <2>2
<1> HIDE DEF k
<1>5. k.port \in [Ports -> PortRecord] /\ k.port[p] \in PortRecord /\ k \in Whole
  BY <1>3, WholeFields DEF Fit, Sound
<1>6. /\ port' = P2 /\ set' = k.set /\ queue' = k.queue /\ thread' = k.thread
      /\ failed' = k.failed /\ k.failed = "no"
  <2>1. [[k EXCEPT !.port[p].receiver = "dead"] EXCEPT !.port[p].in_use = FALSE]
            = [k EXCEPT !.port = P2]
    BY <1>5 DEF Whole, PortRecord
  <2>2. Becomes([k EXCEPT !.port = P2])
    BY <1>4, <2>1
  <2> HIDE DEF P2
  <2> QED
    BY <1>5, <2>2 DEF Becomes, Whole
<1>7. /\ pr \in PortRecord /\ pr.count = k.port[p].count /\ pr.set = k.port[p].set
      /\ pr.blocked = k.port[p].blocked /\ ~pr.in_use
      /\ pr.receiver = "dead"
  BY <1>5 DEF PortRecord
<1>8. Base(k.port, k.set, k.queue, k.thread, kmsg, entry, notice, dying)
  BY <1>3 DEF Fit, Sound
<1>9. /\ dying' = [dying EXCEPT ![p] = dr] /\ dr \in DyingRecord
      /\ dr.at = "drain" /\ dr.poked = dying[p].poked
  <2>1. dying[p] \in DyingRecord
    BY <1>2
  <2> QED
    BY <1>2, <2>1 DEF port_destroy, DyingRecord
<1> HIDE DEF pr, dr
<1>10. PortFits(pr, k.queue[p], dr, p)
  <2>1. PortFits(k.port[p], k.queue[p], dying[p], p)
    BY <1>8 DEF Base, PortsFit
  <2>2. k.port[p].in_use /\ p \in MayDie
    BY <1>3 DEF port_destroy
  <2> QED
    BY <1>3, <1>7, <1>9, <2>1, <2>2 DEF PortFits
<1>11. RightTurned(k.port, P2, k.queue, dying, dying', p)
  BY <1>2, <1>5, <1>7, <1>9, <1>10 DEF RightTurned
<1> HIDE DEF P2
<1>12. Base(P2, k.set, k.queue, k.thread, kmsg, entry, notice, dying') /\ AllJoined(P2, k.queue)
  BY <1>3, <1>11, RightTurnsKeeps
<1>13. UNCHANGED <<kmsg, entry, notice>>
  BY DEF port_destroy
<1> QED
  BY <1>6, <1>12, <1>13 DEF IInv, Inv

-----------------------------------------------------------------------------
(* set_destroy takes the members out one by one.                           *)

\* A set's own fields change.
LEMMA SetTurnsKeeps ==
  ASSUME NEW P, NEW S, NEW Q, NEW T, NEW M, NEW E, NEW N, NEW D, NEW S2,
         Base(P, S, Q, T, M, E, N, D), S2 \in [Sets -> SetRecord], SetsFit(P, S2, Q)
  PROVE  Base(P, S2, Q, T, M, E, N, D)
BY DEF Base, Typed

\* k is k0 with the set s in the hands of set_destroy, between two members.
Between(k0, k, s) ==
    /\ k \in Whole
    /\ k.port = k0.port /\ k.queue = k0.queue /\ k.thread = k0.thread
    /\ \A x \in Sets \ {s} : k.set[x] = k0.set[x]
    /\ ~ k.set[s].in_use /\ k.set[s].traversal = Nil

\* set_destroy goes on with the next member.
LEMMA GoesOnKeeps ==
  ASSUME NEW k0, NEW k, NEW s \in Sets, NEW n, Fit(k0), Between(k0, k, s), n \in Firsts(k, s)
  PROVE  Fit(GoesOn(k, s, n))
<1>1. /\ Base(k.port, k0.set, k.queue, k.thread, kmsg, entry, notice, dying)
      /\ AllJoined(k.port, k.queue) /\ k \in Whole
  BY DEF Fit, Sound, Between
<1>2. /\ k.port \in [Ports -> PortRecord] /\ k.set \in [Sets -> SetRecord]
      /\ k.set[s] \in SetRecord /\ s \in Queues
  BY <1>1, WholeFields DEF Queues
<1>3. CASE n = Nil
  <2> DEFINE sr == [k.set[s] EXCEPT !.next = Nil]
             S2 == [k.set EXCEPT ![s] = sr]
             k1 == [k EXCEPT !.set = S2]
             k2 == msg_queue_changed(k1, s, "RCV_INVALID_PORT")
  <2>1. \A y \in Ports : k.port[y].set # s
    <3>1. {p \in Ports : k.port[p].set = s} = {}
      BY <1>3, Names DEF Firsts
    <3> QED
      BY <3>1
  <2>2. sr \in SetRecord /\ sr.next = Nil /\ ~sr.in_use /\ sr.traversal = Nil
    <3>1. ~ k.set[s].in_use /\ k.set[s].traversal = Nil
      BY DEF Between
    <3> QED
      BY <1>2, <3>1 DEF SetRecord
  <2>3. GoesOn(k, s, n) = k2
    BY <1>1, <1>2, <1>3 DEF GoesOn, Whole
  <2> HIDE DEF sr, k2
  <2>4. S2 \in [Sets -> SetRecord] /\ S2[s] = sr /\ \A x \in Sets \ {s} : S2[x] = k0.set[x]
    BY <1>2, <2>2 DEF Between
  <2> HIDE DEF S2
  <2>5. k1 \in Whole /\ k1.port = k.port /\ k1.set = S2 /\ k1.queue = k.queue /\ k1.thread = k.thread
    BY <1>1, <2>4 DEF Whole
  <2> HIDE DEF k1
  <2>6. /\ k2 \in Whole /\ k2.port = k.port /\ k2.set = S2
        /\ Base(k.port, k0.set, k2.queue, k2.thread, kmsg, entry, notice, dying)
        /\ Emptied(k.queue, k2.queue, s)
    <3>1. "RCV_INVALID_PORT" \in RcvReasons
      BY DEF RcvReasons
    <3>2. Base(k1.port, k0.set, k1.queue, k1.thread, kmsg, entry, notice, dying)
      BY <1>1, <2>5
    <3>3. /\ k2 \in Whole /\ k2.port = k1.port /\ k2.set = k1.set
          /\ Base(k1.port, k0.set, k2.queue, k2.thread, kmsg, entry, notice, dying)
          /\ Emptied(k1.queue, k2.queue, s)
      BY <1>2, <2>5, <3>1, <3>2, ChangedIs DEF k2
    <3> QED
      BY <2>5, <3>3
  <2>7. SetsFit(k.port, S2, k2.queue)
    <3>1. ASSUME NEW x \in Sets PROVE SetFits(k.port, S2[x], k2.queue[x], x)
      <4>1. CASE x = s
        <5>1. k2.queue[s].blocked = <<>>
          BY <2>6 DEF Emptied
        <5> QED
          BY <2>1, <2>2, <2>4, <4>1, <5>1 DEF SetFits
      <4>2. CASE x # s
        <5>1. SetFits(k.port, k0.set[x], k2.queue[x], x)
          BY <2>6 DEF Base, SetsFit
        <5> QED
          BY <2>4, <4>2, <5>1
      <4> QED
        BY <4>1, <4>2
    <3> QED
      BY <3>1 DEF SetsFit
  <2>8. Base(k2.port, k2.set, k2.queue, k2.thread, kmsg, entry, notice, dying)
    BY <2>4, <2>6, <2>7, SetTurnsKeeps
  <2>9. AllJoined(k2.port, k2.queue)
    BY <1>1, <2>6, JoinedStays
  <2> QED
    BY <2>3, <2>6, <2>8, <2>9 DEF Fit, Sound
<1>4. CASE n # Nil
  <2> DEFINE sr == [k.set[s] EXCEPT !.traversal = n, !.next = n]
             S2 == [k.set EXCEPT ![s] = sr]
             k1 == [k EXCEPT !.set = S2]
  <2>1. n \in Ports /\ k.port[n].set = s
    BY <1>4 DEF Firsts
  <2>2. sr \in SetRecord /\ sr.next = n /\ ~sr.in_use /\ sr.traversal = n
    <3>1. ~ k.set[s].in_use
      BY DEF Between
    <3> QED
      BY <1>2, <2>1, <3>1 DEF SetRecord
  <2>3. GoesOn(k, s, n) = k1
    BY <1>1, <1>2, <1>4 DEF GoesOn, Whole
  <2> HIDE DEF sr
  <2>4. S2 \in [Sets -> SetRecord] /\ S2[s] = sr /\ \A x \in Sets \ {s} : S2[x] = k0.set[x]
    BY <1>2, <2>2 DEF Between
  <2> HIDE DEF S2
  <2>5. k1 \in Whole /\ k1.port = k.port /\ k1.set = S2 /\ k1.queue = k.queue /\ k1.thread = k.thread
    BY <1>1, <2>4 DEF Whole
  <2> HIDE DEF k1
  <2>6. SetsFit(k.port, S2, k.queue)
    <3>1. ASSUME NEW x \in Sets PROVE SetFits(k.port, S2[x], k.queue[x], x)
      <4>1. CASE x = s
        BY <1>4, <2>1, <2>2, <2>4, <4>1 DEF SetFits
      <4>2. CASE x # s
        <5>1. SetFits(k.port, k0.set[x], k.queue[x], x)
          BY <1>1 DEF Base, SetsFit
        <5> QED
          BY <2>4, <4>2, <5>1
      <4> QED
        BY <4>1, <4>2
    <3> QED
      BY <3>1 DEF SetsFit
  <2>7. Base(k.port, S2, k.queue, k.thread, kmsg, entry, notice, dying)
    BY <1>1, <2>4, <2>6, SetTurnsKeeps
  <2> QED
    BY <1>1, <2>3, <2>5, <2>7 DEF Fit, Sound
<1> QED
  BY <1>3, <1>4

\* set_destroy begins.
LEMMA SetDestroyKeeps ==
  ASSUME IInv, NEW s \in Sets, set_destroy(s)
  PROVE  IInv'
<1> DEFINE k == [State EXCEPT !.set[s].in_use = FALSE]
           sr == [set[s] EXCEPT !.in_use = FALSE]
<1>1. Fit(State) /\ State \in Whole
  BY StateIsFit DEF Fit, Sound
<1>2. /\ State.port = port /\ State.set = set /\ State.queue = queue /\ State.thread = thread
      /\ State.failed = failed
  BY DEF State
<1>3. set \in [Sets -> SetRecord] /\ set[s] \in SetRecord
  BY InvParts, Exactly
<1>4. SetFits(port, set[s], queue[s], s)
  BY InvParts DEF Base, SetsFit
<1>5. sr \in SetRecord /\ ~sr.in_use /\ sr.traversal = Nil
  <2>1. set[s].traversal = Nil
    BY <1>4 DEF SetFits, set_destroy
  <2> QED
    BY <1>3, <2>1 DEF SetRecord
<1>6. k = [State EXCEPT !.set = [set EXCEPT ![s] = sr]]
  BY <1>1, <1>2, <1>3 DEF Whole
<1> HIDE DEF sr, k
<1>7. Between(State, k, s)
  <2> DEFINE S2 == [set EXCEPT ![s] = sr]
  <2>1. S2 \in [Sets -> SetRecord] /\ S2[s] = sr /\ \A x \in Sets \ {s} : S2[x] = set[x]
    BY <1>3, <1>5
  <2> HIDE DEF S2
  <2>2. k = [State EXCEPT !.set = S2]
    BY <1>6 DEF S2
  <2>3. /\ k \in Whole /\ k.port = State.port /\ k.set = S2 /\ k.queue = State.queue
        /\ k.thread = State.thread
    BY <1>1, <2>1, <2>2 DEF Whole
  <2> QED
    BY <1>2, <1>5, <2>1, <2>3 DEF Between
<1>8. PICK n \in Firsts(k, s) : Becomes(GoesOn(k, s, n))
  BY DEF set_destroy, k
<1>9. Fit(GoesOn(k, s, n))
  BY <1>1, <1>7, GoesOnKeeps
<1>10. UNCHANGED <<kmsg, entry, notice, dying>>
  BY DEF set_destroy
<1> QED
  BY <1>8, <1>9, <1>10, BecomesFit

\* set_destroy takes out a member.
LEMMA DestroyNextKeeps ==
  ASSUME IInv, NEW s \in Sets, SetDestroyNext(s)
  PROVE  IInv'
<1> DEFINE p == set[s].next
           k == IF set[s].traversal = Nil
                THEN Checked(State, port[p].set # s, "set_destroy")
                ELSE set_remove_member([State EXCEPT !.set[s].traversal = Nil], s, p)
<1>1. Fit(State) /\ State \in Whole
  BY StateIsFit DEF Fit, Sound
<1>2. /\ State.port = port /\ State.set = set /\ State.queue = queue /\ State.thread = thread
      /\ State.failed = failed
  BY DEF State
<1>3. set \in [Sets -> SetRecord] /\ set[s] \in SetRecord /\ queue[p].lock = Nil /\ queue[s].lock = Nil
  BY InvParts, Exactly DEF SetDestroyNext, Unlocked
<1>4. SetFits(port, set[s], queue[s], s)
  BY InvParts DEF Base, SetsFit
<1>5. p \in Ports /\ ~set[s].in_use /\ set[s].in_use \in BOOLEAN
  BY <1>3, <1>4 DEF SetFits, SetDestroyNext, SetRecord
<1>6. \E k0 : Fit(k0) /\ Between(k0, k, s)
  <2>1. CASE set[s].traversal = Nil
    <3>1. port[p].set # s
      BY <1>4, <2>1 DEF SetFits, SetDestroyNext
    <3>2. k = State
      BY <2>1, <3>1 DEF Checked
    <3> HIDE DEF k
    <3>3. Between(State, k, s)
      BY <1>1, <1>2, <1>5, <2>1, <3>2 DEF Between
    <3> QED
      BY <1>1, <3>3
  <2>2. CASE set[s].traversal # Nil
    <3>1. set[s].traversal = p /\ port[p].set = s
      BY <1>4, <2>2 DEF SetFits
    <3> DEFINE now == [set EXCEPT ![s].traversal = Nil]
               kt == [State EXCEPT !.set[s].traversal = Nil]
    <3>2. k = set_remove_member(kt, s, p)
      BY <2>2
    <3> HIDE DEF k
    <3>3. /\ now \in [Sets -> SetRecord] /\ now[s].traversal = Nil
          /\ now[s].in_use = set[s].in_use /\ now[s].next = p
          /\ \A x \in Sets \ {s} : now[x] = set[x]
      BY <1>3 DEF SetRecord
    <3> HIDE DEF now
    <3>4. /\ kt \in Whole /\ kt.port = port /\ kt.queue = queue /\ kt.set = now
          /\ kt.thread = thread
      <4>1. kt = [State EXCEPT !.set = now]
        BY <1>1, <1>2 DEF Whole, now
      <4> HIDE DEF kt
      <4> QED
        BY <1>1, <1>2, <3>3, <4>1 DEF Whole
    <3> HIDE DEF kt
    <3>5. queue[p].blocked = <<>>
      BY <1>5, <3>1, InvParts, Names DEF AllJoined, Joined
    <3>6. Removed(kt, k, s, p)
      BY <1>5, <3>1, <3>2, <3>4, <3>5, RemovedIs
    <3>7. Removed(State, k, s, p) /\ k.set[s].traversal = Nil /\ k.set[s].in_use = set[s].in_use
          /\ k \in Whole
      BY <1>2, <3>1, <3>3, <3>4, <3>6 DEF Removed
    <3>8. State.port[p].set = s /\ State.queue[p].lock = Nil /\ State.queue[s].lock = Nil
      BY <1>2, <1>3, <3>1
    <3>9. Fit(k)
      BY <1>1, <1>5, <3>7, <3>8, RemovedKeeps
    <3>10. Between(k, k, s)
      BY <1>5, <3>7 DEF Between
    <3> QED
      BY <3>9, <3>10
  <2> QED
    BY <2>1, <2>2
<1>7. PICK n \in Firsts(k, s) : Becomes(GoesOn(k, s, n))
  BY DEF SetDestroyNext
<1>8. UNCHANGED <<kmsg, entry, notice, dying>>
  BY DEF SetDestroyNext
<1> HIDE DEF k
<1>9. Fit(GoesOn(k, s, n))
  BY <1>6, GoesOnKeeps
<1> QED
  BY <1>7, <1>8, <1>9, BecomesFit

-----------------------------------------------------------------------------
(* One message moves.                                                      *)

\* Where a message in transit is: in one queue, or with one thread.
InQueue(P, Q, T, M, m, q) ==
    /\ q \in Queues /\ m \in ToSet(Q[q].messages)
    /\ q = M[m].to \/ q = P[M[m].to].set
    /\ \A x \in Queues : m \in ToSet(Q[x].messages) => x = q
    /\ \A t \in Threads : ~ Keeps(T[t], m)

WithThread(Q, T, m, t) ==
    /\ t \in Threads /\ Carries(T[t], m)
    /\ \A x \in Queues : m \notin ToSet(Q[x].messages)
    /\ \A u \in Threads : Keeps(T[u], m) => u = t

\* Nothing else has moved.
OthersStay(Q, Q2, T, T2, m) ==
    /\ \A q \in Queues : IsInjective(Q2[q].messages)
    /\ \A q \in Queues : \A m2 \in Msgs \ {m} :
            m2 \in ToSet(Q2[q].messages) <=> m2 \in ToSet(Q[q].messages)
    /\ \A t \in Threads : \A m2 \in Msgs \ {m} :
            /\ Sends(T2[t], m2) <=> Sends(T[t], m2)
            /\ Carries(T2[t], m2) <=> Carries(T[t], m2)
            /\ Tells(T2[t], m2) <=> Tells(T[t], m2)
    /\ \A t \in Threads : /\ ~ Sends(T[t], m) /\ ~ Tells(T[t], m)
                          /\ ~ Sends(T2[t], m) /\ ~ Tells(T2[t], m)

\* One message moves on, within the queues or to a thread.
LEMMA OneMoves ==
  ASSUME NEW P, NEW Q, NEW T, NEW M, NEW E, NEW N, NEW Q2, NEW T2, NEW m \in Msgs,
         WorkParts(P, Q, T, M, E, N), Addressed(M), InTransit(Q, T, m),
         OthersStay(Q, Q2, T, T2, m),
         (\E q : InQueue(P, Q2, T2, M, m, q)) \/ (\E t : WithThread(Q2, T2, m, t))
  PROVE  WorkParts(P, Q2, T2, M, E, N)
<1>1. \A t \in Threads : \A m2 \in Msgs \ {m} : Keeps(T2[t], m2) <=> Keeps(T[t], m2)
  BY DEF OthersStay, Keeps
<1>2. InTransit(Q2, T2, m)
  BY DEF InTransit, InQueue, WithThread
<1>3. \A m2 \in Msgs \ {m} : InTransit(Q2, T2, m2) <=> InTransit(Q, T, m2)
  BY DEF InTransit, OthersStay
<1>4. \A t, u \in Threads : Keeps(T2[t], m) /\ Keeps(T2[u], m) => t = u
  BY DEF InQueue, WithThread
<1>5. \A q \in Queues : m \in ToSet(Q2[q].messages) =>
            /\ q = M[m].to \/ q = P[M[m].to].set
            /\ \A t \in Threads : ~ Keeps(T2[t], m)
            /\ \A q2 \in Queues : m \in ToSet(Q2[q2].messages) => q2 = q
  BY DEF InQueue, WithThread
<1>6. Apart(P, Q, T, M)
  BY ApartIs
<1>7. Apart(P, Q2, T2, M)
  <2>1. \A q \in Queues : IsInjective(Q2[q].messages)
    BY DEF OthersStay
  <2>2. ASSUME NEW q \in Queues, NEW m2 \in Msgs, m2 \in ToSet(Q2[q].messages)
        PROVE  /\ q = M[m2].to \/ q = P[M[m2].to].set
               /\ \A t \in Threads : ~ Keeps(T2[t], m2)
               /\ \A q2 \in Queues : m2 \in ToSet(Q2[q2].messages) => q2 = q
    <3>1. CASE m2 = m
      BY <1>5, <2>2, <3>1
    <3>2. CASE m2 # m
      <4>1. \A x \in Queues : m2 \in ToSet(Q2[x].messages) <=> m2 \in ToSet(Q[x].messages)
        BY <3>2 DEF OthersStay
      <4> QED
        BY <1>1, <1>6, <2>2, <3>2, <4>1 DEF Apart
    <3> QED
      BY <3>1, <3>2
  <2>3. ASSUME NEW t \in Threads, NEW u \in Threads, NEW m2 \in Msgs, Keeps(T2[t], m2), Keeps(T2[u], m2)
        PROVE  t = u
    BY <1>1, <1>4, <1>6, <2>3 DEF Apart
  <2> QED
    BY <2>1, <2>2, <2>3 DEF Apart
<1>8. \A m2 \in Msgs : /\ InTransit(Q2, T2, m2) <=> InTransit(Q, T, m2)
                       /\ \A t \in Threads : /\ Sends(T2[t], m2) <=> Sends(T[t], m2)
                                             /\ Tells(T2[t], m2) <=> Tells(T[t], m2)
  BY <1>2, <1>3 DEF OthersStay
<1> QED
  BY <1>7, <1>8, WorkMoves

\* Where a message in a queue, or with a thread that carries it, is.
LEMMA QueuedOnce ==
  ASSUME NEW P, NEW S, NEW Q, NEW T, NEW M, NEW E, NEW N, NEW D,
         Base(P, S, Q, T, M, E, N, D), NEW q \in Queues, NEW m \in ToSet(Q[q].messages)
  PROVE  /\ m \in Msgs /\ InQueue(P, Q, T, M, m, q) /\ InTransit(Q, T, m)
         /\ \A t \in Threads : ~ Sends(T[t], m) /\ ~ Tells(T[t], m)
<1>1. QueuedAt(P, Q, T, M, q, m)
  BY QueuedFacts
<1> QED
  BY <1>1 DEF QueuedAt, InQueue, InTransit, Keeps

\* The first message of a queue moves to the end of that of the port's set.
MovesOn(Q, Q2, p, s) ==
    /\ Q2 \in [Queues -> QueueRecord]
    /\ Q2[p].messages = Tail(Q[p].messages)
    /\ Q2[s].messages = Append(Q[s].messages, Head(Q[p].messages))
    /\ \A q \in Queues \ {s, p} : Q2[q].messages = Q[q].messages
    /\ \A q \in Queues : Q2[q].blocked = Q[q].blocked /\ Q2[q].lock = Q[q].lock

\* A message moves from the queue of a member to that of its set.
LEMMA MovesOnKeeps ==
  ASSUME NEW P, NEW S, NEW Q, NEW T, NEW M, NEW E, NEW N, NEW D, NEW Q2,
         NEW p \in Ports, NEW s \in Sets,
         Base(P, S, Q, T, M, E, N, D), MovesOn(Q, Q2, p, s),
         P[p].set = s, Q[p].messages # <<>>, Q[s].blocked = <<>>
  PROVE  Base(P, S, Q2, T, M, E, N, D)
<1> DEFINE m == Head(Q[p].messages)
           a == Tail(Q[p].messages)
           c == Append(Q[s].messages, m)
<1>1. p \in Queues /\ s \in Queues /\ p # s
  BY Names DEF Queues
<1>2. /\ Q[p].messages \in Seq(Msgs) /\ Q[s].messages \in Seq(Msgs)
      /\ \A q \in Queues : IsInjective(Q[q].messages)
  <2>1. Q[p] \in QueueRecord /\ Q[s] \in QueueRecord
    BY <1>1, Exactly
  <2> QED
    BY <2>1 DEF QueueRecord, Base, Queued
<1>3. /\ m \in ToSet(Q[p].messages) /\ a \in Seq(Msgs) /\ IsInjective(a)
      /\ ToSet(a) = ToSet(Q[p].messages) \ {m}
  BY <1>1, <1>2, QueueTail
<1>4. /\ m \in Msgs /\ InQueue(P, Q, T, M, m, p) /\ InTransit(Q, T, m)
      /\ \A t \in Threads : ~ Sends(T[t], m) /\ ~ Tells(T[t], m)
  BY <1>1, <1>3, QueuedOnce
<1>5. m \notin ToSet(Q[s].messages) /\ M[m].to = p
  <2>1. P[M[m].to].set # p
    <3>1. M[m].to = p \/ p = P[M[m].to].set
      BY <1>4 DEF InQueue
    <3>2. QueuedAt(P, Q, T, M, p, m)
      BY <1>1, <1>3, QueuedFacts
    <3> QED
      BY <1>1, <3>2, Names DEF QueuedAt
  <2> QED
    BY <1>1, <1>4, <2>1 DEF InQueue
<1>6. c \in Seq(Msgs) /\ IsInjective(c) /\ ToSet(c) = ToSet(Q[s].messages) \cup {m}
  BY <1>1, <1>2, <1>4, <1>5, QueueAppend
<1>7. Q2[p].messages = a /\ Q2[s].messages = c /\ \A q \in Queues \ {s, p} : Q2[q].messages = Q[q].messages
  BY DEF MovesOn
<1> HIDE DEF m, a, c
<1>8. \A q \in Queues : IsInjective(Q2[q].messages)
  BY <1>2, <1>3, <1>6, <1>7
<1>9. \A q \in Queues : \A m2 \in Msgs \ {m} : m2 \in ToSet(Q2[q].messages) <=> m2 \in ToSet(Q[q].messages)
  <2>1. ASSUME NEW q \in Queues, NEW m2 \in Msgs \ {m}
        PROVE  m2 \in ToSet(Q2[q].messages) <=> m2 \in ToSet(Q[q].messages)
    <3>1. CASE q = p
      BY <1>3, <1>7, <3>1
    <3>2. CASE q = s
      BY <1>6, <1>7, <3>2
    <3>3. CASE q \notin {s, p}
      BY <1>7, <3>3
    <3> QED
      BY <3>1, <3>2, <3>3
  <2> QED
    BY <2>1
<1>10. OthersStay(Q, Q2, T, T, m)
  BY <1>4, <1>8, <1>9 DEF OthersStay
<1>11. \A q \in Queues : m \in ToSet(Q2[q].messages) <=> q = s
  <2>1. \A q \in Queues : m \in ToSet(Q[q].messages) => q = p
    BY <1>4 DEF InQueue
  <2>2. ASSUME NEW q \in Queues PROVE m \in ToSet(Q2[q].messages) <=> q = s
    <3>1. CASE q = p
      BY <1>1, <1>3, <1>7, <3>1
    <3>2. CASE q = s
      BY <1>6, <1>7, <3>2
    <3>3. CASE q \notin {s, p}
      BY <1>7, <2>1, <3>3
    <3> QED
      BY <3>1, <3>2, <3>3
  <2> QED
    BY <2>2
<1>12. InQueue(P, Q2, T, M, m, s)
  BY <1>1, <1>4, <1>5, <1>11 DEF InQueue
<1>13. Apart(P, Q2, T, M)
  <2>1. WorkParts(P, Q, T, M, E, N) /\ Addressed(M)
    BY Exactly DEF Base
  <2>2. WorkParts(P, Q2, T, M, E, N)
    BY <1>4, <1>10, <1>12, <2>1, OneMoves
  <2> QED
    BY <2>2, ApartIs
<1>14. \A m2 \in Msgs : (\E q \in Queues : m2 \in ToSet(Q2[q].messages))
                            <=> (\E q \in Queues : m2 \in ToSet(Q[q].messages))
  <2>1. (\E q \in Queues : m \in ToSet(Q2[q].messages)) /\ (\E q \in Queues : m \in ToSet(Q[q].messages))
    BY <1>1, <1>3, <1>11
  <2> QED
    BY <1>9, <2>1
<1>15. \A q \in Queues : Q2[q].blocked = <<>> \/ Q2[q].messages = <<>>
  <2>1. \A q \in Queues : Q[q].blocked = <<>> \/ Q[q].messages = <<>>
    BY DEF Base, Sleeping
  <2>2. \A q \in Queues : Q2[q].blocked = Q[q].blocked
    BY DEF MovesOn
  <2> QED
    BY <1>1, <1>7, <2>1, <2>2
<1>16. Q2 \in [Queues -> QueueRecord] /\ \A q \in Queues : Q2[q].blocked = Q[q].blocked /\ Q2[q].lock = Q[q].lock
  BY DEF MovesOn
<1> QED
  BY <1>13, <1>14, <1>15, <1>16, QueuesTurnKeeps

-----------------------------------------------------------------------------
(* A receiver gets a message from a queue.                                 *)

\* m, the first message of q, leaves it, and some lists get shorter.
Hands(Q, Q2, q, m) ==
    /\ Q2 \in [Queues -> QueueRecord]
    /\ Q[q].messages # <<>> /\ m = Head(Q[q].messages)
    /\ Q2[q].messages = Tail(Q[q].messages)
    /\ \A x \in Queues \ {q} : Q2[x].messages = Q[x].messages
    /\ \A x \in Queues : /\ Q2[x].lock = Q[x].lock
                         /\ Q2[x].blocked # <<>> => Q[x].blocked # <<>>

\* A thread that has to do with no message turns to carry m.
TakesUp(r, r2, m) ==
    /\ \A m2 \in Msgs : ~ Keeps(r, m2)
    /\ Carries(r2, m) /\ r.at # "deliver" /\ r2.at # "deliver"
    /\ \A M, p : ~ SleepsAt(r, M, p) /\ ~ SleepsAt(r2, M, p)

\* A message is handed to a thread that waits.
LEMMA HandsKeeps ==
  ASSUME NEW P, NEW S, NEW Q, NEW T, NEW M, NEW E, NEW N, NEW D, NEW Q2, NEW T2,
         NEW q \in Queues, NEW m, NEW t \in Threads, NEW r2,
         Base(P, S, Q, T, M, E, N, D), Hands(Q, Q2, q, m), TakesUp(T[t], r2, m),
         Changed(T, T2, t, r2), MayAct(T[t], r2, M, D, t), ReceiveLists(Q2, T2)
  PROVE  Base(P, S, Q2, T2, M, E, N, D)
<1> DEFINE a == Tail(Q[q].messages)
<1>1. /\ Q[q].messages \in Seq(Msgs)
      /\ \A x \in Queues : IsInjective(Q[x].messages)
  <2>1. Q[q] \in QueueRecord
    BY Exactly
  <2> QED
    BY <2>1 DEF QueueRecord, Base, Queued
<1>2. /\ m \in ToSet(Q[q].messages) /\ IsInjective(a)
      /\ ToSet(a) = ToSet(Q[q].messages) \ {m}
  BY <1>1, QueueTail DEF Hands
<1>3. /\ m \in Msgs /\ InQueue(P, Q, T, M, m, q) /\ InTransit(Q, T, m)
      /\ \A u \in Threads : ~ Sends(T[u], m) /\ ~ Tells(T[u], m)
  BY <1>2, QueuedOnce
<1>4. Q2[q].messages = a /\ \A x \in Queues \ {q} : Q2[x].messages = Q[x].messages
  BY DEF Hands
<1>5. Acted(T, T2, M, M, D, t, r2)
  BY OneActs DEF SameTo
<1>6. T2[t] = r2 /\ \A u \in Threads \ {t} : T2[u] = T[u]
  BY <1>5 DEF Acted, Others
<1> HIDE DEF a
<1>7. \A x \in Queues : IsInjective(Q2[x].messages)
  BY <1>1, <1>2, <1>4
<1>8. \A x \in Queues : ToSet(Q2[x].messages) = ToSet(Q[x].messages) \ {m}
  <2>1. \A x \in Queues \ {q} : m \notin ToSet(Q[x].messages)
    BY <1>3 DEF InQueue
  <2>2. ASSUME NEW x \in Queues PROVE ToSet(Q2[x].messages) = ToSet(Q[x].messages) \ {m}
    <3>1. CASE x = q
      BY <1>2, <1>4, <3>1
    <3>2. CASE x # q
      BY <1>4, <2>1, <3>2
    <3> QED
      BY <3>1, <3>2
  <2> QED
    BY <2>2
<1>9. OthersStay(Q, Q2, T, T2, m)
  <2>1. r2.msg = m /\ ~ Sends(r2, m) /\ ~ Tells(r2, m)
    BY DEF TakesUp, Carries, Sends, Tells, Handed
  <2>2. \A m2 : m2 # m => ~ Keeps(r2, m2)
    BY <2>1, OneMessage
  <2>3. ASSUME NEW u \in Threads, NEW m2 \in Msgs \ {m}
        PROVE  /\ Sends(T2[u], m2) <=> Sends(T[u], m2)
               /\ Carries(T2[u], m2) <=> Carries(T[u], m2)
               /\ Tells(T2[u], m2) <=> Tells(T[u], m2)
    <3>1. CASE u = t
      BY <1>6, <2>2, <3>1 DEF TakesUp, Keeps
    <3>2. CASE u # t
      BY <1>6, <3>2
    <3> QED
      BY <3>1, <3>2
  <2>4. \A u \in Threads : ~ Sends(T2[u], m) /\ ~ Tells(T2[u], m)
    BY <1>3, <1>6, <2>1
  <2> QED
    BY <1>3, <1>7, <1>8, <2>3, <2>4 DEF OthersStay
<1>10. WithThread(Q2, T2, m, t)
  <2>1. \A u \in Threads \ {t} : ~ Keeps(T2[u], m)
    BY <1>3, <1>6 DEF InQueue
  <2> QED
    BY <1>6, <1>8, <2>1 DEF WithThread, TakesUp
<1>11. WorkParts(P, Q2, T2, M, E, N)
  <2>1. WorkParts(P, Q, T, M, E, N) /\ Addressed(M)
    BY Exactly DEF Base
  <2> QED
    BY <1>3, <1>9, <1>10, <2>1, OneMoves
<1>12. Locks(P, Q2, T2, M)
  <2>1. \A x \in Queues : Q2[x].lock = Q[x].lock
    BY DEF Hands
  <2>2. T[t].at # "deliver" /\ T2[t].at # "deliver" /\ Others(T, T2, t) /\ SameTo(M, M)
    BY <1>5, <1>6 DEF TakesUp, Acted, SameTo
  <2> QED
    BY <2>1, <2>2, LocksOne
<1>13. SendLists(P, T2, M, D)
  <2>1. \A u \in Threads : \A p \in Ports : SleepsAt(T2[u], M, p) <=> SleepsAt(T[u], M, p)
    BY <1>6 DEF TakesUp
  <2> QED
    BY <2>1 DEF Base, SendLists
<1>14. \A x \in Queues : Q2[x].blocked # <<>> => Q[x].blocked # <<>>
  BY DEF Hands
<1>15. PortsFit(P, Q2, D)
  <2>1. ASSUME NEW p \in Ports PROVE PortFits(P[p], Q2[p], D[p], p)
    <3>1. PortFits(P[p], Q[p], D[p], p) /\ p \in Queues
      BY DEF Base, PortsFit, Queues
    <3> QED
      BY <1>14, <3>1 DEF PortFits
  <2> QED
    BY <2>1 DEF PortsFit
<1>16. SetsFit(P, S, Q2)
  <2>1. ASSUME NEW s \in Sets PROVE SetFits(P, S[s], Q2[s], s)
    <3>1. SetFits(P, S[s], Q[s], s) /\ s \in Queues
      BY DEF Base, SetsFit, Queues
    <3> QED
      BY <1>14, <3>1 DEF SetFits
  <2> QED
    BY <2>1 DEF SetsFit
<1>17. Sleeping(Q2, T2)
  <2>1. ASSUME NEW x \in Queues, Q2[x].blocked # <<>> PROVE Q2[x].messages = <<>>
    <3>1. Q[x].messages = <<>>
      BY <1>14, <2>1 DEF Base, Sleeping
    <3>2. x # q
      BY <3>1 DEF Hands
    <3> QED
      BY <1>4, <3>1, <3>2
  <2> QED
    BY <1>5, <2>1 DEF Sleeping, Acted
<1>18. Typed(P, S, Q2, T2) /\ Locals(T2) /\ Patience(T2, M, D)
  BY <1>5, Exactly DEF Typed, Acted, Hands
<1> QED
  BY <1>11, <1>12, <1>13, <1>15, <1>16, <1>17, <1>18 DEF Base, WorkParts

\* The receivers before the first one whose buffer holds the message, it, and
\* those after it.
Chosen(blocked, w, bb, t, b) ==
    /\ w \in Seq(Threads) /\ bb \in Seq(Threads) /\ b \in Seq(Threads) /\ t \in Threads
    /\ ToSet(w) \subseteq ToSet(blocked)
    /\ IsInjective(bb) /\ ToSet(bb) = ToSet(blocked) \ ToSet(w)
    /\ t \in ToSet(bb) /\ t \notin ToSet(w)
    /\ IsInjective(b) /\ ToSet(b) = ToSet(bb) \ {t}

\* The elements of a list, by index.
LEMMA PrefixSet ==
  ASSUME NEW S, NEW f \in Seq(S), NEW k, Len(f) = k, NEW g, \A j \in 1 .. k : f[j] = g[j]
  PROVE  ToSet(f) = {g[j] : j \in 1 .. k}
<1>1. DOMAIN f = 1 .. k
  OBVIOUS
<1> QED
  BY <1>1 DEF ToSet

\* The receiver that gets a message, and those before and after it.
LEMMA ChosenIs ==
  ASSUME NEW T, NEW blocked \in Seq(Threads), IsInjective(blocked), NEW m,
         FirstFit(T, blocked, m) # {}
  PROVE  LET i == CHOOSE i \in FirstFit(T, blocked, m) : TRUE
             n == Len(blocked)
         IN  Chosen(blocked, SubSeq(blocked, 1, i - 1), SubSeq(blocked, i, n),
                    blocked[i], SubSeq(blocked, i + 1, n))
<1> DEFINE i == CHOOSE i \in FirstFit(T, blocked, m) : TRUE
           n == Len(blocked)
           w == SubSeq(blocked, 1, i - 1)
           bb == SubSeq(blocked, i, n)
           v == SubSeq(blocked, 1, i)
           b == SubSeq(blocked, i + 1, n)
           t == blocked[i]
<1>1. i \in FirstFit(T, blocked, m)
  OBVIOUS
<1>2. i \in 1 .. n /\ n \in Nat
  BY <1>1 DEF FirstFit
<1> HIDE DEF i, n
<1>3. i - 1 \in 0 .. n /\ i \in 0 .. n /\ (i - 1) + 1 = i
  BY <1>2
<1>4. /\ w \in Seq(Threads) /\ bb \in Seq(Threads)
      /\ Len(w) = i - 1 /\ \A j \in 1 .. i - 1 : w[j] = blocked[j]
      /\ ToSet(blocked) = ToSet(w) \cup ToSet(bb) /\ IsInjective(bb)
      /\ ToSet(w) \cap ToSet(bb) = {}
  <2> DEFINE k == i - 1
  <2>1. k \in 0 .. Len(blocked) /\ k + 1 = i
    BY <1>3 DEF n
  <2> HIDE DEF k
  <2>2. LET x == SubSeq(blocked, 1, k)
            y == SubSeq(blocked, k + 1, Len(blocked))
        IN  /\ x \in Seq(Threads) /\ y \in Seq(Threads)
            /\ Len(x) = k /\ \A j \in 1 .. k : x[j] = blocked[j]
            /\ ToSet(blocked) = ToSet(x) \cup ToSet(y) /\ IsInjective(y)
            /\ ToSet(x) \cap ToSet(y) = {}
    BY <2>1, QueueSplit
  <2>3. w = SubSeq(blocked, 1, k) /\ bb = SubSeq(blocked, k + 1, Len(blocked)) /\ k = i - 1
    BY <2>1 DEF k, n
  <2> QED
    BY <2>2, <2>3
<1>5. /\ v \in Seq(Threads) /\ b \in Seq(Threads)
      /\ Len(v) = i /\ \A j \in 1 .. i : v[j] = blocked[j]
      /\ ToSet(blocked) = ToSet(v) \cup ToSet(b) /\ IsInjective(b)
      /\ ToSet(v) \cap ToSet(b) = {}
  BY <1>3, QueueSplit DEF n
<1>6. ToSet(v) = ToSet(w) \cup {t}
  <2> HIDE DEF v, w
  <2>1. ToSet(v) = {blocked[j] : j \in 1 .. i}
    BY <1>5, PrefixSet
  <2>2. ToSet(w) = {blocked[j] : j \in 1 .. i - 1}
    BY <1>4, PrefixSet
  <2>3. 1 .. i = (1 .. i - 1) \cup {i}
    BY <1>2
  <2> QED
    BY <2>1, <2>2, <2>3
<1>7. t \notin ToSet(w)
  <2>1. \A j \in 1 .. i - 1 : blocked[j] # t
    BY <1>2 DEF IsInjective, n
  <2> QED
    BY <1>4, <2>1 DEF ToSet
<1>8. t \in Threads
  BY <1>2 DEF n
<1> HIDE DEF w, bb, v, b, t
<1>9. /\ ToSet(w) \subseteq ToSet(blocked) /\ ToSet(bb) = ToSet(blocked) \ ToSet(w)
      /\ t \in ToSet(bb) /\ ToSet(b) = ToSet(bb) \ {t}
  BY <1>4, <1>5, <1>6, <1>7
<1>10. Chosen(blocked, w, bb, t, b)
  BY <1>4, <1>5, <1>7, <1>8, <1>9 DEF Chosen
<1> QED
  BY <1>10 DEF i, n, w, bb, b, t

\* A receiver that sleeps at x is given m and goes on.
Served(r, r2, m) ==
    /\ r2 \in ThreadRecord /\ ~r2.wait /\ ~r2.timer
    /\ r2.at = r.at /\ r2.obj = r.obj /\ r2.tout = r.tout
    /\ r2.msg = m /\ r2.ipc_state = "SUCCESS"

\* A receiver that gets a message acts.
LEMMA ServedActs ==
  ASSUME NEW P, NEW S, NEW Q, NEW T, NEW M, NEW E, NEW N, NEW D, NEW t \in Threads, NEW r2,
         NEW x \in Queues, NEW m \in Msgs,
         Base(P, S, Q, T, M, E, N, D), Served(T[t], r2, m), ReceivesAt(T[t], x)
  PROVE  /\ MayAct(T[t], r2, M, D, t) /\ TakesUp(T[t], r2, m)
         /\ \A y : ReceivesAt(T[t], y) => y = x
         /\ \A y : ~ ReceivesAt(r2, y)
<1>1. Local(T[t]) /\ Calm(T[t], M, t)
  BY Exactly DEF Base, Patience, Patient
<1>2. r2 \in ThreadRecord /\ Local(r2)
  <2>1. r2 \in ThreadRecord
    BY DEF Served
  <2>2. r2.at = "recv_wait" /\ r2.obj \in Queues
    BY DEF Served, ReceivesAt
  <2> QED
    BY <2>1, <2>2 DEF Served, Local
<1>3. \A p \in Ports : D[p].poked # t
  <2>1. ASSUME NEW p \in Ports, D[p].poked = t PROVE FALSE
    <3>1. D[p].poked # Nil
      BY <2>1, Names
    <3>2. T[t].at = "send_wait"
      BY <2>1, <3>1, PokedIs
    <3> QED
      BY <3>2 DEF ReceivesAt
  <2> QED
    BY <2>1
<1>4. Calm(r2, M, t)
  BY <1>1 DEF Calm, Served, ReceivesAt, Sends
<1>5. MayAct(T[t], r2, M, D, t)
  BY <1>2, <1>3, <1>4 DEF MayAct, Served, ReceivesAt, Handed
<1>6. TakesUp(T[t], r2, m)
  BY DEF TakesUp, Served, ReceivesAt, Keeps, Carries, Tells, Sends, Handed, SleepsAt
<1>7. (\A y : ReceivesAt(T[t], y) => y = x) /\ \A y : ~ ReceivesAt(r2, y)
  BY DEF ReceivesAt, Served
<1> QED
  BY <1>5, <1>6, <1>7

\* t leaves the list of x.
Shortens(Q, Q2, x, t) ==
    /\ IsInjective(Q2[x].blocked)
    /\ ToSet(Q2[x].blocked) = ToSet(Q[x].blocked) \ {t}
    /\ \A y \in Queues \ {x} : Q2[y].blocked = Q[y].blocked

\* A receiver gets a message and is off its list.
LEMMA TakesKeeps ==
  ASSUME NEW P, NEW S, NEW Q, NEW T, NEW M, NEW E, NEW N, NEW D, NEW Q2, NEW T2,
         NEW q \in Queues, NEW x \in Queues, NEW m \in Msgs, NEW t \in Threads, NEW r2,
         Base(P, S, Q, T, M, E, N, D), Hands(Q, Q2, q, m), Shortens(Q, Q2, x, t),
         t \in ToSet(Q[x].blocked), Served(T[t], r2, m), Changed(T, T2, t, r2)
  PROVE  Base(P, S, Q2, T2, M, E, N, D)
<1>1. ReceivesAt(T[t], x) /\ ReceiveLists(Q, T)
  BY DEF Base, ReceiveLists
<1>2. /\ MayAct(T[t], r2, M, D, t) /\ TakesUp(T[t], r2, m)
      /\ \A y : ReceivesAt(T[t], y) => y = x
      /\ \A y : ~ ReceivesAt(r2, y)
  BY <1>1, ServedActs
<1>3. Acted(T, T2, M, M, D, t, r2)
  BY <1>2, OneActs DEF SameTo
<1>4. ReceiveLists(Q2, T2)
  <2>1. Others(T, T2, t) /\ T2[t] = r2
    BY <1>3 DEF Acted
  <2>2. \A y \in Queues \ {x} : /\ Q2[y].blocked = Q[y].blocked
                                /\ ReceivesAt(T2[t], y) <=> ReceivesAt(T[t], y)
    BY <1>2, <2>1 DEF Shortens
  <2>3. IsInjective(Q2[x].blocked) /\ ToSet(Q2[x].blocked) \ {t} = ToSet(Q[x].blocked) \ {t}
    BY DEF Shortens
  <2>4. t \in ToSet(Q2[x].blocked) <=> ReceivesAt(T2[t], x)
    BY <1>2, <2>1 DEF Shortens
  <2> QED
    BY <1>1, <2>1, <2>2, <2>3, <2>4, ReceiveListsOne
<1> QED
  BY <1>2, <1>4, HandsKeeps

-----------------------------------------------------------------------------
(* A port's messages are sent again, to its set.                           *)

Pass == [T: [Threads -> ThreadRecord], blocked: Seq(Threads), messages: Seq(Msgs),
         taker: Threads \cup {Nil}]

\* The queues are those of Q with the lists and messages of x and a, b.
With(Q, p, a, s, x) ==
    [Q EXCEPT ![p].messages = a, ![s].messages = x.messages, ![s].blocked = x.blocked]

\* The queues with new messages of p and new contents of s.
LEMMA WithIs ==
  ASSUME NEW Q \in [Queues -> QueueRecord], NEW p \in Queues, NEW s \in Queues, p # s,
         NEW a \in Seq(Msgs), NEW x \in Pass
  PROVE  LET Q2 == With(Q, p, a, s, x)
         IN  /\ Q2 \in [Queues -> QueueRecord]
             /\ Q2[p].messages = a /\ Q2[p].blocked = Q[p].blocked
             /\ Q2[s].messages = x.messages /\ Q2[s].blocked = x.blocked
             /\ \A q \in Queues \ {s, p} : Q2[q] = Q[q]
             /\ \A q \in Queues : Q2[q].lock = Q[q].lock
<1> DEFINE qp == [Q[p] EXCEPT !.messages = a]
           qs == [Q[s] EXCEPT !.messages = x.messages, !.blocked = x.blocked]
           Q2 == [Q EXCEPT ![p] = qp, ![s] = qs]
<1>1. Q[p] \in QueueRecord /\ Q[s] \in QueueRecord /\ x.messages \in Seq(Msgs) /\ x.blocked \in Seq(Threads)
  BY DEF Pass
<1>2. qp \in QueueRecord /\ qp.messages = a /\ qp.blocked = Q[p].blocked /\ qp.lock = Q[p].lock
  BY <1>1 DEF QueueRecord
<1>3. qs \in QueueRecord /\ qs.messages = x.messages /\ qs.blocked = x.blocked /\ qs.lock = Q[s].lock
  BY <1>1 DEF QueueRecord
<1>4. With(Q, p, a, s, x) = Q2
  BY DEF With
<1> HIDE DEF qp, qs
<1>5. Q2 \in [Queues -> QueueRecord] /\ Q2[p] = qp /\ Q2[s] = qs /\ \A q \in Queues \ {s, p} : Q2[q] = Q[q]
  BY <1>2, <1>3
<1> HIDE DEF Q2
<1>6. \A q \in Queues : Q2[q].lock = Q[q].lock
  <2>1. ASSUME NEW q \in Queues PROVE Q2[q].lock = Q[q].lock
    <3>1. CASE q = p
      BY <1>2, <1>5, <3>1
    <3>2. CASE q = s
      BY <1>3, <1>5, <3>2
    <3>3. CASE q \notin {s, p}
      BY <1>5, <3>3
    <3> QED
      BY <3>1, <3>2, <3>3
  <2> QED
    BY <2>1
<1> QED
  BY <1>2, <1>3, <1>4, <1>5, <1>6

\* What Offer does without a receiver that fits, and with t as the first one.
Queues1(x, m) ==
    [T |-> WakeAll(x.T, x.blocked, "RCV_TOO_LARGE"), blocked |-> <<>>,
     messages |-> Append(x.messages, m), taker |-> Nil]

Given(r, m) == [r EXCEPT !.ipc_state = "SUCCESS", !.msg = m]

Taken(x, m, w, t, b) ==
    [T |-> [WakeAll(x.T, w, "RCV_TOO_LARGE") EXCEPT ![t] = Given(@, m)], blocked |-> b,
     messages |-> x.messages, taker |-> t]

\* A message is queued, or a receiver takes it.
LEMMA OfferIs ==
  ASSUME NEW x \in Pass, NEW m, IsInjective(x.blocked)
  PROVE  \/ Offer(x, m) = Queues1(x, m)
         \/ \E w, bb, t, b : Chosen(x.blocked, w, bb, t, b) /\ Offer(x, m) = Taken(x, m, w, t, b)
<1>1. CASE FirstFit(x.T, x.blocked, m) = {}
  BY <1>1 DEF Offer, Queues1
<1>2. CASE FirstFit(x.T, x.blocked, m) # {}
  <2> DEFINE i == CHOOSE i \in FirstFit(x.T, x.blocked, m) : TRUE
             n == Len(x.blocked)
             w == SubSeq(x.blocked, 1, i - 1)
             bb == SubSeq(x.blocked, i, n)
             b == SubSeq(x.blocked, i + 1, n)
             t == x.blocked[i]
  <2>1. x.blocked \in Seq(Threads)
    BY DEF Pass
  <2>2. Chosen(x.blocked, w, bb, t, b)
    BY <1>2, <2>1, ChosenIs
  <2>3. Offer(x, m) = [T |-> [WakeAll(x.T, w, "RCV_TOO_LARGE")
                                EXCEPT ![t].ipc_state = "SUCCESS", ![t].msg = m],
                       blocked |-> b, messages |-> x.messages, taker |-> t]
    BY <1>2 DEF Offer
  <2> HIDE DEF i, n, w, bb, b, t
  <2>4. t \in Threads
    BY <2>2 DEF Chosen
  <2>5. [WakeAll(x.T, w, "RCV_TOO_LARGE") EXCEPT ![t].ipc_state = "SUCCESS", ![t].msg = m]
            = [WakeAll(x.T, w, "RCV_TOO_LARGE") EXCEPT ![t] = Given(@, m)]
    BY <2>4 DEF WakeAll, Given
  <2>6. Offer(x, m) = Taken(x, m, w, t, b)
    BY <2>3, <2>5 DEF Taken
  <2> QED
    BY <2>2, <2>6
<1> QED
  BY <1>1, <1>2

\* The queues are x's, with a left in the queue of p.
Passes(P, S, Q, p, a, s, x) ==
    /\ x \in Pass /\ a \in Seq(Msgs)
    /\ Base(P, S, With(Q, p, a, s, x), x.T, kmsg, entry, notice, dying)

\* set_add_member: a message of the member is queued at the set.
LEMMA AgainQueues ==
  ASSUME NEW P, NEW S, NEW Q \in [Queues -> QueueRecord], NEW p \in Ports, NEW s \in Sets,
         NEW a, NEW x, Passes(P, S, Q, p, a, s, x), a # <<>>, P[p].set = s
  PROVE  Passes(P, S, Q, p, Tail(a), s, Queues1(x, Head(a)))
<1> DEFINE m == Head(a)
           y == Queues1(x, m)
           Q1 == With(Q, p, a, s, x)
           Q2 == [Q1 EXCEPT ![s].blocked = <<>>]
           Q3 == With(Q, p, Tail(a), s, y)
<1>1. p \in Queues /\ s \in Queues /\ p # s
  BY Names DEF Queues
<1>2. x \in Pass /\ a \in Seq(Msgs) /\ Base(P, S, Q1, x.T, kmsg, entry, notice, dying)
  BY DEF Passes
<1>3. m \in Msgs /\ Tail(a) \in Seq(Msgs)
  BY <1>2, QueueTail
<1>4. /\ Q1 \in [Queues -> QueueRecord] /\ Q1[p].messages = a /\ Q1[p].blocked = Q[p].blocked
      /\ Q1[s].messages = x.messages /\ Q1[s].blocked = x.blocked
      /\ \A q \in Queues \ {s, p} : Q1[q] = Q[q]
      /\ \A q \in Queues : Q1[q].lock = Q[q].lock
  BY <1>1, <1>2, WithIs
<1>5. x.blocked \in Seq(Threads) /\ x.messages \in Seq(Msgs) /\ x.T \in [Threads -> ThreadRecord]
  BY <1>2 DEF Pass
<1> HIDE DEF Q1, Q3, y
<1>6. y.T = WakeAll(x.T, x.blocked, "RCV_TOO_LARGE") /\ y.blocked = <<>> /\ y.messages = Append(x.messages, m)
  BY DEF y, Queues1
<1>7. <<>> \in Seq(Threads) /\ ToSet(<<>>) = {} /\ IsInjective(<<>>)
  BY DEF ToSet, IsInjective
<1>8. Base(P, S, Q2, y.T, kmsg, entry, notice, dying)
  <2>1. ToSet(x.blocked) \subseteq ToSet(Q1[s].blocked)
    BY <1>4
  <2>2. IsInjective(Q1[s].blocked) => IsInjective(<<>>) /\ ToSet(<<>>) = ToSet(Q1[s].blocked) \ ToSet(x.blocked)
    BY <1>4, <1>7
  <2> DEFINE e == <<>>
  <2>3. e \in Seq(Threads) /\ Q2 = [Q1 EXCEPT ![s].blocked = e]
    OBVIOUS
  <2>4. IsInjective(Q1[s].blocked) => IsInjective(e) /\ ToSet(e) = ToSet(Q1[s].blocked) \ ToSet(x.blocked)
    BY <2>2
  <2> HIDE DEF e, Q2
  <2>5. Base(P, S, [Q1 EXCEPT ![s].blocked = e], WakeAll(x.T, x.blocked, "RCV_TOO_LARGE"), kmsg, entry, notice, dying)
    BY <1>1, <1>2, <1>5, <2>1, <2>3, <2>4, WakeReceiversKeeps
  <2> QED
    BY <1>6, <2>3, <2>5
<1>9. y \in Pass
  <2>1. y.T \in [Threads -> ThreadRecord]
    BY <1>8, Exactly
  <2>2. Append(x.messages, m) \in Seq(Msgs)
    BY <1>3, <1>5
  <2> QED
    BY <1>6, <1>7, <2>1, <2>2 DEF y, Queues1, Pass
<1>10. /\ Q3 \in [Queues -> QueueRecord] /\ Q3[p].messages = Tail(a) /\ Q3[p].blocked = Q[p].blocked
       /\ Q3[s].messages = y.messages /\ Q3[s].blocked = y.blocked
       /\ \A q \in Queues \ {s, p} : Q3[q] = Q[q]
       /\ \A q \in Queues : Q3[q].lock = Q[q].lock
  <2> DEFINE c == Tail(a)
  <2>1. c \in Seq(Msgs) /\ Q3 = With(Q, p, c, s, y)
    BY <1>3 DEF Q3
  <2> HIDE DEF c
  <2>2. /\ Q3 \in [Queues -> QueueRecord] /\ Q3[p].messages = c /\ Q3[p].blocked = Q[p].blocked
        /\ Q3[s].messages = y.messages /\ Q3[s].blocked = y.blocked
        /\ \A q \in Queues \ {s, p} : Q3[q] = Q[q]
        /\ \A q \in Queues : Q3[q].lock = Q[q].lock
    BY <1>1, <1>9, <2>1, WithIs
  <2> QED
    BY <2>2 DEF c
<1>11. /\ Q2[s].blocked = <<>>
       /\ \A q \in Queues : Q2[q].messages = Q1[q].messages /\ Q2[q].lock = Q1[q].lock
       /\ \A q \in Queues \ {s} : Q2[q] = Q1[q]
  BY <1>1, <1>4 DEF QueueRecord
<1> HIDE DEF Q2
<1>12. MovesOn(Q2, Q3, p, s)
  <2>1. Q2[p].messages = a /\ Q2[s].messages = x.messages
    BY <1>1, <1>4, <1>11
  <2>2. \A q \in Queues \ {s, p} : Q3[q].messages = Q2[q].messages
    BY <1>4, <1>10, <1>11
  <2>3. \A q \in Queues : Q3[q].lock = Q2[q].lock
    BY <1>4, <1>10, <1>11
  <2>4. \A q \in Queues : Q3[q].blocked = Q2[q].blocked
    <3>1. ASSUME NEW q \in Queues PROVE Q3[q].blocked = Q2[q].blocked
      <4>1. CASE q = p
        BY <1>1, <1>4, <1>10, <1>11, <4>1
      <4>2. CASE q = s
        BY <1>6, <1>10, <1>11, <4>2
      <4>3. CASE q \notin {s, p}
        BY <1>4, <1>10, <1>11, <4>3
      <4> QED
        BY <4>1, <4>2, <4>3
    <3> QED
      BY <3>1
  <2> QED
    BY <1>6, <1>10, <2>1, <2>2, <2>3, <2>4 DEF MovesOn
<1>13. Q2[p].messages # <<>>
  BY <1>1, <1>4, <1>11
<1>14. Base(P, S, Q3, y.T, kmsg, entry, notice, dying)
  BY <1>8, <1>11, <1>12, <1>13, MovesOnKeeps
<1> QED
  BY <1>3, <1>9, <1>14 DEF Passes, Q3, y

\* set_add_member: a message of the member goes to a receiver of the set.
LEMMA AgainTaken ==
  ASSUME NEW P, NEW S, NEW Q \in [Queues -> QueueRecord], NEW p \in Ports, NEW s \in Sets,
         NEW a, NEW x, Passes(P, S, Q, p, a, s, x), a # <<>>,
         NEW w, NEW bb, NEW t, NEW b, Chosen(x.blocked, w, bb, t, b)
  PROVE  LET o == Taken(x, Head(a), w, t, b)
         IN  Passes(P, S, Q, p, Tail(a), s, [o EXCEPT !.T[t] = thread_go(@)])
<1> DEFINE m == Head(a)
           o == Taken(x, m, w, t, b)
           T1 == WakeAll(x.T, w, "RCV_TOO_LARGE")
           r2 == thread_go(Given(T1[t], m))
           T2 == [T1 EXCEPT ![t] = r2]
           y == [T |-> T2, blocked |-> b, messages |-> x.messages, taker |-> t]
           Q1 == With(Q, p, a, s, x)
           Q2 == [Q1 EXCEPT ![s].blocked = bb]
           Q3 == With(Q, p, Tail(a), s, y)
<1>1. p \in Queues /\ s \in Queues /\ p # s
  BY Names DEF Queues
<1>2. x \in Pass /\ a \in Seq(Msgs) /\ Base(P, S, Q1, x.T, kmsg, entry, notice, dying)
  BY DEF Passes
<1>3. m \in Msgs /\ Tail(a) \in Seq(Msgs)
  BY <1>2, QueueTail
<1>4. /\ Q1 \in [Queues -> QueueRecord] /\ Q1[p].messages = a /\ Q1[p].blocked = Q[p].blocked
      /\ Q1[s].messages = x.messages /\ Q1[s].blocked = x.blocked
      /\ \A q \in Queues \ {s, p} : Q1[q] = Q[q]
      /\ \A q \in Queues : Q1[q].lock = Q[q].lock
  BY <1>1, <1>2, WithIs
<1>5. x.blocked \in Seq(Threads) /\ x.messages \in Seq(Msgs) /\ x.T \in [Threads -> ThreadRecord]
  BY <1>2 DEF Pass
<1>6. /\ w \in Seq(Threads) /\ bb \in Seq(Threads) /\ b \in Seq(Threads) /\ t \in Threads
      /\ ToSet(w) \subseteq ToSet(x.blocked)
      /\ IsInjective(bb) /\ ToSet(bb) = ToSet(x.blocked) \ ToSet(w)
      /\ t \in ToSet(bb)
      /\ IsInjective(b) /\ ToSet(b) = ToSet(bb) \ {t}
  BY DEF Chosen
<1>7. [o EXCEPT !.T[t] = thread_go(@)] = y
  <2>1. T1 = [u \in Threads |-> T1[u]]
    BY DEF WakeAll
  <2>2. o = [T |-> [T1 EXCEPT ![t] = Given(@, m)], blocked |-> b, messages |-> x.messages, taker |-> t]
    BY DEF Taken
  <2>3. [o EXCEPT !.T[t] = thread_go(@)]
            = [T |-> [[T1 EXCEPT ![t] = Given(@, m)] EXCEPT ![t] = thread_go(@)], blocked |-> b,
               messages |-> x.messages, taker |-> t]
    BY <2>2
  <2> HIDE DEF T1
  <2>4. [[T1 EXCEPT ![t] = Given(@, m)] EXCEPT ![t] = thread_go(@)] = T2
    BY <1>6, <2>1
  <2> QED
    BY <2>3, <2>4
<1> HIDE DEF Q1, o
<1>8. Base(P, S, Q2, T1, kmsg, entry, notice, dying)
  <2>1. ToSet(w) \subseteq ToSet(Q1[s].blocked)
    BY <1>4, <1>6
  <2>2. IsInjective(Q1[s].blocked) => IsInjective(bb) /\ ToSet(bb) = ToSet(Q1[s].blocked) \ ToSet(w)
    BY <1>4, <1>6
  <2> QED
    BY <1>1, <1>2, <1>6, <2>1, <2>2, WakeReceiversKeeps
<1> HIDE DEF T1
<1>9. Served(T1[t], r2, m)
  <2>1. T1[t] \in ThreadRecord
    BY <1>6, <1>8, Exactly
  <2>2. Given(T1[t], m) \in ThreadRecord
    BY <1>3, <2>1 DEF Given, ThreadRecord
  <2>3. Woken(Given(T1[t], m), r2) /\ r2.ipc_state = Given(T1[t], m).ipc_state
    BY <2>2, GoIs
  <2>4. /\ Given(T1[t], m).msg = m /\ Given(T1[t], m).ipc_state = "SUCCESS"
        /\ Given(T1[t], m).at = T1[t].at /\ Given(T1[t], m).obj = T1[t].obj
        /\ Given(T1[t], m).tout = T1[t].tout
    BY <2>1 DEF Given, ThreadRecord
  <2> HIDE DEF r2
  <2> QED
    BY <2>3, <2>4 DEF Served, Woken
<1> HIDE DEF r2
<1>10. Changed(T1, T2, t, r2)
  BY DEF Changed
<1> HIDE DEF T2
<1>11. y \in Pass
  <2>1. T1 \in [Threads -> ThreadRecord]
    BY <1>8, Exactly
  <2>2. T2 \in [Threads -> ThreadRecord]
    BY <1>9, <1>10, <2>1 DEF Served, Changed
  <2> QED
    BY <1>5, <1>6, <2>2 DEF Pass
<1>12. /\ Q3 \in [Queues -> QueueRecord] /\ Q3[p].messages = Tail(a) /\ Q3[p].blocked = Q[p].blocked
       /\ Q3[s].messages = y.messages /\ Q3[s].blocked = y.blocked
       /\ \A q \in Queues \ {s, p} : Q3[q] = Q[q]
       /\ \A q \in Queues : Q3[q].lock = Q[q].lock
  <2> DEFINE c == Tail(a)
  <2>1. c \in Seq(Msgs) /\ Q3 = With(Q, p, c, s, y)
    BY <1>3
  <2> HIDE DEF c, y, Q3
  <2>2. /\ Q3 \in [Queues -> QueueRecord] /\ Q3[p].messages = c /\ Q3[p].blocked = Q[p].blocked
        /\ Q3[s].messages = y.messages /\ Q3[s].blocked = y.blocked
        /\ \A q \in Queues \ {s, p} : Q3[q] = Q[q]
        /\ \A q \in Queues : Q3[q].lock = Q[q].lock
    BY <1>1, <1>11, <2>1, WithIs
  <2> QED
    BY <2>2 DEF c
<1>13. y.T = T2 /\ y.blocked = b /\ y.messages = x.messages
  OBVIOUS
<1> HIDE DEF Q3, y
<1>14. /\ Q2[s].blocked = bb
       /\ \A q \in Queues : Q2[q].messages = Q1[q].messages /\ Q2[q].lock = Q1[q].lock
       /\ \A q \in Queues \ {s} : Q2[q] = Q1[q]
  BY <1>1, <1>4 DEF QueueRecord
<1> HIDE DEF Q2
<1>15. Hands(Q2, Q3, p, m)
  <2>1. Q2[p].messages = a /\ Q2[p].messages # <<>>
    BY <1>1, <1>4, <1>14
  <2>2. \A q \in Queues \ {p} : Q3[q].messages = Q2[q].messages
    <3>1. ASSUME NEW q \in Queues \ {p} PROVE Q3[q].messages = Q2[q].messages
      <4>1. CASE q = s
        BY <1>4, <1>12, <1>13, <1>14, <4>1
      <4>2. CASE q # s
        BY <1>4, <1>12, <1>14, <4>2
      <4> QED
        BY <4>1, <4>2
    <3> QED
      BY <3>1
  <2>3. \A q \in Queues : Q3[q].lock = Q2[q].lock
    BY <1>4, <1>12, <1>14
  <2>4. \A q \in Queues : Q3[q].blocked # <<>> => Q2[q].blocked # <<>>
    <3>1. ASSUME NEW q \in Queues, Q3[q].blocked # <<>> PROVE Q2[q].blocked # <<>>
      <4>1. CASE q = p
        BY <1>1, <1>4, <1>12, <1>14, <3>1, <4>1
      <4>2. CASE q = s
        BY <1>6, <1>14, <4>2, QueueEmpty
      <4>3. CASE q \notin {s, p}
        BY <1>4, <1>12, <1>14, <3>1, <4>3
      <4> QED
        BY <4>1, <4>2, <4>3
    <3> QED
      BY <3>1
  <2> QED
    BY <1>12, <2>1, <2>2, <2>3, <2>4 DEF Hands
<1>16. Shortens(Q2, Q3, s, t)
  <2>1. ASSUME NEW q \in Queues \ {s} PROVE Q3[q].blocked = Q2[q].blocked
    <3>1. CASE q = p
      BY <1>1, <1>4, <1>12, <1>14, <3>1
    <3>2. CASE q # p
      BY <1>4, <1>12, <1>14, <3>2
    <3> QED
      BY <3>1, <3>2
  <2> QED
    BY <1>6, <1>12, <1>13, <1>14, <2>1 DEF Shortens
<1>17. Base(P, S, Q3, y.T, kmsg, entry, notice, dying)
  BY <1>1, <1>3, <1>6, <1>8, <1>9, <1>10, <1>13, <1>14, <1>15, <1>16, TakesKeeps
<1>18. Passes(P, S, Q, p, Tail(a), s, y)
  BY <1>3, <1>11, <1>17 DEF Passes, Q3
<1> QED
  BY <1>7, <1>18 DEF o

\* One pass of set_add_member's loop.
LEMMA AgainKeeps ==
  ASSUME NEW P, NEW S, NEW Q \in [Queues -> QueueRecord], NEW p \in Ports, NEW s \in Sets,
         NEW a, NEW x, Passes(P, S, Q, p, a, s, x), a # <<>>, P[p].set = s
  PROVE  Passes(P, S, Q, p, Tail(a), s, OfferAndWake(x, Head(a)))
<1> DEFINE m == Head(a)
<1>1. x \in Pass /\ IsInjective(x.blocked)
  <2>1. p \in Queues /\ s \in Queues /\ p # s
    BY Names DEF Queues
  <2>2. x \in Pass /\ a \in Seq(Msgs) /\ Base(P, S, With(Q, p, a, s, x), x.T, kmsg, entry, notice, dying)
    BY DEF Passes
  <2>3. With(Q, p, a, s, x)[s].blocked = x.blocked
    BY <2>1, <2>2, WithIs
  <2> QED
    BY <2>1, <2>2, <2>3 DEF Base, ReceiveLists
<1>2. CASE Offer(x, m) = Queues1(x, m)
  <2>0. Queues1(x, m).taker = Nil
    BY DEF Queues1
  <2> HIDE DEF m
  <2>1. OfferAndWake(x, m) = Queues1(x, m)
    BY <1>2, <2>0 DEF OfferAndWake
  <2>2. Passes(P, S, Q, p, Tail(a), s, Queues1(x, m))
    BY AgainQueues DEF m
  <2> QED
    BY <2>1, <2>2 DEF m
<1>3. CASE \E w, bb, t, b : Chosen(x.blocked, w, bb, t, b) /\ Offer(x, m) = Taken(x, m, w, t, b)
  <2> PICK w, bb, t, b : Chosen(x.blocked, w, bb, t, b) /\ Offer(x, m) = Taken(x, m, w, t, b)
    BY <1>3
  <2>1. Taken(x, m, w, t, b).taker = t /\ t # Nil
    BY Names DEF Taken, Chosen
  <2>2. OfferAndWake(x, m) = [Taken(x, m, w, t, b) EXCEPT !.T[t] = thread_go(@)]
    <3>1. Offer(x, m) = Taken(x, m, w, t, b)
      OBVIOUS
    <3> QED
      BY <2>1, <3>1 DEF OfferAndWake
  <2>4. Chosen(x.blocked, w, bb, t, b)
    OBVIOUS
  <2>3. Passes(P, S, Q, p, Tail(a), s, [Taken(x, Head(a), w, t, b) EXCEPT !.T[t] = thread_go(@)])
    BY <2>4, AgainTaken
  <2> QED
    BY <2>2, <2>3
<1> QED
  BY <1>1, <1>2, <1>3, OfferIs

Passed == {x \in Pass : IsInjective(x.blocked)}

\* The type of what the loop takes along.
LEMMA PassStays ==
  ASSUME NEW x \in Passed, NEW m \in Msgs
  PROVE  OfferAndWake(x, m) \in Passed
<1>1. /\ x \in Pass /\ IsInjective(x.blocked) /\ x.T \in [Threads -> ThreadRecord]
      /\ x.messages \in Seq(Msgs) /\ x.blocked \in Seq(Threads)
  BY DEF Passed, Pass
<1>2. \A w : WakeAll(x.T, w, "RCV_TOO_LARGE") \in [Threads -> ThreadRecord]
  <2>1. \A u \in Threads : x.T[u] \in ThreadRecord /\ Awakened(x.T[u], "RCV_TOO_LARGE") \in ThreadRecord
    BY <1>1, AwakenedIs DEF Woken, IPCStates
  <2> QED
    BY <2>1 DEF WakeAll
<1>3. CASE Offer(x, m) = Queues1(x, m)
  <2>1. OfferAndWake(x, m) = Queues1(x, m)
    <3>1. Queues1(x, m).taker = Nil
      BY DEF Queues1
    <3> QED
      BY <1>3, <3>1 DEF OfferAndWake
  <2>2. <<>> \in Seq(Threads) /\ IsInjective(<<>>) /\ Append(x.messages, m) \in Seq(Msgs)
    BY <1>1 DEF IsInjective
  <2>3. Queues1(x, m) \in Pass /\ Queues1(x, m).blocked = <<>>
    BY <1>2, <2>2 DEF Queues1, Pass
  <2> QED
    BY <2>1, <2>2, <2>3 DEF Passed
<1>4. CASE \E w, bb, t, b : Chosen(x.blocked, w, bb, t, b) /\ Offer(x, m) = Taken(x, m, w, t, b)
  <2> PICK w, bb, t, b : Chosen(x.blocked, w, bb, t, b) /\ Offer(x, m) = Taken(x, m, w, t, b)
    BY <1>4
  <2> DEFINE T1 == WakeAll(x.T, w, "RCV_TOO_LARGE")
             r1 == Given(T1[t], m)
             T2 == [T1 EXCEPT ![t] = r1]
             r2 == thread_go(r1)
             T3 == [T2 EXCEPT ![t] = r2]
             y == [T |-> T3, blocked |-> b, messages |-> x.messages, taker |-> t]
  <2>1. t \in Threads /\ b \in Seq(Threads) /\ IsInjective(b)
    BY DEF Chosen
  <2>2. T1 \in [Threads -> ThreadRecord] /\ T1[t] \in ThreadRecord
    BY <1>2, <2>1
  <2> HIDE DEF T1
  <2>3. r1 \in ThreadRecord
    BY <2>2 DEF Given, ThreadRecord
  <2>4. r2 \in ThreadRecord
    <3> HIDE DEF r1
    <3> QED
      BY <2>3, GoIs DEF Woken
  <2>5. OfferAndWake(x, m) = y
    <3>1. Taken(x, m, w, t, b) = [T |-> T2, blocked |-> b, messages |-> x.messages, taker |-> t]
      BY DEF Taken, T1
    <3>2. t # Nil
      BY <2>1, Names
    <3>3. Offer(x, m) = [T |-> T2, blocked |-> b, messages |-> x.messages, taker |-> t]
      BY <3>1
    <3>4. T2[t] = r1
      BY <2>1, <2>2
    <3> HIDE DEF T2, r1
    <3> QED
      BY <3>2, <3>3, <3>4 DEF OfferAndWake
  <2>6. T3 \in [Threads -> ThreadRecord]
    <3> HIDE DEF r1, r2
    <3> QED
      BY <2>2, <2>3, <2>4
  <2> HIDE DEF T3
  <2>7. y \in Pass /\ y.blocked = b
    BY <1>1, <2>1, <2>6 DEF Pass
  <2> QED
    BY <2>1, <2>5, <2>7 DEF Passed
<1> QED
  BY <1>1, <1>3, <1>4, OfferIs

\* Putting a queue's own contents back changes nothing.
LEMMA SameQueueIs ==
  ASSUME NEW Q \in [Queues -> QueueRecord], NEW p \in Queues, NEW s \in Queues, p # s, NEW x,
         x.messages = Q[s].messages, x.blocked = Q[s].blocked
  PROVE  With(Q, p, Q[p].messages, s, x) = Q
<1> DEFINE qp == [Q[p] EXCEPT !.messages = Q[p].messages]
           qs == [Q[s] EXCEPT !.messages = Q[s].messages, !.blocked = Q[s].blocked]
<1>1. Q[p] \in QueueRecord /\ Q[s] \in QueueRecord
  OBVIOUS
<1>2. qp = Q[p] /\ qs = Q[s]
  BY <1>1 DEF QueueRecord
<1>3. With(Q, p, Q[p].messages, s, x) = [Q EXCEPT ![p] = qp, ![s] = qs]
  BY DEF With
<1> HIDE DEF qp, qs
<1> QED
  BY <1>2, <1>3

\* The rest of a list, from its n-th element.
LEMMA RestIs ==
  ASSUME NEW S, NEW seq \in Seq(S), NEW n, n \in 1 .. Len(seq)
  PROVE  LET c == SubSeq(seq, n, Len(seq))
         IN  c # <<>> /\ Head(c) = seq[n] /\ Tail(c) = SubSeq(seq, n + 1, Len(seq))
<1> DEFINE N == Len(seq)
           c == SubSeq(seq, n, N)
           d == SubSeq(seq, n + 1, N)
           k == N - n
<1>1. N \in Nat /\ n \in 1 .. N /\ k \in Nat
  OBVIOUS
<1>2. /\ c \in Seq(S) /\ Len(c) = k + 1 /\ \A j \in 1 .. k + 1 : c[j] = seq[(n + j) - 1]
  BY <1>1
<1>3. /\ d \in Seq(S) /\ Len(d) = k /\ \A j \in 1 .. k : d[j] = seq[n + j]
  BY <1>1
<1> HIDE DEF c, d, k
<1>4. c # <<>> /\ Head(c) = c[1] /\ c[1] = seq[n]
  BY <1>1, <1>2
<1>5. Tail(c) \in Seq(S) /\ Len(Tail(c)) = k /\ \A j \in 1 .. k : Tail(c)[j] = c[j + 1]
  BY <1>1, <1>2, <1>4
<1> DEFINE e == Tail(c)
<1>6. \A j \in 1 .. k : e[j] = d[j]
  <2>1. ASSUME NEW j \in 1 .. k PROVE e[j] = d[j]
    <3>1. j + 1 \in 1 .. k + 1 /\ (n + (j + 1)) - 1 = n + j
      BY <1>1
    <3> QED
      BY <1>2, <1>3, <1>5, <3>1
  <2> QED
    BY <2>1
<1>7. e \in Seq(S) /\ Len(e) = k
  BY <1>5
<1> HIDE DEF e
<1>8. e \in [1 .. k -> S] /\ d \in [1 .. k -> S]
  BY <1>3, <1>7
<1>9. e = d
  <2> DEFINE X == 1 .. k
  <2>1. e \in [X -> S] /\ d \in [X -> S] /\ \A j \in X : e[j] = d[j]
    BY <1>6, <1>8
  <2> HIDE DEF X
  <2> QED
    BY <2>1
<1> QED
  BY <1>4, <1>9 DEF c, d, e

\* The passes of set_add_member's loop: sent[n] is what n of them have made.
SentBy(sent, k, P, p, s) ==
    LET msgs == k.queue[p].messages
    IN  /\ SentAgain(k, s, p) = sent[Len(msgs)]
        /\ sent[0] = [T |-> k.thread, blocked |-> k.queue[s].blocked,
                      messages |-> k.queue[s].messages, taker |-> Nil]
        /\ \A n \in 1 .. Len(msgs) : sent[n] = OfferAndWake(sent[n - 1], msgs[n])
        /\ \A n \in 0 .. Len(msgs) :
                Passes(P, k.set, k.queue, p, SubSeq(msgs, n + 1, Len(msgs)), s, sent[n])

\* All passes of set_add_member's loop, by induction on them.
LEMMA SentIs ==
  ASSUME NEW k, NEW P, NEW p \in Ports, NEW s \in Sets, P[p].set = s,
         Base(P, k.set, k.queue, k.thread, kmsg, entry, notice, dying)
  PROVE  \E sent : SentBy(sent, k, P, p, s)
<1> DEFINE msgs == k.queue[p].messages
           N == Len(msgs)
           x0 == [T |-> k.thread, blocked |-> k.queue[s].blocked,
                  messages |-> k.queue[s].messages, taker |-> Nil]
           Next1(x, n) == OfferAndWake(x, msgs[n])
           Step(f, n) == IF n = 0 THEN x0 ELSE Next1(f[n - 1], n)
           IsSent(f) == f = [n \in 0 .. N |-> Step(f, n)]
           Rest(n) == SubSeq(msgs, n + 1, N)
<1>1. p \in Queues /\ s \in Queues /\ p # s
  BY Names DEF Queues
<1>2. k.queue \in [Queues -> QueueRecord] /\ k.thread \in [Threads -> ThreadRecord]
  BY Exactly
<1>3. /\ msgs \in Seq(Msgs) /\ k.queue[s].messages \in Seq(Msgs) /\ k.queue[s].blocked \in Seq(Threads)
      /\ IsInjective(k.queue[s].blocked)
  <2>1. k.queue[p] \in QueueRecord /\ k.queue[s] \in QueueRecord
    BY <1>1, <1>2
  <2> QED
    BY <1>1, <2>1 DEF QueueRecord, Base, ReceiveLists
<1>4. x0 \in Passed /\ x0.T = k.thread /\ x0.blocked = k.queue[s].blocked /\ x0.messages = k.queue[s].messages
  BY <1>2, <1>3 DEF Passed, Pass
<1>5. N \in Nat /\ \A n \in 1 .. N : msgs[n] \in Msgs
  BY <1>3
<1>6. \E f : SentAgain(k, s, p) = f[N] /\ f = CHOOSE g : IsSent(g)
  BY DEF SentAgain
<1> PICK sent : SentAgain(k, s, p) = sent[N] /\ sent = CHOOSE g : IsSent(g)
  BY <1>6
<1>7. ASSUME NEW x \in Passed, NEW n \in 1 .. N PROVE Next1(x, n) \in Passed
  BY <1>5, PassStays
<1> HIDE DEF Next1, x0, N, msgs
<1>8. \E f : IsSent(f)
  <2> DEFINE V == Passed
             G == [n \in 1 .. N |-> [x \in V |-> Next1(x, n)]]
  <2>1. x0 \in V /\ G \in [1 .. N -> [V -> V]]
    BY <1>4, <1>7
  <2>2. \A n \in 1 .. N, x \in V : G[n][x] = Next1(x, n)
    OBVIOUS
  <2> HIDE DEF G, V
  <2>3. N \in Nat
    BY <1>5
  <2> PICK r : Computes(r, N, V, x0, G)
    BY <2>1, <2>3, Recursion
  <2>5. r \in [0 .. N -> V] /\ r[0] = x0 /\ \A n \in 1 .. N : r[n] = G[n][r[n - 1]]
    BY DEF Computes
  <2>4. ASSUME NEW n \in 0 .. N PROVE r[n] = Step(r, n)
    <3>1. CASE n = 0
      BY <2>5, <3>1
    <3>2. CASE n # 0
      <4>1. n \in 1 .. N /\ n - 1 \in 0 .. N
        BY <1>5, <3>2
      <4>2. r[n] = G[n][r[n - 1]] /\ r[n - 1] \in V
        BY <2>5, <4>1
      <4> QED
        BY <2>2, <3>2, <4>1, <4>2
    <3> QED
      BY <3>1, <3>2
  <2> HIDE DEF Step
  <2>6. r = [n \in 0 .. N |-> Step(r, n)]
    BY <2>4, <2>5
  <2> QED
    BY <2>6
<1>9. IsSent(sent)
  <2> HIDE DEF IsSent
  <2> QED
    BY <1>8, Zenon
<1>10. \A n \in 0 .. N : sent[n] = Step(sent, n)
  BY <1>9
<1> DEFINE Good(n) == Passes(P, k.set, k.queue, p, Rest(n), s, sent[n])
           A == {n \in 0 .. N : Good(n)}
<1>11. 0 \in A
  <2>0. 0 \in 0 .. N
    BY <1>5
  <2>1. sent[0] = x0
    BY <1>10, <2>0
  <2>2. Rest(0) = msgs
    BY <1>3 DEF N
  <2>3. With(k.queue, p, msgs, s, x0) = k.queue
    BY <1>1, <1>2, <1>4, SameQueueIs DEF msgs
  <2> HIDE DEF Rest
  <2>4. Passes(P, k.set, k.queue, p, msgs, s, x0)
    BY <1>3, <1>4, <2>3 DEF Passes, Passed
  <2>5. Good(0)
    BY <2>1, <2>2, <2>4
  <2> QED
    BY <2>0, <2>5
<1>12. ASSUME NEW n \in 0 .. N, n + 1 \in 0 .. N, n \in A PROVE n + 1 \in A
  <2>1. n + 1 \in 1 .. N /\ n + 1 # 0 /\ (n + 1) - 1 = n
    BY <1>5, <1>12
  <2>2. sent[n + 1] = OfferAndWake(sent[n], msgs[n + 1])
    BY <1>10, <1>12, <2>1 DEF Next1
  <2>3. Rest(n) # <<>> /\ Head(Rest(n)) = msgs[n + 1] /\ Tail(Rest(n)) = Rest(n + 1)
    <3>1. n + 1 \in 1 .. Len(msgs)
      BY <2>1 DEF N
    <3>2. LET c == SubSeq(msgs, n + 1, Len(msgs))
          IN  c # <<>> /\ Head(c) = msgs[n + 1] /\ Tail(c) = SubSeq(msgs, (n + 1) + 1, Len(msgs))
      BY <1>3, <3>1, RestIs
    <3> QED
      BY <3>2 DEF N
  <2> HIDE DEF Rest
  <2>4. Good(n)
    BY <1>12
  <2>5. Passes(P, k.set, k.queue, p, Tail(Rest(n)), s, OfferAndWake(sent[n], Head(Rest(n))))
    BY <1>2, <2>3, <2>4, AgainKeeps
  <2>6. Good(n + 1)
    BY <2>2, <2>3, <2>5
  <2> QED
    BY <1>12, <2>6
<1>13. A = 0 .. N
  <2>1. A \in SUBSET (0 .. N)
    OBVIOUS
  <2> HIDE DEF A
  <2> QED
    BY <1>5, <1>11, <1>12, <2>1, UpTo
<1>14. \A n \in 0 .. N : Good(n)
  <2> HIDE DEF Good
  <2> QED
    BY <1>13
<1>15. \A n \in 1 .. N : sent[n] = OfferAndWake(sent[n - 1], msgs[n])
  <2>1. ASSUME NEW n \in 1 .. N PROVE sent[n] = OfferAndWake(sent[n - 1], msgs[n])
    <3>1. n \in 0 .. N /\ n # 0
      BY <1>5
    <3> QED
      BY <1>10, <3>1 DEF Next1
  <2> QED
    BY <2>1
<1>16. 0 \in 0 .. N
  BY <1>5
<1>17. sent[0] = x0
  BY <1>10, <1>16
<1> HIDE DEF Step, IsSent
<1>18. SentBy(sent, k, P, p, s)
  BY <1>14, <1>15, <1>17 DEF SentBy, N, msgs, x0
<1> QED
  BY <1>18

\* After the last pass.
LEMMA SentAgainKeeps ==
  ASSUME NEW k, NEW P, NEW p \in Ports, NEW s \in Sets, P[p].set = s,
         Base(P, k.set, k.queue, k.thread, kmsg, entry, notice, dying)
  PROVE  Passes(P, k.set, k.queue, p, <<>>, s, SentAgain(k, s, p))
<1> DEFINE msgs == k.queue[p].messages
           N == Len(msgs)
<1>1. msgs \in Seq(Msgs)
  <2>1. k.queue[p] \in QueueRecord
    BY Exactly DEF Queues
  <2> QED
    BY <2>1 DEF QueueRecord
<1> PICK sent : SentBy(sent, k, P, p, s)
  BY SentIs
<1> HIDE DEF msgs
<1>2. N \in 0 .. N /\ SubSeq(msgs, N + 1, N) = <<>>
  BY <1>1
<1>3. Passes(P, k.set, k.queue, p, SubSeq(msgs, N + 1, N), s, sent[N]) /\ SentAgain(k, s, p) = sent[N]
  BY <1>2 DEF SentBy, msgs
<1> QED
  BY <1>2, <1>3

\* The sets when a port joins one.
LEMMA JoinsSets ==
  ASSUME NEW P, NEW S, NEW Q, NEW P2, NEW s \in Sets, NEW p \in Ports,
         S \in [Sets -> SetRecord], SetsFit(P, S, Q), Moves(P, P2, p, s),
         P[p].set = Nil, S[s].in_use
  PROVE  SetsFit(P2, S, Q)
<1>1. P2[p].set = s /\ \A y \in Ports : y # p => P2[y].set = P[y].set
  BY DEF Moves
<1>2. ASSUME NEW x \in Sets PROVE SetFits(P2, S[x], Q[x], x)
  <2>1. SetFits(P, S[x], Q[x], x)
    BY DEF SetsFit
  <2>2. CASE x = s
    <3>1. S[x].next = Nil /\ S[x].traversal = Nil
      BY <2>1, <2>2 DEF SetFits
    <3> QED
      BY <2>1, <2>2, <3>1 DEF SetFits
  <2>3. CASE x # s
    <3>1. x # Nil
      BY Names
    <3>2. \A y \in Ports : P2[y].set = x <=> P[y].set = x
      BY <1>1, <2>3, <3>1
    <3>3. S[x].next \in Ports \cup {Nil}
      BY DEF SetRecord
    <3> QED
      BY <2>1, <3>2, <3>3 DEF SetFits
  <2> QED
    BY <2>2, <2>3
<1> QED
  BY <1>2 DEF SetsFit

\* Where the messages of a port that is in no set are.
InOwnQueue(Q, M, p) == \A q \in Queues : \A m \in ToSet(Q[q].messages) : M[m].to = p => q = p

\* The messages of a port in no set are in its own queue.
LEMMA OnlyInItsQueue ==
  ASSUME NEW P, NEW S, NEW Q, NEW T, NEW M, NEW E, NEW N, NEW D, NEW p \in Ports,
         Base(P, S, Q, T, M, E, N, D), P[p].set = Nil
  PROVE  InOwnQueue(Q, M, p)
<1>1. ASSUME NEW q \in Queues, NEW m \in ToSet(Q[q].messages), M[m].to = p PROVE q = p
  <2>1. QueuedAt(P, Q, T, M, q, m)
    BY QueuedFacts
  <2>2. q # Nil
    BY Names DEF Queues
  <2> QED
    BY <1>1, <2>1, <2>2 DEF QueuedAt
<1> QED
  BY <1>1 DEF InOwnQueue

\* The port is in the set, with its messages, before its receivers are told.
Joins(k, k2, s, p) ==
    LET r == SentAgain(k, s, p)
    IN  /\ Sound(k2) /\ Moves(k.port, k2.port, p, s)
        /\ k2.set = k.set /\ k2.queue = With(k.queue, p, <<>>, s, r) /\ k2.thread = r.T
        /\ r \in Pass
        /\ Base(k2.port, k.set, k.queue, k.thread, kmsg, entry, notice, dying)
        /\ set_add_member(k, s, p) = msg_queue_changed(k2, p, "RCV_PORT_CHANGE")

\* What set_add_member does.
LEMMA JoinsIs ==
  ASSUME NEW k, NEW p \in Ports, NEW s \in Sets, Fit(k),
         k.port[p].set = Nil, k.port[p].receiver = "task", k.queue[p].lock = Nil, k.set[s].in_use
  PROVE  \E k2 : Joins(k, k2, s, p)
<1> DEFINE P2 == [k.port EXCEPT ![p].set = s]
           r == SentAgain(k, s, p)
           Q2 == With(k.queue, p, <<>>, s, r)
           k2 == [k EXCEPT !.port = P2, !.thread = r.T, !.queue = Q2]
           moved == [k EXCEPT !.port[p].set = s, !.thread = r.T,
                              !.queue[s].messages = r.messages, !.queue[s].blocked = r.blocked,
                              !.queue[p].messages = <<>>]
           k3 == msg_queue_changed(k2, p, "RCV_PORT_CHANGE")
<1>1. k \in Whole /\ AllJoined(k.port, k.queue)
      /\ Base(k.port, k.set, k.queue, k.thread, kmsg, entry, notice, dying)
  BY DEF Fit, Sound
<1>2. /\ k.port \in [Ports -> PortRecord] /\ k.set \in [Sets -> SetRecord]
      /\ k.queue \in [Queues -> QueueRecord] /\ k.thread \in [Threads -> ThreadRecord]
  BY <1>1, WholeFields
<1>3. p \in Queues /\ s \in Queues /\ p # s /\ s # Nil
  BY Names DEF Queues
<1>4. Moves(k.port, P2, p, s)
  <2>1. k.port[p] \in PortRecord
    BY <1>2
  <2>2. [k.port[p] EXCEPT !.set = s] \in PortRecord
    BY <2>1 DEF PortRecord
  <2>3. /\ P2 \in [Ports -> PortRecord] /\ \A y \in Ports : y # p => P2[y] = k.port[y]
        /\ P2[p] = [k.port[p] EXCEPT !.set = s]
    BY <1>2, <2>2
  <2> HIDE DEF P2
  <2>4. /\ P2[p].set = s /\ P2[p].in_use = k.port[p].in_use /\ P2[p].receiver = k.port[p].receiver
        /\ P2[p].count = k.port[p].count /\ P2[p].blocked = k.port[p].blocked
    BY <2>1, <2>3 DEF PortRecord
  <2> QED
    BY <2>3, <2>4 DEF Moves
<1> HIDE DEF P2
<1>5. Base(P2, k.set, k.queue, k.thread, kmsg, entry, notice, dying)
  <2>1. SetsFit(P2, k.set, k.queue)
    <3>1. SetsFit(k.port, k.set, k.queue)
      BY <1>1 DEF Base
    <3> QED
      BY <1>2, <1>4, <3>1, JoinsSets
  <2>2. InOwnQueue(k.queue, kmsg, p)
    BY <1>1, OnlyInItsQueue
  <2>3. NoDelivery(k.thread, kmsg, p)
    BY <1>1, NobodyDelivers DEF Free
  <2> QED
    BY <1>1, <1>2, <1>4, <2>1, <2>2, <2>3, PortSetKeeps DEF NoDelivery, InOwnQueue
<1>6. Passes(P2, k.set, k.queue, p, <<>>, s, r)
  BY <1>4, <1>5, SentAgainKeeps DEF Moves
<1> HIDE DEF r
<1>7. r \in Pass /\ r.T \in [Threads -> ThreadRecord]
  BY <1>6 DEF Passes, Pass
<1>8. /\ Q2 \in [Queues -> QueueRecord] /\ Q2[p].messages = <<>>
      /\ \A q \in Queues \ {s, p} : Q2[q] = k.queue[q]
  <2> DEFINE c == <<>>
  <2>1. c \in Seq(Msgs) /\ Q2 = With(k.queue, p, c, s, r)
    OBVIOUS
  <2> HIDE DEF c, Q2
  <2>2. /\ Q2 \in [Queues -> QueueRecord] /\ Q2[p].messages = c
        /\ \A q \in Queues \ {s, p} : Q2[q] = k.queue[q]
    BY <1>2, <1>3, <1>7, <2>1, WithIs
  <2> QED
    BY <2>2 DEF c
<1>9. moved = k2
  <2> DEFINE qp == [k.queue[p] EXCEPT !.messages = <<>>]
             qs == [k.queue[s] EXCEPT !.messages = r.messages, !.blocked = r.blocked]
             Q3 == [k.queue EXCEPT ![s] = qs, ![p] = qp]
             Rec(q) == [port |-> P2, set |-> k.set, queue |-> q, thread |-> r.T, failed |-> k.failed]
             k4 == [k EXCEPT !.port[p].set = s, !.thread = r.T]
             q5 == [k.queue EXCEPT ![s].messages = r.messages]
             k5 == [k4 EXCEPT !.queue[s].messages = r.messages]
             q6 == [q5 EXCEPT ![s].blocked = r.blocked]
             k6 == [k5 EXCEPT !.queue[s].blocked = r.blocked]
             q7 == [q6 EXCEPT ![p].messages = <<>>]
             k7 == [k6 EXCEPT !.queue[p].messages = <<>>]
  <2>4. moved = k7
    OBVIOUS
  <2>11. k = [port |-> k.port, set |-> k.set, queue |-> k.queue, thread |-> k.thread, failed |-> k.failed]
    BY <1>1 DEF Whole
  <2>12. \E a, b, c, d, e : k = [port |-> a, set |-> b, queue |-> c, thread |-> d, failed |-> e]
    BY <2>11
  <2> PICK a, b, c, d, e : k = [port |-> a, set |-> b, queue |-> c, thread |-> d, failed |-> e]
    BY <2>12
  <2>13. k.port = a /\ k.set = b /\ k.queue = c /\ k.thread = d /\ k.failed = e
    OBVIOUS
  <2>16. [k EXCEPT !.port = P2] = [port |-> P2, set |-> b, queue |-> c, thread |-> d, failed |-> e]
    OBVIOUS
  <2>17. \A z : z = [port |-> P2, set |-> b, queue |-> c, thread |-> d, failed |-> e] =>
            [z EXCEPT !.thread = r.T] = [port |-> P2, set |-> b, queue |-> c, thread |-> r.T, failed |-> e]
    OBVIOUS
  <2>18. k4 = [[k EXCEPT !.port = P2] EXCEPT !.thread = r.T]
    BY DEF P2
  <2>14. k4 = [port |-> P2, set |-> b, queue |-> c, thread |-> r.T, failed |-> e]
    BY <2>16, <2>17, <2>18
  <2>5. k4 = Rec(k.queue)
    BY <2>13, <2>14
  <2> HIDE DEF moved, k4
  <2>6. k5 = Rec(q5)
    BY <2>5
  <2> HIDE DEF k5, q5
  <2>7. k6 = Rec(q6)
    BY <2>6
  <2> HIDE DEF k6, q6
  <2>8. k7 = Rec(q7)
    BY <2>7
  <2>9. q7 = Q3
    BY <1>2, <1>3 DEF q5, q6
  <2> HIDE DEF k7, q7, Q3
  <2>19. \A z : z = [port |-> P2, set |-> b, queue |-> c, thread |-> r.T, failed |-> e] =>
            [z EXCEPT !.queue = Q3] = [port |-> P2, set |-> b, queue |-> Q3, thread |-> r.T, failed |-> e]
    OBVIOUS
  <2>20. [k EXCEPT !.port = P2, !.thread = r.T, !.queue = Q3] = [[[k EXCEPT !.port = P2] EXCEPT !.thread = r.T] EXCEPT !.queue = Q3]
    OBVIOUS
  <2>15. [k EXCEPT !.port = P2, !.thread = r.T, !.queue = Q3]
            = [port |-> P2, set |-> b, queue |-> Q3, thread |-> r.T, failed |-> e]
    BY <2>16, <2>17, <2>19, <2>20
  <2>10. [k EXCEPT !.port = P2, !.thread = r.T, !.queue = Q3] = Rec(Q3)
    BY <2>13, <2>15
  <2>1. moved = [k EXCEPT !.port = P2, !.thread = r.T, !.queue = Q3]
    BY <2>4, <2>8, <2>9, <2>10
  <2>2. Q2 = [k.queue EXCEPT ![p] = qp, ![s] = qs]
    BY DEF With
  <2> HIDE DEF Q2, qp, qs
  <2>3. Q2 = Q3
    BY <1>2, <1>3, <2>2 DEF Q3
  <2> QED
    BY <2>1, <2>3
<1> HIDE DEF moved, Q2
<1>10. /\ k2 \in Whole /\ k2.port = P2 /\ k2.queue = Q2 /\ k2.set = k.set /\ k2.thread = r.T
  <2>1. P2 \in [Ports -> PortRecord]
    BY <1>4 DEF Moves
  <2> QED
    BY <1>1, <1>7, <1>8, <2>1 DEF Whole
<1> HIDE DEF k2
<1>11. Sound(k2)
  BY <1>6, <1>10 DEF Sound, Passes, Q2
<1> HIDE DEF k3
<1>12. set_add_member(k, s, p) = k3
  <2>1. set_add_member(k, s, p) = msg_queue_changed(Checked(moved, k.port[p].set = Nil, "set_add_member"), p, "RCV_PORT_CHANGE")
    BY DEF set_add_member, moved, r
  <2>2. Checked(moved, k.port[p].set = Nil, "set_add_member") = moved
    BY DEF Checked
  <2> QED
    BY <1>9, <2>1, <2>2 DEF k3
<1>13. Joins(k, k2, s, p)
  BY <1>4, <1>5, <1>7, <1>10, <1>11, <1>12 DEF Joins, Q2, r, k3
<1> QED
  BY <1>13

\* set_add_member keeps the invariant.
LEMMA AddKeeps ==
  ASSUME NEW k, NEW p \in Ports, NEW s \in Sets, Fit(k),
         k.port[p].set = Nil, k.port[p].receiver = "task", k.queue[p].lock = Nil, k.set[s].in_use
  PROVE  Fit(set_add_member(k, s, p))
<1> PICK k2 : Joins(k, k2, s, p)
  BY JoinsIs
<1> DEFINE r == SentAgain(k, s, p)
           k3 == msg_queue_changed(k2, p, "RCV_PORT_CHANGE")
<1>1. k \in Whole /\ AllJoined(k.port, k.queue) /\ k.queue \in [Queues -> QueueRecord]
  BY WholeFields DEF Fit, Sound
<1>2. p \in Queues /\ s \in Queues /\ p # s /\ s # Nil
  BY Names DEF Queues
<1>3. /\ Sound(k2) /\ Moves(k.port, k2.port, p, s) /\ set_add_member(k, s, p) = k3
      /\ r \in Pass /\ k2.queue = With(k.queue, p, <<>>, s, r)
  BY DEF Joins
<1> HIDE DEF r
<1>4. k2.queue[p].messages = <<>> /\ \A q \in Queues \ {s, p} : k2.queue[q] = k.queue[q]
  <2> DEFINE c == <<>>
  <2>1. c \in Seq(Msgs) /\ k2.queue = With(k.queue, p, c, s, r)
    BY <1>3
  <2> HIDE DEF c
  <2>2. /\ k2.queue[p].messages = c
        /\ \A q \in Queues \ {s, p} : k2.queue[q] = k.queue[q]
    BY <1>1, <1>2, <1>3, <2>1, WithIs
  <2> QED
    BY <2>2 DEF c
<1>5. Sound(k3) /\ k3.port = k2.port /\ Emptied(k2.queue, k3.queue, p)
  BY <1>2, <1>3, ChangedKeeps DEF RcvReasons
<1> HIDE DEF k3
<1>6. AllJoined(k3.port, k3.queue)
  <2>1. ASSUME NEW y \in Ports, k2.port[y].set # Nil
        PROVE  k3.queue[y].blocked = <<>> /\ k3.queue[y].messages = <<>>
    <3>1. y \in Queues
      BY DEF Queues
    <3>2. CASE y = p
      BY <1>2, <1>4, <1>5, <3>2 DEF Emptied
    <3>3. CASE y # p
      <4>1. k.port[y].set # Nil /\ y # s
        BY <1>3, <2>1, <3>3, Names DEF Moves
      <4>2. k.queue[y].blocked = <<>> /\ k.queue[y].messages = <<>>
        BY <1>1, <4>1 DEF AllJoined, Joined
      <4>3. k2.queue[y] = k.queue[y]
        BY <1>4, <3>1, <3>3, <4>1
      <4> QED
        BY <1>5, <3>1, <3>3, <4>2, <4>3 DEF Emptied
    <3> QED
      BY <3>2, <3>3
  <2> QED
    BY <1>5, <2>1 DEF AllJoined, Joined
<1> QED
  BY <1>3, <1>5, <1>6 DEF Fit

\* port_set_add: out of one set and into another.
LEMMA SetAddKeeps ==
  ASSUME IInv, NEW p \in Ports, NEW s \in Sets, port_set_add(p, s)
  PROVE  IInv'
<1> DEFINE k == LeavesSet(State, p)
<1>1. Fit(State) /\ Free(State.port, State.queue, p)
  BY StateIsFit, PortIsFree DEF port_set_add
<1>2. /\ Fit(k) /\ k.port[p].set = Nil
      /\ \A y \in Ports : k.port[y].receiver = State.port[y].receiver
      /\ \A q \in Queues : k.queue[q].lock = State.queue[q].lock
      /\ \A x \in Sets : k.set[x].in_use = State.set[x].in_use
  BY <1>1, LeavesSetKeeps
<1>3. p \in Queues
  BY DEF Queues
<1>4. k.port[p].receiver = "task" /\ k.set[s].in_use /\ k.queue[p].lock = Nil
  <2>1. State.port[p].receiver = "task" /\ State.set[s].in_use /\ State.queue[p].lock = Nil
    BY DEF State, port_set_add, PortUnlocked, Unlocked
  <2> HIDE DEF k
  <2> QED
    BY <1>2, <1>3, <2>1
<1> HIDE DEF k
<1>5. Fit(set_add_member(k, s, p))
  BY <1>2, <1>4, AddKeeps
<1>6. Becomes(set_add_member(k, s, p)) /\ UNCHANGED <<kmsg, entry, notice, dying>>
  BY DEF port_set_add, k
<1> QED
  BY <1>5, <1>6, BecomesFit

-----------------------------------------------------------------------------
(* msg_dequeue.                                                            *)

\* t, awake and on no list, with the lock of q, from which it may receive; r is
\* the thread as the code has it.
Receiving(Q, T, t, q, r) ==
    /\ q \in Queues /\ r \in ThreadRecord /\ ~r.wait /\ ~r.timer /\ r.obj = q
    /\ T[t].at \in {"idle", "reply"}
    /\ \A x : [queue EXCEPT ![q] = x] = [Q EXCEPT ![q] = x]
    /\ \A x : [thread EXCEPT ![t] = x] = [T EXCEPT ![t] = x]
    /\ q \in Ports => port[q].receiver = "task" /\ port[q].set = Nil
    /\ q \in Sets => set[q].in_use \/ set[q].next # Nil
    /\ MayBePoked(t) => ~r.tout

\* A thread that is idle, or waits for a reply, may turn to anything.
MayTurn(r, M, t) ==
    /\ r \in ThreadRecord /\ Local(r) /\ r.at # "go" /\ Calm(r, M, t)
    /\ ~ (Handed(r) /\ r.wait)

\* t takes the first message of a queue that is qr, and is as in r otherwise.
Dequeued(qr, q, r, t) ==
    /\ queue' = [queue EXCEPT ![q] = [qr EXCEPT !.messages = Tail(@)]]
    /\ thread' = [thread EXCEPT ![t] = [r EXCEPT !.at = "account", !.msg = Head(qr.messages)]]

\* A thread that has to do with nothing acts.
LEMMA FreeActs ==
  ASSUME NEW P, NEW S, NEW Q, NEW T, NEW M, NEW E, NEW N, NEW D, NEW t \in Threads, NEW r2,
         Base(P, S, Q, T, M, E, N, D), T[t].at \in {"idle", "reply"}, MayTurn(r2, M, t)
  PROVE  /\ MayAct(T[t], r2, M, D, t)
         /\ \A m : ~ Keeps(T[t], m)
         /\ \A p : ~ SleepsAt(T[t], M, p)
         /\ \A q : ~ ReceivesAt(T[t], q)
<1>1. Elsewhere(T[t]) /\ \A m : ~ Keeps(T[t], m)
  BY FreeIs
<1>2. /\ ~ Handed(T[t]) /\ T[t].at # "go"
      /\ \A p : ~ SleepsAt(T[t], M, p)
      /\ \A q : ~ ReceivesAt(T[t], q)
  BY <1>1, ElsewhereIs
<1>3. \A p \in Ports : D[p].poked # t
  <2>1. ASSUME NEW p \in Ports, D[p].poked = t PROVE FALSE
    <3>1. D[p].poked # Nil
      BY <2>1, Names
    <3>2. T[t].at = "send_wait"
      BY <2>1, <3>1, PokedIs
    <3> QED
      BY <3>2
  <2> QED
    BY <2>1
<1>4. MayAct(T[t], r2, M, D, t)
  BY <1>2, <1>3 DEF MayAct, MayTurn
<1> QED
  BY <1>1, <1>2, <1>4

\* A receiver takes the first message that is there.
LEMMA DequeuesKeeps ==
  ASSUME IInv, NEW Q, NEW T, NEW t \in Threads, NEW q, NEW r,
         Base(port, set, Q, T, kmsg, entry, notice, dying), AllJoined(port, Q),
         Receiving(Q, T, t, q, r), Q[q].messages # <<>>, Dequeued(Q[q], q, r, t),
         UNCHANGED <<port, set, kmsg, entry, notice, dying, failed>>
  PROVE  IInv'
<1> DEFINE m == Head(Q[q].messages)
           a == Tail(Q[q].messages)
           r2 == [r EXCEPT !.at = "account", !.msg = m]
           qr == [Q[q] EXCEPT !.messages = a]
           Q2 == [Q EXCEPT ![q] = qr]
           T2 == [T EXCEPT ![t] = r2]
<1>1. q \in Queues /\ r \in ThreadRecord /\ ~r.wait /\ ~r.timer /\ T[t].at \in {"idle", "reply"}
  BY DEF Receiving
<1>2. Q \in [Queues -> QueueRecord] /\ Q[q] \in QueueRecord
  BY <1>1, Exactly
<1>3. m \in Msgs /\ a \in Seq(Msgs)
  BY <1>2, QueueTail DEF QueueRecord
<1>4. queue' = Q2 /\ thread' = T2
  BY DEF Receiving, Dequeued
<1> HIDE DEF m, a
<1>5. qr \in QueueRecord /\ qr.messages = a /\ qr.blocked = Q[q].blocked /\ qr.lock = Q[q].lock
  BY <1>2, <1>3 DEF QueueRecord
<1> HIDE DEF qr
<1>6. Q2 \in [Queues -> QueueRecord] /\ Q2[q] = qr /\ \A x \in Queues \ {q} : Q2[x] = Q[x]
  BY <1>1, <1>2, <1>5
<1>7. /\ r2 \in ThreadRecord /\ r2.at = "account" /\ r2.msg = m
      /\ ~r2.wait /\ ~r2.timer
  BY <1>1, <1>3 DEF ThreadRecord
<1>8. Changed(T, T2, t, r2)
  BY DEF Changed
<1> HIDE DEF r2, Q2, T2
<1>9. /\ MayTurn(r2, kmsg, t) /\ Carries(r2, m) /\ \A M, p : ~ SleepsAt(r2, M, p)
      /\ \A x : ~ ReceivesAt(r2, x)
  BY <1>3, <1>7 DEF MayTurn, Local, Calm, Handed, Carries, Sends, SleepsAt, ReceivesAt
<1>10. /\ MayAct(T[t], r2, kmsg, dying, t)
       /\ \A m2 : ~ Keeps(T[t], m2)
       /\ \A x : ~ ReceivesAt(T[t], x)
  BY <1>1, <1>9, FreeActs
<1>11. Hands(Q, Q2, q, m)
  <2>1. \A x \in Queues : Q2[x].lock = Q[x].lock /\ Q2[x].blocked = Q[x].blocked
    BY <1>5, <1>6
  <2> QED
    BY <1>5, <1>6, <2>1 DEF Hands, m, a
<1>12. TakesUp(T[t], r2, m)
  BY <1>1, <1>7, <1>9, <1>10 DEF TakesUp, SleepsAt
<1>13. ReceiveLists(Q2, T2)
  <2>0. Acted(T, T2, kmsg, kmsg, dying, t, r2)
    <3>1. MayAct(T[t], r2, kmsg, dying, t) /\ SameTo(kmsg, kmsg)
      BY <1>10 DEF SameTo
    <3> QED
      BY <1>8, <3>1, OneActs
  <2>1. Others(T, T2, t) /\ T2[t] = r2
    BY <2>0 DEF Acted
  <2>2. \A x \in Queues : Q2[x].blocked = Q[x].blocked
    BY <1>5, <1>6
  <2>3. \A u \in Threads : \A x \in Queues : ReceivesAt(T2[u], x) <=> ReceivesAt(T[u], x)
    BY <1>9, <1>10, <2>1 DEF Others
  <2> QED
    BY <2>2, <2>3 DEF Base, ReceiveLists
<1>14. Base(port, set, Q2, T2, kmsg, entry, notice, dying)
  BY <1>1, <1>8, <1>10, <1>11, <1>12, <1>13, HandsKeeps
<1>15. AllJoined(port, Q2)
  <2>1. ASSUME NEW p \in Ports, port[p].set # Nil PROVE Q2[p].blocked = <<>> /\ Q2[p].messages = <<>>
    <3>1. p # q
      BY <2>1 DEF Receiving
    <3>2. p \in Queues
      BY DEF Queues
    <3> QED
      BY <1>6, <2>1, <3>1, <3>2 DEF AllJoined, Joined
  <2> QED
    BY <2>1 DEF AllJoined, Joined
<1> QED
  BY <1>4, <1>14, <1>15 DEF IInv, Inv

\* What a thread that is idle, or waits for a reply, has to do with.
Resting(r, M, t) ==
    /\ r \in ThreadRecord /\ Local(r)
    /\ r.at \notin {"go", "deliver", "send", "send_wait", "recv_wait"}
    /\ \A m : ~ Sends(r, m) /\ ~ Carries(r, m) /\ ~ Tells(r, m)
    /\ Calm(r, M, t)
    /\ \A p : ~ SleepsAt(r, M, p)
    /\ \A q : ~ ReceivesAt(r, q)
    /\ ~ Handed(r)

\* Idle threads and those that wait for a reply rest.
LEMMA Rests ==
  ASSUME NEW r, NEW M, NEW t, r = Idle \/ \E p \in Ports : r = [Idle EXCEPT !.at = "reply", !.obj = p]
  PROVE  Resting(r, M, t)
<1>1. /\ r \in ThreadRecord /\ Local(r)
      /\ r.at \notin {"go", "deliver", "send", "send_wait", "recv_wait"}
      /\ \A m : ~ Sends(r, m) /\ ~ Carries(r, m) /\ ~ Tells(r, m)
      /\ \A M2, t2 : Calm(r, M2, t2)
      /\ \A M2, p : ~ SleepsAt(r, M2, p)
      /\ \A q : ~ ReceivesAt(r, q)
      /\ ~ Handed(r)
  BY IdleIs, Zenon
<1>2. Calm(r, M, t) /\ \A p : ~ SleepsAt(r, M, p)
  BY <1>1, Zenon
<1>3. /\ r \in ThreadRecord /\ Local(r)
      /\ r.at \notin {"go", "deliver", "send", "send_wait", "recv_wait"}
  BY <1>1, Zenon
<1>4. /\ \A m : ~ Sends(r, m) /\ ~ Carries(r, m) /\ ~ Tells(r, m)
      /\ \A q : ~ ReceivesAt(r, q)
      /\ ~ Handed(r)
  BY <1>1, Zenon
<1> QED
  BY <1>2, <1>3, <1>4, Zenon DEF Resting

\* A thread without a message, on no list, is done.
LEMMA StopsKeeps ==
  ASSUME NEW P, NEW S, NEW Q, NEW T, NEW M, NEW E, NEW N, NEW D, NEW t \in Threads,
         Base(P, S, Q, T, M, E, N, D), T[t].at \in {"idle", "reply", "recv_wait"},
         ~ Handed(T[t]), \A q : ~ ReceivesAt(T[t], q)
  PROVE  Base(P, S, Q, [T EXCEPT ![t] = Idle], M, E, N, D)
<1> DEFINE i == Idle
<1>0. i \in ThreadRecord /\ i.at = "idle" /\ Resting(i, M, t)
  <2>1. i.at = "idle"
    BY DEF Idle
  <2>2. i = Idle
    OBVIOUS
  <2> HIDE DEF i
  <2>3. Resting(i, M, t)
    BY <2>2, Rests, Zenon
  <2> QED
    BY <2>1, <2>3 DEF Resting
<1> HIDE DEF i
<1>1. /\ i \in ThreadRecord /\ Local(i)
      /\ \A m : ~ Sends(i, m) /\ ~ Carries(i, m) /\ ~ Tells(i, m)
      /\ Calm(i, M, t)
      /\ \A p : ~ SleepsAt(i, M, p)
      /\ \A q : ~ ReceivesAt(i, q)
      /\ ~ Handed(i) /\ i.at # "go" /\ i.at # "deliver"
  BY <1>0 DEF Resting
<1>2. \A m : ~ Sends(T[t], m) /\ ~ Carries(T[t], m) /\ ~ Tells(T[t], m)
  BY DEF Sends, Carries, Tells, Handed
<1>3. T[t].at # "deliver" /\ T[t].at # "go" /\ \A p : ~ SleepsAt(T[t], M, p)
  BY DEF SleepsAt
<1>4. Turns(T[t], i, M)
  BY <1>1, <1>2, <1>3 DEF Turns, SameWork, SameLists, SameDelivery
<1>5. \A p \in Ports : D[p].poked # t
  <2>1. ASSUME NEW p \in Ports, D[p].poked = t PROVE FALSE
    <3>1. D[p].poked # Nil
      BY <2>1, Names
    <3>2. T[t].at = "send_wait"
      BY <2>1, <3>1, PokedIs
    <3> QED
      BY <3>2
  <2> QED
    BY <2>1
<1>6. Base(P, S, Q, [T EXCEPT ![t] = i], M, E, N, D)
  BY <1>1, <1>3, <1>4, <1>5, OneTurns
<1> QED
  BY <1>6 DEF i

\* A receiver goes to sleep.
LEMMA ReceiverBlocksKeeps ==
  ASSUME IInv, NEW Q, NEW T, NEW t \in Threads, NEW q, NEW r,
         Base(port, set, Q, T, kmsg, entry, notice, dying), AllJoined(port, Q),
         Receiving(Q, T, t, q, r), Q[q].messages = <<>>,
         queue' = [queue EXCEPT ![q] = [Q[q] EXCEPT !.blocked = Append(@, t)]],
         thread' = [thread EXCEPT ![t] =
                    [Waits(r, "RCV_IN_PROGRESS", r.tout) EXCEPT !.at = "recv_wait"]],
         UNCHANGED <<port, set, kmsg, entry, notice, dying, failed>>
  PROVE  IInv'
<1> DEFINE w == Waits(r, "RCV_IN_PROGRESS", r.tout)
           r2 == [w EXCEPT !.at = "recv_wait"]
           b == Append(Q[q].blocked, t)
           Q2 == [Q EXCEPT ![q].blocked = b]
           T2 == [T EXCEPT ![t] = r2]
<1>1. q \in Queues /\ r \in ThreadRecord /\ r.obj = q /\ T[t].at \in {"idle", "reply"}
  BY DEF Receiving
<1>2. Q \in [Queues -> QueueRecord] /\ Q[q].blocked \in Seq(Threads)
  BY <1>1, Exactly DEF QueueRecord
<1>3. queue' = Q2 /\ thread' = T2
  BY <1>1, <1>2 DEF Receiving
<1>4. w \in ThreadRecord /\ w.obj = q /\ w.wait /\ w.ipc_state = "RCV_IN_PROGRESS"
      /\ w.timer = r.tout /\ w.tout = r.tout
  BY <1>1 DEF ThreadRecord, Waits
<1> HIDE DEF w
<1>5. /\ r2 \in ThreadRecord /\ r2.at = "recv_wait" /\ r2.obj = q /\ r2.wait
      /\ r2.ipc_state = "RCV_IN_PROGRESS" /\ r2.timer = r2.tout /\ r2.tout = r.tout
  BY <1>4 DEF ThreadRecord
<1> HIDE DEF r2
<1>6. /\ MayTurn(r2, kmsg, t) /\ \A m : ~ Keeps(r2, m)
      /\ \A x : ReceivesAt(r2, x) <=> x = q
  <2>1. Local(r2) /\ ~ Handed(r2)
    BY <1>1, <1>5 DEF Local, Handed
  <2>2. Calm(r2, kmsg, t)
    BY <1>5 DEF Calm, Sends, Receiving
  <2>3. \A m : ~ Keeps(r2, m)
    BY <1>5 DEF Keeps, Sends, Tells, Carries, Handed
  <2>4. \A x : ReceivesAt(r2, x) <=> x = q
    BY <1>5 DEF ReceivesAt
  <2> QED
    BY <1>5, <2>1, <2>2, <2>3, <2>4 DEF MayTurn
<1>7. /\ MayAct(T[t], r2, kmsg, dying, t)
      /\ \A m2 : ~ Keeps(T[t], m2)
      /\ \A x : ~ ReceivesAt(T[t], x)
  BY <1>1, <1>6, FreeActs
<1>8. SameWork(T[t], r2)
  BY <1>6, <1>7 DEF SameWork, Keeps
<1>9. t \notin ToSet(Q[q].blocked)
  BY <1>1, <1>7 DEF Base, ReceiveLists
<1>10. /\ b \in Seq(Threads) /\ ToSet(b) = ToSet(Q[q].blocked) \cup {t}
       /\ IsInjective(Q[q].blocked) => IsInjective(b)
  BY <1>2, <1>9, QueueAppend
<1> HIDE DEF b
<1>11. /\ \A x \in Queues \ {q} : ~ ReceivesAt(T[t], x) /\ ~ ReceivesAt(r2, x)
       /\ ToSet(b) \ {t} = ToSet(Q[q].blocked) \ {t}
       /\ t \in ToSet(b) <=> ReceivesAt(r2, q)
  BY <1>6, <1>7, <1>10
<1>12. /\ b # <<>> /\ q \in Ports => port[q].receiver = "task"
       /\ b # <<>> /\ q \in Sets => set[q].in_use \/ set[q].next # Nil
       /\ b = <<>> \/ Q[q].messages = <<>>
  BY DEF Receiving
<1>13. Base(port, set, Q2, T2, kmsg, entry, notice, dying)
  <2>1. T[t].at \in {"idle", "reply", "recv_wait"} /\ r2.at \in {"idle", "recv_wait"}
    BY <1>1, <1>5
  <2>2. IsInjective(Q[q].blocked) => IsInjective(b)
    BY <1>10
  <2>3. r2 \in ThreadRecord /\ b \in Seq(Threads) /\ q \in Queues
    BY <1>1, <1>5, <1>10
  <2> QED
    BY <1>7, <1>8, <1>11, <1>12, <2>1, <2>2, <2>3, QueueListKeeps
<1>14. AllJoined(port, Q2)
  <2>1. ASSUME NEW p \in Ports, port[p].set # Nil PROVE Q2[p].blocked = <<>> /\ Q2[p].messages = <<>>
    <3>1. p # q
      BY <2>1 DEF Receiving
    <3>2. Q2[p] = Q[p]
      BY <1>2, <3>1 DEF Queues
    <3> QED
      BY <2>1, <3>2 DEF AllJoined, Joined
  <2> QED
    BY <2>1 DEF AllJoined, Joined
<1> HIDE DEF Q2, T2
<1> QED
  BY <1>3, <1>13, <1>14 DEF IInv, Inv

\* One pass of msg_dequeue's loop.
LEMMA TriesToDequeueKeeps ==
  ASSUME IInv, NEW Q, NEW T, NEW t \in Threads, NEW q, NEW r,
         Base(port, set, Q, T, kmsg, entry, notice, dying), AllJoined(port, Q),
         Receiving(Q, T, t, q, r), TriesToDequeue(t, q, Q[q], r)
  PROVE  IInv'
<1>1. UNCHANGED <<port, set, kmsg, entry, notice, dying, failed>>
  BY DEF TriesToDequeue
<1>2. CASE Q[q].messages # <<>> /\ Dequeued(Q[q], q, r, t)
  BY <1>1, <1>2, DequeuesKeeps
<1>3. CASE /\ queue' = [queue EXCEPT ![q] = Q[q]]
           /\ thread' = [thread EXCEPT ![t] = Idle]
  <2>1. queue' = Q /\ thread' = [T EXCEPT ![t] = Idle]
    <3>1. queue' = [Q EXCEPT ![q] = Q[q]] /\ thread' = [T EXCEPT ![t] = Idle]
      BY <1>3 DEF Receiving
    <3>2. q \in Queues /\ Q \in [Queues -> QueueRecord]
      BY Exactly DEF Receiving
    <3> QED
      BY <3>1, <3>2
  <2>2. T[t].at \in {"idle", "reply"}
    BY DEF Receiving
  <2>3. T[t].at \in {"idle", "reply", "recv_wait"} /\ ~ Handed(T[t]) /\ \A x : ~ ReceivesAt(T[t], x)
    BY <2>2 DEF Handed, ReceivesAt
  <2>4. Base(port, set, Q, [T EXCEPT ![t] = Idle], kmsg, entry, notice, dying)
    BY <2>3, StopsKeeps
  <2> QED
    BY <1>1, <2>1, <2>4 DEF IInv, Inv
<1>4. CASE /\ Q[q].messages = <<>>
           /\ queue' = [queue EXCEPT ![q] = [Q[q] EXCEPT !.blocked = Append(@, t)]]
           /\ thread' = [thread EXCEPT ![t] =
                    [Waits(r, "RCV_IN_PROGRESS", r.tout) EXCEPT !.at = "recv_wait"]]
  BY <1>1, <1>4, ReceiverBlocksKeeps
<1> QED
  BY <1>2, <1>3, <1>4 DEF TriesToDequeue, Dequeued

\* A thread that receives with what the code has as the thread.
LEMMA StartsToReceive ==
  ASSUME IInv, NEW t \in Threads, NEW q \in Queues, NEW r \in ThreadRecord,
         thread[t].at \in {"idle", "reply"}, ~r.wait, ~r.timer, r.obj = q, MayBePoked(t) => ~r.tout,
         CanReceive(q), TriesToDequeue(t, q, queue[q], r)
  PROVE  IInv'
<1>1. Base(port, set, queue, thread, kmsg, entry, notice, dying) /\ AllJoined(port, queue)
  BY InvParts
<1>2. /\ q \in Ports => port[q].receiver = "task" /\ port[q].set = Nil
      /\ q \in Sets => set[q].in_use \/ set[q].next # Nil
  BY Names DEF CanReceive
<1>3. Receiving(queue, thread, t, q, r)
  BY <1>2 DEF Receiving
<1> QED
  BY <1>1, <1>3, TriesToDequeueKeeps

\* msg_receive begins.
LEMMA ReceiveKeeps ==
  ASSUME IInv, NobodyHurries, NEW c \in MayReceive, msg_receive(c)
  PROVE  IInv'
<1> DEFINE t == c.thread
           q == c.from
           o == IF c.timeout = "none" THEN {} ELSE {"TIMEOUT"}
           x == c.timeout = "some"
           r == [Idle EXCEPT !.obj = q, !.large = c.large, !.option = o, !.tout = x]
<1>1. t \in Threads /\ q \in Queues /\ c.large \in BOOLEAN /\ c.timeout \in {"none", "zero", "some"}
  BY ReceiveCalls DEF ReceiveCall
<1>2. o \in SUBSET Options /\ x \in BOOLEAN
  BY DEF Options
<1>3. MayBePoked(t) => ~x
  BY DEF NobodyHurries, MayBePoked
<1> HIDE DEF o, x
<1>4. r \in ThreadRecord
  <2>1. Idle \in ThreadRecord
    <3> DEFINE i == Idle
    <3>1. i = Idle
      OBVIOUS
    <3> HIDE DEF i
    <3>2. Resting(i, kmsg, t)
      BY <3>1, Rests, Zenon
    <3> QED
      BY <3>1, <3>2 DEF Resting
  <2> QED
    BY <1>1, <1>2, <2>1 DEF ThreadRecord
<1>5. ~r.wait /\ ~r.timer /\ r.obj = q /\ r.tout = x
  BY DEF Idle
<1>6. thread[t].at = "idle" /\ CanReceive(q) /\ TriesToDequeue(t, q, queue[q], r)
  BY DEF msg_receive, o, x
<1> HIDE DEF r, t, q
<1> QED
  BY <1>1, <1>3, <1>4, <1>5, <1>6, StartsToReceive

\* msg_rpc goes on to receive the reply.
LEMMA ReplyKeeps ==
  ASSUME IInv, NEW t \in Threads, ReceivesReply(t)
  PROVE  IInv'
<1> DEFINE r == thread[t]
<1>1. r.at = "reply" /\ r \in ThreadRecord /\ Local(r)
  BY InvParts DEF ReceivesReply
<1>2. r.obj \in Ports /\ r.obj \in Queues /\ ~r.tout /\ ~r.wait /\ ~r.timer
  BY <1>1 DEF Local, Queues
<1>3. CASE CanReceive(r.obj) /\ TriesToDequeue(t, r.obj, queue[r.obj], r)
  <2>1. r.at \in {"idle", "reply"}
    BY <1>1
  <2> QED
    BY <1>1, <1>2, <1>3, <2>1, StartsToReceive
<1>4. CASE /\ thread' = [thread EXCEPT ![t] = Idle]
           /\ UNCHANGED <<port, set, queue, kmsg, entry, notice, dying, failed>>
  <2>1. thread[t].at \in {"idle", "reply", "recv_wait"} /\ ~ Handed(thread[t]) /\ \A x : ~ ReceivesAt(thread[t], x)
    BY <1>1 DEF Handed, ReceivesAt
  <2>2. Base(port, set, queue, [thread EXCEPT ![t] = Idle], kmsg, entry, notice, dying)
    BY <2>1, InvParts, StopsKeeps
  <2> QED
    BY <1>4, <2>2, InvParts DEF IInv, Inv
<1> QED
  BY <1>3, <1>4 DEF ReceivesReply

\* A receiver that nobody took off its queue takes itself off.
LEMMA GoesOffKeeps ==
  ASSUME IInv, NEW t \in Threads, NEW q \in Queues, ReceivesAt(thread[t], q)
  PROVE  LET b == RemoveFirst(queue[q].blocked, t)
         IN  /\ b \in Seq(Threads) /\ queue[q].blocked # <<>>
             /\ Base(port, set, [queue EXCEPT ![q].blocked = b], [thread EXCEPT ![t] = Idle],
                     kmsg, entry, notice, dying)
<1> DEFINE b == RemoveFirst(queue[q].blocked, t)
<1>1. Base(port, set, queue, thread, kmsg, entry, notice, dying)
  BY InvParts
<1>2. queue[q] \in QueueRecord /\ queue[q].blocked \in Seq(Threads)
  BY <1>1, Exactly DEF QueueRecord
<1>3. t \in ToSet(queue[q].blocked) /\ IsInjective(queue[q].blocked)
  BY <1>1 DEF Base, ReceiveLists
<1>4. queue[q].blocked # <<>>
  BY <1>2, <1>3, QueueEmpty
<1>5. b \in Seq(Threads) /\ IsInjective(b) /\ ToSet(b) = ToSet(queue[q].blocked) \ {t}
  BY <1>2, <1>3, QueueRemove
<1> HIDE DEF b
<1>6. thread[t].at = "recv_wait" /\ ~ Handed(thread[t])
  BY DEF ReceivesAt, Handed
<1>7. /\ Idle \in ThreadRecord /\ Local(Idle) /\ Idle.at = "idle"
      /\ \A x : ~ ReceivesAt(Idle, x)
      /\ \A m : ~ Sends(Idle, m) /\ ~ Carries(Idle, m) /\ ~ Tells(Idle, m)
  <2> DEFINE i == Idle
  <2>1. i = Idle /\ i.at = "idle"
    BY DEF Idle
  <2> HIDE DEF i
  <2>2. Resting(i, kmsg, t)
    BY <2>1, Rests, Zenon
  <2> QED
    BY <2>1, <2>2 DEF Resting
<1>8. \A p \in Ports : dying[p].poked # t
  <2>1. ASSUME NEW p \in Ports, dying[p].poked = t PROVE FALSE
    <3>1. dying[p].poked # Nil
      BY <2>1, Names
    <3>2. thread[t].at = "send_wait"
      BY <1>1, <2>1, <3>1, PokedIs
    <3> QED
      BY <1>6, <3>2
  <2> QED
    BY <2>1
<1>9. MayAct(thread[t], Idle, kmsg, dying, t)
  <2>1. Calm(Idle, kmsg, t)
    BY <1>7 DEF Calm
  <2>2. ~ Handed(Idle)
    BY <1>7 DEF Handed
  <2> QED
    BY <1>6, <1>7, <1>8, <2>1, <2>2 DEF MayAct
<1>10. SameWork(thread[t], Idle)
  BY <1>6, <1>7 DEF SameWork, Sends, Carries, Tells
<1>11. \A x \in Queues \ {q} : ~ ReceivesAt(thread[t], x) /\ ~ ReceivesAt(Idle, x)
  BY <1>7 DEF ReceivesAt
<1>12. ToSet(b) \ {t} = ToSet(queue[q].blocked) \ {t} /\ (t \in ToSet(b) <=> ReceivesAt(Idle, q))
  BY <1>5, <1>7
<1>13. /\ q \in Ports => port[q].receiver = "task"
       /\ q \in Sets => set[q].in_use \/ set[q].next # Nil
       /\ queue[q].messages = <<>>
  BY <1>1, <1>4 DEF Base, PortsFit, PortFits, SetsFit, SetFits, Sleeping
<1>14. Base(port, set, [queue EXCEPT ![q].blocked = b], [thread EXCEPT ![t] = Idle],
            kmsg, entry, notice, dying)
  BY <1>1, <1>5, <1>6, <1>7, <1>9, <1>10, <1>11, <1>12, <1>13, QueueListKeeps
<1> QED
  BY <1>4, <1>5, <1>14 DEF b

\* RecvAwake preserves the invariant: a receiver that has been woken.
LEMMA RecvAwakeKeeps ==
  ASSUME IInv, NEW t \in Threads, RecvAwake(t)
  PROVE  IInv'
<1> DEFINE r == thread[t]
           q == r.obj
           b == RemoveFirst(queue[q].blocked, t)
           off == [queue[q] EXCEPT !.blocked = b]
           Q == [queue EXCEPT ![q].blocked = b]
           T == [thread EXCEPT ![t] = Idle]
<1>1. /\ Base(port, set, queue, thread, kmsg, entry, notice, dying) /\ AllJoined(port, queue)
      /\ failed = "no" /\ r \in ThreadRecord /\ Local(r)
  BY InvParts
<1>2. r.at = "recv_wait" /\ ~r.wait /\ ~r.timer /\ q \in Queues
  BY <1>1 DEF RecvAwake, Local
<1>3. CASE /\ r.ipc_state = "SUCCESS"
           /\ thread' = [thread EXCEPT ![t].at = "account"]
           /\ UNCHANGED <<port, set, queue, kmsg, entry, notice, dying, failed>>
  <2> DEFINE r2 == [r EXCEPT !.at = "account"]
  <2>1. thread' = [thread EXCEPT ![t] = r2]
    BY <1>3
  <2>2. /\ r2 \in ThreadRecord /\ r2.at = "account" /\ ~r2.wait /\ ~r2.timer
        /\ r2.msg = r.msg /\ r2.obj = r.obj /\ r2.go = r.go
    BY <1>1, <1>2 DEF ThreadRecord
  <2> HIDE DEF r2
  <2>3. Handed(r) /\ r.msg \in Msgs
    BY <1>1, <1>2, <1>3 DEF Handed, Local
  <2>4. Local(r2)
    BY <2>2, <2>3 DEF Local, Handed
  <2>5. SameWork(r, r2) /\ SameLists(r, r2, kmsg) /\ SameDelivery(r, r2)
    BY <1>2, <1>3, <2>2, <2>3
       DEF SameWork, SameLists, SameDelivery, Sends, Carries, Tells, Handed, SleepsAt, ReceivesAt
  <2>6. \A p \in Ports : dying[p].poked # t
    <3>1. ASSUME NEW p \in Ports, dying[p].poked = t PROVE FALSE
      <4>1. dying[p].poked # Nil
        BY <3>1, Names
      <4>2. thread[t].at = "send_wait"
        BY <1>1, <3>1, <4>1, PokedIs
      <4> QED
        BY <1>2, <4>2
    <3> QED
      BY <3>1
  <2>7. Calm(r2, kmsg, t)
    BY <2>2 DEF Calm, Sends
  <2>8. Turns(thread[t], r2, kmsg)
    BY <2>2, <2>4, <2>5 DEF Turns
  <2>9. ~ (Handed(thread[t]) /\ thread[t].wait) /\ thread[t].at # "go"
    BY <1>2
  <2>10. Base(port, set, queue, [thread EXCEPT ![t] = r2], kmsg, entry, notice, dying)
    BY <1>1, <2>2, <2>6, <2>7, <2>8, <2>9, OneTurns
  <2> QED
    BY <1>1, <1>3, <2>1, <2>10 DEF IInv, Inv
<1>4. CASE /\ r.ipc_state \in {"RCV_TOO_LARGE", "RCV_PORT_CHANGE", "RCV_INVALID_PORT"}
           /\ thread' = [thread EXCEPT ![t] = Idle]
           /\ UNCHANGED <<port, set, queue, kmsg, entry, notice, dying, failed>>
  <2>1. ~ Handed(thread[t]) /\ \A x : ~ ReceivesAt(thread[t], x)
    BY <1>4 DEF Handed, ReceivesAt
  <2>2. Base(port, set, queue, [thread EXCEPT ![t] = Idle], kmsg, entry, notice, dying)
    BY <1>1, <1>2, <2>1, StopsKeeps
  <2> QED
    BY <1>1, <1>4, <2>2 DEF IInv, Inv
<1>5. ASSUME r.ipc_state = "RCV_IN_PROGRESS"
      PROVE  /\ ReceivesAt(thread[t], q) /\ queue[q].blocked # <<>>
             /\ Base(port, set, Q, T, kmsg, entry, notice, dying) /\ AllJoined(port, Q)
             /\ Q = [queue EXCEPT ![q] = off] /\ Q[q] = off
  <2>1. ReceivesAt(thread[t], q)
    BY <1>2, <1>5 DEF ReceivesAt
  <2>2. /\ b \in Seq(Threads) /\ queue[q].blocked # <<>>
        /\ Base(port, set, Q, T, kmsg, entry, notice, dying)
    BY <1>2, <2>1, GoesOffKeeps
  <2>3. queue \in [Queues -> QueueRecord]
    BY <1>1 DEF Base, Typed
  <2>4. Q = [queue EXCEPT ![q] = off] /\ Q[q] = off
    BY <1>2, <2>3 DEF QueueRecord
  <2>5. AllJoined(port, Q)
    <3>1. ASSUME NEW p \in Ports, port[p].set # Nil PROVE Q[p].blocked = <<>> /\ Q[p].messages = <<>>
      <4>1. p # q
        BY <1>1, <2>2, <3>1 DEF AllJoined, Joined
      <4>2. Q[p] = queue[p]
        BY <2>3, <2>4, <4>1 DEF Queues
      <4> QED
        BY <1>1, <3>1, <4>2 DEF AllJoined, Joined
    <3> QED
      BY <3>1 DEF AllJoined, Joined
  <2> QED
    BY <2>1, <2>2, <2>4, <2>5
<1>6. CASE /\ r.ipc_state = "RCV_IN_PROGRESS"
           /\ thread' = [thread EXCEPT ![t] = Idle]
           /\ queue' = [queue EXCEPT ![q] = off]
           /\ UNCHANGED <<port, set, kmsg, entry, notice, dying, failed>>
  BY <1>1, <1>5, <1>6 DEF IInv, Inv
<1>7. CASE r.ipc_state = "RCV_IN_PROGRESS" /\ TriesToDequeue(t, q, off, r)
  <2>1. /\ Base(port, set, Q, T, kmsg, entry, notice, dying) /\ AllJoined(port, Q)
        /\ queue[q].blocked # <<>> /\ Q = [queue EXCEPT ![q] = off] /\ Q[q] = off
    BY <1>5, <1>7
  <2>2. /\ thread \in [Threads -> ThreadRecord] /\ queue \in [Queues -> QueueRecord]
    BY <1>1 DEF Base, Typed
  <2>3. T[t].at = "idle" /\ \A x : [thread EXCEPT ![t] = x] = [T EXCEPT ![t] = x]
    BY <2>2 DEF Idle
  <2>4. \A x : [queue EXCEPT ![q] = x] = [Q EXCEPT ![q] = x]
    <3> HIDE DEF Q, off
    <3> QED
      BY <2>1, <2>2
  <2>5. /\ q \in Ports => port[q].receiver = "task"
        /\ q \in Sets => set[q].in_use \/ set[q].next # Nil
    BY <1>1, <2>1 DEF Base, PortsFit, PortFits, SetsFit, SetFits
  <2>6. q \in Ports => port[q].set = Nil
    BY <1>1, <2>1 DEF AllJoined, Joined
  <2>7. MayBePoked(t) => ~r.tout
    BY <1>1, <1>2 DEF Base, Patience, Patient, Calm
  <2>8. Receiving(Q, T, t, q, r)
    <3> HIDE DEF Q, T
    <3> QED
      BY <1>1, <1>2, <2>3, <2>4, <2>5, <2>6, <2>7 DEF Receiving
  <2>9. TriesToDequeue(t, q, Q[q], r)
    <3> HIDE DEF Q, off
    <3> QED
      BY <1>7, <2>1
  <2> HIDE DEF Q, T, off, q, r
  <2> QED
    BY <2>1, <2>8, <2>9, TriesToDequeueKeeps
<1> QED
  BY <1>3, <1>4, <1>6, <1>7 DEF RecvAwake

-----------------------------------------------------------------------------
(* A sender brings its message to a queue.                                 *)

\* t brings m to q, whose lock it holds, and nothing else has to do with m.
Delivering(P, Q, T, M, t, q, m) ==
    /\ q \in Queues /\ m \in Msgs /\ T[t].obj = q /\ T[t].msg = m /\ Carries(T[t], m)
    /\ q = M[m].to \/ q = P[M[m].to].set
    /\ Q[q].lock = t
    /\ InTransit(Q, T, m)
    /\ \A x \in Queues : m \notin ToSet(Q[x].messages)
    /\ \A u \in Threads : /\ Keeps(T[u], m) => u = t
                          /\ ~ Sends(T[u], m) /\ ~ Tells(T[u], m)

\* What is known of a thread that brings a message.
LEMMA DeliveringIs ==
  ASSUME NEW P, NEW S, NEW Q, NEW T, NEW M, NEW E, NEW N, NEW D, NEW t \in Threads,
         Base(P, S, Q, T, M, E, N, D), T[t].at = "deliver"
  PROVE  /\ Delivering(P, Q, T, M, t, T[t].obj, T[t].msg)
         /\ \A p \in Ports : D[p].poked # t
<1> DEFINE q == T[t].obj
           m == T[t].msg
<1>1. Local(T[t]) /\ WorkParts(P, Q, T, M, E, N)
  BY Exactly
<1>2. q \in Queues /\ m \in Msgs /\ Carries(T[t], m) /\ Keeps(T[t], m)
  BY <1>1 DEF Local, Carries, Keeps
<1>3. Alone(Q, T, m, t)
  BY <1>1, <1>2, AloneIs
<1>4. \A x \in Queues : m \notin ToSet(Q[x].messages)
  BY <1>3 DEF Alone
<1>5. ASSUME NEW u \in Threads
      PROVE  (Keeps(T[u], m) => u = t) /\ ~ Sends(T[u], m) /\ ~ Tells(T[u], m)
  <2>1. CASE u = t
    BY <2>1 DEF Sends, Tells
  <2>2. CASE u # t
    BY <1>3, <2>2 DEF Alone, Keeps
  <2> QED
    BY <2>1, <2>2
<1>6. Q[q].lock = t /\ (q = M[m].to \/ q = P[M[m].to].set)
  BY DEF Base, Locks
<1>7. InTransit(Q, T, m)
  BY <1>2 DEF InTransit
<1>8. ASSUME NEW p \in Ports, D[p].poked = t PROVE FALSE
  <2>1. D[p].poked # Nil
    BY <1>8, Names
  <2>2. T[t].at = "send_wait"
    BY <1>8, <2>1, PokedIs
  <2> QED
    BY <2>2
<1> QED
  BY <1>2, <1>4, <1>5, <1>6, <1>7, <1>8 DEF Delivering

\* It unlocks the queue.
Unlocks(Q, Q2, q) ==
    /\ Q2[q].lock = Nil
    /\ \A x \in Queues \ {q} : Q2[x].lock = Q[x].lock

\* The thread that brought a message unlocks the queue.
LEMMA UnlocksKeeps ==
  ASSUME NEW P, NEW S, NEW Q, NEW T, NEW M, NEW E, NEW N, NEW D, NEW Q2, NEW T2,
         NEW t \in Threads, NEW q \in Queues,
         Base(P, S, Q, T, M, E, N, D), T[t].at = "deliver", T[t].obj = q, Unlocks(Q, Q2, q),
         T2[t].at # "deliver", \A u \in Threads \ {t} : SameDelivery(T[u], T2[u])
  PROVE  Locks(P, Q2, T2, M)
<1>1. Locks(P, Q, T, M) /\ \A x \in Queues : Q[x].lock \in Threads \cup {Nil}
  BY DEF Base, Typed, QueueRecord
<1>2. ASSUME NEW x \in Queues, Q2[x].lock # Nil
      PROVE  T2[Q2[x].lock].at = "deliver" /\ T2[Q2[x].lock].obj = x
  <2> DEFINE v == Q2[x].lock
  <2>1. x # q /\ v = Q[x].lock /\ v \in Threads
    BY <1>1, <1>2 DEF Unlocks
  <2>2. T[v].at = "deliver" /\ T[v].obj = x
    BY <1>1, <1>2, <2>1 DEF Locks
  <2>3. v # t
    BY <2>1, <2>2
  <2>4. SameDelivery(T[v], T2[v])
    BY <2>1, <2>3
  <2> QED
    BY <2>2, <2>4 DEF SameDelivery
<1>3. ASSUME NEW u \in Threads, T2[u].at = "deliver"
      PROVE  LET p == M[T2[u].msg].to
             IN  /\ Q2[T2[u].obj].lock = u
                 /\ T2[u].obj = IF P[p].set # Nil THEN P[p].set ELSE p
  <2>1. u # t
    BY <1>3
  <2>2. T[u].at = "deliver" /\ T2[u].obj = T[u].obj /\ T2[u].msg = T[u].msg
    BY <1>3, <2>1 DEF SameDelivery
  <2>3. T[u].obj \in Queues /\ Q[T[u].obj].lock = u
    BY <1>1, <2>2, Exactly DEF Local, Locks
  <2>4. Q[q].lock = t
    BY <1>1 DEF Locks
  <2>5. T[u].obj # q
    BY <2>1, <2>3, <2>4
  <2>6. Q2[T[u].obj].lock = u
    BY <2>3, <2>5 DEF Unlocks
  <2> QED
    BY <1>1, <2>2, <2>6 DEF Locks
<1> QED
  BY <1>2, <1>3 DEF Locks

\* m is added to q, where nobody sleeps.
Lands(Q, Q2, q, m) ==
    /\ Q2 \in [Queues -> QueueRecord]
    /\ Q2[q].messages = Append(Q[q].messages, m) /\ Q2[q].blocked = <<>> /\ Q2[q].lock = Nil
    /\ \A x \in Queues \ {q} : Q2[x] = Q[x]

\* The message is queued.
LEMMA LandsKeeps ==
  ASSUME NEW P, NEW S, NEW Q, NEW T, NEW M, NEW E, NEW N, NEW D, NEW Q2, NEW T2,
         NEW t \in Threads, NEW q, NEW m, NEW r2,
         Base(P, S, Q, T, M, E, N, D), T[t].at = "deliver", Delivering(P, Q, T, M, t, q, m),
         Lands(Q, Q2, q, m), Q[q].blocked = <<>>, Changed(T, T2, t, r2), Resting(r2, M, t)
  PROVE  Base(P, S, Q2, T2, M, E, N, D)
<1>1. /\ q \in Queues /\ m \in Msgs /\ T[t].obj = q /\ T[t].msg = m
      /\ q = M[m].to \/ q = P[M[m].to].set
      /\ InTransit(Q, T, m)
      /\ \A x \in Queues : m \notin ToSet(Q[x].messages)
      /\ \A u \in Threads : Keeps(T[u], m) => u = t
      /\ \A u \in Threads : ~ Sends(T[u], m) /\ ~ Tells(T[u], m)
  BY DEF Delivering
<1>2. \A p \in Ports : D[p].poked # t
  BY DeliveringIs
<1>3. /\ r2 \in ThreadRecord /\ Local(r2) /\ Calm(r2, M, t)
      /\ r2.at \notin {"go", "deliver"} /\ ~ Handed(r2)
      /\ \A x : ~ Sends(r2, x) /\ ~ Carries(r2, x) /\ ~ Tells(r2, x)
      /\ \A p : ~ SleepsAt(r2, M, p)
      /\ \A x : ~ ReceivesAt(r2, x)
  BY DEF Resting
<1>4. /\ ~ Handed(T[t]) /\ \A p : ~ SleepsAt(T[t], M, p)
      /\ \A x : ~ ReceivesAt(T[t], x)
  BY DEF Handed, SleepsAt, ReceivesAt
<1>5. Acted(T, T2, M, M, D, t, r2)
  <2>1. T[t].at # "go" /\ r2.at # "go"
    BY <1>3
  <2>2. MayAct(T[t], r2, M, D, t)
    BY <1>2, <1>3, <1>4, <2>1 DEF MayAct
  <2>3. SameTo(M, M)
    BY DEF SameTo
  <2> QED
    BY <2>2, <2>3, OneActs
<1>6. T2[t] = r2 /\ \A u \in Threads \ {t} : T2[u] = T[u]
  BY <1>5 DEF Acted, Others
<1>7. /\ Q2[q].messages = Append(Q[q].messages, m) /\ Q2[q].blocked = <<>>
      /\ \A x \in Queues \ {q} : Q2[x] = Q[x]
  BY DEF Lands
<1>8. /\ IsInjective(Q2[q].messages)
      /\ ToSet(Q2[q].messages) = ToSet(Q[q].messages) \cup {m}
  <2>1. Q[q].messages \in Seq(Msgs) /\ IsInjective(Q[q].messages)
    <3>1. Q[q] \in QueueRecord
      BY <1>1, Exactly
    <3> QED
      BY <1>1, <3>1 DEF QueueRecord, Base, Queued
  <2> QED
    BY <1>1, <1>7, <2>1, QueueAppend
<1>9. OthersStay(Q, Q2, T, T2, m)
  <2>1. \A x \in Queues : IsInjective(Q2[x].messages)
    <3>1. \A x \in Queues : IsInjective(Q[x].messages)
      BY DEF Base, Queued
    <3>2. ASSUME NEW x \in Queues PROVE IsInjective(Q2[x].messages)
      BY <1>7, <1>8, <3>1
    <3> QED
      BY <3>2
  <2>2. ASSUME NEW x \in Queues, NEW m2 \in Msgs \ {m}
        PROVE  m2 \in ToSet(Q2[x].messages) <=> m2 \in ToSet(Q[x].messages)
    <3>1. CASE x = q
      BY <1>8, <3>1
    <3>2. CASE x # q
      BY <1>7, <3>2
    <3> QED
      BY <3>1, <3>2
  <2>3. \A m2 : m2 # m => ~ Keeps(T[t], m2)
    BY <1>1, OneMessage
  <2>4. ASSUME NEW u \in Threads, NEW m2 \in Msgs \ {m}
        PROVE  /\ Sends(T2[u], m2) <=> Sends(T[u], m2)
               /\ Carries(T2[u], m2) <=> Carries(T[u], m2)
               /\ Tells(T2[u], m2) <=> Tells(T[u], m2)
    <3>1. CASE u = t
      BY <1>3, <1>6, <2>3, <3>1 DEF Keeps
    <3>2. CASE u # t
      BY <1>6, <3>2
    <3> QED
      BY <3>1, <3>2
  <2>5. \A u \in Threads : ~ Sends(T2[u], m) /\ ~ Tells(T2[u], m)
    BY <1>1, <1>3, <1>6
  <2> QED
    BY <1>1, <2>1, <2>2, <2>4, <2>5 DEF OthersStay
<1>10. InQueue(P, Q2, T2, M, m, q)
  <2>1. \A u \in Threads : ~ Keeps(T2[u], m)
    BY <1>1, <1>3, <1>6 DEF Keeps
  <2>2. \A x \in Queues : m \in ToSet(Q2[x].messages) => x = q
    BY <1>1, <1>7
  <2> QED
    BY <1>1, <1>8, <2>1, <2>2 DEF InQueue
<1>11. WorkParts(P, Q2, T2, M, E, N)
  <2>1. WorkParts(P, Q, T, M, E, N) /\ Addressed(M)
    BY Exactly DEF Base
  <2> QED
    BY <1>1, <1>9, <1>10, <2>1, OneMoves
<1>12. Locks(P, Q2, T2, M)
  <2>1. Unlocks(Q, Q2, q)
    BY <1>7 DEF Lands, Unlocks
  <2>2. T2[t].at # "deliver" /\ \A u \in Threads \ {t} : SameDelivery(T[u], T2[u])
    BY <1>3, <1>6 DEF SameDelivery
  <2> QED
    BY <1>1, <2>1, <2>2, UnlocksKeeps
<1>13. SendLists(P, T2, M, D)
  <2>1. \A u \in Threads : \A p \in Ports : SleepsAt(T2[u], M, p) <=> SleepsAt(T[u], M, p)
    BY <1>3, <1>4, <1>6
  <2> QED
    BY <2>1 DEF Base, SendLists
<1>14. \A x \in Queues : Q2[x].blocked = Q[x].blocked
  BY <1>7
<1>15. ReceiveLists(Q2, T2)
  <2>1. \A u \in Threads : \A x \in Queues : ReceivesAt(T2[u], x) <=> ReceivesAt(T[u], x)
    BY <1>3, <1>4, <1>6
  <2> QED
    BY <1>14, <2>1 DEF Base, ReceiveLists
<1>16. PortsFit(P, Q2, D)
  <2>1. ASSUME NEW p \in Ports PROVE PortFits(P[p], Q2[p], D[p], p)
    <3>1. PortFits(P[p], Q[p], D[p], p) /\ p \in Queues
      BY DEF Base, PortsFit, Queues
    <3> QED
      BY <1>14, <3>1 DEF PortFits
  <2> QED
    BY <2>1 DEF PortsFit
<1>17. SetsFit(P, S, Q2)
  <2>1. ASSUME NEW s \in Sets PROVE SetFits(P, S[s], Q2[s], s)
    <3>1. SetFits(P, S[s], Q[s], s) /\ s \in Queues
      BY DEF Base, SetsFit, Queues
    <3> QED
      BY <1>14, <3>1 DEF SetFits
  <2> QED
    BY <2>1 DEF SetsFit
<1>18. Sleeping(Q2, T2)
  <2>1. \A x \in Queues : Q2[x].blocked = <<>> \/ Q2[x].messages = <<>>
    BY <1>7 DEF Base, Sleeping
  <2> QED
    BY <1>5, <2>1 DEF Sleeping, Acted
<1>19. Typed(P, S, Q2, T2) /\ Locals(T2) /\ Patience(T2, M, D)
  BY <1>5, Exactly DEF Typed, Acted, Lands
<1> QED
  BY <1>11, <1>12, <1>13, <1>15, <1>16, <1>17, <1>18, <1>19 DEF Base, WorkParts

\* u, which is on the list of q, is handed m, and t is about to wake it.
GivenTo(r, r2, m) ==
    /\ r2 \in ThreadRecord /\ r2.at = r.at /\ r2.obj = r.obj /\ r2.tout = r.tout
    /\ r2.wait = r.wait /\ r2.timer = r.timer
    /\ r2.msg = m /\ r2.ipc_state = "SUCCESS"

GoesToWake(r, u) ==
    /\ r \in ThreadRecord /\ r.at = "go" /\ r.go = u /\ ~r.wait /\ ~r.timer

HandsOver(T, T2, t, u, m) ==
    /\ T2 \in [Threads -> ThreadRecord]
    /\ GivenTo(T[u], T2[u], m) /\ GoesToWake(T2[t], u)
    /\ \A v \in Threads \ {t, u} : T2[v] = T[v]

\* The message goes to a receiver: the messages.
LEMMA HandsOverWork ==
  ASSUME NEW P, NEW S, NEW Q, NEW T, NEW M, NEW E, NEW N, NEW D, NEW Q2, NEW T2,
         NEW t \in Threads, NEW u \in Threads, NEW q, NEW m,
         Base(P, S, Q, T, M, E, N, D), T[t].at = "deliver", Delivering(P, Q, T, M, t, q, m),
         \A x \in Queues : Q2[x].messages = Q[x].messages,
         ReceivesAt(T[u], q), HandsOver(T, T2, t, u, m)
  PROVE  WorkParts(P, Q2, T2, M, E, N)
<1>1. /\ q \in Queues /\ m \in Msgs /\ T[t].msg = m
      /\ InTransit(Q, T, m)
      /\ \A x \in Queues : m \notin ToSet(Q[x].messages)
      /\ \A v \in Threads : Keeps(T[v], m) => v = t
      /\ \A v \in Threads : ~ Sends(T[v], m) /\ ~ Tells(T[v], m)
  BY DEF Delivering
<1>2. /\ T2[u].msg = m /\ T2[u].at = "recv_wait" /\ T2[u].ipc_state = "SUCCESS"
      /\ T2[t].at = "go" /\ \A v \in Threads \ {t, u} : T2[v] = T[v]
  BY DEF HandsOver, GivenTo, GoesToWake, ReceivesAt
<1>3. u # t /\ T[u].at = "recv_wait" /\ ~ Handed(T[u])
  BY DEF ReceivesAt, Handed
<1>4. \A x : ~ Keeps(T[u], x) /\ ~ Keeps(T2[t], x)
  BY <1>2, <1>3 DEF Keeps, Sends, Carries, Tells, Handed
<1>5. Carries(T2[u], m) /\ ~ Sends(T2[u], m) /\ ~ Tells(T2[u], m) /\ \A x : x # m => ~ Keeps(T2[u], x)
  BY <1>2 DEF Carries, Sends, Tells, Keeps, Handed
<1>6. \A x : x # m => ~ Keeps(T[t], x)
  BY <1>1, OneMessage
<1>7. OthersStay(Q, Q2, T, T2, m)
  <2>1. ASSUME NEW v \in Threads, NEW m2 \in Msgs \ {m}
        PROVE  /\ Sends(T2[v], m2) <=> Sends(T[v], m2)
               /\ Carries(T2[v], m2) <=> Carries(T[v], m2)
               /\ Tells(T2[v], m2) <=> Tells(T[v], m2)
    <3>1. CASE v = t
      BY <1>4, <1>6, <3>1 DEF Keeps
    <3>2. CASE v = u
      BY <1>4, <1>5, <3>2 DEF Keeps
    <3>3. CASE v \notin {t, u}
      BY <1>2, <3>3
    <3> QED
      BY <3>1, <3>2, <3>3
  <2>2. \A v \in Threads : ~ Sends(T2[v], m) /\ ~ Tells(T2[v], m)
    BY <1>1, <1>2, <1>4, <1>5 DEF Keeps
  <2>3. \A x \in Queues : IsInjective(Q2[x].messages)
    BY DEF Base, Queued
  <2> QED
    BY <1>1, <2>1, <2>2, <2>3 DEF OthersStay
<1>8. WithThread(Q2, T2, m, u)
  <2>1. ASSUME NEW v \in Threads, v # u PROVE ~ Keeps(T2[v], m)
    <3>1. CASE v = t
      BY <1>4, <3>1
    <3>2. CASE v # t
      BY <1>1, <1>2, <2>1, <3>2
    <3> QED
      BY <3>1, <3>2
  <2> QED
    BY <1>1, <1>5, <2>1 DEF WithThread
<1>9. WorkParts(P, Q, T, M, E, N) /\ Addressed(M)
  BY Exactly DEF Base
<1> QED
  BY <1>1, <1>7, <1>8, <1>9, OneMoves

\* The message goes to a receiver: who wakes whom.
LEMMA HandsOverPatience ==
  ASSUME NEW P, NEW S, NEW Q, NEW T, NEW M, NEW E, NEW N, NEW D, NEW T2,
         NEW t \in Threads, NEW u \in Threads, NEW q, NEW m,
         Base(P, S, Q, T, M, E, N, D), T[t].at = "deliver",
         ReceivesAt(T[u], q), HandsOver(T, T2, t, u, m)
  PROVE  /\ Patience(T2, M, D)
         /\ \A v \in Threads : Handed(T2[v]) /\ T2[v].wait => \E w \in Threads : GoesTo(T2, w, v)
<1>1. /\ T2[u].msg = m /\ T2[u].at = "recv_wait" /\ T2[u].ipc_state = "SUCCESS"
      /\ T2[u].wait = T[u].wait /\ T2[u].tout = T[u].tout
      /\ T2[t].at = "go" /\ T2[t].go = u
      /\ \A v \in Threads \ {t, u} : T2[v] = T[v]
  BY DEF HandsOver, GivenTo, GoesToWake, ReceivesAt
<1>2. /\ u # t /\ T[u].at = "recv_wait" /\ T[u].ipc_state = "RCV_IN_PROGRESS"
      /\ ~ Handed(T[u]) /\ ~ Handed(T[t])
  BY DEF ReceivesAt, Handed
<1>3. \A v \in Threads : Patient(T, M, v)
  BY DEF Base, Patience
<1>4. \A w, v \in Threads : GoesTo(T2, w, v) <=> (w = t /\ v = u) \/ GoesTo(T, w, v)
  <2>1. ASSUME NEW w \in Threads, NEW v \in Threads
        PROVE  GoesTo(T2, w, v) <=> (w = t /\ v = u) \/ GoesTo(T, w, v)
    <3>1. CASE w = t
      BY <1>1, <3>1 DEF GoesTo
    <3>2. CASE w = u
      BY <1>1, <1>2, <3>2 DEF GoesTo
    <3>3. CASE w \notin {t, u}
      BY <1>1, <3>3 DEF GoesTo
    <3> QED
      BY <3>1, <3>2, <3>3
  <2> QED
    BY <2>1
<1>5. \A v \in Threads : Handed(T2[v]) /\ T2[v].wait => \E w \in Threads : GoesTo(T2, w, v)
  <2>1. ASSUME NEW v \in Threads, Handed(T2[v]), T2[v].wait
        PROVE  \E w \in Threads : GoesTo(T2, w, v)
    <3>1. CASE v = u
      BY <1>4, <3>1
    <3>2. CASE v # u
      <4>1. v # t
        BY <1>1, <2>1 DEF Handed
      <4>2. T2[v] = T[v]
        BY <1>1, <3>2, <4>1
      <4>3. \E w \in Threads : GoesTo(T, w, v)
        BY <2>1, <4>2 DEF Base, Sleeping
      <4> QED
        BY <1>4, <4>3
    <3> QED
      BY <3>1, <3>2
  <2> QED
    BY <2>1
<1>6. ASSUME NEW v \in Threads PROVE Calm(T2[v], M, v)
  <2>1. Calm(T[v], M, v)
    BY <1>3 DEF Patient
  <2>2. CASE v = t
    BY <1>1, <2>2 DEF Calm, Sends
  <2>3. CASE v = u
    <3>1. \A x : ~ Sends(T2[v], x)
      BY <1>1, <2>3 DEF Sends
    <3>2. MayBePoked(v) => ~T2[v].tout
      BY <1>1, <1>2, <2>1, <2>3 DEF Calm
    <3> QED
      BY <1>1, <2>3, <3>1, <3>2 DEF Calm
  <2>4. CASE v \notin {t, u}
    BY <1>1, <2>1, <2>4
  <2> QED
    BY <2>2, <2>3, <2>4
<1>7. ASSUME NEW v \in Threads, MayBePoked(v), NEW w \in Threads, GoesTo(T2, w, v)
      PROVE  /\ Handed(T2[v]) /\ T2[v].wait
             /\ \A x \in Threads : GoesTo(T2, x, v) => x = w
  <2>1. \A x \in Threads : GoesTo(T, x, v) =>
            /\ Handed(T[v]) /\ T[v].wait
            /\ \A y \in Threads : GoesTo(T, y, v) => y = x
    BY <1>3, <1>7 DEF Patient
  <2>2. CASE v = u
    <3>1. \A x \in Threads : ~ GoesTo(T, x, v)
      BY <1>2, <2>1, <2>2
    <3>2. \A x \in Threads : GoesTo(T2, x, v) => x = t
      BY <1>4, <3>1
    <3>3. T[u].wait
      <4>1. Calm(T[u], M, u)
        BY <1>3 DEF Patient
      <4> QED
        BY <1>2, <1>7, <2>2, <4>1 DEF Calm
    <3> QED
      BY <1>1, <1>7, <2>2, <3>2, <3>3 DEF Handed
  <2>3. CASE v # u
    <3>1. \A x \in Threads : GoesTo(T2, x, v) <=> GoesTo(T, x, v)
      BY <1>4, <2>3
    <3>2. Handed(T[v]) /\ T[v].wait
      BY <1>7, <2>1, <3>1
    <3>3. v # t
      BY <1>2, <3>2
    <3>4. T2[v] = T[v]
      BY <1>1, <2>3, <3>3
    <3> QED
      BY <1>7, <2>1, <3>1, <3>4
  <2> QED
    BY <2>2, <2>3
<1>8. \A v \in Threads : Patient(T2, M, v)
  <2>1. ASSUME NEW v \in Threads PROVE Patient(T2, M, v)
    BY <1>6, <1>7 DEF Patient
  <2> QED
    BY <2>1
<1>9. Pokes(T2, M, D)
  <2>1. ASSUME NEW p \in Ports, D[p].poked # Nil
        PROVE  SleepsAt(T2[D[p].poked], M, p) /\ T2[D[p].poked].wait
    <3> DEFINE v == D[p].poked
    <3>1. v \in Threads /\ SleepsAt(T[v], M, p) /\ T[v].at = "send_wait" /\ T[v].wait
      BY <2>1, PokedIs
    <3> HIDE DEF v
    <3>2. v \notin {t, u}
      BY <1>2, <3>1
    <3>3. T2[v] = T[v]
      BY <1>1, <3>1, <3>2
    <3> QED
      BY <3>1, <3>3 DEF v
  <2> QED
    BY <2>1 DEF Pokes
<1> QED
  BY <1>5, <1>8, <1>9 DEF Patience

\* The message goes to a receiver, whom its sender is about to wake.
LEMMA HandsOverKeeps ==
  ASSUME NEW P, NEW S, NEW Q, NEW T, NEW M, NEW E, NEW N, NEW D, NEW Q2, NEW T2,
         NEW t \in Threads, NEW u \in Threads, NEW q, NEW m,
         Base(P, S, Q, T, M, E, N, D), T[t].at = "deliver", Delivering(P, Q, T, M, t, q, m),
         Q2 \in [Queues -> QueueRecord], \A x \in Queues : Q2[x].messages = Q[x].messages,
         Unlocks(Q, Q2, q), Shortens(Q, Q2, q, u), u \in ToSet(Q[q].blocked),
         HandsOver(T, T2, t, u, m)
  PROVE  Base(P, S, Q2, T2, M, E, N, D)
<1>1. q \in Queues /\ m \in Msgs /\ T[t].obj = q /\ T[t].msg = m
  BY DEF Delivering
<1>2. ReceivesAt(T[u], q) /\ Q[q].blocked \in Seq(Threads) /\ Local(T[u])
  <2>1. Q[q] \in QueueRecord
    BY <1>1, Exactly
  <2> QED
    BY <1>1, <2>1, Exactly DEF Base, ReceiveLists, QueueRecord
<1>3. /\ T2 \in [Threads -> ThreadRecord] /\ T2[u] \in ThreadRecord /\ T2[t] \in ThreadRecord
      /\ T2[u].msg = m /\ T2[u].at = "recv_wait" /\ T2[u].ipc_state = "SUCCESS"
      /\ T2[u].obj = q /\ T2[u].tout = T[u].tout /\ T2[u].wait = T[u].wait /\ T2[u].timer = T[u].timer
      /\ T2[t].at = "go" /\ T2[t].go = u /\ ~T2[t].wait /\ ~T2[t].timer
      /\ \A v \in Threads \ {t, u} : T2[v] = T[v]
  BY <1>2 DEF HandsOver, GivenTo, GoesToWake, ReceivesAt
<1>4. u # t /\ T[u].at = "recv_wait" /\ T[u].obj = q /\ T[u].ipc_state = "RCV_IN_PROGRESS"
  BY <1>2 DEF ReceivesAt
<1>5. Locals(T2)
  <2>1. Local(T2[u])
    BY <1>1, <1>2, <1>3, <1>4 DEF Local, Handed
  <2>2. Local(T2[t])
    BY <1>3 DEF Local, Handed
  <2>3. \A v \in Threads \ {t, u} : Local(T2[v])
    BY <1>3, Exactly
  <2> QED
    BY <2>1, <2>2, <2>3 DEF Locals
<1>6. WorkParts(P, Q2, T2, M, E, N)
  BY <1>2, HandsOverWork
<1>7. /\ Patience(T2, M, D)
      /\ \A v \in Threads : Handed(T2[v]) /\ T2[v].wait => \E w \in Threads : GoesTo(T2, w, v)
  BY <1>2, HandsOverPatience
<1>8. Locks(P, Q2, T2, M)
  <2>1. \A v \in Threads \ {t} : SameDelivery(T[v], T2[v])
    <3>1. ASSUME NEW v \in Threads \ {t} PROVE SameDelivery(T[v], T2[v])
      BY <1>3, <1>4 DEF SameDelivery
    <3> QED
      BY <3>1
  <2> QED
    BY <1>1, <1>3, <2>1, UnlocksKeeps
<1>9. SendLists(P, T2, M, D)
  <2>1. ASSUME NEW v \in Threads PROVE \A p \in Ports : SleepsAt(T2[v], M, p) <=> SleepsAt(T[v], M, p)
    <3>1. CASE v \in {t, u}
      BY <1>3, <1>4, <3>1 DEF SleepsAt
    <3>2. CASE v \notin {t, u}
      BY <1>3, <3>2
    <3> QED
      BY <3>1, <3>2
  <2> QED
    BY <2>1 DEF Base, SendLists
<1>10. /\ IsInjective(Q2[q].blocked)
       /\ ToSet(Q2[q].blocked) = ToSet(Q[q].blocked) \ {u}
       /\ \A x \in Queues \ {q} : Q2[x].blocked = Q[x].blocked
  BY DEF Shortens
<1>11. ReceiveLists(Q2, T2)
  <2>1. ReceiveLists(Q, T)
    BY DEF Base
  <2>2. ASSUME NEW x \in Queues, NEW v \in Threads
        PROVE  v \in ToSet(Q2[x].blocked) <=> ReceivesAt(T2[v], x)
    <3>1. CASE v = t
      <4>1. ~ ReceivesAt(T2[v], x) /\ ~ ReceivesAt(T[v], x)
        BY <1>3, <3>1 DEF ReceivesAt
      <4>2. v \notin ToSet(Q[x].blocked)
        BY <2>1, <4>1 DEF ReceiveLists
      <4>3. v \notin ToSet(Q2[x].blocked)
        BY <1>10, <4>2
      <4> QED
        BY <4>1, <4>3
    <3>2. CASE v = u
      <4>1. ~ ReceivesAt(T2[v], x)
        BY <1>3, <3>2 DEF ReceivesAt
      <4>2. v \notin ToSet(Q2[x].blocked)
        <5>1. CASE x = q
          BY <1>10, <3>2, <5>1
        <5>2. CASE x # q
          <6>1. ~ ReceivesAt(T[v], x)
            BY <1>4, <3>2, <5>2 DEF ReceivesAt
          <6> QED
            BY <1>10, <2>1, <5>2, <6>1 DEF ReceiveLists
        <5> QED
          BY <5>1, <5>2
      <4> QED
        BY <4>1, <4>2
    <3>3. CASE v \notin {t, u}
      <4>1. v \in ToSet(Q2[x].blocked) <=> v \in ToSet(Q[x].blocked)
        BY <1>10, <3>3
      <4> QED
        BY <1>3, <2>1, <3>3, <4>1 DEF ReceiveLists
    <3> QED
      BY <3>1, <3>2, <3>3
  <2>3. \A x \in Queues : IsInjective(Q2[x].blocked)
    BY <1>10, <2>1 DEF ReceiveLists
  <2> QED
    BY <2>2, <2>3 DEF ReceiveLists
<1>12. \A x \in Queues : Q2[x].blocked # <<>> => Q[x].blocked # <<>>
  <2>1. Q[q].blocked # <<>>
    BY <1>2, QueueEmpty
  <2> QED
    BY <1>10, <2>1
<1>13. PortsFit(P, Q2, D)
  <2>1. ASSUME NEW p \in Ports PROVE PortFits(P[p], Q2[p], D[p], p)
    <3>1. PortFits(P[p], Q[p], D[p], p) /\ p \in Queues
      BY DEF Base, PortsFit, Queues
    <3> QED
      BY <1>12, <3>1 DEF PortFits
  <2> QED
    BY <2>1 DEF PortsFit
<1>14. SetsFit(P, S, Q2)
  <2>1. ASSUME NEW s \in Sets PROVE SetFits(P, S[s], Q2[s], s)
    <3>1. SetFits(P, S[s], Q[s], s) /\ s \in Queues
      BY DEF Base, SetsFit, Queues
    <3> QED
      BY <1>12, <3>1 DEF SetFits
  <2> QED
    BY <2>1 DEF SetsFit
<1>15. Sleeping(Q2, T2)
  <2>1. \A x \in Queues : Q2[x].blocked = <<>> \/ Q2[x].messages = <<>>
    BY <1>12 DEF Base, Sleeping
  <2> QED
    BY <1>7, <2>1 DEF Sleeping
<1>16. Typed(P, S, Q2, T2)
  BY <1>3, Exactly DEF Typed
<1> QED
  BY <1>5, <1>6, <1>7, <1>8, <1>9, <1>11, <1>13, <1>14, <1>15, <1>16 DEF Base, WorkParts

\* A thread after its send.
LEMMA AfterSendRests ==
  ASSUME NEW r \in ThreadRecord, NEW M, NEW t
  PROVE  Resting(AfterSend(r), M, t)
<1> DEFINE x == AfterSend(r)
<1>1. x = Idle \/ \E p \in Ports : x = [Idle EXCEPT !.at = "reply", !.obj = p]
  <2>1. CASE r.reply = Nil
    BY <2>1 DEF AfterSend
  <2>2. CASE r.reply # Nil
    <3>1. r.reply \in Ports
      BY <2>2 DEF ThreadRecord
    <3>2. x = [Idle EXCEPT !.at = "reply", !.obj = r.reply]
      BY <2>2 DEF AfterSend
    <3> QED
      BY <3>1, <3>2
  <2> QED
    BY <2>1, <2>2
<1> HIDE DEF x
<1>2. Resting(x, M, t)
  BY <1>1, Rests, Zenon
<1> QED
  BY <1>2 DEF x

\* The queue of a member of a set is not used.
LEMMA DeliversApart ==
  ASSUME NEW P, NEW S, NEW Q, NEW T, NEW M, NEW E, NEW N, NEW D, NEW Q2, NEW t \in Threads,
         Base(P, S, Q, T, M, E, N, D), AllJoined(P, Q), T[t].at = "deliver",
         \A x \in Queues \ {T[t].obj} : Q2[x] = Q[x]
  PROVE  AllJoined(P, Q2)
<1> DEFINE p == M[T[t].msg].to
<1>1. T[t].obj = IF P[p].set # Nil THEN P[p].set ELSE p
  BY DEF Base, Locks
<1>2. p \in Ports /\ P[p].set \in Sets \cup {Nil}
  <2>1. Delivering(P, Q, T, M, t, T[t].obj, T[t].msg)
    BY DeliveringIs
  <2>2. T[t].msg \in Msgs /\ M[T[t].msg].at = "live"
    BY <2>1 DEF Delivering, Base, Stages
  <2>3. p \in Ports
    BY <2>2 DEF Base, Addressed
  <2> QED
    BY <2>3, Exactly DEF PortRecord
<1>3. ASSUME NEW y \in Ports, P[y].set # Nil PROVE Q2[y].blocked = <<>> /\ Q2[y].messages = <<>>
  <2>1. y # T[t].obj
    BY <1>1, <1>2, <1>3, Names
  <2>2. Q2[y] = Q[y]
    BY <2>1 DEF Queues
  <2> QED
    BY <1>3, <2>2 DEF AllJoined, Joined
<1> QED
  BY <1>3 DEF AllJoined, Joined

\* Deliver preserves the invariant.
LEMMA DeliverKeeps ==
  ASSUME IInv, NEW t \in Threads, Deliver(t)
  PROVE  IInv'
<1> DEFINE r == thread[t]
           q == r.obj
           m == r.msg
           l == queue[q].blocked
           x == [T |-> thread, blocked |-> l, messages |-> queue[q].messages, taker |-> Nil]
           s == Offer(x, m)
<1>1. /\ Base(port, set, queue, thread, kmsg, entry, notice, dying) /\ AllJoined(port, queue)
      /\ failed = "no" /\ r \in ThreadRecord /\ r.at = "deliver" /\ Local(r)
  BY InvParts DEF Deliver
<1>2. q \in Queues /\ m \in Msgs
  BY <1>1 DEF Local
<1>3. /\ queue' = [queue EXCEPT ![q] =
                        [messages |-> s.messages, blocked |-> s.blocked, lock |-> Nil]]
      /\ thread' = [s.T EXCEPT ![t] = IF s.taker = Nil THEN AfterSend(r)
                                        ELSE [r EXCEPT !.at = "go", !.go = s.taker]]
      /\ UNCHANGED <<port, set, kmsg, entry, notice, dying, failed>>
  BY DEF Deliver, Offered
<1>4. /\ queue \in [Queues -> QueueRecord] /\ queue[q] \in QueueRecord
      /\ thread \in [Threads -> ThreadRecord]
  BY <1>1, <1>2, Exactly
<1>5. l \in Seq(Threads) /\ queue[q].messages \in Seq(Msgs) /\ IsInjective(l)
  BY <1>1, <1>2, <1>4 DEF QueueRecord, Base, ReceiveLists
<1>6. ~ ReceivesAt(r, q) /\ t \notin ToSet(l)
  BY <1>1, <1>2 DEF ReceivesAt, Base, ReceiveLists
<1>7. x \in Pass
  BY <1>4, <1>5 DEF Pass
<1>8. AllJoined(port, queue')
  <2>1. \A y \in Queues \ {q} : queue'[y] = queue[y]
    BY <1>3, <1>4
  <2> QED
    BY <1>1, <2>1, DeliversApart
<1>9. CASE s = Queues1(x, m)
  <2> DEFINE e == <<>>
             T1 == WakeAll(thread, l, "RCV_TOO_LARGE")
             Q1 == [queue EXCEPT ![q].blocked = e]
             a == Append(queue[q].messages, m)
             qr == [messages |-> a, blocked |-> e, lock |-> Nil]
  <2>1. s.T = T1 /\ s.blocked = e /\ s.messages = a /\ s.taker = Nil
    BY <1>9 DEF Queues1
  <2>2. e \in Seq(Threads) /\ ToSet(e) = {} /\ IsInjective(e)
    <3>1. e \in Seq(Threads)
      OBVIOUS
    <3>2. ToSet(e) = {}
      BY <3>1, QueueEmpty
    <3>3. IsInjective(e)
      BY DEF IsInjective
    <3> QED
      BY <3>1, <3>2, <3>3
  <2>3. a \in Seq(Msgs)
    BY <1>2, <1>5, QueueAppend
  <2>4. queue' = [queue EXCEPT ![q] = qr] /\ thread' = [T1 EXCEPT ![t] = AfterSend(r)]
    <3> HIDE DEF e, T1, a, s, x
    <3> QED
      BY <1>3, <2>1
  <2> HIDE DEF e, a
  <2>5. Base(port, set, Q1, T1, kmsg, entry, notice, dying)
    BY <1>1, <1>2, <1>5, <2>2, WakeReceiversKeeps
  <2>6. T1 \in [Threads -> ThreadRecord] /\ T1[t] = r
    <3>1. T1[t] = r
      BY <1>6 DEF WakeAll
    <3> HIDE DEF T1
    <3> QED
      BY <2>5, <3>1, Exactly
  <2>7. /\ Q1[q].messages = queue[q].messages /\ Q1[q].blocked = e
        /\ \A y \in Queues \ {q} : Q1[y] = queue[y]
    BY <1>2, <1>4 DEF QueueRecord
  <2>8. qr \in QueueRecord /\ qr.messages = a /\ qr.blocked = e /\ qr.lock = Nil
    BY <2>2, <2>3 DEF QueueRecord
  <2> HIDE DEF qr, Q1, T1
  <2>9. Lands(Q1, queue', q, m)
    <3>1. queue' \in [Queues -> QueueRecord] /\ queue'[q] = qr /\ \A y \in Queues \ {q} : queue'[y] = queue[y]
      BY <1>2, <1>4, <2>4, <2>8
    <3>2. queue'[q].messages = Append(Q1[q].messages, m)
      BY <2>7, <2>8, <3>1 DEF a
    <3>3. queue'[q].blocked = <<>>
      BY <2>8, <3>1 DEF e
    <3> QED
      BY <2>7, <2>8, <3>1, <3>2, <3>3 DEF Lands
  <2>10. Changed(T1, thread', t, AfterSend(r))
    BY <2>4 DEF Changed
  <2>11. Delivering(port, Q1, T1, kmsg, t, q, m)
    BY <1>1, <2>5, <2>6, DeliveringIs
  <2>12. Q1[q].blocked = <<>>
    BY <2>7 DEF e
  <2>13. T1[t].at = "deliver"
    BY <1>1, <2>6
  <2>14. Resting(AfterSend(r), kmsg, t)
    BY <1>1, AfterSendRests
  <2>15. Base(port, set, queue', thread', kmsg, entry, notice, dying)
    <3> DEFINE i == AfterSend(r)
               Q2 == queue'
               T2 == thread'
    <3>1. Changed(T1, T2, t, i) /\ Resting(i, kmsg, t) /\ Lands(Q1, Q2, q, m)
      BY <2>9, <2>10, <2>14
    <3> HIDE DEF i, Q2, T2, q, m, r
    <3>2. Base(port, set, Q2, T2, kmsg, entry, notice, dying)
      BY <2>5, <2>11, <2>12, <2>13, <3>1, LandsKeeps
    <3> QED
      BY <3>2 DEF Q2, T2
  <2> QED
    BY <1>1, <1>3, <1>8, <2>15 DEF IInv, Inv
<1>10. CASE \E w, bb, u, b : Chosen(l, w, bb, u, b) /\ s = Taken(x, m, w, u, b)
  <2>1. PICK w, bb, u, b : Chosen(l, w, bb, u, b) /\ s = Taken(x, m, w, u, b)
    BY <1>10
  <2>2. /\ w \in Seq(Threads) /\ bb \in Seq(Threads) /\ b \in Seq(Threads) /\ u \in Threads
        /\ ToSet(w) \subseteq ToSet(l)
        /\ IsInjective(bb) /\ ToSet(bb) = ToSet(l) \ ToSet(w)
        /\ u \in ToSet(bb) /\ u \in ToSet(l)
        /\ IsInjective(b) /\ ToSet(b) = ToSet(bb) \ {u}
    BY <2>1 DEF Chosen
  <2> DEFINE T1 == WakeAll(thread, w, "RCV_TOO_LARGE")
             Q1 == [queue EXCEPT ![q].blocked = bb]
             a == queue[q].messages
             qr == [messages |-> a, blocked |-> b, lock |-> Nil]
             r2 == Given(T1[u], m)
             r3 == [r EXCEPT !.at = "go", !.go = u]
             T2 == [T1 EXCEPT ![u] = Given(@, m)]
  <2>3. s.T = T2 /\ s.blocked = b /\ s.messages = a /\ s.taker = u
    BY <2>1 DEF Taken
  <2>4. queue' = [queue EXCEPT ![q] = qr] /\ thread' = [T2 EXCEPT ![t] = r3]
    <3>1. u # Nil
      BY <2>2, Names
    <3> HIDE DEF T2, a, s, x, r3
    <3>2. thread' = [T2 EXCEPT ![t] = IF u = Nil THEN AfterSend(r)
                                        ELSE [r EXCEPT !.at = "go", !.go = u]]
      BY <1>3, <2>3
    <3> QED
      BY <1>3, <2>3, <3>1, <3>2 DEF r3
  <2>5. Base(port, set, Q1, T1, kmsg, entry, notice, dying)
    BY <1>1, <1>2, <2>2, WakeReceiversKeeps
  <2>6. T1[t] = r
    BY <1>6, <2>2 DEF WakeAll
  <2>7. /\ Q1[q].messages = a /\ Q1[q].blocked = bb /\ Q1[q].lock = queue[q].lock
        /\ \A y \in Queues \ {q} : Q1[y] = queue[y]
    BY <1>2, <1>4 DEF QueueRecord
  <2>8. qr \in QueueRecord /\ qr.messages = a /\ qr.blocked = b /\ qr.lock = Nil
    BY <1>5, <2>2 DEF QueueRecord
  <2> HIDE DEF qr, Q1, T1, a
  <2>9. T1 \in [Threads -> ThreadRecord] /\ T1[u] \in ThreadRecord
    BY <2>2, <2>5, Exactly
  <2>10. GivenTo(T1[u], r2, m)
    <3>1. /\ r2 \in ThreadRecord /\ r2.at = T1[u].at /\ r2.obj = T1[u].obj /\ r2.tout = T1[u].tout
          /\ r2.wait = T1[u].wait /\ r2.timer = T1[u].timer
          /\ r2.msg = m /\ r2.ipc_state = "SUCCESS"
      BY <1>2, <2>9 DEF Given, ThreadRecord
    <3> HIDE DEF r2
    <3> QED
      BY <3>1 DEF GivenTo
  <2>11. GoesToWake(r3, u)
    <3>1. ~r.wait /\ ~r.timer
      BY <1>1 DEF Local
    <3>2. r3 \in ThreadRecord /\ r3.at = "go" /\ r3.go = u /\ r3.wait = r.wait /\ r3.timer = r.timer
      BY <1>1, <2>2 DEF ThreadRecord
    <3> HIDE DEF r3
    <3> QED
      BY <3>1, <3>2 DEF GoesToWake
  <2>12. T2 = [T1 EXCEPT ![u] = r2]
    BY <2>2, <2>9
  <2> HIDE DEF r2, r3, T2
  <2>13. u # t
    BY <1>6, <2>2
  <2>14. HandsOver(T1, thread', t, u, m)
    <3>1. r2 \in ThreadRecord /\ r3 \in ThreadRecord
      BY <2>10, <2>11 DEF GivenTo, GoesToWake
    <3>2. T2 \in [Threads -> ThreadRecord] /\ T2[u] = r2 /\ \A v \in Threads \ {u} : T2[v] = T1[v]
      BY <2>2, <2>9, <2>12, <3>1
    <3>3. /\ thread' \in [Threads -> ThreadRecord] /\ thread'[u] = r2 /\ thread'[t] = r3
          /\ \A v \in Threads \ {t, u} : thread'[v] = T1[v]
      BY <2>4, <2>13, <3>1, <3>2
    <3> QED
      BY <2>10, <2>11, <3>3 DEF HandsOver
  <2>15. /\ queue' \in [Queues -> QueueRecord] /\ queue'[q] = qr
         /\ \A y \in Queues \ {q} : queue'[y] = queue[y]
    BY <1>2, <1>4, <2>4, <2>8
  <2>16. Unlocks(Q1, queue', q)
    BY <2>7, <2>8, <2>15 DEF Unlocks
  <2>17. Shortens(Q1, queue', q, u) /\ u \in ToSet(Q1[q].blocked)
    BY <2>2, <2>7, <2>8, <2>15 DEF Shortens
  <2>18. \A y \in Queues : queue'[y].messages = Q1[y].messages
    BY <2>7, <2>8, <2>15
  <2>19. Delivering(port, Q1, T1, kmsg, t, q, m) /\ T1[t].at = "deliver"
    BY <1>1, <2>5, <2>6, DeliveringIs
  <2>20. queue' \in [Queues -> QueueRecord]
    BY <2>15
  <2>21. Base(port, set, queue', thread', kmsg, entry, notice, dying)
    BY <2>2, <2>5, <2>14, <2>16, <2>17, <2>18, <2>19, <2>20, HandsOverKeeps
  <2> QED
    BY <1>1, <1>3, <1>8, <2>21 DEF IInv, Inv
<1>11. x.blocked = l
  OBVIOUS
<1>12. \/ s = Queues1(x, m)
       \/ \E w, bb, u, b : Chosen(l, w, bb, u, b) /\ s = Taken(x, m, w, u, b)
  <2> HIDE DEF x, l, m
  <2>1. IsInjective(x.blocked)
    BY <1>5, <1>11
  <2>2. \/ Offer(x, m) = Queues1(x, m)
        \/ \E w, bb, u, b : Chosen(x.blocked, w, bb, u, b) /\ Offer(x, m) = Taken(x, m, w, u, b)
    BY <1>7, <2>1, OfferIs
  <2> QED
    BY <1>11, <2>2
<1> QED
  BY <1>9, <1>10, <1>12

\* WakesReceiver preserves the invariant: whoever was handed a message wakes,
\* or has gone on already.
LEMMA WakesReceiverKeeps ==
  ASSUME IInv, NEW t \in Threads, WakesReceiver(t)
  PROVE  IInv'
<1> DEFINE r == thread[t]
           u == r.go
           r2 == thread_go(thread[u])
           i == AfterSend(r)
           T1 == [thread EXCEPT ![u] = r2]
           T2 == [T1 EXCEPT ![t] = i]
<1>1. /\ Base(port, set, queue, thread, kmsg, entry, notice, dying) /\ AllJoined(port, queue)
      /\ failed = "no" /\ r \in ThreadRecord /\ r.at = "go" /\ Local(r)
      /\ thread \in [Threads -> ThreadRecord]
  BY InvParts DEF WakesReceiver
<1>2. u \in Threads /\ thread[u] \in ThreadRecord /\ Local(thread[u])
  BY <1>1, InvParts DEF Local
<1>3. UNCHANGED <<port, set, queue, kmsg, entry, notice, dying, failed>> /\ thread' = T2
  <2>1. thread' = [thread EXCEPT ![u] = thread_go(@), ![t] = i]
    BY DEF WakesReceiver
  <2>2. [thread EXCEPT ![u] = thread_go(@)] = T1
    BY <1>1, <1>2
  <2> HIDE DEF i, T1
  <2>3. thread' = [[thread EXCEPT ![u] = thread_go(@)] EXCEPT ![t] = i]
    BY <2>1
  <2> QED
    BY <2>2, <2>3 DEF WakesReceiver
<1>4. Woken(thread[u], r2) /\ r2.ipc_state = thread[u].ipc_state /\ r2 \in ThreadRecord
  BY <1>2, GoIs DEF Woken
<1>5. Resting(i, kmsg, t)
  BY <1>1, AfterSendRests
<1> HIDE DEF i, r2
<1>6. /\ T1 \in [Threads -> ThreadRecord] /\ T1[u] = r2 /\ \A v \in Threads \ {u} : T1[v] = thread[v]
  BY <1>1, <1>2, <1>4
<1> HIDE DEF T1
<1>7. /\ i \in ThreadRecord /\ Local(i) /\ Calm(i, kmsg, t)
      /\ i.at \notin {"go", "deliver", "send", "send_wait", "recv_wait"}
      /\ ~ Handed(i)
      /\ \A m : ~ Sends(i, m) /\ ~ Carries(i, m) /\ ~ Tells(i, m)
      /\ \A p : ~ SleepsAt(i, kmsg, p)
      /\ \A q : ~ ReceivesAt(i, q)
  BY <1>5 DEF Resting
<1>8. /\ T2 \in [Threads -> ThreadRecord] /\ T2[t] = i
      /\ \A v \in Threads \ {t} : T2[v] = T1[v]
  BY <1>6, <1>7
<1> HIDE DEF T2
<1>9. Turns(thread[t], i, kmsg)
  <2>1. SameWork(thread[t], i)
    BY <1>1, <1>7 DEF SameWork, Sends, Carries, Tells, Handed
  <2>2. SameLists(thread[t], i, kmsg)
    BY <1>1, <1>7 DEF SameLists, SleepsAt, ReceivesAt
  <2>3. SameDelivery(thread[t], i)
    BY <1>1, <1>7 DEF SameDelivery
  <2> QED
    BY <1>7, <2>1, <2>2, <2>3 DEF Turns
<1>10. Turns(thread[u], r2, kmsg)
  BY <1>2, <1>4, CalmedTurns
<1>11. ASSUME NEW v \in Threads PROVE Turns(thread[v], T2[v], kmsg)
  <2>1. CASE v = t
    BY <1>8, <1>9, <2>1
  <2>2. CASE v = u /\ v # t
    BY <1>6, <1>8, <1>10, <2>2
  <2>3. CASE v # t /\ v # u
    <3>1. T2[v] = thread[v]
      BY <1>6, <1>8, <2>3
    <3>2. thread[v] \in ThreadRecord /\ Local(thread[v])
      BY InvParts
    <3> QED
      BY <3>1, <3>2, Unchanged DEF Turns
  <2> QED
    BY <2>1, <2>2, <2>3
<1>12. \A v \in Threads : Patient(thread, kmsg, v)
  BY <1>1 DEF Base, Patience
<1>13. GoesTo(thread, t, u)
  BY <1>1 DEF GoesTo
\* what is left of the fields of u and of those who are to be woken
<1>14. \A v \in Threads : T2[v].wait => thread[v].wait /\ v # u /\ v # t
  <2>1. ASSUME NEW v \in Threads, T2[v].wait PROVE thread[v].wait /\ v # u /\ v # t
    <3>1. v # t
      BY <1>7, <1>8, <2>1 DEF Local
    <3>2. v # u
      BY <1>4, <1>6, <1>8, <2>1, <3>1 DEF Woken
    <3> QED
      BY <1>6, <1>8, <2>1, <3>1, <3>2
  <2> QED
    BY <2>1
<1>15. \A w, v \in Threads : GoesTo(T2, w, v) <=> w # t /\ GoesTo(thread, w, v)
  <2>1. ASSUME NEW w \in Threads, NEW v \in Threads
        PROVE  GoesTo(T2, w, v) <=> w # t /\ GoesTo(thread, w, v)
    <3>1. CASE w = t
      BY <1>7, <1>8, <3>1 DEF GoesTo
    <3>2. CASE w = u /\ w # t
      BY <1>4, <1>6, <1>8, <3>2 DEF GoesTo, Woken
    <3>3. CASE w # t /\ w # u
      BY <1>6, <1>8, <3>3 DEF GoesTo
    <3> QED
      BY <3>1, <3>2, <3>3
  <2> QED
    BY <2>1
<1>16. Sleeping(queue, T2)
  <2>1. ASSUME NEW v \in Threads, Handed(T2[v]), T2[v].wait
        PROVE  \E w \in Threads : GoesTo(T2, w, v)
    <3>1. thread[v].wait /\ v # u /\ v # t
      BY <1>14, <2>1
    <3>2. T2[v] = thread[v]
      BY <1>6, <1>8, <3>1
    <3>3. PICK w \in Threads : GoesTo(thread, w, v)
      BY <1>1, <2>1, <3>2 DEF Base, Sleeping
    <3>4. w # t
      BY <1>13, <3>1, <3>3 DEF GoesTo
    <3> QED
      BY <1>15, <3>3, <3>4
  <2> QED
    BY <1>1, <2>1 DEF Base, Sleeping
<1>17. ASSUME MayBePoked(u) PROVE Handed(thread[u])
  BY <1>2, <1>12, <1>13, <1>17 DEF Patient
<1>18. Calm(r2, kmsg, u)
  <2>1. Calm(thread[u], kmsg, u)
    BY <1>2, <1>12 DEF Patient
  <2>2. thread[u].at = "send_wait" => \A m \in Msgs :
            Sends(thread[u], m) /\ "ALWAYS" \notin thread[u].option => kmsg[m].to \notin MayDie
    <3>1. ASSUME thread[u].at = "send_wait", NEW m \in Msgs, Sends(thread[u], m),
                 "ALWAYS" \notin thread[u].option, kmsg[m].to \in MayDie
          PROVE  FALSE
      <4>1. MayBePoked(u)
        BY <2>1, <3>1 DEF Calm
      <4> QED
        BY <1>17, <3>1, <4>1 DEF Handed
    <3> QED
      BY <3>1
  <2>3. MayBePoked(u) /\ thread[u].at = "recv_wait" => thread[u].ipc_state # "RCV_IN_PROGRESS"
    BY <1>17 DEF Handed
  <2> QED
    BY <1>4, <2>1, <2>2, <2>3, CalmStays
<1>19. ASSUME NEW v \in Threads PROVE Calm(T2[v], kmsg, v)
  <2>1. CASE v = t
    BY <1>7, <1>8, <2>1
  <2>2. CASE v = u /\ v # t
    BY <1>6, <1>8, <1>18, <2>2
  <2>3. CASE v # t /\ v # u
    <3>1. T2[v] = thread[v]
      BY <1>6, <1>8, <2>3
    <3> QED
      BY <1>12, <3>1 DEF Patient
  <2> QED
    BY <2>1, <2>2, <2>3
<1>20. ASSUME NEW v \in Threads, MayBePoked(v), NEW w \in Threads, GoesTo(T2, w, v)
       PROVE  /\ Handed(T2[v]) /\ T2[v].wait
              /\ \A x \in Threads : GoesTo(T2, x, v) => x = w
  <2>1. w # t /\ GoesTo(thread, w, v)
    BY <1>15, <1>20
  <2>2. /\ Handed(thread[v]) /\ thread[v].wait
        /\ \A x \in Threads : GoesTo(thread, x, v) => x = w
    BY <1>12, <1>20, <2>1 DEF Patient
  <2>3. v # t
    BY <1>1, <2>2 DEF Handed
  <2>4. v # u
    BY <1>13, <2>1, <2>2
  <2>5. T2[v] = thread[v]
    BY <1>6, <1>8, <2>3, <2>4
  <2> QED
    BY <1>15, <2>2, <2>5
<1>21. Pokes(thread', kmsg, dying)
  <2>1. ASSUME NEW p \in Ports, dying[p].poked # Nil
        PROVE  SleepsAt(T2[dying[p].poked], kmsg, p) /\ T2[dying[p].poked].wait
    <3> DEFINE v == dying[p].poked
    <3>1. /\ v \in Threads /\ SleepsAt(thread[v], kmsg, p) /\ thread[v].at = "send_wait" /\ thread[v].wait
          /\ \A w \in Threads : ~ GoesTo(thread, w, v)
      BY <1>1, <2>1, PokedIs
    <3> HIDE DEF v
    <3>2. v # t /\ v # u
      BY <1>1, <1>13, <3>1
    <3>3. T2[v] = thread[v]
      BY <1>6, <1>8, <3>1, <3>2
    <3> QED
      BY <3>1, <3>3 DEF v
  <2> QED
    BY <1>3, <2>1 DEF Pokes
<1>22. Patience(T2, kmsg, dying)
  <2>1. ASSUME NEW v \in Threads PROVE Patient(T2, kmsg, v)
    BY <1>19, <1>20 DEF Patient
  <2> QED
    BY <1>3, <1>21, <2>1 DEF Patience
<1>23. Locals(T2)
  BY <1>11 DEF Locals, Turns
<1>24. Base(port, set, queue, T2, kmsg, entry, notice, dying)
  <2>1. \A v \in Threads : /\ SameWork(thread[v], T2[v]) /\ SameLists(thread[v], T2[v], kmsg)
                           /\ SameDelivery(thread[v], T2[v])
    BY <1>11 DEF Turns
  <2> QED
    BY <1>1, <1>8, <1>16, <1>22, <1>23, <2>1, TurnKeeps
<1> QED
  BY <1>1, <1>3, <1>24 DEF IInv, Inv

-----------------------------------------------------------------------------
(* A received message is accounted for.                                    *)

\* t, with the lock of p, accounts for m: the count of p goes down, and if a
\* translation waits for the message then t is about to tell the sender.
Accounted(P, P2, T, M, E, t, r2, m, p, mr, E2) ==
    /\ t \in Threads /\ m \in Msgs /\ p \in Ports
    /\ T[t].at = "account" /\ T[t].msg = m /\ M[m].to = p
    /\ P2 \in [Ports -> PortRecord] /\ P2[p].count = P[p].count - 1
    /\ \A x \in Ports : /\ P2[x].in_use = P[x].in_use /\ P2[x].receiver = P[x].receiver
                        /\ P2[x].blocked = P[x].blocked /\ P2[x].set = P[x].set
    /\ \A x \in Ports \ {p} : P2[x] = P[x]
    /\ P[p].blocked # <<>> /\ ~WWA => P[p].count # 1
    /\ mr \in MessageRecord /\ mr.to = p
    /\ r2 \in ThreadRecord /\ Local(r2)
    /\ \/ /\ M[m].sender_entry /\ E2 = [E EXCEPT ![p] = Nil]
          /\ r2.at = "notify" /\ r2.msg = m /\ mr.at = "live" /\ mr.sender_entry
       \/ /\ ~M[m].sender_entry /\ E2 = E
          /\ r2.at = "idle" /\ mr.at = "received" /\ ~mr.sender_entry

\* What the assertion of msg_dequeue says.
LEMMA CarriedCounts ==
  ASSUME NEW P, NEW S, NEW Q, NEW T, NEW M, NEW E, NEW N, NEW D,
         Base(P, S, Q, T, M, E, N, D), NEW t \in Threads, NEW m, Carries(T[t], m), m \in Msgs
  PROVE  /\ M[m].to \in Ports /\ M[m].at = "live"
         /\ m \in CountedIn(Q, T, M, M[m].to)
         /\ P[M[m].to].count \in Int /\ P[M[m].to].count >= 1
         /\ M[m].sender_entry => E[M[m].to] = m
<1> DEFINE p == M[m].to
           c == CountedIn(Q, T, M, p)
<1>1. M[m].at = "live" /\ p \in Ports
  BY DEF Base, Stages, Addressed
<1>2. m \in c
  BY DEF CountedIn
<1>3. c \subseteq Msgs /\ IsFiniteSet(Msgs)
  BY Names DEF CountedIn
<1>4. /\ Cardinality(c) \in Nat /\ Cardinality(c \ {m}) = Cardinality(c) - 1
      /\ Cardinality(c \ {m}) \in Nat
  <2> HIDE DEF c
  <2>1. IsFiniteSet(c) /\ IsFiniteSet(c \ {m})
    BY <1>3, FS_Subset
  <2>2. Cardinality(c \ {m}) = IF m \in c THEN Cardinality(c) - 1 ELSE Cardinality(c)
    BY <2>1, FS_RemoveElement
  <2>3. Cardinality(c) \in Nat /\ Cardinality(c \ {m}) \in Nat
    BY <2>1, FS_CardinalityType
  <2> QED
    BY <1>2, <2>2, <2>3
<1>5. P[p].count \in Int
  <2>1. P[p] \in PortRecord
    BY <1>1, Exactly
  <2> QED
    BY <2>1 DEF PortRecord
<1>6. Cardinality(c) <= P[p].count
  BY <1>1 DEF Base, Counts, CountOf
<1>7. M[m].sender_entry => E[p] = m
  <2>1. \A u \in Threads : ~ Tells(T[u], m)
    <3>1. ~ Tells(T[t], m)
      BY DEF Carries, Tells, Handed
    <3>2. \A u \in Threads \ {t} : ~ Keeps(T[u], m)
      BY DEF Base, Stages, Keeps
    <3> QED
      BY <3>1, <3>2 DEF Keeps
  <2> QED
    BY <1>1, <2>1 DEF Base, Marks, Waited
<1> HIDE DEF c, p
<1>8. P[p].count >= 1
  BY <1>4, <1>5, <1>6
<1> QED
  BY <1>1, <1>2, <1>5, <1>7, <1>8 DEF c, p

\* The message is received, and counted out.
LEMMA AccountedKeeps ==
  ASSUME NEW P, NEW S, NEW Q, NEW T, NEW M, NEW E, NEW N, NEW D,
         NEW P2, NEW T2, NEW M2, NEW E2, NEW t, NEW r2, NEW m, NEW p, NEW mr,
         Base(P, S, Q, T, M, E, N, D), Accounted(P, P2, T, M, E, t, r2, m, p, mr, E2),
         Changed(T, T2, t, r2), Changed(M, M2, m, mr)
  PROVE  Base(P2, S, Q, T2, M2, E2, N, D)
<1>1. /\ T \in [Threads -> ThreadRecord] /\ M \in [Msgs -> MessageRecord]
      /\ E \in [Ports -> Msgs \cup {Nil, Gone, Deleted}]
      /\ WorkParts(P, Q, T, M, E, N)
  BY Exactly
<1>2. /\ t \in Threads /\ m \in Msgs /\ p \in Ports
      /\ T[t].at = "account" /\ T[t].msg = m /\ M[m].to = p
      /\ mr \in MessageRecord /\ mr.to = p /\ r2 \in ThreadRecord /\ Local(r2)
  BY DEF Accounted
<1>3. /\ P2 \in [Ports -> PortRecord] /\ P2[p].count = P[p].count - 1
      /\ \A x \in Ports : /\ P2[x].in_use = P[x].in_use /\ P2[x].receiver = P[x].receiver
                          /\ P2[x].blocked = P[x].blocked /\ P2[x].set = P[x].set
      /\ \A x \in Ports \ {p} : P2[x] = P[x]
      /\ P[p].blocked # <<>> /\ ~WWA => P[p].count # 1
  BY DEF Accounted
<1>4. \/ /\ M[m].sender_entry /\ E2 = [E EXCEPT ![p] = Nil]
         /\ r2.at = "notify" /\ r2.msg = m /\ mr.at = "live" /\ mr.sender_entry
      \/ /\ ~M[m].sender_entry /\ E2 = E
         /\ r2.at = "idle" /\ mr.at = "received" /\ ~mr.sender_entry
  BY DEF Accounted
<1>5. Carries(T[t], m) /\ Keeps(T[t], m) /\ ~ Sends(T[t], m) /\ ~ Tells(T[t], m)
  BY <1>2 DEF Carries, Keeps, Sends, Tells
<1>6. /\ M[m].at = "live" /\ m \in CountedIn(Q, T, M, p)
      /\ P[p].count \in Int /\ P[p].count >= 1
      /\ M[m].sender_entry => E[p] = m
  BY <1>2, <1>5, CarriedCounts
<1>7. ~ Sends(r2, m) /\ ~ Carries(r2, m) /\ (Tells(r2, m) <=> M[m].sender_entry)
  BY <1>2, <1>4 DEF Sends, Carries, Tells, Handed
<1>8. OnlyMessage(M, M2, m) /\ M2[m] = mr /\ M2 \in [Msgs -> MessageRecord]
  BY <1>1, <1>2 DEF OnlyMessage, Changed
<1>9. SameTo(M, M2) /\ Addressed(M2)
  BY <1>2, <1>6, <1>8 DEF SameTo, Addressed, Base, OnlyMessage
<1>10. Acted(T, T2, M, M2, D, t, r2)
  <2>1. \A x \in Ports : D[x].poked # t
    <3>1. ASSUME NEW x \in Ports, D[x].poked = t PROVE FALSE
      <4>1. D[x].poked # Nil
        BY <1>2, <3>1, Names
      <4>2. T[t].at = "send_wait"
        BY <3>1, <4>1, PokedIs
      <4> QED
        BY <1>2, <4>2
    <3> QED
      BY <3>1
  <2>2. Calm(r2, M2, t)
    BY <1>4 DEF Calm, Sends
  <2>3. MayAct(T[t], r2, M2, D, t)
    BY <1>2, <1>4, <2>1, <2>2 DEF MayAct, Handed
  <2> QED
    BY <1>2, <1>9, <2>3, OneActs
<1>11. T2[t] = r2 /\ Others(T, T2, t)
  BY <1>10 DEF Acted
<1>12. Alone(Q, T, m, t)
  BY <1>1, <1>2, <1>5, AloneIs
<1>13. OneWorks(T, T2, t, m)
  <2>1. \A m2 : m2 # m => ~ Keeps(T[t], m2)
    BY <1>2, OneMessage
  <2>2. \A m2 : m2 # m => ~ Keeps(r2, m2)
    <3>1. CASE r2.msg = m
      BY <3>1, OneMessage
    <3>2. CASE r2.at = "idle"
      BY <3>2 DEF Keeps, Carries, Tells, Sends, Handed
    <3> QED
      BY <1>4, <3>1, <3>2
  <2> QED
    BY <1>11, <2>1, <2>2 DEF OneWorks
<1>14. WorkedOn(P2, Q, T, T2, M, M2, t, m)
  <2>1. Stages(T, M) /\ Queued(P, Q, T, M) /\ Addressed(M)
    BY DEF Base
  <2>2. /\ Sends(T2[t], m) => M2[m].at = "sending"
        /\ Carries(T2[t], m) => M2[m].at = "live"
        /\ Tells(T2[t], m) => M2[m].at = "live" /\ M2[m].sender_entry
    BY <1>4, <1>7, <1>8, <1>11
  <2>3. \A x \in Ports : P2[x].set = P[x].set
    BY <1>3
  <2>4. OnlyMessage(M, M2, m) /\ t \in Threads /\ m \in Msgs
    BY <1>2, <1>8
  <2> QED
    BY <1>12, <1>13, <2>1, <2>2, <2>3, <2>4, WorkOne
<1>15. Stages(T2, M2) /\ Queued(P2, Q, T2, M2)
  BY <1>14 DEF WorkedOn
<1>16. Counts(P2, Q, T2, M2)
  <2>1. \A x \in Ports : CountedIn(Q, T2, M2, x) = CountedIn(Q, T, M, x) \ {m}
    BY <1>7, <1>11, <1>14 DEF WorkedOn
  <2>2. ASSUME NEW x \in Ports \ {p} PROVE CountOf(P2[x], CountedIn(Q, T2, M2, x))
    <3>1. m \notin CountedIn(Q, T, M, x)
      BY <1>2, <2>2 DEF CountedIn
    <3>2. CountedIn(Q, T2, M2, x) = CountedIn(Q, T, M, x) /\ P2[x] = P[x]
      BY <1>3, <2>1, <2>2, <3>1
    <3> QED
      BY <3>2 DEF Base, Counts
  <2>3. CountOf(P2[p], CountedIn(Q, T2, M2, p))
    <3> DEFINE c == CountedIn(Q, T, M, p)
               n == Cardinality(c)
               k == P[p].count
    <3>1. Cardinality(c \ {m}) = n - 1 /\ n \in Nat /\ Cardinality(Msgs) \in Nat
      BY <1>2, <1>6, CountSets
    <3>2. k <= Cardinality(Msgs) /\ n <= k /\ (P[p].in_use => k = n)
      BY <1>2 DEF Base, Counts, CountOf
    <3>3. Cardinality(CountedIn(Q, T2, M2, p)) = n - 1
      BY <1>2, <2>1, <3>1
    <3>4. k \in Int /\ P2[p].count = k - 1 /\ P2[p].in_use = P[p].in_use
      BY <1>2, <1>3, <1>6
    <3> HIDE DEF c, n, k
    <3>5. /\ P2[p].count <= Cardinality(Msgs)
          /\ Cardinality(CountedIn(Q, T2, M2, p)) <= P2[p].count
          /\ P2[p].in_use => P2[p].count = Cardinality(CountedIn(Q, T2, M2, p))
      BY <3>1, <3>2, <3>3, <3>4
    <3> QED
      BY <3>5 DEF CountOf
  <2> QED
    BY <2>2, <2>3 DEF Counts
<1>17. SendLists(P2, T2, M2, D)
  <2>1. \A x \in Ports : ~ SleepsAt(T[t], M, x) /\ ~ SleepsAt(r2, M2, x)
    BY <1>2, <1>4 DEF SleepsAt
  <2> QED
    BY <1>3, <1>10, <2>1 DEF Base, SendLists, Acted
<1>18. ReceiveLists(Q, T2)
  <2>1. \A x \in Queues : ~ ReceivesAt(T[t], x) /\ ~ ReceivesAt(r2, x)
    BY <1>2, <1>4 DEF ReceivesAt
  <2> QED
    BY <1>11, <2>1 DEF Base, ReceiveLists, Others
<1>19. PortsFit(P2, Q, D)
  <2>1. ASSUME NEW x \in Ports PROVE PortFits(P2[x], Q[x], D[x], x)
    <3>1. PortFits(P[x], Q[x], D[x], x)
      BY DEF Base, PortsFit
    <3>2. CASE x = p
      <4>1. P[p].count # 1 => P[p].count - 1 > 0
        BY <1>6
      <4>2. P2[p].blocked # <<>> /\ ~WWA => P2[p].count > 0
        BY <1>2, <1>3, <4>1
      <4> QED
        BY <1>3, <3>1, <3>2, <4>2 DEF PortFits
    <3>3. CASE x # p
      BY <1>3, <3>1, <3>3
    <3> QED
      BY <3>2, <3>3
  <2> QED
    BY <2>1 DEF PortsFit
<1>20. SetsFit(P2, S, Q)
  BY <1>3, SameMembers
<1>21. Locks(P2, Q, T2, M2)
  <2>1. T[t].at # "deliver" /\ T2[t].at # "deliver"
    BY <1>2, <1>4, <1>11
  <2> QED
    BY <1>2, <1>3, <1>9, <1>11, <2>1, LocksOne
<1>22. Sleeping(Q, T2)
  BY <1>10 DEF Base, Sleeping, Acted
<1>23. /\ \A x \in Ports, m2 \in Msgs \ {m} : E2[x] = m2 <=> E[x] = m2
       /\ \A x \in Ports : E[x] \in {Gone, Deleted} => E2[x] \in {Gone, Deleted}
       /\ \A x \in Ports : E2[x] # m
       /\ E2 \in [Ports -> Msgs \cup {Nil, Gone, Deleted}]
  <2>1. \A x \in Ports : E[x] = m <=> M[m].to = x /\ Waited(T, M, m)
    BY <1>2 DEF Base, Marks
  <2>2. CASE M[m].sender_entry /\ E2 = [E EXCEPT ![p] = Nil]
    <3>1. E[p] = m /\ \A x \in Ports \ {p} : E[x] # m
      BY <1>2, <1>6, <2>1, <2>2
    <3>2. m \notin {Gone, Deleted, Nil} /\ Nil \notin Msgs
      BY <1>2, Names DEF Gone, Deleted
    <3> QED
      BY <1>1, <1>2, <2>2, <3>1, <3>2
  <2>3. CASE ~M[m].sender_entry /\ E2 = E
    BY <1>1, <2>1, <2>3 DEF Waited
  <2> QED
    BY <1>4, <2>2, <2>3
<1>24. ~ Waited(T2, M2, m)
  BY <1>2, <1>4, <1>7, <1>8, <1>11 DEF Waited
<1>25. Marks(T2, M2, E2)
  <2>1. M2[m].at \in {"new", "sending"} => ~ M2[m].sender_entry
    BY <1>4, <1>8
  <2>2. \A x \in Ports : E2[x] = m <=> M2[m].to = x /\ Waited(T2, M2, m)
    BY <1>23, <1>24
  <2> QED
    BY <1>2, <1>8, <1>12, <1>13, <1>23, <2>1, <2>2, MarksOne DEF Base
<1>26. Promises(P2, T2, M2, E2, N)
  <2>1. Promised(P2, T2[t], M2, E2, N, m)
    <3>1. CASE M[m].sender_entry
      BY <1>2, <1>4, <1>7, <1>8, <1>11, <3>1 DEF Promised
    <3>2. CASE ~M[m].sender_entry /\ N[m] = "WILL_NOTIFY"
      <4>1. \A u \in Threads : ~ Tells(T[u], m)
        <5>1. \A u \in Threads \ {t} : ~ Keeps(T[u], m)
          BY <1>12 DEF Alone
        <5> QED
          BY <1>5, <5>1 DEF Keeps
      <4>2. E[p] \in {Gone, Deleted} \/ ~P[p].in_use
        BY <1>2, <3>2, <4>1 DEF Base, Promises
      <4>3. M2[m].at = "received" /\ M2[m].to = p
        BY <1>2, <1>4, <1>8, <3>2
      <4> QED
        BY <1>2, <1>3, <1>23, <4>2, <4>3 DEF Promised
    <3> QED
      BY <3>1, <3>2 DEF Promised
  <2>2. Promises(P, T, M, E, N)
    BY DEF Base
  <2>3. SamePromises(P, P2, E, E2, N, N, m)
    BY <1>3, <1>23 DEF SamePromises
  <2> QED
    BY <1>2, <1>8, <1>13, <2>1, <2>2, <2>3, PromisesOne
<1>27. Typed(P2, S, Q, T2) /\ TypedMore(M2, E2, N, D)
  BY <1>3, <1>8, <1>10, <1>23 DEF Base, Typed, TypedMore, Acted
<1>28. Locals(T2) /\ Patience(T2, M2, D)
  BY <1>10 DEF Acted
<1> QED
  BY <1>9, <1>15, <1>16, <1>17, <1>18, <1>19, <1>20, <1>21, <1>22, <1>25, <1>26, <1>27, <1>28 DEF Base

\* The senders who go on are the first of those who wait.
LEMMA LetGoIs ==
  ASSUME NEW pr, pr.blocked \in Seq(Threads)
  PROVE  /\ LetGo(pr) \in Seq(Threads) /\ Len(LetGo(pr)) <= Len(pr.blocked)
         /\ \A i \in 1 .. Len(LetGo(pr)) : LetGo(pr)[i] = pr.blocked[i]
         /\ ~WWA /\ pr.count = 0 =>
                SubSeq(pr.blocked, Len(LetGo(pr)) + 1, Len(pr.blocked)) = <<>>
<1> DEFINE e == <<>>
<1>1. CASE WWA
  <2>1. LetGo(pr) = FirstOf(pr.blocked, 1)
    BY <1>1 DEF LetGo
  <2> QED
    BY <1>1, <2>1, FirstOfIs
<1>2. CASE ~WWA /\ pr.count = 0
  <2>1. LetGo(pr) = pr.blocked
    BY <1>2 DEF LetGo
  <2>2. SubSeq(pr.blocked, Len(pr.blocked) + 1, Len(pr.blocked)) = <<>>
    BY LenProperties
  <2>3. Len(pr.blocked) \in Nat
    BY LenProperties
  <2> QED
    BY <2>1, <2>2, <2>3
<1>3. CASE ~WWA /\ pr.count # 0
  <2>1. LetGo(pr) = e
    BY <1>3 DEF LetGo
  <2>2. e \in Seq(Threads) /\ Len(e) = 0 /\ Len(pr.blocked) \in Nat
    BY LenProperties
  <2> HIDE DEF e
  <2>3. \A i \in 1 .. Len(e) : e[i] = pr.blocked[i]
    BY <2>2
  <2> QED
    BY <1>3, <2>1, <2>2, <2>3
<1> QED
  BY <1>1, <1>2, <1>3

\* The message is received: its count goes, senders go on, and a sender who
\* waits for notice of it is about to get it.
LEMMA AccountKeeps ==
  ASSUME IInv, NEW t \in Threads, Account(t)
  PROVE  IInv'
<1> DEFINE r == thread[t]
           m == r.msg
           p == kmsg[m].to
           pr == [port[p] EXCEPT !.count = @ - 1]
           w == LetGo(pr)
           b == SubSeq(port[p].blocked, Len(w) + 1, Len(port[p].blocked))
           P == [port EXCEPT ![p].blocked = b]
           T == WakeAll(thread, w, "SUCCESS")
           pr2 == [pr EXCEPT !.blocked = SubSeq(@, Len(w) + 1, Len(@))]
           r2 == IF kmsg[m].sender_entry THEN [r EXCEPT !.at = "notify"] ELSE Idle
           mr == IF kmsg[m].sender_entry THEN kmsg[m] ELSE [kmsg[m] EXCEPT !.at = "received"]
<1>1. /\ Base(port, set, queue, thread, kmsg, entry, notice, dying)
      /\ port \in [Ports -> PortRecord] /\ kmsg \in [Msgs -> MessageRecord]
      /\ thread \in [Threads -> ThreadRecord] /\ r \in ThreadRecord /\ Local(r)
      /\ AllJoined(port, queue) /\ failed = "no"
  BY InvParts, Exactly
<1>2. r.at = "account" /\ m \in Msgs /\ Carries(r, m)
  BY <1>1 DEF Account, Local, Carries
<1>3. /\ p \in Ports /\ kmsg[m].at = "live"
      /\ port[p].count \in Int /\ port[p].count >= 1
      /\ kmsg[m].sender_entry => entry[p] = m
  BY <1>1, <1>2, CarriedCounts
<1>4. port[p] \in PortRecord /\ port[p].blocked \in Seq(Threads) /\ kmsg[m] \in MessageRecord
  BY <1>1, <1>2, <1>3 DEF PortRecord
<1>5. /\ pr \in PortRecord /\ pr.count = port[p].count - 1 /\ pr.blocked = port[p].blocked
      /\ pr.in_use = port[p].in_use /\ pr.receiver = port[p].receiver /\ pr.set = port[p].set
  BY <1>3, <1>4 DEF PortRecord
<1>6. port' = [port EXCEPT ![p] = pr2] /\ UNCHANGED <<set, queue, notice, dying>>
  BY DEF Account
<1>7. /\ Changed(T, thread', t, r2) /\ Changed(kmsg, kmsg', m, mr)
      /\ \/ kmsg[m].sender_entry /\ entry' = [entry EXCEPT ![p] = Nil]
         \/ ~kmsg[m].sender_entry /\ entry' = entry
  <2>1. CASE kmsg[m].sender_entry
    <3>1. r2 = [r EXCEPT !.at = "notify"] /\ mr = kmsg[m]
      BY <2>1
    <3>2. kmsg' = [kmsg EXCEPT ![m] = kmsg[m]]
      BY <1>1, <2>1 DEF Account
    <3> HIDE DEF r2, mr
    <3> QED
      BY <2>1, <3>1, <3>2 DEF Account, Changed
  <2>2. CASE ~kmsg[m].sender_entry
    <3>1. r2 = Idle /\ mr = [kmsg[m] EXCEPT !.at = "received"]
      BY <2>2
    <3>2. kmsg' = [kmsg EXCEPT ![m] = [kmsg[m] EXCEPT !.at = "received"]]
      BY <1>1, <2>2 DEF Account
    <3> HIDE DEF r2, mr
    <3> QED
      BY <2>2, <3>1, <3>2 DEF Account, Changed
  <2> QED
    BY <2>1, <2>2
<1>8. failed' = "no"
  <2>1. port[p].count - 1 >= 0
    BY <1>3
  <2>2. pr.count >= 0 /\ (kmsg[m].sender_entry => entry[p] = m)
    BY <1>3, <1>5, <2>1
  <2> QED
    BY <1>1, <2>2 DEF Account, Asserts
<1>9. /\ r2 \in ThreadRecord /\ Local(r2)
      /\ kmsg[m].sender_entry => r2.at = "notify" /\ r2.msg = m
      /\ ~kmsg[m].sender_entry => r2.at = "idle"
  <2>1. CASE kmsg[m].sender_entry
    <3> DEFINE n == [r EXCEPT !.at = "notify"]
    <3>1. r2 = n
      BY <2>1
    <3>2. n \in ThreadRecord
      BY <1>1 DEF ThreadRecord
    <3>3. n.at = "notify" /\ n.msg = m /\ n.wait = r.wait /\ n.timer = r.timer /\ n.tout = r.tout
      BY <1>1 DEF ThreadRecord
    <3> HIDE DEF n, r2
    <3>4. Local(n)
      BY <1>1, <1>2, <3>3 DEF Local, Handed
    <3> QED
      BY <2>1, <3>1, <3>2, <3>3, <3>4
  <2>2. CASE ~kmsg[m].sender_entry
    <3> DEFINE i == Idle
    <3>1. r2 = i /\ i.at = "idle"
      BY <2>2 DEF Idle
    <3>2. i = Idle
      OBVIOUS
    <3> HIDE DEF i, r2
    <3>3. Resting(i, kmsg, t)
      BY <3>2, Rests, Zenon
    <3> QED
      BY <2>2, <3>1, <3>3 DEF Resting
  <2> QED
    BY <2>1, <2>2
<1>10. /\ mr \in MessageRecord /\ mr.to = p
       /\ kmsg[m].sender_entry => mr.at = "live" /\ mr.sender_entry
       /\ ~kmsg[m].sender_entry => mr.at = "received" /\ ~mr.sender_entry
  BY <1>3, <1>4 DEF MessageRecord
<1> HIDE DEF r2, mr
<1>11. /\ w \in Seq(Threads) /\ Len(w) <= Len(port[p].blocked)
       /\ \A i \in 1 .. Len(w) : w[i] = port[p].blocked[i]
       /\ ~WWA /\ port[p].count = 1 => b = <<>>
  <2> HIDE DEF pr
  <2>1. pr.blocked \in Seq(Threads)
    BY <1>4, <1>5
  <2>2. port[p].count = 1 => pr.count = 0
    BY <1>5
  <2> QED
    BY <1>5, <2>1, <2>2, LetGoIs
<1>12. pr2 = [pr EXCEPT !.blocked = b]
  BY <1>5
<1> HIDE DEF pr2, w, pr
<1>13. /\ b \in Seq(Threads) /\ ToSet(w) \subseteq ToSet(port[p].blocked)
       /\ IsInjective(port[p].blocked) =>
             IsInjective(b) /\ ToSet(b) = ToSet(port[p].blocked) \ ToSet(w)
  <2> DEFINE l == port[p].blocked
  <2>1. l \in Seq(Threads) /\ w \in Seq(Threads) /\ Len(w) <= Len(l)
    BY <1>4, <1>11
  <2>2. \A i \in 1 .. Len(w) : w[i] = l[i]
    BY <1>11
  <2>3. b = SubSeq(l, Len(w) + 1, Len(l))
    OBVIOUS
  <2> HIDE DEF b, l
  <2>4. /\ b \in Seq(Threads) /\ ToSet(w) \subseteq ToSet(l)
        /\ IsInjective(l) => IsInjective(b) /\ ToSet(b) = ToSet(l) \ ToSet(w)
    BY <2>1, <2>2, <2>3, PrefixIs
  <2> QED
    BY <2>4 DEF l
<1> HIDE DEF b
<1>14. Base(P, set, queue, T, kmsg, entry, notice, dying)
  <2> DEFINE P1 == [port EXCEPT ![p].blocked = b]
  <2>1. Base(P1, set, queue, WakeAll(thread, w, "SUCCESS"), kmsg, entry, notice, dying)
    <3> HIDE DEF P, T, p, m, r
    <3> QED
      BY <1>1, <1>3, <1>11, <1>13, WakeSendersKeeps
  <2> QED
    BY <2>1
<1>15. /\ P \in [Ports -> PortRecord] /\ P[p].blocked = b /\ P[p].count = port[p].count
       /\ P[p].in_use = port[p].in_use /\ P[p].receiver = port[p].receiver
       /\ P[p].set = port[p].set
       /\ \A x \in Ports \ {p} : P[x] = port[x]
  <2>1. P \in [Ports -> PortRecord]
    BY <1>14, Exactly
  <2> HIDE DEF p, T
  <2>2. /\ P[p] = [port[p] EXCEPT !.blocked = b]
        /\ \A x \in Ports \ {p} : P[x] = port[x]
    BY <1>1, <1>3
  <2> HIDE DEF P
  <2>3. /\ P[p].blocked = b /\ P[p].count = port[p].count
        /\ P[p].in_use = port[p].in_use /\ P[p].receiver = port[p].receiver
        /\ P[p].set = port[p].set
    BY <1>4, <2>2 DEF PortRecord
  <2> QED
    BY <2>1, <2>2, <2>3
<1>16. /\ pr2 \in PortRecord /\ pr2.count = port[p].count - 1 /\ pr2.blocked = b
       /\ pr2.in_use = port[p].in_use /\ pr2.receiver = port[p].receiver
       /\ pr2.set = port[p].set
  BY <1>5, <1>12, <1>13 DEF PortRecord
<1>17. /\ port' \in [Ports -> PortRecord] /\ port'[p] = pr2
       /\ \A x \in Ports \ {p} : port'[x] = port[x]
  BY <1>1, <1>3, <1>6, <1>16
<1>18. T[t] = r
  <2>1. t \notin ToSet(port[p].blocked)
    BY <1>1, <1>2, <1>3 DEF Base, SendLists, SleepsAt
  <2> QED
    BY <1>13, <2>1 DEF WakeAll
<1> HIDE DEF P, T
<1>19. \A x \in Ports : /\ port'[x].in_use = P[x].in_use /\ port'[x].receiver = P[x].receiver
                        /\ port'[x].blocked = P[x].blocked /\ port'[x].set = P[x].set
  BY <1>15, <1>16, <1>17
<1>20. Accounted(P, port', T, kmsg, entry, t, r2, m, p, mr, entry')
  <2>1. T[t].at = "account" /\ T[t].msg = m
    BY <1>2, <1>18
  <2>2. \A x \in Ports \ {p} : port'[x] = P[x]
    BY <1>15, <1>17
  <2>3. P[p].blocked # <<>> /\ ~WWA => P[p].count # 1
    BY <1>11, <1>15
  <2>4. port'[p].count = P[p].count - 1
    BY <1>15, <1>16, <1>17
  <2>5. \/ /\ kmsg[m].sender_entry /\ entry' = [entry EXCEPT ![p] = Nil]
           /\ r2.at = "notify" /\ r2.msg = m /\ mr.at = "live" /\ mr.sender_entry
        \/ /\ ~kmsg[m].sender_entry /\ entry' = entry
           /\ r2.at = "idle" /\ mr.at = "received" /\ ~mr.sender_entry
    BY <1>7, <1>9, <1>10
  <2> HIDE DEF r, m, p
  <2> QED
    BY <1>2, <1>3, <1>9, <1>10, <1>17, <1>19, <2>1, <2>2, <2>3, <2>4, <2>5 DEF Accounted, p
<1>21. Base(port', set, queue, thread', kmsg', entry', notice, dying)
  <2> HIDE DEF r, m, p
  <2> QED
    BY <1>7, <1>14, <1>20, AccountedKeeps
<1>22. AllJoined(port', queue)
  <2>1. \A x \in Ports : port'[x].set = port[x].set
    BY <1>15, <1>19
  <2> QED
    BY <1>1, <2>1 DEF AllJoined, Joined
<1> QED
  BY <1>6, <1>8, <1>21, <1>22 DEF IInv, Inv

-----------------------------------------------------------------------------
(* The inductive invariant holds at first and is kept.                     *)

\* At first nothing is under way.
LEMMA StartsSo ==
  ASSUME Init
  PROVE  IInv
<1> DEFINE e == <<>>
<1>1. \A p \in Ports : port[p] =
            [in_use |-> TRUE, receiver |-> "task", count |-> 0,
             backlog |-> Backlog, set |-> Nil, blocked |-> e]
  BY DEF Init
<1>2. \A s \in Sets : set[s] = [in_use |-> TRUE, traversal |-> Nil, next |-> Nil]
  BY DEF Init
<1>3. \A q \in Queues : queue[q] = [messages |-> e, blocked |-> e, lock |-> Nil]
  BY DEF Init
<1>4. \A t \in Threads : thread[t] = Idle
  BY DEF Init
<1>5. \A m \in Msgs : kmsg[m] = [at |-> "new", to |-> Nil, sender_entry |-> FALSE]
  BY DEF Init
<1>6. \A p \in Ports : entry[p] = Nil
  BY DEF Init
<1>7. \A m \in Msgs : notice[m] = "none"
  BY DEF Init
<1>8. \A p \in Ports : dying[p] = [at |-> "no", poked |-> Nil]
  BY DEF Init
<1>9. failed = "no"
  BY DEF Init
<1>10. /\ e \in Seq(Threads) /\ e \in Seq(Msgs) /\ ToSet(e) = {} /\ IsInjective(e)
       /\ e = <<>>
  <2>1. e \in Seq(Threads) /\ e \in Seq(Msgs) /\ Len(e) = 0
    OBVIOUS
  <2>2. ToSet(e) = {} /\ IsInjective(e)
    BY DEF ToSet, IsInjective
  <2> QED
    BY <2>1, <2>2
<1> HIDE DEF e
<1>11. \A p \in Ports : /\ port[p].in_use /\ port[p].receiver = "task"
                        /\ port[p].count = 0 /\ port[p].set = Nil /\ port[p].blocked = e
  BY <1>1
<1>12. \A q \in Queues : queue[q].messages = e /\ queue[q].blocked = e /\ queue[q].lock = Nil
  BY <1>3
<1>13. \A t \in Threads : Resting(thread[t], kmsg, t) /\ thread[t].at = "idle"
  <2> DEFINE i == Idle
  <2>1. i = Idle /\ i.at = "idle"
    BY DEF Idle
  <2> HIDE DEF i
  <2>2. ASSUME NEW t \in Threads PROVE Resting(i, kmsg, t)
    BY <2>1, Rests, Zenon
  <2> QED
    BY <1>4, <2>1, <2>2
<1>14. \A t \in Threads : \A m : ~ Keeps(thread[t], m) /\ ~ Tells(thread[t], m) /\ ~ Carries(thread[t], m)
  BY <1>13 DEF Resting, Keeps
<1>15. Typed(port, set, queue, thread)
  <2>1. port \in [Ports -> PortRecord]
    <3>1. [in_use |-> TRUE, receiver |-> "task", count |-> 0,
           backlog |-> Backlog, set |-> Nil, blocked |-> e] \in PortRecord
      BY <1>10 DEF PortRecord, Backlogs
    <3>2. port = [p \in Ports |->
            [in_use |-> TRUE, receiver |-> "task", count |-> 0,
             backlog |-> Backlog, set |-> Nil, blocked |-> e]]
      BY DEF Init, e
    <3> QED
      BY <3>1, <3>2
  <2>2. set \in [Sets -> SetRecord]
    BY DEF Init, SetRecord
  <2>3. queue \in [Queues -> QueueRecord]
    <3>1. [messages |-> e, blocked |-> e, lock |-> Nil] \in QueueRecord
      BY <1>10 DEF QueueRecord
    <3>2. queue = [q \in Queues |-> [messages |-> e, blocked |-> e, lock |-> Nil]]
      BY DEF Init, e
    <3> QED
      BY <3>1, <3>2
  <2>4. thread \in [Threads -> ThreadRecord]
    <3>1. thread = [t \in Threads |-> Idle]
      BY DEF Init
    <3>2. \A t \in Threads : Idle \in ThreadRecord
      BY <1>4, <1>13 DEF Resting
    <3> QED
      BY <3>1, <3>2
  <2> QED
    BY <2>1, <2>2, <2>3, <2>4 DEF Typed
<1>16. TypedMore(kmsg, entry, notice, dying)
  BY DEF Init, TypedMore, MessageRecord, DyingRecord
<1>17. Locals(thread) /\ Stages(thread, kmsg) /\ Addressed(kmsg)
  <2>1. Stages(thread, kmsg)
    BY <1>13, <1>14 DEF Stages, Resting
  <2>2. \A m \in Msgs : kmsg[m].at = "new"
    BY <1>5
  <2> QED
    BY <1>13, <2>1, <2>2 DEF Locals, Addressed, Resting
<1>18. Queued(port, queue, thread, kmsg)
  BY <1>10, <1>12 DEF Queued
<1>19. Counts(port, queue, thread, kmsg)
  <2>1. ASSUME NEW p \in Ports PROVE CountOf(port[p], CountedIn(queue, thread, kmsg, p))
    <3>1. CountedIn(queue, thread, kmsg, p) = {}
      BY <1>10, <1>12, <1>14 DEF CountedIn
    <3>2. Cardinality({}) = 0 /\ Cardinality(Msgs) \in Nat
      BY FS_EmptySet, FS_CardinalityType, Names
    <3> QED
      BY <1>11, <3>1, <3>2 DEF CountOf
  <2> QED
    BY <2>1 DEF Counts
<1>20. SendLists(port, thread, kmsg, dying) /\ ReceiveLists(queue, thread)
  BY <1>10, <1>11, <1>12, <1>13 DEF SendLists, ReceiveLists, Resting
<1>21. PortsFit(port, queue, dying)
  <2>1. \A p \in Ports : dying[p].at = "no" /\ dying[p].poked = Nil /\ queue[p].blocked = e
    BY <1>8, <1>12 DEF Queues
  <2> QED
    BY <1>10, <1>11, <2>1 DEF PortsFit, PortFits
<1>22. SetsFit(port, set, queue)
  BY <1>2 DEF SetsFit, SetFits
<1>23. Locks(port, queue, thread, kmsg) /\ Sleeping(queue, thread)
  BY <1>10, <1>12, <1>13 DEF Locks, Sleeping, Resting
<1>24. Marks(thread, kmsg, entry) /\ Promises(port, thread, kmsg, entry, notice)
  <2>1. \A m \in Msgs : kmsg[m].at = "new" /\ ~kmsg[m].sender_entry /\ Nil # m
    BY <1>5, Names
  <2> QED
    BY <1>6, <1>7, <2>1 DEF Marks, Promises, Waited
<1>25. Patience(thread, kmsg, dying)
  <2>1. \A p \in Ports : dying[p].poked = Nil
    BY <1>8
  <2>2. \A t, u \in Threads : ~ GoesTo(thread, u, t)
    BY <1>13 DEF GoesTo
  <2>3. \A t \in Threads : Calm(thread[t], kmsg, t)
    BY <1>13 DEF Resting
  <2> QED
    BY <2>1, <2>2, <2>3 DEF Patience, Patient, Pokes
<1>26. AllJoined(port, queue)
  BY <1>11 DEF AllJoined, Joined
<1> QED
  BY <1>9, <1>15, <1>16, <1>17, <1>18, <1>19, <1>20, <1>21, <1>22, <1>23, <1>24, <1>25, <1>26
     DEF IInv, Inv, Base

\* The steps of a thread within msg_send, msg_receive and msg_rpc.
LEMMA ThreadStepKeeps ==
  ASSUME IInv, NEW t \in Threads, ThreadStep(t)
  PROVE  IInv'
<1>1. CASE SendFirst(t)
  BY <1>1, SendFirstKeeps
<1>2. CASE SendAwake(t)
  BY <1>2, SendAwakeKeeps
<1>3. CASE Deliver(t)
  BY <1>3, DeliverKeeps
<1>4. CASE WakesReceiver(t)
  BY <1>4, WakesReceiverKeeps
<1>5. CASE ReceivesReply(t)
  BY <1>5, ReplyKeeps
<1>6. CASE RecvAwake(t)
  BY <1>6, RecvAwakeKeeps
<1>7. CASE Account(t)
  BY <1>7, AccountKeeps
<1>8. CASE SendsNotice(t)
  BY <1>8, NoticeKeeps
<1> QED
  BY <1>1, <1>2, <1>3, <1>4, <1>5, <1>6, <1>7, <1>8 DEF ThreadStep

\* The steps of the destruction of a port or a set.
LEMMA DestroyStepKeeps ==
  ASSUME IInv, DestroyStep
  PROVE  IInv'
<1>1. CASE \E s \in Sets : SetDestroyNext(s)
  BY <1>1, DestroyNextKeeps
<1>2. CASE \E p \in Ports : Drain(p)
  BY <1>2, DrainKeeps
<1>3. CASE \E p \in Ports : Poke(p)
  BY <1>3, PokeKeeps
<1>4. CASE \E p \in Ports : PokeGo(p)
  BY <1>4, PokeGoKeeps
<1>5. CASE \E p \in Ports : DestroyRights(p)
  BY <1>5, DestroyRightsKeeps
<1> QED
  BY <1>1, <1>2, <1>3, <1>4, <1>5 DEF DestroyStep

\* What the task that owns a port does to it.
LEMMA PortStepKeeps ==
  ASSUME IInv, NEW p \in Ports,
         \/ port_set_remove(p)
         \/ RightLeaves(p)
         \/ RightArrives(p)
         \/ port_destroy(p)
         \/ DropSendRight(p)
  PROVE  IInv'
<1>1. CASE port_set_remove(p)
  BY <1>1, SetRemoveKeeps
<1>2. CASE RightLeaves(p)
  BY <1>2, LeavesKeeps
<1>3. CASE RightArrives(p)
  BY <1>3, ArrivesKeeps
<1>4. CASE port_destroy(p)
  BY <1>4, DestroyKeeps
<1>5. CASE DropSendRight(p)
  BY <1>5, DropSendRightKeeps
<1> QED
  BY <1>1, <1>2, <1>3, <1>4, <1>5

\* The steps of Next.
LEMMA NextKeeps ==
  ASSUME IInv, NobodyHurries, Next
  PROVE  IInv'
<1>1. CASE \E c \in MaySend : msg_send(c)
  BY <1>1, SendKeeps
<1>2. CASE \E c \in MayReceive : msg_receive(c)
  BY <1>2, ReceiveKeeps
<1>3. CASE \E c \in MayReply : KernelReplies(c[1], c[2], c[3])
  <2>1. PICK c \in MayReply : KernelReplies(c[1], c[2], c[3])
    BY <1>3
  <2>2. c[1] \in Threads /\ c[2] \in Msgs /\ c[3] \in Ports
    BY SendCalls
  <2> QED
    BY <2>1, <2>2, KernelRepliesKeeps
<1>4. CASE \E t \in Threads : ThreadStep(t)
  BY <1>4, ThreadStepKeeps
<1>5. CASE \E t \in Threads : Timeout(t)
  BY <1>5, TimeoutKeeps
<1>6. CASE \E t \in Threads : Interrupt(t)
  BY <1>6, InterruptKeeps
<1>7. CASE \E p \in Ports, s \in Sets : port_set_add(p, s)
  BY <1>7, SetAddKeeps
<1>8. CASE \E p \in Ports : port_set_remove(p) \/ RightLeaves(p) \/ RightArrives(p)
  BY <1>8, PortStepKeeps
<1>9. CASE \E c \in MayBacklog : port_set_backlog(c[1], c[2])
  <2>1. PICK c \in MayBacklog : port_set_backlog(c[1], c[2])
    BY <1>9
  <2>2. c[1] \in Ports
    BY BacklogsPositive
  <2> QED
    BY <2>1, <2>2, BacklogKeeps
<1>10. CASE \E s \in Sets : set_destroy(s)
  BY <1>10, SetDestroyKeeps
<1>11. CASE \E p \in Ports : port_destroy(p) \/ DropSendRight(p)
  BY <1>11, PortStepKeeps
<1>12. CASE DestroyStep
  BY <1>12, DestroyStepKeeps
<1> QED
  BY <1>1, <1>2, <1>3, <1>4, <1>5, <1>6, <1>7, <1>8, <1>9, <1>10, <1>11, <1>12 DEF Next

\* Whoever runs, and in whatever order: IInv is an invariant of the message
\* queues as long as those that port_destroy may wake are in no hurry.
THEOREM Invariance ==
  ASSUME NobodyHurries
  PROVE  Spec => []IInv
<1>1. Init => IInv
  BY StartsSo
<1>2. IInv /\ [Next]_vars => IInv'
  <2>1. CASE Next
    BY <2>1, NextKeeps
  <2>2. CASE UNCHANGED vars
    BY <2>2 DEF vars, IInv
  <2> QED
    BY <2>1, <2>2
<1> QED
  BY <1>1, <1>2, PTL DEF Spec

-----------------------------------------------------------------------------
(* What it says of the properties that the runs check.                     *)

\* The fields of ports, threads, messages and translations have their types,
\* and no count is negative or higher than the number of messages.
THEOREM TypeCorrect ==
  ASSUME NobodyHurries
  PROVE  Spec => []TypeOK
<1>1. ASSUME IInv PROVE TypeOK
  <2>1. Base(port, set, queue, thread, kmsg, entry, notice, dying) /\ failed = "no"
    BY <1>1, InvParts
  <2>2. ASSUME NEW p \in Ports PROVE port[p].count \in 0 .. Cardinality(Msgs)
    <3> DEFINE c == CountedIn(queue, thread, kmsg, p)
    <3>1. Cardinality(c) <= port[p].count /\ port[p].count <= Cardinality(Msgs)
      BY <2>1 DEF Base, Counts, CountOf
    <3>2. Cardinality(c) \in Nat /\ Cardinality(Msgs) \in Nat
      <4>1. IsFiniteSet(c) /\ IsFiniteSet(Msgs)
        BY Names, FS_Subset DEF CountedIn
      <4> QED
        BY <4>1, FS_CardinalityType
    <3>3. port[p].count \in Int
      BY <2>1 DEF Base, Typed, PortRecord
    <3> HIDE DEF c
    <3> QED
      BY <3>1, <3>2, <3>3
  <2>3. port \in [Ports -> [in_use: BOOLEAN, receiver: {"task", "transit", "dead"},
                           count: 0 .. Cardinality(Msgs), backlog: Backlogs,
                           set: Sets \cup {Nil}, blocked: Seq(Threads)]]
    BY <2>1, <2>2 DEF Base, Typed, PortRecord
  <2> QED
    BY <2>1, <2>3 DEF TypeOK, Base, Typed, TypedMore, Backlogs, SetRecord, QueueRecord,
          ThreadRecord, MessageRecord, DyingRecord
<1> QED
  BY <1>1, Invariance, PTL

\* No assertion of msg_dequeue, of set_add_member, set_remove_member and
\* set_destroy, and of port_destroy fails.
THEOREM NoAssertionFails ==
  ASSUME NobodyHurries
  PROVE  Spec => []AssertionsHold
<1>1. IInv => AssertionsHold
  BY DEF IInv, AssertionsHold
<1> QED
  BY <1>1, Invariance, PTL

\* A port's count, which mach_msg_enqueue, kern_msg_enqueue and msg_dequeue
\* change under the port's lock, is the number of its messages in queues or in
\* the hands of a thread, which they move under the queue's.
THEOREM CountIsExact ==
  ASSUME NobodyHurries
  PROVE  Spec => []CountExact
<1>1. ASSUME IInv PROVE CountExact
  <2>1. \A p \in Ports : port[p].in_use =>
            port[p].count = Cardinality(CountedIn(queue, thread, kmsg, p))
    BY <1>1, InvParts DEF Base, Counts, CountOf
  <2>2. \A p \in Ports : CountedIn(queue, thread, kmsg, p) = Counted(p)
    BY DEF CountedIn, Counted, Carries, Handed
  <2> QED
    BY <2>1, <2>2 DEF CountExact
<1> QED
  BY <1>1, Invariance, PTL

\* A thread is on the list of the port or queue that it waits at, once, until
\* somebody takes it off.
THEOREM ListsAreExact ==
  ASSUME NobodyHurries
  PROVE  Spec => []ListsExact
<1>1. ASSUME IInv PROVE ListsExact
  <2>1. SendLists(port, thread, kmsg, dying) /\ ReceiveLists(queue, thread)
    BY <1>1, InvParts DEF Base
  <2> QED
    BY <2>1 DEF ListsExact, SendLists, ReceiveLists, SleepsAt, ReceivesAt
<1> QED
  BY <1>1, Invariance, PTL

\* SEND_WILL_NOTIFY is kept, and a translation waits for the message that
\* points to it.
THEOREM NotifyIsExact ==
  ASSUME NobodyHurries
  PROVE  Spec => []NotifyExact
<1>1. ASSUME IInv PROVE NotifyExact
  <2>1. Marks(thread, kmsg, entry) /\ Promises(port, thread, kmsg, entry, notice)
    BY <1>1, InvParts DEF Base
  <2>2. \A m \in Msgs : Notified(m) <=> \E t \in Threads : Tells(thread[t], m)
    BY DEF Notified, Tells
  <2>3. \A m \in Msgs : notice[m] = "WILL_NOTIFY" =>
            \/ kmsg[m].sender_entry /\ entry[kmsg[m].to] = m
            \/ Notified(m)
            \/ entry[kmsg[m].to] \in {Gone, Deleted}
            \/ ~port[kmsg[m].to].in_use
    BY <2>1, <2>2 DEF Promises
  <2>4. \A m \in Msgs, p \in Ports : entry[p] = m <=>
            /\ kmsg[m].at = "live" /\ kmsg[m].sender_entry
            /\ kmsg[m].to = p
            /\ ~Notified(m)
    BY <2>1, <2>2 DEF Marks, Waited
  <2> QED
    BY <2>3, <2>4 DEF NotifyExact
<1> QED
  BY <1>1, Invariance, PTL

\* A receiver that is awake with RCV_SUCCESS has a message: what port_destroy
\* breaks for a sender who gave up and is waiting to receive when its wakeup
\* arrives, it does not break for senders who only wait.
THEOREM SuccessIsAMessage ==
  ASSUME NobodyHurries
  PROVE  Spec => []SuccessMeansMessage
<1>1. ASSUME IInv PROVE SuccessMeansMessage
  <2>1. ASSUME NEW t \in Threads, Handed(thread[t])
        PROVE  thread[t].msg # Nil /\ kmsg[thread[t].msg].at = "live"
    <3>1. thread[t].msg \in Msgs
      BY <1>1, <2>1, InvParts DEF Local
    <3>2. Carries(thread[t], thread[t].msg)
      BY <2>1 DEF Carries
    <3>3. Stages(thread, kmsg)
      BY <1>1, InvParts DEF Base
    <3> QED
      BY <3>1, <3>2, <3>3, Names DEF Stages
  <2> QED
    BY <2>1 DEF SuccessMeansMessage, Handed
<1> QED
  BY <1>1, Invariance, PTL

\* No sender sleeps at a port with room that nobody pokes, and no receiver at a
\* queue with a message or one that it may not receive from any more.  (With
\* MACH_IPC_WWA a received message lets only one sender go on: the others sleep
\* on while the port has room.)
THEOREM NobodySleepsBesideWork ==
  ASSUME NobodyHurries, ~WWA
  PROVE  Spec => []NoSleepBesideWork
<1>1. ASSUME IInv PROVE NoSleepBesideWork
  <2>1. /\ Base(port, set, queue, thread, kmsg, entry, notice, dying)
        /\ AllJoined(port, queue)
        /\ \A t \in Threads : Local(thread[t])
    BY <1>1, InvParts
  <2>2. ASSUME NEW t \in Threads, thread[t].at = "send_wait", thread[t].wait,
               NEW p, p = kmsg[thread[t].msg].to, dying[p].poked # t
        PROVE  /\ t \in ToSet(port[p].blocked)
               /\ ~port[p].in_use => dying[p].at \in {"drain", "poke"}
               /\ port[p].in_use => port[p].count > 0
    <3>1. thread[t].msg \in Msgs /\ thread[t].ipc_state = "SEND_IN_PROGRESS"
      BY <2>1, <2>2 DEF Local, Handed
    <3>2. p \in Ports
      BY <2>1, <2>2, <3>1 DEF Base, Stages, Sends, Addressed
    <3>3. SleepsAt(thread[t], kmsg, p)
      BY <2>2, <3>1 DEF SleepsAt
    <3>4. t \in ToSet(port[p].blocked)
      BY <2>1, <2>2, <3>2, <3>3 DEF Base, SendLists
    <3>5. port[p].blocked # <<>>
      BY <3>4 DEF ToSet
    <3>6. /\ PortFits(port[p], queue[p], dying[p], p)
          /\ dying[p].at \in {"no", "drain", "poke", "rights"}
      BY <2>1, <3>2 DEF Base, PortsFit, TypedMore, DyingRecord
    <3> QED
      BY <3>4, <3>5, <3>6 DEF PortFits
  <2>3. ASSUME NEW t \in Threads, thread[t].at = "recv_wait", thread[t].wait,
               thread[t].ipc_state # "SUCCESS", NEW q, q = thread[t].obj
        PROVE  /\ t \in ToSet(queue[q].blocked)
               /\ queue[q].messages = <<>>
               /\ q \in Ports => CanReceive(q)
               /\ q \in Sets => set[q].in_use \/ set[q].next # Nil
    <3>1. q \in Queues /\ thread[t].ipc_state = "RCV_IN_PROGRESS"
      BY <2>1, <2>3 DEF Local, Handed
    <3>2. ReceivesAt(thread[t], q)
      BY <2>3, <3>1 DEF ReceivesAt
    <3>3. t \in ToSet(queue[q].blocked)
      BY <2>1, <3>1, <3>2 DEF Base, ReceiveLists
    <3>4. queue[q].blocked # <<>>
      BY <3>3 DEF ToSet
    <3>5. queue[q].messages = <<>>
      BY <2>1, <3>1, <3>4 DEF Base, Sleeping
    <3>6. q \in Ports => CanReceive(q)
      BY <2>1, <3>4 DEF Base, PortsFit, PortFits, AllJoined, Joined, CanReceive
    <3>7. q \in Sets => set[q].in_use \/ set[q].next # Nil
      BY <2>1, <3>4 DEF Base, SetsFit, SetFits
    <3> QED
      BY <3>3, <3>5, <3>6, <3>7
  <2>4. ASSUME NEW t \in Threads, Handed(thread[t]), thread[t].wait
        PROVE  \E u \in Threads : thread[u].go = t
    BY <2>1, <2>4 DEF Base, Sleeping, GoesTo
  <2> QED
    BY <2>2, <2>3, <2>4 DEF NoSleepBesideWork, Handed
<1> QED
  BY <1>1, Invariance, PTL
=============================================================================
