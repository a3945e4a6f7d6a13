------------------------------ MODULE MsgQueue ------------------------------
(***************************************************************************)
(* Message queues (kern/ipc_basics.c, ipc_kset.c, and what ipc_port.c,     *)
(* ipc_copyin.c and ipc_kport.c do to them): sending with a backlog,       *)
(* receiving, msg_rpc, port sets, receive rights in transit, port death.   *)
(*                                                                         *)
(* A step is one section under the lock of a port.  A queue's lock may be  *)
(* held longer: a sender takes it with the port locked, unlocks the port   *)
(* and then looks for a receiver, so that lock is explicit.  What the code *)
(* does with neither lock (waking the receiver, and port_destroy's         *)
(* clearing of its queues) takes steps of its own.                         *)
(***************************************************************************)
EXTENDS Integers, FiniteSets, Sequences, SequencesExt

CONSTANTS
    Threads,        \* they send and receive
    Ports,
    Sets,           \* port sets, all of the task that receives from the ports
    Msgs,           \* each is sent once
    Nil,            \* no thread, port, set or message
    WWA,            \* MACH_IPC_WWA: a received message lets one sender go on
    MaySend,        \* the sends that threads make: SendCall
    MayReply,       \* <<t, m, p>>: t calls the kernel, whose reply is m, at p
    MayReceive,     \* the receives that threads make: ReceiveCall
    Big,            \* messages that small buffers do not hold
    Backlog,        \* PORT_BACKLOG_DEFAULT
    MayBacklog,     \* <<p, b>>: p may be given the backlog b
    MayInterrupt,   \* threads that are interrupted while they wait
    MayJoin,        \* <<p, s>>: p may be moved into s
    MayMove,        \* ports whose receive right may travel in a message
    MayDie,         \* ports that may be destroyed
    MayDrop,        \* ports whose send right the senders' task may give up
    MayEnd          \* sets that may be destroyed

Queues == Ports \cup Sets

Options == {"TIMEOUT", "NOTIFY", "ALWAYS"}
SendCall == [thread: Threads, msg: Msgs, port: Ports, option: SUBSET Options,
             reply: Ports \cup {Nil}]
ReceiveCall == [thread: Threads, from: Queues, large: BOOLEAN,
                timeout: {"none", "zero", "some"}]

ASSUME Names == /\ Nil \notin Threads \cup Ports \cup Sets \cup Msgs
                /\ Ports \cap Sets = {}
                /\ {"gone", "deleted"} \cap (Msgs \cup {Nil}) = {}
                /\ IsFiniteSet(Msgs)
ASSUME SendCalls == MaySend \subseteq SendCall /\ MayReply \subseteq Threads \X Msgs \X Ports
ASSUME ReceiveCalls == MayReceive \subseteq ReceiveCall
ASSUME BacklogsPositive ==
    Backlog \in Nat \ {0} /\ MayBacklog \subseteq Ports \X (Nat \ {0})

VARIABLES
    port,       \* struct kern_port: PortRecord
    set,        \* struct kern_set: SetRecord
    queue,      \* the msg_queue_t of each port and set
    thread,     \* the threads' IPC state, and the routine they are in
    kmsg,       \* the messages: destination, sender_entry, where they are
    entry,      \* the senders' translation of each port: its kmsg field, or
                \* Gone (given up), or Deleted (NOTIFY_PORT_DELETED was sent)
    notice,     \* what the sender of a message of SEND_NOTIFY was told
    dying,      \* where port_destroy is
    failed      \* an assertion or panic of the code was met

vars == <<port, set, queue, thread, kmsg, entry, notice, dying, failed>>

Gone == "gone"
Deleted == "deleted"

Idle == [at |-> "idle", msg |-> Nil, obj |-> Nil, option |-> {}, tout |-> FALSE,
         reply |-> Nil, large |-> FALSE, go |-> Nil,
         ipc_state |-> "none", wait |-> FALSE, timer |-> FALSE, result |-> "none"]

Init ==
    /\ port = [p \in Ports |->
            [in_use |-> TRUE, receiver |-> "task", count |-> 0,
             backlog |-> Backlog, set |-> Nil, blocked |-> <<>>]]
    /\ set = [s \in Sets |-> [in_use |-> TRUE, traversal |-> Nil, next |-> Nil]]
    /\ queue = [q \in Queues |-> [messages |-> <<>>, blocked |-> <<>>, lock |-> Nil]]
    /\ thread = [t \in Threads |-> Idle]
    /\ kmsg = [m \in Msgs |-> [at |-> "new", to |-> Nil, sender_entry |-> FALSE]]
    /\ entry = [p \in Ports |-> Nil]
    /\ notice = [m \in Msgs |-> "none"]
    /\ dying = [p \in Ports |-> [at |-> "no", poked |-> Nil]]
    /\ failed = "no"

Unlocked(q) == queue[q].lock = Nil

-----------------------------------------------------------------------------
(* Waiting and waking, on functions T of the threads' records.             *)

\* thread_go: it does not look at what the thread waits for.
thread_go(r) ==
    [r EXCEPT !.wait = FALSE, !.timer = FALSE,
              !.result = IF r.wait THEN "AWAKENED" ELSE @]

\* The first n of a queue, or all of it.
FirstOf(seq, n) == IF n < Len(seq) THEN SubSeq(seq, 1, n) ELSE seq

Awakened(r, state) == [thread_go(r) EXCEPT !.ipc_state = state]

WakeAll(T, blocked, state) ==
    [t \in Threads |-> IF t \in ToSet(blocked) THEN Awakened(T[t], state) ELSE T[t]]

\* thread_will_wait and thread_will_wait_with_timeout.
Waits(r, state, timed) ==
    [r EXCEPT !.ipc_state = state, !.wait = TRUE, !.timer = timed]

\* The callout of a timed wait, and a signal: clear_wait.
Timeout(t) ==
    /\ thread[t].timer
    /\ thread' = [thread EXCEPT ![t].wait = FALSE, ![t].timer = FALSE,
                                ![t].result = "TIMED_OUT"]
    /\ UNCHANGED <<port, set, queue, kmsg, entry, notice, dying, failed>>

Interrupt(t) ==
    /\ t \in MayInterrupt
    /\ thread[t].wait
    /\ thread' = [thread EXCEPT ![t].wait = FALSE, ![t].timer = FALSE,
                                ![t].result = "INTERRUPTED"]
    /\ UNCHANGED <<port, set, queue, kmsg, entry, notice, dying, failed>>

-----------------------------------------------------------------------------
(* A message meets the receivers that are blocked on a queue.              *)

Fits(m, r) == m \in Big => r.large

FirstFit(T, blocked, m) ==
    {i \in DOMAIN blocked : /\ Fits(m, T[blocked[i]])
                            /\ \A j \in 1 .. i - 1 : ~Fits(m, T[blocked[j]])}

\* The first receiver whose buffer holds the message gets it, those before it
\* are told of its size; without such a receiver the message is queued.  s has
\* the threads, the queue's blocked receivers and messages, and the taker.
Offer(s, m) ==
    IF FirstFit(s.T, s.blocked, m) = {}
    THEN [T |-> WakeAll(s.T, s.blocked, "RCV_TOO_LARGE"), blocked |-> <<>>,
          messages |-> Append(s.messages, m), taker |-> Nil]
    ELSE LET i == CHOOSE i \in FirstFit(s.T, s.blocked, m) : TRUE
             t == s.blocked[i]
         IN  [T |-> [WakeAll(s.T, SubSeq(s.blocked, 1, i - 1), "RCV_TOO_LARGE")
                        EXCEPT ![t].ipc_state = "SUCCESS", ![t].msg = m],
              blocked |-> SubSeq(s.blocked, i + 1, Len(s.blocked)),
              messages |-> s.messages, taker |-> t]

Offered(T, q) ==
    [T |-> T, blocked |-> queue[q].blocked, messages |-> queue[q].messages, taker |-> Nil]

-----------------------------------------------------------------------------
(* msg_send: msg_copyin, and msg_queue with the port locked.               *)

msg_send(c) ==
    LET t == c.thread
        m == c.msg
    IN  /\ c \in MaySend
        /\ thread[t].at = "idle"
        /\ kmsg[m].at = "new"
        /\ entry[c.port] \notin {Gone, Deleted}
        /\ thread' = [thread EXCEPT ![t].at = "send", ![t].msg = m,
                            ![t].option = c.option, ![t].reply = c.reply,
                            ![t].tout = "TIMEOUT" \in c.option]
        /\ kmsg' = [kmsg EXCEPT ![m].at = "sending", ![m].to = c.port]
        /\ UNCHANGED <<port, set, queue, entry, notice, dying, failed>>

Full(pr, r) == pr.count >= pr.backlog /\ "ALWAYS" \notin r.option

\* SEND_NOTIFY applies once the timeout, if any, is exhausted.
Notifies(r) == ~r.tout /\ "NOTIFY" \in r.option

\* pr and r are the port and the thread as msg_queue has them so far.
GiveUp(t, pr, r) ==
    /\ port' = [port EXCEPT ![kmsg[r.msg].to] = pr]
    /\ thread' = [thread EXCEPT ![t] = Idle]
    /\ kmsg' = [kmsg EXCEPT ![r.msg].at = "returned"]
    /\ UNCHANGED <<set, queue, entry, notice, dying, failed>>

Blocks(t, pr, r) ==
    /\ port' = [port EXCEPT ![kmsg[r.msg].to] = [pr EXCEPT !.blocked = Append(@, t)]]
    /\ thread' = [thread EXCEPT ![t] =
                    [Waits(r, "SEND_IN_PROGRESS", r.tout) EXCEPT !.at = "send_wait"]]
    /\ UNCHANGED <<set, queue, kmsg, entry, notice, dying, failed>>

\* Count the message, lock the queue it goes to, unlock the port.  A message
\* over the backlog leaves a mark, and msg_rpc does not wait for its reply.
Accepts(t, pr, r) ==
    LET m == r.msg
        q == IF pr.set # Nil THEN pr.set ELSE kmsg[m].to
    IN  /\ Unlocked(q)
        /\ queue' = [queue EXCEPT ![q].lock = t]
        /\ port' = [port EXCEPT ![kmsg[m].to] = [pr EXCEPT !.count = @ + 1]]
        /\ thread' = [thread EXCEPT ![t] = [r EXCEPT !.at = "deliver", !.obj = q,
                                    !.reply = IF Full(pr, r) THEN Nil ELSE @]]
        /\ IF Full(pr, r)
           THEN /\ kmsg' = [kmsg EXCEPT ![m].at = "live", ![m].sender_entry = TRUE]
                /\ entry' = [entry EXCEPT ![kmsg[m].to] = m]
                /\ notice' = [notice EXCEPT ![m] = "WILL_NOTIFY"]
           ELSE /\ kmsg' = [kmsg EXCEPT ![m].at = "live"]
                /\ UNCHANGED <<entry, notice>>
        /\ UNCHANGED <<set, dying, failed>>

\* One pass of the loop: a dead port, a port over its backlog, room.
TriesToQueue(t, pr, r) ==
    LET p == kmsg[r.msg].to
    IN  \/ /\ ~pr.in_use
           /\ GiveUp(t, pr, r)
        \/ /\ pr.in_use
           /\ Full(pr, r) => Notifies(r) /\ entry[p] = Nil
           /\ Accepts(t, pr, r)
        \/ /\ pr.in_use /\ Full(pr, r)
           /\ IF Notifies(r) THEN entry[p] # Nil ELSE ~r.tout /\ "TIMEOUT" \in r.option
           /\ GiveUp(t, pr, r)
        \/ /\ pr.in_use /\ Full(pr, r)
           /\ ~Notifies(r)
           /\ r.tout \/ "TIMEOUT" \notin r.option
           /\ Blocks(t, pr, r)

SendFirst(t) ==
    /\ thread[t].at = "send"
    /\ TriesToQueue(t, port[kmsg[thread[t].msg].to], thread[t])

\* (mutant) a sender whose time is over stays on the port's queue
BadSendAwake(t) ==
    LET r == thread[t]
        p == kmsg[r.msg].to
        off == [port[p] EXCEPT !.blocked = RemoveFirst(@, t)]
    IN  /\ r.at = "send_wait"
        /\ ~r.wait
        /\ \/ /\ r.ipc_state = "SUCCESS"
              /\ TriesToQueue(t, port[p], r)
           \/ /\ r.ipc_state = "SEND_IN_PROGRESS"
              /\ r.result = "INTERRUPTED"
              /\ GiveUp(t, off, r)
           \/ /\ r.ipc_state = "SEND_IN_PROGRESS"
              /\ r.result = "TIMED_OUT"
              /\ TriesToQueue(t, port[p], [r EXCEPT !.tout = FALSE])
           \/ /\ r.ipc_state = "SEND_IN_PROGRESS"
              /\ r.result = "AWAKENED"
              /\ TriesToQueue(t, off, r)

\* A sender that was not let go by somebody takes itself off the port's queue.
SendAwake(t) ==
    LET r == thread[t]
        p == kmsg[r.msg].to
        off == [port[p] EXCEPT !.blocked = RemoveFirst(@, t)]
    IN  /\ r.at = "send_wait"
        /\ ~r.wait
        /\ \/ /\ r.ipc_state = "SUCCESS"
              /\ TriesToQueue(t, port[p], r)
           \/ /\ r.ipc_state = "SEND_IN_PROGRESS"
              /\ r.result = "INTERRUPTED"
              /\ GiveUp(t, off, r)
           \/ /\ r.ipc_state = "SEND_IN_PROGRESS"
              /\ r.result # "INTERRUPTED"
              /\ TriesToQueue(t, off, [r EXCEPT !.tout = @ /\ r.result # "TIMED_OUT"])

-----------------------------------------------------------------------------
(* The rest of msg_queue, with the queue locked and the port unlocked.     *)

\* msg_rpc goes on with its receive.
AfterSend(r) ==
    IF r.reply = Nil THEN Idle
    ELSE [Idle EXCEPT !.at = "reply", !.obj = r.reply]

Deliver(t) ==
    LET r == thread[t]
        s == Offer(Offered(thread, r.obj), r.msg)
    IN  /\ r.at = "deliver"
        /\ queue' = [queue EXCEPT ![r.obj] =
                        [messages |-> s.messages, blocked |-> s.blocked, lock |-> Nil]]
        /\ thread' = [s.T EXCEPT ![t] = IF s.taker = Nil THEN AfterSend(r)
                                        ELSE [r EXCEPT !.at = "go", !.go = s.taker]]
        /\ UNCHANGED <<port, set, kmsg, entry, notice, dying, failed>>

\* The receiver is woken after the queue was unlocked: it may be gone by then.
WakesReceiver(t) ==
    LET r == thread[t]
    IN  /\ r.at = "go"
        /\ thread' = [thread EXCEPT ![r.go] = thread_go(@), ![t] = AfterSend(r)]
        /\ UNCHANGED <<port, set, queue, kmsg, entry, notice, dying, failed>>

-----------------------------------------------------------------------------
(* msg_receive: the port or set is checked, its queue locked, and then     *)
(* msg_dequeue.                                                            *)

CanReceive(q) ==
    IF q \in Ports THEN port[q].receiver = "task" /\ port[q].set = Nil
                   ELSE set[q].in_use

\* One pass of msg_dequeue's loop; qr and r are the queue and the thread so far.
TriesToDequeue(t, q, qr, r) ==
    LET m == Head(qr.messages)
        polls == "TIMEOUT" \in r.option /\ ~r.tout
    IN  /\ \/ /\ qr.messages # <<>> /\ Fits(m, r)
              /\ queue' = [queue EXCEPT ![q] = [qr EXCEPT !.messages = Tail(@)]]
              /\ thread' = [thread EXCEPT ![t] = [r EXCEPT !.at = "account", !.msg = m]]
           \/ /\ IF qr.messages # <<>> THEN ~Fits(m, r) ELSE polls
              /\ queue' = [queue EXCEPT ![q] = qr]
              /\ thread' = [thread EXCEPT ![t] = Idle]
           \/ /\ qr.messages = <<>> /\ ~polls
              /\ queue' = [queue EXCEPT ![q] = [qr EXCEPT !.blocked = Append(@, t)]]
              /\ thread' = [thread EXCEPT ![t] =
                    [Waits(r, "RCV_IN_PROGRESS", r.tout) EXCEPT !.at = "recv_wait"]]
        /\ UNCHANGED <<port, set, kmsg, entry, notice, dying, failed>>

msg_receive(c) ==
    LET r == [Idle EXCEPT !.obj = c.from, !.large = c.large,
                          !.option = IF c.timeout = "none" THEN {} ELSE {"TIMEOUT"},
                          !.tout = c.timeout = "some"]
    IN  /\ c \in MayReceive
        /\ thread[c.thread].at = "idle"
        /\ CanReceive(c.from)
        /\ Unlocked(c.from)
        /\ TriesToDequeue(c.thread, c.from, queue[c.from], r)

\* The second half of msg_rpc looks at the reply port anew.
ReceivesReply(t) ==
    LET r == thread[t]
    IN  /\ r.at = "reply"
        /\ \/ /\ CanReceive(r.obj)
              /\ Unlocked(r.obj)
              /\ TriesToDequeue(t, r.obj, queue[r.obj], r)
           \/ /\ ~CanReceive(r.obj)
              /\ thread' = [thread EXCEPT ![t] = Idle]
              /\ UNCHANGED <<port, set, queue, kmsg, entry, notice, dying, failed>>

\* (mutant) the reason of the wakeup is looked at first
BadRecvAwake(t) ==
    LET r == thread[t]
        q == r.obj
        off == [queue[q] EXCEPT !.blocked = RemoveFirst(@, t)]
    IN  /\ r.at = "recv_wait"
        /\ ~r.wait
        /\ Unlocked(q)
        /\ \/ /\ r.result \in {"INTERRUPTED", "TIMED_OUT"}
              /\ thread' = [thread EXCEPT ![t] = Idle]
              /\ queue' = [queue EXCEPT ![q] = off]
              /\ UNCHANGED <<port, set, kmsg, entry, notice, dying, failed>>
           \/ /\ r.result \notin {"INTERRUPTED", "TIMED_OUT"}
              /\ r.ipc_state = "SUCCESS"
              /\ thread' = [thread EXCEPT ![t].at = "account"]
              /\ UNCHANGED <<port, set, queue, kmsg, entry, notice, dying, failed>>
           \/ /\ r.result \notin {"INTERRUPTED", "TIMED_OUT"}
              /\ r.ipc_state \in {"RCV_TOO_LARGE", "RCV_PORT_CHANGE", "RCV_INVALID_PORT"}
              /\ thread' = [thread EXCEPT ![t] = Idle]
              /\ UNCHANGED <<port, set, queue, kmsg, entry, notice, dying, failed>>
           \/ /\ r.result \notin {"INTERRUPTED", "TIMED_OUT"}
              /\ r.ipc_state = "RCV_IN_PROGRESS"
              /\ TriesToDequeue(t, q, off, r)

\* The IPC state is looked at before the reason of the wakeup: a message that
\* was handed over is taken also by a thread that timed out meanwhile.
RecvAwake(t) ==
    LET r == thread[t]
        q == r.obj
        off == [queue[q] EXCEPT !.blocked = RemoveFirst(@, t)]
    IN  /\ r.at = "recv_wait"
        /\ ~r.wait
        /\ Unlocked(q)
        /\ \/ /\ r.ipc_state = "SUCCESS"
              /\ thread' = [thread EXCEPT ![t].at = "account"]
              /\ UNCHANGED <<port, set, queue, kmsg, entry, notice, dying, failed>>
           \/ /\ r.ipc_state \in {"RCV_TOO_LARGE", "RCV_PORT_CHANGE", "RCV_INVALID_PORT"}
              /\ thread' = [thread EXCEPT ![t] = Idle]
              /\ UNCHANGED <<port, set, queue, kmsg, entry, notice, dying, failed>>
           \/ /\ r.ipc_state = "RCV_IN_PROGRESS"
              /\ r.result \in {"INTERRUPTED", "TIMED_OUT"}
              /\ thread' = [thread EXCEPT ![t] = Idle]
              /\ queue' = [queue EXCEPT ![q] = off]
              /\ UNCHANGED <<port, set, kmsg, entry, notice, dying, failed>>
           \/ /\ r.ipc_state = "RCV_IN_PROGRESS"
              /\ r.result \notin {"INTERRUPTED", "TIMED_OUT"}
              /\ TriesToDequeue(t, q, off, r)

-----------------------------------------------------------------------------
(* msg_dequeue's bookkeeping, with the port of the message locked.         *)

Asserts(condition, name) == failed' = IF condition THEN failed ELSE name

\* The senders that a received message lets go on.
LetGo(pr) ==
    IF WWA THEN FirstOf(pr.blocked, 1)
    ELSE IF pr.count = 0 THEN pr.blocked ELSE <<>>

Account(t) ==
    LET r == thread[t]
        m == r.msg
        p == kmsg[m].to
        pr == [port[p] EXCEPT !.count = @ - 1]
        T == WakeAll(thread, LetGo(pr), "SUCCESS")
    IN  /\ r.at = "account"
        /\ port' = [port EXCEPT ![p] =
                [pr EXCEPT !.blocked = SubSeq(@, Len(LetGo(pr)) + 1, Len(@))]]
        /\ IF kmsg[m].sender_entry
           THEN /\ entry' = [entry EXCEPT ![p] = Nil]
                /\ thread' = [T EXCEPT ![t] = [r EXCEPT !.at = "notify"]]
                /\ UNCHANGED kmsg
           ELSE /\ thread' = [T EXCEPT ![t] = Idle]
                /\ kmsg' = [kmsg EXCEPT ![m].at = "received"]
                /\ UNCHANGED entry
        /\ Asserts(pr.count >= 0 /\ (kmsg[m].sender_entry => entry[p] = m), "msg_dequeue")
        /\ UNCHANGED <<set, queue, notice, dying>>

\* NOTIFY_MSG_ACCEPTED is sent with no locks held.
SendsNotice(t) ==
    LET m == thread[t].msg
    IN  /\ thread[t].at = "notify"
        /\ notice' = [notice EXCEPT ![m] = "MSG_ACCEPTED"]
        /\ kmsg' = [kmsg EXCEPT ![m].at = "received"]
        /\ thread' = [thread EXCEPT ![t] = Idle]
        /\ UNCHANGED <<port, set, queue, entry, dying, failed>>

\* msg_rpc to the kernel: the reply goes to its caller at once if nothing is
\* queued before it, else through the port with SEND_ALWAYS.
KernelReplies(t, m, p) ==
    /\ <<t, m, p>> \in MayReply
    /\ thread[t].at = "idle"
    /\ kmsg[m].at = "new"
    /\ \/ /\ CanReceive(p)
          /\ port[p].count = 0
          /\ m \notin Big
          /\ kmsg' = [kmsg EXCEPT ![m].at = "received", ![m].to = p]
          /\ UNCHANGED thread
       \/ /\ ~CanReceive(p) \/ port[p].count # 0 \/ m \in Big
          /\ kmsg' = [kmsg EXCEPT ![m].at = "sending", ![m].to = p]
          /\ thread' = [thread EXCEPT ![t].at = "send", ![t].msg = m,
                            ![t].option = {"ALWAYS"}, ![t].reply = p]
    /\ UNCHANGED <<port, set, queue, entry, notice, dying, failed>>

-----------------------------------------------------------------------------
(* Sets and rights.  Each operation is one step with the port and the sets *)
(* locked, so it is a function on the state k it works on.                 *)

State == [port |-> port, set |-> set, queue |-> queue, thread |-> thread, failed |-> failed]

Becomes(k) ==
    /\ port' = k.port
    /\ set' = k.set
    /\ queue' = k.queue
    /\ thread' = k.thread
    /\ failed' = k.failed

Checked(k, condition, name) == IF condition THEN k ELSE [k EXCEPT !.failed = name]

msg_queue_changed(k, q, state) ==
    [k EXCEPT !.thread = WakeAll(k.thread, k.queue[q].blocked, state),
              !.queue[q].blocked = <<>>]

OfferAndWake(s, m) ==
    LET o == Offer(s, m)
    IN  IF o.taker = Nil THEN o ELSE [o EXCEPT !.T[o.taker] = thread_go(@)]

\* The port's messages are sent again, to the set: sent[n] is what has become
\* of the set's queue and the threads after n of them.
SentAgain(k, s, p) ==
    LET messages == k.queue[p].messages
        sent[n \in 0 .. Len(messages)] ==
            IF n = 0
            THEN [T |-> k.thread, blocked |-> k.queue[s].blocked,
                  messages |-> k.queue[s].messages, taker |-> Nil]
            ELSE OfferAndWake(sent[n - 1], messages[n])
    IN  sent[Len(messages)]

\* (mutant) the receivers of the port are not told that it joined a set
BadSetAdd(k, s, p) ==
    LET r == SentAgain(k, s, p)
    IN  Checked([k EXCEPT !.port[p].set = s, !.thread = r.T,
                          !.queue[s].messages = r.messages, !.queue[s].blocked = r.blocked,
                          !.queue[p].messages = <<>>],
                k.port[p].set = Nil, "set_add_member")

set_add_member(k, s, p) ==
    LET r == SentAgain(k, s, p)
        moved == [k EXCEPT !.port[p].set = s, !.thread = r.T,
                           !.queue[s].messages = r.messages, !.queue[s].blocked = r.blocked,
                           !.queue[p].messages = <<>>]
    IN  msg_queue_changed(Checked(moved, k.port[p].set = Nil, "set_add_member"),
                          p, "RCV_PORT_CHANGE")

\* The messages of a queue that are among ms, in their order.
Among(seq, ms) ==
    LET found[n \in 0 .. Len(seq)] ==
            IF n = 0 THEN <<>>
            ELSE IF seq[n] \in ms THEN Append(found[n - 1], seq[n])
            ELSE found[n - 1]
    IN  found[Len(seq)]

MessagesTo(p) == {m \in Msgs : kmsg[m].to = p}

\* (mutant) set_destroy is not told that the port left
BadSetRemove(k, s, p) ==
    LET mine == MessagesTo(p)
    IN  Checked([k EXCEPT !.port[p].set = Nil,
                          !.queue[p].messages = @ \o Among(k.queue[s].messages, mine),
                          !.queue[s].messages = Among(@, Msgs \ mine)],
                k.port[p].set = s /\ k.queue[p].blocked = <<>>, "set_remove_member")

\* (mutant) the messages are put back at the head of the port's queue
ReversesMessages(k, s, p) ==
    LET mine == MessagesTo(p)
    IN  Checked([k EXCEPT !.port[p].set = Nil,
                          !.set[s].traversal = IF @ = p THEN Nil ELSE @,
                          !.queue[p].messages =
                                Reverse(Among(k.queue[s].messages, mine)) \o @,
                          !.queue[s].messages = Among(@, Msgs \ mine)],
                k.port[p].set = s /\ k.queue[p].blocked = <<>>, "set_remove_member")

\* A set that is being destroyed is told that this port left.
set_remove_member(k, s, p) ==
    LET mine == MessagesTo(p)
    IN  Checked([k EXCEPT !.port[p].set = Nil,
                          !.set[s].traversal = IF @ = p THEN Nil ELSE @,
                          !.queue[p].messages = @ \o Among(k.queue[s].messages, mine),
                          !.queue[s].messages = Among(@, Msgs \ mine)],
                k.port[p].set = s /\ k.queue[p].blocked = <<>>, "set_remove_member")

LeavesSet(k, p) == IF k.port[p].set = Nil THEN k ELSE set_remove_member(k, k.port[p].set, p)

\* The queues of the port and of the set that it is in.
PortUnlocked(p) == Unlocked(p) /\ (port[p].set # Nil => Unlocked(port[p].set))

port_set_add(p, s) ==
    /\ <<p, s>> \in MayJoin
    /\ port[p].receiver = "task"
    /\ set[s].in_use
    /\ port[p].set # s
    /\ PortUnlocked(p) /\ Unlocked(s)
    /\ Becomes(set_add_member(LeavesSet(State, p), s, p))
    /\ UNCHANGED <<kmsg, entry, notice, dying>>

\* A port in a set that is being destroyed is not in a set any more.
port_set_remove(p) ==
    /\ port[p].receiver = "task"
    /\ port[p].set # Nil
    /\ set[port[p].set].in_use
    /\ PortUnlocked(p)
    /\ Becomes(LeavesSet(State, p))
    /\ UNCHANGED <<kmsg, entry, notice, dying>>

\* The members of s are removed one by one, each with its port locked first:
\* next is the port for which the set was unlocked.
GoesOn(k, s, p) ==
    IF p = Nil
    THEN msg_queue_changed([k EXCEPT !.set[s].next = Nil], s, "RCV_INVALID_PORT")
    ELSE [k EXCEPT !.set[s].traversal = p, !.set[s].next = p]

Firsts(k, s) ==
    LET members == {p \in Ports : k.port[p].set = s}
    IN  IF members = {} THEN {Nil} ELSE members

set_destroy(s) ==
    LET k == [State EXCEPT !.set[s].in_use = FALSE]
    IN  /\ s \in MayEnd
        /\ set[s].in_use
        /\ Unlocked(s)
        /\ \E p \in Firsts(k, s) : Becomes(GoesOn(k, s, p))
        /\ UNCHANGED <<kmsg, entry, notice, dying>>

SetDestroyNext(s) ==
    LET p == set[s].next
        k == IF set[s].traversal = Nil
             THEN Checked(State, port[p].set # s, "set_destroy")
             ELSE set_remove_member([State EXCEPT !.set[s].traversal = Nil], s, p)
    IN  /\ p # Nil
        /\ Unlocked(p) /\ Unlocked(s)
        /\ \E n \in Firsts(k, s) : Becomes(GoesOn(k, s, n))
        /\ UNCHANGED <<kmsg, entry, notice, dying>>

\* As many senders go on as the backlog grows by.
port_set_backlog(p, backlog) ==
    LET room == FirstOf(port[p].blocked, backlog - port[p].backlog)
    IN  /\ port[p].receiver = "task"
        /\ <<p, backlog>> \in MayBacklog
        /\ backlog # port[p].backlog
        /\ thread' = WakeAll(thread, room, "SUCCESS")
        /\ port' = [port EXCEPT ![p].backlog = backlog,
                                ![p].blocked = SubSeq(@, Len(room) + 1, Len(@))]
        /\ UNCHANGED <<set, queue, kmsg, entry, notice, dying, failed>>

port_clear_receiver(k, p, receiver) ==
    LET k1 == IF k.port[p].set # Nil THEN set_remove_member(k, k.port[p].set, p)
              ELSE msg_queue_changed(k, p, "RCV_INVALID_PORT")
    IN  [k1 EXCEPT !.port[p].receiver = receiver]

\* The receive right leaves in a message (port_copyin_receive) ...
RightLeaves(p) ==
    /\ p \in MayMove
    /\ port[p].receiver = "task"
    /\ PortUnlocked(p)
    /\ Becomes(port_clear_receiver(State, p, "transit"))
    /\ UNCHANGED <<kmsg, entry, notice, dying>>

\* ... and arrives (port_copyout_receive).
RightArrives(p) ==
    /\ port[p].receiver = "transit"
    /\ port' = [port EXCEPT ![p].receiver = "task"]
    /\ UNCHANGED <<set, queue, thread, kmsg, entry, notice, dying, failed>>

-----------------------------------------------------------------------------
(* port_destroy, and the translations of the senders.                      *)

\* The task with the receive right gives it up, or the message with the right
\* is destroyed.
port_destroy(p) ==
    LET k == IF port[p].receiver = "task" THEN port_clear_receiver(State, p, "dead")
             ELSE [State EXCEPT !.port[p].receiver = "dead"]
    IN  /\ p \in MayDie
        /\ port[p].in_use
        /\ port[p].receiver = "task" => PortUnlocked(p)
        /\ Becomes([k EXCEPT !.port[p].in_use = FALSE])
        /\ dying' = [dying EXCEPT ![p].at = "drain"]
        /\ UNCHANGED <<kmsg, entry, notice>>

\* The queue is emptied without its lock.
Drain(p) ==
    LET m == Head(queue[p].messages)
    IN  /\ dying[p].at = "drain"
        /\ IF queue[p].messages = <<>>
           THEN /\ dying' = [dying EXCEPT ![p].at = "poke"]
                /\ UNCHANGED <<queue, kmsg, entry, failed>>
           ELSE /\ queue' = [queue EXCEPT ![p].messages = Tail(@)]
                /\ kmsg' = [kmsg EXCEPT ![m].at = "destroyed", ![m].sender_entry = FALSE]
                /\ entry' = [entry EXCEPT ![p] = IF kmsg[m].sender_entry THEN Nil ELSE @]
                /\ Asserts(kmsg[m].sender_entry => entry[p] = m, "port_destroy")
                /\ UNCHANGED dying
        /\ UNCHANGED <<port, set, thread, notice>>

\* (mutant) one sleeping sender is poked, as after a receive
BadPoke(p) ==
    LET b == port[p].blocked
    IN  /\ dying[p] = [at |-> "poke", poked |-> Nil]
        /\ dying' = [dying EXCEPT ![p] = IF b = <<>> THEN [@ EXCEPT !.at = "rights"]
                                         ELSE [at |-> "rights", poked |-> Head(b)]]
        /\ port' = [port EXCEPT ![p].blocked = IF b = <<>> THEN <<>> ELSE Tail(b)]
        /\ UNCHANGED <<set, queue, thread, kmsg, entry, notice, failed>>

\* The sleeping senders are taken off the port's queue without its lock ...
Poke(p) ==
    LET b == port[p].blocked
    IN  /\ dying[p] = [at |-> "poke", poked |-> Nil]
        /\ dying' = [dying EXCEPT ![p] = IF b = <<>> THEN [@ EXCEPT !.at = "rights"]
                                         ELSE [@ EXCEPT !.poked = Head(b)]]
        /\ port' = [port EXCEPT ![p].blocked = IF b = <<>> THEN <<>> ELSE Tail(b)]
        /\ UNCHANGED <<set, queue, thread, kmsg, entry, notice, failed>>

\* ... and then woken.
PokeGo(p) ==
    /\ dying[p].poked # Nil
    /\ thread' = [thread EXCEPT ![dying[p].poked] = Awakened(@, "SUCCESS")]
    /\ dying' = [dying EXCEPT ![p].poked = Nil]
    /\ UNCHANGED <<port, set, queue, kmsg, entry, notice, failed>>

\* (mutant) the message still points to the entry
BadEntryRemoved(p, value) ==
    /\ entry[p] \notin {Gone, Deleted}
    /\ entry' = [entry EXCEPT ![p] = value]
    /\ UNCHANGED kmsg

\* obj_entry_remove: the message that the entry waits for forgets it.
EntryRemoved(p, value) ==
    /\ entry[p] \notin {Gone, Deleted}
    /\ entry' = [entry EXCEPT ![p] = value]
    /\ kmsg' = [m \in Msgs |-> [kmsg[m] EXCEPT !.sender_entry = @ /\ entry[p] # m]]

DestroyRights(p) ==
    /\ dying[p].at = "rights"
    /\ EntryRemoved(p, Deleted)
    /\ UNCHANGED <<port, set, queue, thread, notice, dying, failed>>

\* The senders' task deallocates its send right.
DropSendRight(p) ==
    /\ p \in MayDrop
    /\ port[p].in_use
    /\ EntryRemoved(p, Gone)
    /\ UNCHANGED <<port, set, queue, thread, notice, dying, failed>>

-----------------------------------------------------------------------------
(* The steps of a thread inside msg_send, msg_receive and msg_rpc.         *)

ThreadStep(t) ==
    \/ SendFirst(t)
    \/ SendAwake(t)
    \/ Deliver(t)
    \/ WakesReceiver(t)
    \/ ReceivesReply(t)
    \/ RecvAwake(t)
    \/ Account(t)
    \/ SendsNotice(t)

DestroyStep ==
    \/ \E s \in Sets : SetDestroyNext(s)
    \/ \E p \in Ports : Drain(p) \/ Poke(p) \/ PokeGo(p) \/ DestroyRights(p)

Next ==
    \/ \E c \in MaySend : msg_send(c)
    \/ \E c \in MayReceive : msg_receive(c)
    \/ \E c \in MayReply : KernelReplies(c[1], c[2], c[3])
    \/ \E t \in Threads : ThreadStep(t) \/ Timeout(t) \/ Interrupt(t)
    \/ \E p \in Ports, s \in Sets : port_set_add(p, s)
    \/ \E p \in Ports : port_set_remove(p) \/ RightLeaves(p) \/ RightArrives(p)
    \/ \E c \in MayBacklog : port_set_backlog(c[1], c[2])
    \/ \E s \in Sets : set_destroy(s)
    \/ \E p \in Ports : port_destroy(p) \/ DropSendRight(p)
    \/ DestroyStep

Spec == Init /\ [][Next]_vars

-----------------------------------------------------------------------------
(* Properties.                                                             *)

TypeOK ==
    /\ port \in [Ports -> [in_use: BOOLEAN, receiver: {"task", "transit", "dead"},
                           count: 0 .. Cardinality(Msgs), backlog: {Backlog} \cup {c[2] : c \in MayBacklog},
                           set: Sets \cup {Nil}, blocked: Seq(Threads)]]
    /\ set \in [Sets -> [in_use: BOOLEAN, traversal: Ports \cup {Nil}, next: Ports \cup {Nil}]]
    /\ queue \in [Queues -> [messages: Seq(Msgs), blocked: Seq(Threads),
                             lock: Threads \cup {Nil}]]
    /\ thread \in [Threads ->
            [at: {"idle", "send", "send_wait", "deliver", "go", "reply", "recv_wait",
                  "account", "notify"},
             msg: Msgs \cup {Nil}, obj: Queues \cup {Nil}, option: SUBSET Options,
             tout: BOOLEAN, reply: Ports \cup {Nil}, large: BOOLEAN,
             go: Threads \cup {Nil}, wait: BOOLEAN, timer: BOOLEAN,
             ipc_state: {"none", "SEND_IN_PROGRESS", "RCV_IN_PROGRESS", "SUCCESS",
                         "RCV_TOO_LARGE", "RCV_PORT_CHANGE", "RCV_INVALID_PORT"},
             result: {"none", "AWAKENED", "TIMED_OUT", "INTERRUPTED"}]]
    /\ kmsg \in [Msgs -> [at: {"new", "sending", "live", "received", "returned", "destroyed"},
                          to: Ports \cup {Nil}, sender_entry: BOOLEAN]]
    /\ entry \in [Ports -> Msgs \cup {Nil, Gone, Deleted}]
    /\ notice \in [Msgs -> {"none", "WILL_NOTIFY", "MSG_ACCEPTED"}]
    /\ dying \in [Ports -> [at: {"no", "drain", "poke", "rights"}, poked: Threads \cup {Nil}]]
    /\ failed \in {"no", "msg_dequeue", "port_destroy", "set_add_member",
                   "set_remove_member", "set_destroy"}

\* No assertion of the code fails: the count of a port never goes below zero,
\* a translation waits for the message that points to it, a port that joins a
\* set is in none, one that leaves a set is in it and has no receivers of its
\* own, and set_destroy's port has left if set_remove_member says so.
AssertionsHold == failed = "no"

\* The messages of port p that its count stands for: queued (at the port or its
\* set), on the way to the queue, handed to a receiver, or not yet accounted for.
Counted(p) ==
    {m \in Msgs : kmsg[m].to = p /\
        \/ \E q \in Queues : m \in ToSet(queue[q].messages)
        \/ \E t \in Threads :
                /\ thread[t].msg = m
                /\ \/ thread[t].at \in {"deliver", "account"}
                   \/ thread[t].at = "recv_wait" /\ thread[t].ipc_state = "SUCCESS"}

\* The count and the queues are changed under different locks, the queue's
\* first: "it is possible for the count to be larger than calculated by
\* traversing the queue", but never by anything but the messages on the way.
CountExact ==
    \A p \in Ports : port[p].in_use => port[p].count = Cardinality(Counted(p))

\* No thread sleeps beside what it waits for.  A sleeping sender is on the list
\* of a port that is full or poked; a sleeping receiver is on the list of a
\* queue that it may still receive from and that is empty, unless a sender
\* brings it a message.
NoSleepBesideWork ==
    \A t \in Threads :
        LET r == thread[t]
        IN  /\ r.at = "send_wait" /\ r.wait =>
                LET p == kmsg[r.msg].to
                IN  \/ /\ t \in ToSet(port[p].blocked)
                       /\ ~port[p].in_use => dying[p].at \in {"drain", "poke"}
                       /\ port[p].in_use => port[p].count > 0
                    \/ dying[p].poked = t
            /\ r.at = "recv_wait" /\ r.wait =>
                \/ /\ t \in ToSet(queue[r.obj].blocked)
                   /\ queue[r.obj].messages = <<>>
                   /\ r.obj \in Ports => CanReceive(r.obj)
                   /\ r.obj \in Sets => set[r.obj].in_use \/ set[r.obj].next # Nil
                \/ r.ipc_state = "SUCCESS" /\ \E u \in Threads : thread[u].go = t

\* A thread is on exactly the list of the port or queue that it waits at, once,
\* until somebody takes it off: the rule that lets it take itself off when a
\* timer, a signal or a stray wakeup ended its sleep.
ListsExact ==
    /\ \A p \in Ports :
        /\ IsInjective(port[p].blocked)
        /\ \A t \in Threads : t \in ToSet(port[p].blocked) <=>
                /\ thread[t].at = "send_wait"
                /\ kmsg[thread[t].msg].to = p
                /\ thread[t].ipc_state = "SEND_IN_PROGRESS"
                /\ dying[p].poked # t
    /\ \A q \in Queues :
        /\ IsInjective(queue[q].blocked)
        /\ \A t \in Threads : t \in ToSet(queue[q].blocked) <=>
                /\ thread[t].at = "recv_wait"
                /\ thread[t].obj = q
                /\ thread[t].ipc_state = "RCV_IN_PROGRESS"

\* SEND_WILL_NOTIFY is kept: while the sender's translation and the port last,
\* the message is on its way with the mark of one translation, or the thread
\* that received it is about to send NOTIFY_MSG_ACCEPTED; a translation waits
\* for one message at a time.
Notified(m) == \E t \in Threads : thread[t].at = "notify" /\ thread[t].msg = m

NotifyExact ==
    /\ \A m \in Msgs : notice[m] = "WILL_NOTIFY" =>
        \/ kmsg[m].sender_entry /\ entry[kmsg[m].to] = m
        \/ Notified(m)
        \/ entry[kmsg[m].to] \in {Gone, Deleted}
        \/ ~port[kmsg[m].to].in_use
    /\ \A m \in Msgs, p \in Ports : entry[p] = m <=>
        /\ kmsg[m].at = "live" /\ kmsg[m].sender_entry
        /\ kmsg[m].to = p
        /\ ~Notified(m)

\* "The IPC state of a thread is only manipulated by that thread itself when
\* awake, and only by the thread which will wake it up otherwise.  It is locked
\* by the lock on the object upon which the thread is waiting": a receiver that
\* waits finds RCV_SUCCESS only together with a message on its way.
SuccessMeansMessage ==
    \A t \in Threads :
        thread[t].at = "recv_wait" /\ thread[t].ipc_state = "SUCCESS"
            => thread[t].msg # Nil /\ kmsg[thread[t].msg].at = "live"

\* "Destroys all queued messages": a port that has been destroyed keeps none.
DeadPortEmpty ==
    \A p \in Ports : dying[p].at \in {"poke", "rights"} => queue[p].messages = <<>>

-----------------------------------------------------------------------------
(* A port is a channel.                                                    *)

\* p's messages in its queue or its set's, and the one that is being added.
chan ==
    [p \in Ports |->
        LET q == IF port[p].set # Nil THEN port[p].set ELSE p
            added == {m \in MessagesTo(p) :
                        \E t \in Threads : thread[t].at = "deliver" /\ thread[t].msg = m}
            queued == Among(queue[q].messages, MessagesTo(p))
        IN  IF added = {} THEN queued ELSE Append(queued, CHOOSE m \in added : TRUE)]

received ==
    {m \in Msgs : \/ kmsg[m].at = "received"
                  \/ \E t \in Threads :
                        /\ thread[t].msg = m
                        /\ \/ thread[t].at \in {"account", "notify"}
                           \/ thread[t].at = "recv_wait" /\ thread[t].ipc_state = "SUCCESS"}

InOrder == INSTANCE Channel WITH
    chan <- chan,
    alive <- {p \in Ports : port[p].in_use},
    received <- received,
    dropped <- {m \in Msgs : kmsg[m].at = "destroyed"}

\* The messages of a port are received once each and in the order in which they
\* were accepted, through sets that the port joins and leaves, replies that do
\* not use the queue, receive rights that move, and receivers that time out.
ImplementsChannel == InOrder!Spec

-----------------------------------------------------------------------------
(* Progress.                                                               *)

\* The threads run, a receive right that left arrives, and the task with the
\* right keeps receiving.
Fairness ==
    /\ \A t \in Threads : WF_vars(ThreadStep(t))
    /\ WF_vars(DestroyStep)
    /\ \A p \in Ports : WF_vars(RightArrives(p))
    /\ \A c \in MayReceive : SF_vars(msg_receive(c))

FairSpec == Spec /\ Fairness

\* A sender that waits at a full port goes on, whatever ends its wait.
SendersGoOn ==
    \A t \in Threads : thread[t].at = "send_wait" ~> thread[t].at # "send_wait"

=============================================================================
