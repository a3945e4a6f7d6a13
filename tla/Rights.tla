------------------------------- MODULE Rights -------------------------------
(***************************************************************************)
(* Port rights (kern/ipc_kport.c, ipc_prims.c, ipc_copyin.c, ipc_copyout.c *)
(* and part of ipc_port.c, ipc_tt.c): tasks' translations of ports, rights *)
(* that travel in messages, receive rights and ownership held apart        *)
(* (MACH_IPC_XXXHACK), backup ports, the death of ports and of tasks, and  *)
(* the references that keep a port's storage.                              *)
(*                                                                         *)
(* A step is one section under the locks of a task and a port.  Queues and *)
(* sets are MsgQueue's: here a message with a right may be received by any *)
(* task, or destroyed, at any time.                                        *)
(***************************************************************************)
EXTENDS Integers, FiniteSets

CONSTANTS
    Tasks,
    Ports,
    Slots,          \* rights in messages at a time: a bound
    Nil,            \* no task or port; TASK_NULL, for rights that are dead
    Soft,           \* ipc_soft_task: the right is in a message
    MayAllocate,    \* <<t, p>>: t may create p
    MaySend,        \* <<t, p>>: t may put its rights to p in messages
    MayReceive,     \* tasks that receive messages from each other
    MayDeallocate,  \* <<t, p>>: t may deallocate p
    MayTerminate,   \* tasks that may be terminated
    MayBackup,      \* <<p, b>>: the receiver of p may make b its backup
    MayInsert       \* tasks that others may insert rights into

ASSUME SoftIsNoTask == Soft \notin Tasks \cup {Nil} /\ Nil \notin Tasks \cup Ports
ASSUME Finite == IsFiniteSet(Tasks) /\ IsFiniteSet(Ports) /\ IsFiniteSet(Slots)

\* dying holds a task or one of these.
ASSUME MarksAreNoTasks == Tasks \cap {"no", "rights", "done"} = {}

\* What port_insert_receive counts on: the task it inserts rights into keeps them
\* until the request is destroyed.  Were one in another message by then,
\* object_destroy would take it for the one that the request brought.
ASSUME InsertedStay ==
    /\ MayInsert \subseteq Tasks \ MayTerminate
    /\ \A t \in MayInsert, p \in Ports : <<t, p>> \notin MaySend \cup MayDeallocate

VARIABLES
    port,       \* struct kern_port, as far as rights go
    entry,      \* per task and port, the type of the translation
    slot,       \* the rights in messages
    dying,      \* where the port's obj_destroy_rights is
    call,       \* port_dealloc in progress, for its user or ipc_task_terminate
    task,       \* per task: "active", "ending" (ipc_active is FALSE), "ended"
    surplus     \* per port, the references that port_destroy has yet to drop
                \* on what was a backup

vars == <<port, entry, slot, dying, call, task, surplus>>

Rights == {"PORT", "RECEIVE", "OWNERSHIP", "ALL"}
Types == {"SEND", "RECEIVE", "OWN", "RECEIVE_OWN"}

\* obj_entry_destroy on a dead port leaves "half": off the task, on the port.
Entries == Types \cup {"none", "half"}

Free == [at |-> "free", obj |-> Nil, rights |-> "PORT", to |-> Nil]
NoCall == [at |-> "no", port |-> Nil, ref |-> FALSE]

Init ==
    /\ port = [p \in Ports |-> [at |-> "new", in_use |-> FALSE, references |-> 0,
                                receiver |-> Nil, named |-> FALSE, owner |-> Nil,
                                backup |-> Nil]]
    /\ entry = [t \in Tasks |-> [p \in Ports |-> "none"]]
    /\ slot = [s \in Slots |-> Free]
    /\ dying = [p \in Ports |-> "no"]
    /\ call = [t \in Tasks |-> NoCall]
    /\ task = [t \in Tasks |-> "active"]
    /\ surplus = [p \in Ports |-> 0]

-----------------------------------------------------------------------------
(* The routines, as functions on what they change.                         *)

State == [port |-> port, entry |-> entry, slot |-> slot, dying |-> dying, surplus |-> surplus]

Becomes(k) ==
    /\ port' = k.port
    /\ entry' = k.entry
    /\ slot' = k.slot
    /\ dying' = k.dying
    /\ surplus' = k.surplus

Referenced(k, p) == [k EXCEPT !.port[p].references = @ + 1]
Dropped(k, p) == [k EXCEPT !.port[p].references = @ - 1]

\* port_check_unlock: the storage of a port without references is freed.
CheckUnlock(k, p) ==
    IF k.port[p].references <= 0 THEN [k EXCEPT !.port[p].at = "freed"] ELSE k

port_release(k, p) == CheckUnlock(Dropped(k, p), p)

FreeSlots(k) == {s \in Slots : k.slot[s].at = "free"}

\* The reference of the message is the caller's.
PutInMessage(k, p, rights, to) ==
    [k EXCEPT !.slot[CHOOSE s \in FreeSlots(k) : TRUE] =
        [at |-> "live", obj |-> p, rights |-> rights, to |-> to]]

\* obj_entry_create and obj_entry_insert.
EntryCreated(k, t, p, type) == Referenced([k EXCEPT !.entry[t][p] = type], p)

\* (mutant) the entry of a dead port is freed under obj_destroy_rights
BadEntryDestroy(k, t, p) == Dropped([k EXCEPT !.entry[t][p] = "none"], p)

obj_entry_destroy(k, t, p) ==
    Dropped([k EXCEPT !.entry[t][p] = IF k.port[p].in_use THEN "none" ELSE "half"], p)

port_clear_receiver(k, p, receiver) ==
    [k EXCEPT !.port[p].receiver = receiver, !.port[p].named = FALSE]

\* Called with both rights dead and a reference, which goes to the message to
\* the backup port, or is kept until the translations are gone.
port_destroy(k, p) ==
    LET b == k.port[p].backup
    IN  IF b # Nil
        THEN PutInMessage([k EXCEPT !.port[p].backup = Nil, !.port[p].receiver = Soft,
                                    !.port[p].owner = Soft, !.surplus[b] = @ + 1],
                          p, "ALL", Nil)
        ELSE [k EXCEPT !.port[p].in_use = FALSE, !.dying[p] = "rights"]

\* (mutant) the notification with the right takes no reference
BadDeallocReceive(k, p) ==
    LET owner == k.port[p].owner
    IN  CASE owner = Nil  -> port_destroy(Referenced(port_clear_receiver(k, p, Nil), p), p)
          [] owner = Soft -> port_clear_receiver(k, p, Nil)
          [] OTHER -> PutInMessage(port_clear_receiver(k, p, Soft), p, "RECEIVE", owner)

\* The holder of the other right gets this one, with a notification; while the
\* other right is in a message this one just dies, and if it is dead too the
\* port dies.
DeallocReceive(k, p) ==
    LET owner == k.port[p].owner
    IN  CASE owner = Nil  -> port_destroy(Referenced(port_clear_receiver(k, p, Nil), p), p)
          [] owner = Soft -> port_clear_receiver(k, p, Nil)
          [] OTHER -> PutInMessage(Referenced(port_clear_receiver(k, p, Soft), p),
                                   p, "RECEIVE", owner)

DeallocOwn(k, p) ==
    LET receiver == k.port[p].receiver
        Owned(owner) == [k EXCEPT !.port[p].owner = owner]
    IN  CASE receiver = Nil  -> port_destroy(Referenced(Owned(Nil), p), p)
          [] receiver = Soft -> Owned(Nil)
          [] OTHER -> PutInMessage(Referenced(Owned(Soft), p), p, "OWNERSHIP", receiver)

port_dealloc(k, t, p) ==
    LET gone == obj_entry_destroy(k, t, p)
        unowned == [gone EXCEPT !.port[p].owner = Nil]
    IN  CASE k.entry[t][p] \in {"none", "half"} -> k
          [] k.entry[t][p] = "SEND" -> gone
          [] k.entry[t][p] = "RECEIVE" -> DeallocReceive(gone, p)
          [] k.entry[t][p] = "OWN" -> DeallocOwn(gone, p)
          [] k.entry[t][p] = "RECEIVE_OWN" ->
                port_destroy(Referenced(port_clear_receiver(unowned, p, Nil), p), p)

Carries(rights) ==
    CASE rights = "PORT" -> {}
      [] rights = "RECEIVE" -> {"receive"}
      [] rights = "OWNERSHIP" -> {"own"}
      [] rights = "ALL" -> {"receive", "own"}

-----------------------------------------------------------------------------
(* A task sends rights: object_copyin and its table.                       *)

\* What a translation of this type may send, and what it is afterwards.
CopyinResult ==
    [PORT |-> [SEND |-> "SEND", RECEIVE |-> "RECEIVE", OWN |-> "OWN",
               RECEIVE_OWN |-> "RECEIVE_OWN"],
     RECEIVE |-> [RECEIVE |-> "SEND", RECEIVE_OWN |-> "OWN"],
     OWNERSHIP |-> [OWN |-> "SEND", RECEIVE_OWN |-> "RECEIVE"],
     ALL |-> [RECEIVE_OWN |-> "SEND"]]

\* Only a translation that is left with a send right may go with the message.
object_copyin(t, p, rights, deallocate) ==
    LET table == CopyinResult[rights]
        type == table[entry[t][p]]
        sent == [[State EXCEPT !.entry[t][p] = type]
                    EXCEPT !.port[p].owner = IF "own" \in Carries(rights) THEN Soft ELSE @]
        left == IF "receive" \in Carries(rights) THEN port_clear_receiver(sent, p, Soft) ELSE sent
    IN  /\ <<t, p>> \in MaySend
        /\ task[t] = "active"
        /\ call[t].at = "no"
        /\ FreeSlots(State) # {}
        /\ entry[t][p] \in DOMAIN table
        /\ deallocate => type = "SEND"
        /\ port[p].in_use
        /\ Becomes(PutInMessage(Referenced(IF deallocate THEN obj_entry_destroy(left, t, p)
                                           ELSE left, p), p, rights, Nil))
        /\ UNCHANGED <<call, task>>

-----------------------------------------------------------------------------
(* A right in a message reaches a task, or dies with the message.          *)

CopyoutResult ==
    [PORT |-> [none |-> "SEND", SEND |-> "SEND", RECEIVE |-> "RECEIVE", OWN |-> "OWN",
               RECEIVE_OWN |-> "RECEIVE_OWN"],
     RECEIVE |-> [none |-> "RECEIVE", SEND |-> "RECEIVE", OWN |-> "RECEIVE_OWN"],
     OWNERSHIP |-> [none |-> "OWN", SEND |-> "OWN", RECEIVE |-> "RECEIVE_OWN"],
     ALL |-> [none |-> "RECEIVE_OWN", SEND |-> "RECEIVE_OWN"]]

\* The other right comes along if it is dead.
Arrived(k, t, p, rights) ==
    LET both == [k EXCEPT !.port[p].receiver = t, !.port[p].owner = t,
                          !.entry[t][p] = "RECEIVE_OWN"]
    IN  CASE rights = "PORT" -> k
          [] rights = "RECEIVE" ->
                IF k.port[p].owner = Nil THEN [both EXCEPT !.port[p].named = TRUE]
                ELSE [k EXCEPT !.port[p].receiver = t, !.port[p].named = TRUE]
          [] rights = "OWNERSHIP" ->
                IF k.port[p].receiver = Nil THEN both ELSE [k EXCEPT !.port[p].owner = t]
          [] rights = "ALL" -> [both EXCEPT !.port[p].named = TRUE]

\* The reference of the message is dropped; a translation has another.
object_copyout(t, s) ==
    LET p == slot[s].obj
        made == IF entry[t][p] = "none" THEN EntryCreated(State, t, p, "none") ELSE State
        typed == [made EXCEPT !.entry[t][p] = CopyoutResult[slot[s].rights][entry[t][p]]]
        got == Dropped(Arrived(typed, t, p, slot[s].rights), p)
    IN  IF task[t] = "active" /\ port[p].in_use
        THEN Becomes([got EXCEPT !.slot[s] = Free])
        ELSE Becomes([State EXCEPT !.slot[s].at = "doomed"])

\* From a message, or from the port_dealloc of the task with the other right.
ReceiveRight(t, s) ==
    /\ slot[s].at = "live"
    /\ slot[s].to \in {Nil, t}
    /\ slot[s].to = Nil => t \in MayReceive /\ task[t] = "active" /\ call[t].at = "no"
    /\ object_copyout(t, s)
    /\ UNCHANGED <<call, task>>

\* (mutant) the right dies even if it is no longer in the message
BadDead(rights, right, holder) == IF right \in Carries(rights) THEN Nil ELSE holder

\* "Allow for possibility that the receive/ownership rights are no longer in
\* the message."
Dead(rights, right, holder) ==
    IF right \in Carries(rights) /\ holder = Soft THEN Nil ELSE holder

object_destroy(s) ==
    LET p == slot[s].obj
        k == [State EXCEPT !.slot[s] = Free]
        rights == slot[s].rights
        dead == [k EXCEPT !.port[p].receiver = Dead(rights, "receive", @),
                          !.port[p].owner = Dead(rights, "own", @)]
    IN  /\ \/ slot[s].at = "live" /\ slot[s].to = Nil
           \/ slot[s].at \in {"doomed", "used"}
        /\ IF rights = "PORT" \/ ~port[p].in_use
           THEN Becomes(port_release(k, p))
           ELSE IF dead.port[p].receiver = Nil /\ dead.port[p].owner = Nil
                THEN Becomes(port_destroy(dead, p))
                ELSE Becomes(Dropped(dead, p))
        /\ UNCHANGED <<call, task>>

\* port_insert_send and port_insert_receive: the right stays in the request
\* too, which the kernel destroys after the call.
Insert(t, s) ==
    LET p == slot[s].obj
        type == CopyoutResult[slot[s].rights]["none"]
    IN  /\ t \in MayInsert
        /\ task[t] = "active"
        /\ slot[s].at = "live" /\ slot[s].to = Nil
        /\ slot[s].rights \in {"PORT", "ALL"}
        /\ entry[t][p] = "none"
        /\ port[p].in_use
        /\ Becomes([Arrived(EntryCreated(State, t, p, type), t, p, slot[s].rights)
                        EXCEPT !.slot[s].at = "used"])
        /\ UNCHANGED <<call, task>>

-----------------------------------------------------------------------------
(* Ports are created, get a backup, and are deallocated.                   *)

port_allocate(t, p) ==
    /\ <<t, p>> \in MayAllocate
    /\ task[t] = "active"
    /\ port[p].at = "new"
    /\ Becomes(EntryCreated([State EXCEPT !.port[p] =
                   [@ EXCEPT !.at = "live", !.in_use = TRUE, !.receiver = t,
                             !.named = TRUE, !.owner = t]], t, p, "RECEIVE_OWN"))
    /\ UNCHANGED <<call, task>>

\* The old backup goes to the caller in the reply, with its reference.
port_set_backup(t, p, b) ==
    LET old == port[p].backup
        k == [Referenced(State, b) EXCEPT !.port[p].backup = b]
    IN  /\ <<p, b>> \in MayBackup
        /\ task[t] = "active"
        /\ call[t].at = "no"
        /\ port[p].receiver = t
        /\ entry[t][b] \in Types
        /\ surplus[b] = 0      \* a bound: not again before ReleaseBackup
        /\ IF old = Nil THEN Becomes(k)
           ELSE FreeSlots(State) # {} /\ Becomes(PutInMessage(k, old, "PORT", Nil))
        /\ UNCHANGED <<call, task>>

\* port_destroy gives its backup port up after it has sent the message.
ReleaseBackup(b) ==
    /\ surplus[b] > 0
    /\ Becomes([port_release(State, b) EXCEPT !.surplus[b] = @ - 1])
    /\ UNCHANGED <<call, task>>

\* port_deallocate takes a reference, ipc_task_terminate does not.
port_deallocate(t, p) ==
    /\ <<t, p>> \in MayDeallocate
    /\ task[t] = "active"
    /\ call[t].at = "no"
    /\ entry[t][p] \in Types
    /\ port[p].in_use
    /\ Becomes(Referenced(State, p))
    /\ call' = [call EXCEPT ![t] = [at |-> "dealloc", port |-> p, ref |-> TRUE]]
    /\ UNCHANGED task

Dealloc(t) ==
    LET p == call[t].port
    IN  /\ call[t].at = "dealloc"
        /\ FreeSlots(State) # {}
        /\ Becomes(port_dealloc(State, t, p))
        /\ call' = [call EXCEPT ![t] = IF @.ref THEN [@ EXCEPT !.at = "release"] ELSE NoCall]
        /\ UNCHANGED task

Release(t) ==
    /\ call[t].at = "release"
    /\ Becomes(port_release(State, call[t].port))
    /\ call' = [call EXCEPT ![t] = NoCall]
    /\ UNCHANGED task

-----------------------------------------------------------------------------
(* obj_destroy_rights: an entry is chosen with the port locked, and removed *)
(* after the task was locked too, the port having been unlocked.           *)

DestroyChooses(p, t) ==
    /\ dying[p] = "rights"
    /\ entry[t][p] # "none"
    /\ IF entry[t][p] = "half"
       THEN /\ entry' = [entry EXCEPT ![t][p] = "none"]
            /\ UNCHANGED dying
       ELSE /\ dying' = [dying EXCEPT ![p] = t]
            /\ UNCHANGED entry
    /\ UNCHANGED <<port, slot, call, task, surplus>>

\* The task may have destroyed its entry meanwhile.
DestroyRemoves(p, t) ==
    LET k == IF entry[t][p] = "half" THEN State ELSE Dropped(State, p)
    IN  /\ dying[p] = t
        /\ Becomes([k EXCEPT !.entry[t][p] = "none", !.dying[p] = "rights"])
        /\ UNCHANGED <<call, task>>

DestroyEnds(p) ==
    /\ dying[p] = "rights"
    /\ \A t \in Tasks : entry[t][p] = "none"
    /\ Becomes([port_release(State, p) EXCEPT !.dying[p] = "done"])
    /\ UNCHANGED <<call, task>>

-----------------------------------------------------------------------------
(* ipc_task_terminate.                                                     *)

ipc_task_terminate(t) ==
    /\ t \in MayTerminate
    /\ task[t] = "active"
    /\ call[t].at = "no"
    /\ task' = [task EXCEPT ![t] = "ending"]
    /\ UNCHANGED <<port, entry, slot, dying, call, surplus>>

TerminateNext(t) ==
    /\ task[t] = "ending"
    /\ call[t].at = "no"
    /\ \E p \in Ports :
        /\ entry[t][p] \in Types
        /\ call' = [call EXCEPT ![t] = [at |-> "dealloc", port |-> p, ref |-> FALSE]]
    /\ UNCHANGED <<port, entry, slot, dying, task, surplus>>

TerminateEnds(t) ==
    /\ task[t] = "ending"
    /\ call[t].at = "no"
    /\ \A p \in Ports : entry[t][p] \notin Types
    /\ task' = [task EXCEPT ![t] = "ended"]
    /\ UNCHANGED <<port, entry, slot, dying, call, surplus>>

-----------------------------------------------------------------------------

Next ==
    \/ \E t \in Tasks, p \in Ports :
        \/ port_allocate(t, p)
        \/ \E rights \in Rights, deallocate \in BOOLEAN :
                object_copyin(t, p, rights, deallocate)
        \/ \E b \in Ports : port_set_backup(t, p, b)
        \/ port_deallocate(t, p)
        \/ DestroyChooses(p, t) \/ DestroyRemoves(p, t)
    \/ \E s \in Slots :
        \/ \E t \in Tasks : ReceiveRight(t, s) \/ Insert(t, s)
        \/ object_destroy(s)
    \/ \E p \in Ports : ReleaseBackup(p) \/ DestroyEnds(p)
    \/ \E t \in Tasks :
        \/ Dealloc(t) \/ Release(t)
        \/ ipc_task_terminate(t) \/ TerminateNext(t) \/ TerminateEnds(t)

Spec == Init /\ [][Next]_vars

-----------------------------------------------------------------------------
(* Properties.                                                             *)

TypeOK ==
    /\ port \in [Ports -> [at: {"new", "live", "freed"}, in_use: BOOLEAN, references: Nat,
                           receiver: Tasks \cup {Nil, Soft}, named: BOOLEAN,
                           owner: Tasks \cup {Nil, Soft}, backup: Ports \cup {Nil}]]
    /\ entry \in [Tasks -> [Ports -> Entries]]
    /\ slot \in [Slots -> [at: {"free", "live", "doomed", "used"}, obj: Ports \cup {Nil},
                           rights: Rights, to: Tasks \cup {Nil}]]
    /\ dying \in [Ports -> {"no", "rights", "done"} \cup Tasks]
    /\ call \in [Tasks -> [at: {"no", "dealloc", "release"}, port: Ports \cup {Nil},
                           ref: BOOLEAN]]
    /\ task \in [Tasks -> {"active", "ending", "ended"}]
    /\ surplus \in [Ports -> Nat]

TypeOf(t, p) ==
    CASE port[p].receiver = t /\ port[p].owner = t -> {"RECEIVE_OWN"}
      [] port[p].receiver = t /\ port[p].owner # t -> {"RECEIVE"}
      [] port[p].receiver # t /\ port[p].owner = t -> {"OWN"}
      [] OTHER -> {"none", "SEND"}

InTransit(p, right) ==
    {s \in Slots : /\ slot[s].at \in {"live", "doomed"}
                   /\ slot[s].obj = p
                   /\ right \in Carries(slot[s].rights)}

\* A port in use has one receive right and one ownership right, each held by one
\* task, or in one message, or dead, and not both dead.  The translations' types
\* say the same as the port's receiver and owner, which the assertions of
\* port_dealloc, the copyin and the copyout routines rely on.
RightsExact ==
    \A p \in Ports : port[p].in_use =>
        /\ \A t \in Tasks : entry[t][p] \in TypeOf(t, p)
        /\ Cardinality(InTransit(p, "receive")) = IF port[p].receiver = Soft THEN 1 ELSE 0
        /\ Cardinality(InTransit(p, "own")) = IF port[p].owner = Soft THEN 1 ELSE 0
        /\ ~(port[p].receiver = Nil /\ port[p].owner = Nil)

\* "Each port translation constitutes a reference", "each port right contained
\* in a message in transit", and each port kept as a backup or by a routine that
\* works on it; no other, so that the storage is freed when the last is gone, and
\* never before.  port_unlock without a check is used only where one is left.
RefsExact ==
    \A p \in Ports :
        /\ port[p].references =
              Cardinality({t \in Tasks : entry[t][p] \in Types})
            + Cardinality({s \in Slots : slot[s].at # "free" /\ slot[s].obj = p})
            + Cardinality({q \in Ports : port[q].at = "live" /\ port[q].backup = p})
            + Cardinality({t \in Tasks : call[t].ref /\ call[t].port = p})
            + surplus[p]
            + IF dying[p] \in {"no", "done"} THEN 0 ELSE 1
        /\ port[p].at = "live" <=> port[p].references > 0

\* "Once declared dead, no further translations involving that port/task may be
\* created": port_destroy and ipc_task_terminate end with none left, whichever
\* of the two came first to each translation.
NothingAfterDeath ==
    /\ \A p \in Ports : dying[p] = "done" => \A t \in Tasks : entry[t][p] = "none"
    /\ \A t \in Tasks : task[t] = "ended" => \A p \in Ports : entry[t][p] \notin Types
    /\ \A p \in Ports, t \in Tasks : dying[p] = t => entry[t][p] # "none"

\* "Receiver's local name for port" (kern_port.h:92): msg_copyout gives it to the
\* receiver of every message.
ReceiverNamed ==
    \A p \in Ports : port[p].receiver \in Tasks => port[p].named

=============================================================================
