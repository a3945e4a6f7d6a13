------------------------------ MODULE VmFault -------------------------------
(***************************************************************************)
(* Anonymous memory (vm/vm_fault.c, vm_object.c, and parts of vm_map.c,    *)
(* vm_pageout.c, memory_object.c): page faults down shadow chains,         *)
(* symmetric copy-on-write by vm_map_fork, collapse and bypass of chains,  *)
(* termination, and the pageout daemon with the default memory manager.    *)
(*                                                                         *)
(* A task has one map entry, of a temporary internal object; the entry and *)
(* all objects have the same Offsets.  A step is what is done under the    *)
(* lock of an object, or of two on the way down a chain.  Not here:        *)
(* permanent objects, copy objects, page locks, wiring, sharing maps.      *)
(***************************************************************************)
EXTENDS Integers, FiniteSets

CONSTANTS
    Threads, Tasks, TaskOf,     \* TaskOf[t] is the task of thread t
    First,                      \* the task whose entry exists initially
    Objects,                    \* vm_object_zone: a bound
    Offsets, Values, Zero, Nil,
    VmFaultDirtyHandling,       \* vm_fault_dirty_handling
    Pagemap,                    \* are there existence maps (vm_external.c)?
    MayRead,                    \* <<t, x>>: t may read at x
    MayWrite,                   \* <<t, x, v>>: t may write v at x
    MayFork,                    \* <<a, b>>: b may be forked from a
    MayUnmap,                   \* tasks that may deallocate their entry
    MayPageout,                 \* offsets whose pages the daemon may take
    MayInterrupt                \* threads whose waits may be aborted

ASSUME VmConstants ==
    /\ TaskOf \in [Threads -> Tasks]
    /\ First \in Tasks
    /\ Zero \in Values
    /\ Nil \notin Objects \cup Values
    /\ VmFaultDirtyHandling \in BOOLEAN /\ Pagemap \in BOOLEAN
    /\ MayPageout \subseteq Offsets

\* Memory is finite, so holders of a page and references can be counted.
ASSUME VmFinite == IsFiniteSet(Threads) /\ IsFiniteSet(Tasks) /\ IsFiniteSet(Objects)

VARIABLES
    object,     \* struct vm_object, with its pages and what its pager has
    map,        \* per task, the entry
    pmap,       \* per task and offset, the page that is mapped, and writable?
    th,         \* per thread, where its vm_fault is
    daemon,     \* where vm_pageout_scan is
    memory      \* per task and offset, what the task wrote or inherited

vars == <<object, map, pmap, th, daemon, memory>>

\* at "empty": allocated, not filled; "absent": asked for; "holding": the
\* place-holder of vm_pageout_setup.
NoPage == [at |-> "none", val |-> Zero, busy |-> FALSE, dirty |-> FALSE]
Page(at, val, dirty) == [at |-> at, val |-> val, busy |-> TRUE, dirty |-> dirty]

\* vm_object_template; free objects look like it too.
Template ==
    [at |-> "free", ref_count |-> 0, shadow |-> Nil, paging_in_progress |-> 0,
     absent_count |-> 0, pager |-> "none", saved |-> [x \in Offsets |-> Nil],
     page |-> [x \in Offsets |-> NoPage]]

NoEntry == [in |-> FALSE, object |-> Nil, needs_copy |-> FALSE]
Unmapped == [object |-> Nil, write |-> FALSE]
Running == [at |-> "run", off |-> CHOOSE x \in Offsets : TRUE, write |-> FALSE,
            prot |-> FALSE, first |-> Nil, cur |-> Nil, stale |-> FALSE]
Idle == [at |-> "idle", object |-> Nil, off |-> CHOOSE x \in Offsets : TRUE]

Init ==
    /\ object = [o \in Objects |-> Template]
    /\ map = [t \in Tasks |-> [NoEntry EXCEPT !.in = (t = First)]]
    /\ pmap = [t \in Tasks |-> [x \in Offsets |-> Unmapped]]
    /\ th = [t \in Threads |-> Running]
    /\ daemon = Idle
    /\ memory = [t \in Tasks |-> [x \in Offsets |-> Zero]]

-----------------------------------------------------------------------------
(* The routines, as functions on what they change.                         *)

State == [object |-> object, map |-> map, pmap |-> pmap, th |-> th]

Becomes(k) ==
    /\ object' = k.object
    /\ map' = k.map
    /\ pmap' = k.pmap
    /\ th' = k.th

vm_object_paging_begin(k, o) == [k EXCEPT !.object[o].paging_in_progress = @ + 1]
vm_object_paging_end(k, o) == [k EXCEPT !.object[o].paging_in_progress = @ - 1]

\* vm_object_terminate starts here; it waits for paging to end.
vm_object_deallocate(k, o) ==
    IF o = Nil THEN k
    ELSE [k EXCEPT !.object[o].ref_count = @ - 1,
                   !.object[o].at = IF k.object[o].ref_count = 1 THEN "dying" ELSE @]

FreeObjects(k) == {o \in Objects : k.object[o].at = "free"}

\* The shadow reference was the caller's.
vm_object_allocate(k, o, shadow) ==
    [k EXCEPT !.object[o] = [Template EXCEPT !.at = "live", !.ref_count = 1, !.shadow = shadow]]

PageWakeup(k, o, x) ==
    [k EXCEPT !.th = [t \in Threads |->
        IF k.th[t].at = "wait" /\ k.th[t].cur = o /\ k.th[t].off = x
        THEN [k.th[t] EXCEPT !.at = "search"] ELSE k.th[t]]]

PageWakeupDone(k, o, x) == PageWakeup([k EXCEPT !.object[o].page[x].busy = FALSE], o, x)

SetPage(k, o, x, page) == [k EXCEPT !.object[o].page[x] = page]

AbsentRelease(k, o) == [k EXCEPT !.object[o].absent_count = @ - 1]

vm_page_free(k, o, x) ==
    LET gone == PageWakeup(SetPage(k, o, x, NoPage), o, x)
    IN  IF k.object[o].page[x].at = "absent" THEN AbsentRelease(gone, o) ELSE gone

\* pmap_page_protect with VM_PROT_NONE.
pmap_page_protect(k, o, x) ==
    [k EXCEPT !.pmap = [t \in Tasks |-> [y \in Offsets |->
        IF y = x /\ k.pmap[t][y].object = o THEN Unmapped ELSE k.pmap[t][y]]]]

\* vm_map_lock and the upgrade of a read lock change the timestamp.
MapChanged(k, task) ==
    [k EXCEPT !.th = [t \in Threads |->
        IF TaskOf[t] = task /\ k.th[t].at \notin {"run", "lookup"}
        THEN [k.th[t] EXCEPT !.stale = TRUE] ELSE k.th[t]]]

-----------------------------------------------------------------------------
(* vm_object_collapse.                                                     *)

\* Pages that the parent has already are freed, the others move, and the pager
\* comes along.  A mapping stays with its page.
CollapseInto(k, o) ==
    LET b == k.object[o].shadow
        Moves(x) == /\ k.object[b].page[x].at # "none"
                    /\ k.object[o].page[x].at = "none"
    IN  [k EXCEPT
          !.object[o] = [@ EXCEPT
                !.page = [x \in Offsets |-> k.object[IF Moves(x) THEN b ELSE o].page[x]],
                !.pager = k.object[b].pager,
                !.saved = k.object[b].saved,
                !.shadow = k.object[b].shadow],
          !.object[b] = Template,
          !.pmap = [t \in Tasks |-> [x \in Offsets |->
                IF k.pmap[t][x].object = b /\ Moves(x)
                THEN [k.pmap[t][x] EXCEPT !.object = o] ELSE k.pmap[t][x]]]]

Bypass(k, o) ==
    LET b == k.object[o].shadow
        next == k.object[b].shadow
        moved == [k EXCEPT !.object[o].shadow = next, !.object[b].ref_count = @ - 1]
    IN  IF next = Nil THEN moved ELSE [moved EXCEPT !.object[next].ref_count = @ + 1]

AllShadowed(k, o) ==
    \A x \in Offsets : k.object[k.object[o].shadow].page[x].at # "none"
                         => k.object[o].page[x].at # "none"

\* (mutant) the backing object's pagein and pageout in progress are overlooked
BadQuiet(k, o) == k.object[o].pager = "none" /\ k.object[o].shadow # Nil

Quiet(k, o) ==
    /\ k.object[o].pager = "none"
    /\ k.object[o].paging_in_progress = 0
    /\ k.object[o].absent_count = 0
    /\ k.object[o].shadow # Nil
    /\ k.object[k.object[o].shadow].paging_in_progress = 0

\* One round of the loop; got: whether vm_object_cache_lock_try succeeds.
CollapseOnce(k, o, got) ==
    LET b == k.object[o].shadow
    IN  CASE ~Quiet(k, o) -> k
          [] Quiet(k, o) /\ k.object[b].ref_count = 1 -> IF got THEN CollapseInto(k, o) ELSE k
          [] Quiet(k, o) /\ k.object[b].ref_count # 1 ->
                IF k.object[b].pager = "none" /\ AllShadowed(k, o) THEN Bypass(k, o) ELSE k

\* Each round that changes anything leaves the chain shorter.
vm_object_collapse(k, o, got) ==
    LET round[n \in 0 .. Cardinality(Objects)] ==
            IF n = 0 THEN k ELSE CollapseOnce(round[n - 1], o, got)
    IN  round[Cardinality(Objects)]

-----------------------------------------------------------------------------
(* Tasks read and write, fork, and deallocate.                             *)

Write(t, x, v) ==
    LET o == pmap[TaskOf[t]][x].object
    IN  /\ <<t, x, v>> \in MayWrite
        /\ th[t].at = "run"
        /\ pmap[TaskOf[t]][x].write
        /\ object' = [object EXCEPT ![o].page[x].val = v, ![o].page[x].dirty = TRUE]
        /\ memory' = [memory EXCEPT ![TaskOf[t]][x] = v]
        /\ UNCHANGED <<map, pmap, th, daemon>>

\* vm_object_pmap_protect: the whole range, or only the top object's pages.
Protect(k, a) ==
    LET o == k.map[a].object
        resident == {x \in Offsets : k.object[o].page[x].at # "none"}
        all == Cardinality(resident) > Cardinality(Offsets) \div 2
    IN  [k EXCEPT !.pmap[a] = [x \in Offsets |->
            IF all \/ x \in resident THEN [@[x] EXCEPT !.write = FALSE] ELSE @[x]]]

\* vm_map_fork, for an entry with VM_INHERIT_COPY, and vm_object_copy_temporary.
vm_map_fork(a, b) ==
    LET o == map[a].object
        k == MapChanged(State, a)
        shared == [(IF map[a].needs_copy THEN k ELSE Protect(k, a)) EXCEPT
                      !.object[o].ref_count = @ + 1, !.map[a].needs_copy = TRUE]
    IN  /\ <<a, b>> \in MayFork
        /\ map[a].in /\ ~map[b].in
        /\ IF o = Nil THEN Becomes([k EXCEPT !.map[b] = map[a]])
           ELSE Becomes([shared EXCEPT !.map[b] = shared.map[a]])
        /\ memory' = [memory EXCEPT ![b] = memory[a]]
        /\ UNCHANGED daemon

\* vm_map_delete.
vm_map_delete(a) ==
    LET k == [MapChanged(State, a) EXCEPT !.map[a] = NoEntry,
                                          !.pmap[a] = [x \in Offsets |-> Unmapped]]
    IN  /\ a \in MayUnmap
        /\ map[a].in
        /\ Becomes(vm_object_deallocate(k, map[a].object))
        /\ memory' = [memory EXCEPT ![a] = [x \in Offsets |-> Zero]]
        /\ UNCHANGED daemon

\* Once paging has ended: the pages go, then the reference to the shadow.
vm_object_terminate(o) ==
    /\ object[o].at = "dying"
    /\ object[o].paging_in_progress = 0
    /\ Becomes(vm_object_deallocate([State EXCEPT !.object[o] = Template], object[o].shadow))
    /\ UNCHANGED <<daemon, memory>>

-----------------------------------------------------------------------------
(* vm_fault_page.                                                          *)

\* UNLOCK_THINGS
UnlockThings(k, t) ==
    LET f == k.th[t]
        ended == vm_object_paging_end(k, f.cur)
    IN  IF f.cur = f.first THEN ended
        ELSE vm_object_paging_end(vm_page_free(ended, f.first, f.off), f.first)

GoesTo(k, t, at) == [k EXCEPT !.th[t].at = at]

\* The end of vm_fault_page: a page of a shadowed object is never writable.
Returns(k, t) ==
    LET f == k.th[t]
        prot == f.prot /\ f.cur = f.first
        dirty == VmFaultDirtyHandling /\ prot
    IN  [k EXCEPT !.th[t].at = "verify", !.th[t].prot = prot,
                  !.object[f.cur].page[f.off].dirty = @ \/ dirty]

PageOf(k, t) == k.object[k.th[t].cur].page[k.th[t].off]

\* look_for_page; while the pager is being created there is no existence map yet.
LookForPage(k, t) ==
    LET o == k.object[k.th[t].cur]
    IN  CASE o.pager = "none" -> FALSE
          [] o.pager = "created" -> TRUE
          [] o.pager = "ready" -> Pagemap => o.saved[k.th[t].off] # Nil

NoData(k, t) ==
    \/ PageOf(k, t).at = "none" /\ ~LookForPage(k, t)
    \/ PageOf(k, t).at = "absent" /\ ~PageOf(k, t).busy

\* The page is found: to be copied, or to be entered.
FoundPage(k, t) ==
    LET f == k.th[t]
        busy == [k EXCEPT !.object[f.cur].page[f.off].busy = TRUE]
    IN  IF f.write /\ f.cur # f.first THEN GoesTo(busy, t, "copy") ELSE Returns(busy, t)

\* memory_object_data_request, with the object unlocked; or, as long as the pager
\* is not ready, a wait, after which vm_fault_page returns VM_FAULT_RETRY.
AsksPager(k, t) ==
    LET f == k.th[t]
        asked == SetPage(k, f.cur, f.off, Page("absent", Zero, FALSE))
    IN  IF k.object[f.cur].pager = "created" THEN GoesTo(UnlockThings(k, t), t, "sleep")
        ELSE GoesTo([asked EXCEPT !.object[f.cur].absent_count = @ + 1], t, "search")

\* (mutant) no page is left busy in the top object
BadPlaceholder(k, t) ==
    LET f == k.th[t]
    IN  IF f.cur = f.first THEN k ELSE vm_object_paging_end(k, f.cur)

\* A page without data in the top object stays there, busy, as first_m; in
\* another object it is freed, and the paging reference given up.
Placeholder(k, t) ==
    LET f == k.th[t]
        absent == PageOf(k, t).at = "absent"
        empty == SetPage(k, f.cur, f.off, Page("empty", Zero, FALSE))
    IN  CASE f.cur = f.first -> IF absent THEN AbsentRelease(empty, f.cur) ELSE empty
          [] f.cur # f.first -> vm_object_paging_end(
                IF absent THEN vm_page_free(k, f.cur, f.off) ELSE k, f.cur)

ZeroFilled(k, t) ==
    LET f == k.th[t]
        filled == SetPage(Placeholder(k, t), f.first, f.off, Page("filled", Zero, FALSE))
    IN  Returns([filled EXCEPT !.th[t].cur = f.first], t)

\* From an object without the page to its shadow.
NextObject(k, t) ==
    LET next == k.object[k.th[t].cur].shadow
    IN  IF ~PageOf(k, t).busy /\ NoData(k, t) /\ next # Nil
        THEN [vm_object_paging_begin(Placeholder(k, t), next) EXCEPT !.th[t].cur = next]
        ELSE k

\* The search from th[t].cur on, which is locked: the next object is locked
\* before this one is unlocked, so that no search overtakes another.  A chain is
\* not longer than there are objects.
Searched(k, t) ==
    LET passed[n \in 0 .. Cardinality(Objects)] ==
            IF n = 0 THEN k ELSE NextObject(passed[n - 1], t)
        end == passed[Cardinality(Objects)]
        page == PageOf(end, t)
    IN  CASE page.busy -> GoesTo(end, t, "wait")
          [] page.at = "filled" /\ ~page.busy -> FoundPage(end, t)
          [] page.at = "none" /\ LookForPage(end, t) -> AsksPager(end, t)
          [] ~page.busy /\ NoData(end, t) -> ZeroFilled(end, t)

\* After a wait or a request.
SearchAgain(t) ==
    /\ th[t].at = "search"
    /\ Becomes(Searched(State, t))
    /\ UNCHANGED <<daemon, memory>>

-----------------------------------------------------------------------------
(* vm_fault.                                                               *)

Entry(t) == map[TaskOf[t]]

\* A write to an entry without an object, or that needs a copy: a new object.
NeedsObject(t, write) == Entry(t).object = Nil \/ (Entry(t).needs_copy /\ write)

WithObject(t, write) ==
    LET task == TaskOf[t]
        new == CHOOSE o \in FreeObjects(State) : TRUE
        k == vm_object_allocate(State, new, Entry(t).object)
        entered == [k EXCEPT !.map[task] = [@ EXCEPT !.object = new, !.needs_copy = FALSE]]
    IN  CASE ~NeedsObject(t, write) -> State
          [] NeedsObject(t, write) /\ Entry(t).object = Nil -> entered
          [] NeedsObject(t, write) /\ Entry(t).object # Nil -> MapChanged(entered, task)

\* The object is returned locked, and vm_fault_page starts with it.
vm_map_lookup(t, x, write) ==
    LET k == WithObject(t, write)
        o == k.map[TaskOf[t]].object
        prot == /\ ~k.map[TaskOf[t]].needs_copy
                /\ VmFaultDirtyHandling => write
        f == [Running EXCEPT !.at = "search", !.off = x, !.write = write, !.prot = prot,
                             !.first = o, !.cur = o]
    IN  /\ NeedsObject(t, write) => FreeObjects(State) # {}
        /\ Becomes(Searched([vm_object_paging_begin(k, o) EXCEPT
                                !.object[o].ref_count = @ + 1, !.th[t] = f], t))

\* A task uses an address that its physical map does not map, or not for writing.
Fault(t, x, write) ==
    /\ th[t].at = "run"
    /\ IF write THEN (\E v \in Values : <<t, x, v>> \in MayWrite) /\ ~pmap[TaskOf[t]][x].write
       ELSE <<t, x>> \in MayRead /\ pmap[TaskOf[t]][x].object = Nil
    /\ Entry(t).in
    /\ vm_map_lookup(t, x, write)
    /\ UNCHANGED <<daemon, memory>>

\* RetryFault, after the map has changed.
Retry(t) ==
    /\ th[t].at = "lookup"
    /\ IF Entry(t).in THEN vm_map_lookup(t, th[t].off, th[t].write)
       ELSE Becomes([State EXCEPT !.th[t] = Running])
    /\ UNCHANGED <<daemon, memory>>

\* Copy-on-write, with the objects unlocked; then no one maps the old page.
CopyPage(t) ==
    LET f == th[t]
        copied == SetPage(State, f.first, f.off, Page("filled", PageOf(State, t).val, FALSE))
        done == PageWakeupDone(pmap_page_protect(copied, f.cur, f.off), f.cur, f.off)
    IN  /\ f.at = "copy"
        /\ Becomes([vm_object_paging_end(done, f.cur) EXCEPT !.th[t].at = "collapse",
                                                            !.th[t].cur = f.first])
        /\ UNCHANGED <<daemon, memory>>

\* "ugly games with paging_in_progress"
CollapseTop(t) ==
    LET f == th[t]
    IN  /\ f.at = "collapse"
        /\ \E got \in BOOLEAN :
            Becomes(Returns(vm_object_paging_begin(
                        vm_object_collapse(vm_object_paging_end(State, f.first), f.first, got),
                        f.first), t))
        /\ UNCHANGED <<daemon, memory>>

\* RELEASE_PAGE and UNLOCK_AND_DEALLOCATE
Release(k, t, at) ==
    LET f == k.th[t]
        unlocked == UnlockThings(PageWakeupDone(k, f.cur, f.off), t)
    IN  [vm_object_deallocate(unlocked, f.first) EXCEPT
            !.th[t] = IF at = "run" THEN Running
                      ELSE [Running EXCEPT !.at = at, !.off = f.off, !.write = f.write]]

\* vm_map_verify fails: the map is consulted again, not for writing.
VerifyAgain(t) ==
    LET f == th[t]
    IN  /\ f.at = "verify" /\ f.stale
        /\ Becomes(
             CASE ~Entry(t).in -> Release(State, t, "run")
               [] Entry(t).in /\ Entry(t).object # f.first -> Release(State, t, "lookup")
               [] Entry(t).in /\ Entry(t).object = f.first ->
                    [State EXCEPT !.th[t].prot = @ /\ ~Entry(t).needs_copy, !.th[t].stale = FALSE])
        /\ UNCHANGED <<daemon, memory>>

\* With the map locked for reading.
PmapEnter(t) ==
    LET f == th[t]
        k == [State EXCEPT !.pmap[TaskOf[t]][f.off] = [object |-> f.cur, write |-> f.prot]]
    IN  /\ f.at = "verify" /\ ~f.stale
        /\ Becomes(Release(k, t, "run"))
        /\ UNCHANGED <<daemon, memory>>

\* VM_FAULT_INTERRUPTED: "A page may still be dedicated to the request".
Interrupt(t) ==
    /\ t \in MayInterrupt
    /\ th[t].at \in {"wait", "sleep"}
    /\ LET k == IF th[t].at = "wait" THEN UnlockThings(State, t) ELSE State
       IN  Becomes([vm_object_deallocate(k, th[t].first) EXCEPT !.th[t] = Running])
    /\ UNCHANGED <<daemon, memory>>

-----------------------------------------------------------------------------
(* The default memory manager answers.                                     *)

Requested(o, x) == object[o].page[x].at = "absent" /\ object[o].page[x].busy

memory_object_data_provided(o, x) ==
    LET page == [Page("filled", object[o].saved[x], FALSE) EXCEPT !.busy = FALSE]
    IN  /\ Requested(o, x)
        /\ object[o].at = "live"
        /\ object[o].saved[x] # Nil
        /\ Becomes(PageWakeup(AbsentRelease(SetPage(State, o, x, page), o), o, x))
        /\ UNCHANGED <<daemon, memory>>

memory_object_data_unavailable(o, x) ==
    /\ Requested(o, x)
    /\ object[o].at = "live"
    /\ object[o].saved[x] = Nil
    /\ Becomes(PageWakeupDone(State, o, x))
    /\ UNCHANGED <<daemon, memory>>

-----------------------------------------------------------------------------
(* vm_pageout_scan takes an inactive page; vm_pageout_page writes it.      *)

PageoutStart(o, x) ==
    LET page == object[o].page[x]
        taken == pmap_page_protect(State, o, x)
        busy == [taken EXCEPT !.object[o].page[x].busy = TRUE]
        Created(k) == IF k.object[o].pager = "none"
                      THEN [k EXCEPT !.object[o].pager = "created"] ELSE k
    IN  /\ x \in MayPageout
        /\ daemon.at = "idle"
        /\ page.at = "filled" /\ ~page.busy
        /\ IF ~page.dirty
           THEN Becomes(vm_page_free(taken, o, x)) /\ UNCHANGED daemon
           ELSE \E got \in BOOLEAN :
                  LET k == vm_object_collapse(busy, o, got)
                  IN  /\ Becomes(vm_object_paging_begin(Created(k), o))
                      /\ daemon' = [at |-> IF k.object[o].pager = "none" THEN "create"
                                           ELSE "write", object |-> o, off |-> x]
        /\ UNCHANGED memory

\* vm_object_enter, for an internal object: the pager is ready at once.
PagerCreated ==
    /\ daemon.at = "create"
    /\ object' = [object EXCEPT ![daemon.object].pager = "ready"]
    /\ daemon' = [daemon EXCEPT !.at = "write"]
    /\ UNCHANGED <<map, pmap, th, memory>>

\* vm_pageout_setup moves the page to a new object, and the data is sent.
PageoutWrite ==
    LET o == daemon.object  x == daemon.off
        k == PageWakeup(SetPage(State, o, x, Page("holding", Zero, FALSE)), o, x)
    IN  /\ daemon.at = "write"
        /\ Becomes([k EXCEPT !.object[o].saved[x] = object[o].page[x].val])
        /\ daemon' = [daemon EXCEPT !.at = "end"]
        /\ UNCHANGED memory

PageoutEnd ==
    /\ daemon.at = "end"
    /\ Becomes(vm_object_paging_end(vm_page_free(State, daemon.object, daemon.off), daemon.object))
    /\ daemon' = Idle
    /\ UNCHANGED memory

-----------------------------------------------------------------------------

FaultStep(t) ==
    \/ Retry(t)
    \/ SearchAgain(t)
    \/ CopyPage(t) \/ CollapseTop(t)
    \/ VerifyAgain(t) \/ PmapEnter(t)

Answer(o, x) == memory_object_data_provided(o, x) \/ memory_object_data_unavailable(o, x)

Pageout == PagerCreated \/ PageoutWrite \/ PageoutEnd

Next ==
    \/ \E t \in Threads :
        \/ \E x \in Offsets :
            \/ \E v \in Values : Write(t, x, v)
            \/ \E write \in BOOLEAN : Fault(t, x, write)
        \/ FaultStep(t)
        \/ Interrupt(t)
    \/ \E a \in Tasks : vm_map_delete(a) \/ \E b \in Tasks : vm_map_fork(a, b)
    \/ \E o \in Objects :
        \/ vm_object_terminate(o)
        \/ \E x \in Offsets : Answer(o, x) \/ PageoutStart(o, x)
    \/ Pageout

Spec == Init /\ [][Next]_vars

-----------------------------------------------------------------------------
(* Properties.                                                             *)

TypeOK ==
    /\ \A o \in Objects :
        /\ object[o].at \in {"free", "live", "dying"}
        /\ object[o].shadow \in Objects \cup {Nil}
        /\ object[o].pager \in {"none", "created", "ready"}
        /\ object[o].ref_count \in Nat /\ object[o].paging_in_progress \in Nat
        /\ \A x \in Offsets :
            object[o].page[x] \in [at: {"none", "empty", "absent", "filled", "holding"},
                                   val: Values, busy: BOOLEAN, dirty: BOOLEAN]
    /\ map \in [Tasks -> [in: BOOLEAN, object: Objects \cup {Nil}, needs_copy: BOOLEAN]]
    /\ pmap \in [Tasks -> [Offsets -> [object: Objects \cup {Nil}, write: BOOLEAN]]]
    /\ \A t \in Threads : th[t].at \in {"run", "lookup", "search", "wait", "sleep", "copy",
                                        "collapse", "verify"}

\* What a search from this object finds.
Content(o, x) ==
    LET found[p \in Objects \cup {Nil}] ==
            IF p = Nil THEN Zero
            ELSE CASE object[p].page[x].at = "filled" -> object[p].page[x].val
                   [] object[p].page[x].at # "filled" /\ object[p].saved[x] # Nil ->
                        object[p].saved[x]
                   [] object[p].page[x].at # "filled" /\ object[p].saved[x] = Nil ->
                        found[object[p].shadow]
    IN  found[o]

\* "although the data referenced will remain the same" (vm_map.c:3211): whatever
\* faults, copies, collapses, bypasses and pageouts are under way, the entry of a
\* task leads to what it wrote, or to what its parent had written when it was forked.
EntriesKept ==
    \A a \in Tasks, x \in Offsets : map[a].in => Content(map[a].object, x) = memory[a][x]

\* "we have to flush all uses of the original page" (vm_fault.c:779): and so does its
\* physical map, which never points to a page that is gone or has been superseded.
MappingsKept ==
    \A a \in Tasks, x \in Offsets :
        LET o == pmap[a][x].object
        IN  map[a].in /\ o # Nil => /\ object[o].page[x].at = "filled"
                                   /\ object[o].page[x].val = memory[a][x]

\* A task sees its memory, through its physical map and through its entry.
MemoryKept == EntriesKept /\ MappingsKept

AtPage(t) == th[t].at \in {"search", "wait", "copy", "collapse", "verify"}

\* The holders of a busy page, and of an object's paging references.
Holders(o, x) ==
    {t \in Threads : th[t].off = x /\
        \/ AtPage(t) /\ th[t].first = o /\ th[t].cur # o
        \/ th[t].at \in {"copy", "collapse", "verify"} /\ th[t].cur = o}

Paging(o) ==
    Cardinality({t \in Threads : AtPage(t) /\ th[t].first = o})
    + Cardinality({t \in Threads : AtPage(t) /\ th[t].cur = o /\ th[t].first # o})
    + (IF daemon.object = o THEN 1 ELSE 0)

References(o) ==
    Cardinality({a \in Tasks : map[a].in /\ map[a].object = o})
    + Cardinality({p \in Objects : object[p].at # "free" /\ object[p].shadow = o})
    + Cardinality({t \in Threads : th[t].at \notin {"run", "lookup"} /\ th[t].first = o})

\* "At all times, we must either have the object lock or a busy page", "we must
\* keep a busy page in the top object", "We must increment paging_in_progress on
\* any object for which we have a busy page" (vm_fault.c:240): a busy page has one
\* holder, or is asked for; a page that is held is there and busy; references
\* and paging references are those of entries, shadows, faults and the daemon, so
\* that no object goes away under them or stays without them.
HeldExactly ==
    \A o \in Objects :
        /\ object[o].paging_in_progress = Paging(o)
        /\ object[o].ref_count = References(o)
        /\ object[o].at = "live" <=> References(o) > 0
        /\ \A x \in Offsets :
            LET held == Cardinality(Holders(o, x))
                        + IF daemon.object = o /\ daemon.off = x THEN 1 ELSE 0
            IN  IF object[o].page[x].busy /\ object[o].page[x].at # "absent"
                THEN held = 1 ELSE held = 0

\* "the number of pages for which the "absent" attribute is asserted"
\* (vm_object.h:119).
AbsentExact ==
    \A o \in Objects : object[o].at # "free" =>
        object[o].absent_count = Cardinality({x \in Offsets : object[o].page[x].at = "absent"})

\* "memory objects created by the kernel are assumed to be ready immediately"
\* (vm_object.c:1756): who sleeps until the pager is ready sleeps while it is not.
SleepersAreWoken ==
    \A t \in Threads : th[t].at = "sleep" => object[th[t].cur].pager = "created"

=============================================================================
