---------------------------- MODULE VmFaultProofs ----------------------------
(***************************************************************************)
(* Theorems about VmFault, for any threads, tasks, objects and offsets and *)
(* any choice of who reads, writes, forks, unmaps and is interrupted: what *)
(* faults and the pageout daemon hold, and what is counted.                *)
(***************************************************************************)
EXTENDS VmFault, FiniteSetTheorems, WellFoundedInduction, TLAPS

-----------------------------------------------------------------------------
(* Induction.                                                              *)

\* Every set of natural numbers has a least element.
LEMMA Least ==
  ASSUME NEW T \in SUBSET Nat, T # {}
  PROVE  \E m \in T : \A k \in T : m <= k
<1> DEFINE Segments == {0 .. k : k \in T}
<1>1. IsWellFoundedOn(StrictSubsetOrdering(Nat), FiniteSubsetsOf(Nat))
  BY FS_StrictSubsetOrderingWellFounded
<1>2. Segments \subseteq FiniteSubsetsOf(Nat)
  <2>1. \A k \in T : 0 .. k \subseteq Nat /\ IsFiniteSet(0 .. k)
    BY FS_Interval
  <2> QED
    BY <2>1 DEF FiniteSubsetsOf
<1>3. Segments # {}
  OBVIOUS
<1> HIDE DEF Segments
<1>4. PICK s \in Segments :
        \A r \in Segments : ~ (<<r, s>> \in StrictSubsetOrdering(Nat))
  BY <1>1, <1>2, <1>3, WFMin
<1>5. PICK m \in T : s = 0 .. m
  BY DEF Segments
<1>6. ASSUME NEW k \in T, k < m
      PROVE  FALSE
  <2>1. 0 .. k \in Segments
    BY DEF Segments
  <2>2. 0 .. k \subseteq Nat /\ 0 .. m \subseteq Nat
    OBVIOUS
  <2>3. 0 .. k \subseteq 0 .. m /\ 0 .. k # 0 .. m
    <3>1. m \in 0 .. m /\ ~ (m \in 0 .. k)
      BY <1>6
    <3> QED
      BY <1>6, <3>1
  <2>4. <<0 .. k, 0 .. m>> \in StrictSubsetOrdering(Nat)
    BY <2>2, <2>3 DEF StrictSubsetOrdering
  <2> QED
    BY <1>4, <1>5, <2>1, <2>4
<1> QED
  BY <1>5, <1>6

\* Induction on the numbers up to N, for a set.
LEMMA UpTo ==
  ASSUME NEW N \in Nat, NEW A \in SUBSET (0 .. N), 0 \in A,
         \A n \in 0 .. N : n + 1 \in 0 .. N /\ n \in A => n + 1 \in A
  PROVE  A = 0 .. N
<1> SUFFICES ASSUME NEW n \in 0 .. N, n \notin A
             PROVE  FALSE
  OBVIOUS
<1> DEFINE T == {i \in 0 .. N : i \notin A}
<1>1. T \in SUBSET Nat /\ T # {}
  OBVIOUS
<1>2. PICK m \in T : \A k \in T : m <= k
  BY <1>1, Least
<1>3. m # 0 /\ m - 1 \in 0 .. N /\ m - 1 \notin T
  BY <1>2
<1> QED
  BY <1>3

\* A function on 0 .. N is defined by its first value and what follows each.
Computes(r, N, V, c, G) ==
    r \in [0 .. N -> V] /\ r[0] = c /\ \A n \in 1 .. N : r[n] = G[n][r[n - 1]]

\* The steps G lead somewhere.
LEMMA Recursion ==
  ASSUME NEW N \in Nat, NEW V, NEW c \in V, NEW G \in [1 .. N -> [V -> V]]
  PROVE  \E r : Computes(r, N, V, c, G)
<1> DEFINE Good(r, m) == r[0] = c /\ \A n \in 1 .. m : r[n] = G[n][r[n - 1]]
           A == {m \in 0 .. N : \E r \in [0 .. N -> V] : Good(r, m)}
<1>1. 0 \in A
  <2> DEFINE r == [n \in 0 .. N |-> c]
  <2>1. r \in [0 .. N -> V] /\ r[0] = c /\ \A n \in 1 .. 0 : FALSE
    OBVIOUS
  <2> HIDE DEF r
  <2>2. Good(r, 0)
    BY <2>1
  <2> HIDE DEF Good
  <2> QED
    BY <2>1, <2>2
<1>2. ASSUME NEW m \in 0 .. N, m + 1 \in 0 .. N, m \in A PROVE m + 1 \in A
  <2>1. PICK r \in [0 .. N -> V] : Good(r, m)
    BY <1>2
  <2> DEFINE v == G[m + 1][r[m]]
             g == [r EXCEPT ![m + 1] = v]
  <2>2. v \in V
    <3>1. m + 1 \in 1 .. N
      BY <1>2
    <3> QED
      BY <3>1
  <2> HIDE DEF v
  <2>3. g \in [0 .. N -> V] /\ g[m + 1] = v /\ \A n \in 0 .. m : g[n] = r[n]
    BY <1>2, <2>2
  <2> HIDE DEF g
  <2>4. ASSUME NEW n \in 1 .. m + 1 PROVE g[n] = G[n][g[n - 1]]
    <3>1. CASE n = m + 1
      <4>1. n - 1 = m /\ m \in 0 .. m
        BY <1>2, <3>1
      <4>2. g[n - 1] = r[m]
        BY <2>3, <4>1
      <4> QED
        BY <2>3, <3>1, <4>2 DEF v
    <3>2. CASE n # m + 1
      <4>1. n \in 1 .. m /\ n \in 0 .. m /\ n - 1 \in 0 .. m
        BY <1>2, <3>2
      <4>2. r[n] = G[n][r[n - 1]]
        BY <2>1, <4>1
      <4> QED
        BY <2>3, <4>1, <4>2
    <3> QED
      BY <3>1, <3>2
  <2>5. g[0] = c
    BY <1>2, <2>1, <2>3
  <2>6. Good(g, m + 1)
    BY <2>4, <2>5
  <2> HIDE DEF Good
  <2> QED
    BY <1>2, <2>3, <2>6
<1> HIDE DEF Good
<1>3. A = 0 .. N
  <2> HIDE DEF A
  <2>1. A \in SUBSET (0 .. N)
    BY DEF A
  <2> QED
    BY <1>1, <1>2, <2>1, UpTo
<1>4. N \in A
  BY <1>3
<1> QED
  BY <1>4 DEF Good, Computes

-----------------------------------------------------------------------------
(* The inductive invariant, on kernel states as routines pass them on.     *)

AnyOffset == Offsets \cup {CHOOSE x \in Offsets : TRUE}

PageRecord ==
    [at: {"none", "empty", "absent", "filled", "holding"}, val: Values,
     busy: BOOLEAN, dirty: BOOLEAN]

ObjectRecord ==
    [at: {"free", "live", "dying"}, ref_count: Nat, shadow: Objects \cup {Nil},
     paging_in_progress: Nat, absent_count: Int, pager: {"none", "created", "ready"},
     saved: [Offsets -> Values \cup {Nil}], page: [Offsets -> PageRecord]]

EntryRecord == [in: BOOLEAN, object: Objects \cup {Nil}, needs_copy: BOOLEAN]
Mapped == [object: Objects \cup {Nil}, write: BOOLEAN]

\* A thread that collapses a chain, or the daemon, has given its paging
\* reference up meanwhile, and is alone with the object.
FaultRecord ==
    [at: {"run", "lookup", "search", "wait", "sleep", "copy", "collapse", "verify", "alone"},
     off: AnyOffset, write: BOOLEAN, prot: BOOLEAN, first: Objects \cup {Nil},
     cur: Objects \cup {Nil}, stale: BOOLEAN]
DaemonRecord ==
    [at: {"idle", "create", "write", "end", "alone"}, object: Objects \cup {Nil},
     off: AnyOffset]

Kernels ==
    [object: [Objects -> ObjectRecord], map: [Tasks -> EntryRecord],
     pmap: [Tasks -> [Offsets -> Mapped]], th: [Threads -> FaultRecord]]

\* What a thread has in hand: an object it refers to, paging references, the
\* busy page of the top object while it works further down, the page it found.
Uses(r) == r.at \notin {"run", "lookup"}
Pages(r) == r.at \in {"search", "wait", "copy", "collapse", "verify"}
HoldsFirst(r, o, x) == Pages(r) /\ r.first # r.cur /\ r.first = o /\ r.off = x
HoldsFound(r, o, x) == r.at \in {"copy", "collapse", "verify", "alone"} /\ r.cur = o /\ r.off = x
Holds(r, o, x) == HoldsFirst(r, o, x) \/ HoldsFound(r, o, x)
DaemonHolds(d, o, x) == d.at # "idle" /\ d.object = o /\ d.off = x

FaultOK(r) ==
    /\ r.at # "run" => r.off \in Offsets
    /\ Uses(r) => r.first \in Objects
    /\ Pages(r) => r.cur \in Objects
    /\ r.at \in {"collapse", "alone"} => r.cur = r.first
    /\ r.at = "copy" => r.cur # r.first

DaemonOK(d) ==
    IF d.at = "idle" THEN d.object = Nil ELSE d.object \in Objects /\ d.off \in Offsets

\* A page that nobody has filled yet is busy; the slot of none is not.
PageOK(p) ==
    /\ p.at = "none" => ~ p.busy
    /\ p.at \in {"empty", "holding"} => p.busy

Kept(p) == p.busy /\ p.at # "absent"

\* A page has at most one holder, and is as the holder left it; one that is
\* busy, and not because the pager was asked for it, has a holder.
PageHeld(O, T, d, o, x) ==
    LET p == O[o].page[x]
    IN  /\ PageOK(p)
        /\ \A t \in Threads :
            /\ HoldsFirst(T[t], o, x) => p.at = "empty" /\ p.busy
            /\ HoldsFound(T[t], o, x) => p.at = "filled" /\ p.busy
            /\ Holds(T[t], o, x) =>
                /\ ~ DaemonHolds(d, o, x)
                /\ \A u \in Threads : Holds(T[u], o, x) => u = t
        /\ DaemonHolds(d, o, x) =>
                p.busy /\ p.at = IF d.at = "end" THEN "holding" ELSE "filled"
        /\ Kept(p) => DaemonHolds(d, o, x) \/ \E t \in Threads : Holds(T[t], o, x)

PagesHeld(O, T, d) == \A o \in Objects, x \in Offsets : PageHeld(O, T, d, o, x)

\* The references to an object.
MapRefs(M, o) == Cardinality({a \in Tasks : M[a].in /\ M[a].object = o})
ShadowRefs(O, o) == Cardinality({p \in Objects : O[p].at # "free" /\ O[p].shadow = o})
FaultRefs(T, o) == Cardinality({t \in Threads : Uses(T[t]) /\ T[t].first = o})
Refs(O, M, T, o) == MapRefs(M, o) + ShadowRefs(O, o) + FaultRefs(T, o)

FaultPaging(T, o) ==
    Cardinality({t \in Threads : Pages(T[t]) /\ (T[t].first = o \/ T[t].cur = o)})
DaemonPaging(d, o) == IF d.object = o /\ d.at # "alone" THEN 1 ELSE 0

One(b) == IF b THEN 1 ELSE 0

\* The counts are exact, but for a reference to e that the routine in progress
\* has still to give up.
Counted(O, M, T, d, e) ==
    \A o \in Objects :
        /\ O[o].ref_count = Refs(O, M, T, o) + One(o = e)
        /\ O[o].at = "live" <=> O[o].ref_count > 0
        /\ O[o].paging_in_progress = FaultPaging(T, o) + DaemonPaging(d, o)

\* A free object has nothing.
FreeIsClean(O) ==
    \A o \in Objects : O[o].at = "free" =>
        /\ O[o].shadow = Nil /\ O[o].paging_in_progress = 0
        /\ \A x \in Offsets : O[o].page[x].at = "none"

\* Chains have an end: a search never comes back to the object it began with.
Descends(O, T, rank) ==
    /\ \A o \in Objects : O[o].shadow # Nil => rank[O[o].shadow] < rank[o]
    /\ \A t \in Threads :
        Pages(T[t]) /\ T[t].cur # T[t].first => rank[T[t].cur] < rank[T[t].first]

Chained(O, T) == \E rank \in [Objects -> Nat] : Descends(O, T, rank)

\* All of this.
Good(O, M, T, d, e) ==
    /\ O \in [Objects -> ObjectRecord] /\ M \in [Tasks -> EntryRecord]
    /\ T \in [Threads -> FaultRecord] /\ d \in DaemonRecord
    /\ \A t \in Threads : FaultOK(T[t])
    /\ DaemonOK(d)
    /\ PagesHeld(O, T, d)
    /\ Counted(O, M, T, d, e)
    /\ FreeIsClean(O)
    /\ Chained(O, T)

VInv(k, d, e) == k \in Kernels /\ Good(k.object, k.map, k.th, d, e)

IInv ==
    /\ VInv(State, daemon, Nil)
    /\ \A t \in Threads : th[t].at # "alone"
    /\ daemon.at # "alone"

-----------------------------------------------------------------------------
(* Counting.                                                               *)

\* Sets that differ in one element.
LEMMA CountOne ==
  ASSUME NEW Y, IsFiniteSet(Y), NEW S \in SUBSET Y, NEW S2 \in SUBSET Y, NEW x,
         \A y \in Y : y # x => (y \in S <=> y \in S2)
  PROVE  /\ Cardinality(S) \in Nat /\ Cardinality(S2) \in Nat
         /\ Cardinality(S2) + One(x \in S) = Cardinality(S) + One(x \in S2)
<1>1. IsFiniteSet(S) /\ IsFiniteSet(S2)
  BY FS_Subset
<1>2. Cardinality(S) \in Nat /\ Cardinality(S2) \in Nat
  BY <1>1, FS_CardinalityType
<1>3. CASE x \in S /\ x \in S2
  <2>1. S = S2
    BY <1>3
  <2> QED
    BY <1>2, <1>3, <2>1 DEF One
<1>4. CASE x \notin S /\ x \notin S2
  <2>1. S = S2
    BY <1>4
  <2> QED
    BY <1>2, <1>4, <2>1 DEF One
<1>5. CASE x \in S /\ x \notin S2
  <2>1. S = S2 \cup {x}
    BY <1>5
  <2>2. Cardinality(S2 \cup {x}) = Cardinality(S2) + 1
    BY <1>1, <1>5, FS_AddElement
  <2> QED
    BY <1>2, <1>5, <2>1, <2>2 DEF One
<1>6. CASE x \notin S /\ x \in S2
  <2>1. S2 = S \cup {x}
    BY <1>6
  <2>2. Cardinality(S \cup {x}) = Cardinality(S) + 1
    BY <1>1, <1>6, FS_AddElement
  <2> QED
    BY <1>2, <1>6, <2>1, <2>2 DEF One
<1> QED
  BY <1>2, <1>3, <1>4, <1>5, <1>6

\* Who is counted.
LEMMA CountPositive ==
  ASSUME NEW Y, IsFiniteSet(Y), NEW S \in SUBSET Y
  PROVE  /\ Cardinality(S) \in Nat
         /\ Cardinality(S) > 0 <=> S # {}
         /\ \A x \in S : Cardinality(S) = 1 => S = {x}
<1>1. IsFiniteSet(S)
  BY FS_Subset
<1>2. Cardinality(S) \in Nat
  BY <1>1, FS_CardinalityType
<1>3. Cardinality(S) = 0 <=> S = {}
  BY <1>1, FS_EmptySet
<1>4. ASSUME NEW x \in S, Cardinality(S) = 1 PROVE S = {x}
  <2>1. IsFiniteSet(S \ {x}) /\ Cardinality(S \ {x}) = Cardinality(S) - 1
    BY <1>1, <1>4, FS_RemoveElement
  <2>2. S \ {x} = {}
    BY <1>4, <2>1, FS_EmptySet
  <2> QED
    BY <1>4, <2>2
<1> QED
  BY <1>2, <1>3, <1>4

\* A thread keeps what it has in hand when the map has changed, or when it is
\* told that a page is there.
SameFault(r, r2) ==
    /\ r2.first = r.first /\ r2.cur = r.cur /\ r2.off = r.off
    /\ r2.at = r.at \/ (r.at = "wait" /\ r2.at = "search")

OthersSame(T, T2, t) ==
    /\ T2 \in [Threads -> FaultRecord]
    /\ \A u \in Threads \ {t} : SameFault(T[u], T2[u])

AllSame(T, T2) ==
    /\ T2 \in [Threads -> FaultRecord]
    /\ \A u \in Threads : SameFault(T[u], T2[u])

\* It holds what it held.
LEMMA SameFaultIs ==
  ASSUME NEW r, NEW r2, SameFault(r, r2)
  PROVE  /\ Uses(r2) <=> Uses(r)
         /\ Pages(r2) <=> Pages(r)
         /\ \A o, x : /\ HoldsFirst(r2, o, x) <=> HoldsFirst(r, o, x)
                      /\ HoldsFound(r2, o, x) <=> HoldsFound(r, o, x)
                      /\ Holds(r2, o, x) <=> Holds(r, o, x)
         /\ FaultOK(r) => FaultOK(r2)
         /\ r2.at = "alone" <=> r.at = "alone"
<1>1. /\ r2.first = r.first /\ r2.cur = r.cur /\ r2.off = r.off
      /\ r2.at = r.at \/ (r.at = "wait" /\ r2.at = "search")
  BY DEF SameFault
<1>2. (Uses(r2) <=> Uses(r)) /\ (Pages(r2) <=> Pages(r))
  BY <1>1 DEF Uses, Pages
<1>3. r2.at \in {"copy", "collapse", "verify", "alone"} <=> r.at \in {"copy", "collapse", "verify", "alone"}
  BY <1>1
<1>4. \A o, x : /\ HoldsFirst(r2, o, x) <=> HoldsFirst(r, o, x)
                /\ HoldsFound(r2, o, x) <=> HoldsFound(r, o, x)
  BY <1>1, <1>2, <1>3 DEF HoldsFirst, HoldsFound
<1>5. FaultOK(r) => FaultOK(r2)
  BY <1>1, <1>2 DEF FaultOK
<1> QED
  BY <1>1, <1>2, <1>4, <1>5 DEF Holds

\* What a thread adds to the references and to the paging references of o.
Refers(r, o) == Uses(r) /\ r.first = o
PagesAt(r, o) == Pages(r) /\ (r.first = o \/ r.cur = o)

\* The counts of the faults, when one thread goes on.
LEMMA FaultCounts ==
  ASSUME NEW T, NEW T2, NEW t \in Threads, OthersSame(T, T2, t), NEW o
  PROVE  /\ FaultRefs(T, o) \in Nat /\ FaultRefs(T2, o) \in Nat
         /\ FaultPaging(T, o) \in Nat /\ FaultPaging(T2, o) \in Nat
         /\ FaultRefs(T2, o) + One(Refers(T[t], o)) = FaultRefs(T, o) + One(Refers(T2[t], o))
         /\ FaultPaging(T2, o) + One(PagesAt(T[t], o)) = FaultPaging(T, o) + One(PagesAt(T2[t], o))
<1> DEFINE R(f) == {u \in Threads : Uses(f[u]) /\ f[u].first = o}
           P(f) == {u \in Threads : Pages(f[u]) /\ (f[u].first = o \/ f[u].cur = o)}
<1>1. \A u \in Threads : u # t => (u \in R(T) <=> u \in R(T2)) /\ (u \in P(T) <=> u \in P(T2))
  <2> SUFFICES ASSUME NEW u \in Threads, u # t
               PROVE  (u \in R(T) <=> u \in R(T2)) /\ (u \in P(T) <=> u \in P(T2))
    OBVIOUS
  <2>1. SameFault(T[u], T2[u])
    BY DEF OthersSame
  <2>2. /\ Uses(T2[u]) <=> Uses(T[u])
        /\ Pages(T2[u]) <=> Pages(T[u])
        /\ T2[u].first = T[u].first /\ T2[u].cur = T[u].cur
    BY <2>1, SameFaultIs DEF SameFault
  <2> QED
    BY <2>2
<1>2. R(T) \in SUBSET Threads /\ R(T2) \in SUBSET Threads /\ P(T) \in SUBSET Threads
          /\ P(T2) \in SUBSET Threads
  OBVIOUS
<1>3. /\ t \in R(T) <=> Refers(T[t], o)
      /\ t \in R(T2) <=> Refers(T2[t], o)
      /\ t \in P(T) <=> PagesAt(T[t], o)
      /\ t \in P(T2) <=> PagesAt(T2[t], o)
  BY DEF Refers, PagesAt
<1>4. IsFiniteSet(Threads)
  BY VmFinite
<1>5. /\ FaultRefs(T, o) = Cardinality(R(T)) /\ FaultRefs(T2, o) = Cardinality(R(T2))
      /\ FaultPaging(T, o) = Cardinality(P(T)) /\ FaultPaging(T2, o) = Cardinality(P(T2))
  BY DEF FaultRefs, FaultPaging
<1> HIDE DEF R, P
<1>6. /\ Cardinality(R(T)) \in Nat /\ Cardinality(R(T2)) \in Nat
      /\ Cardinality(R(T2)) + One(t \in R(T)) = Cardinality(R(T)) + One(t \in R(T2))
  BY <1>1, <1>2, <1>4, CountOne
<1>7. /\ Cardinality(P(T)) \in Nat /\ Cardinality(P(T2)) \in Nat
      /\ Cardinality(P(T2)) + One(t \in P(T)) = Cardinality(P(T)) + One(t \in P(T2))
  BY <1>1, <1>2, <1>4, CountOne
<1> QED
  BY <1>3, <1>5, <1>6, <1>7 DEF One

\* They stay when no thread's hands change.
LEMMA FaultsSame ==
  ASSUME NEW T, NEW T2, AllSame(T, T2), NEW o
  PROVE  FaultRefs(T2, o) = FaultRefs(T, o) /\ FaultPaging(T2, o) = FaultPaging(T, o)
<1>1. \A u \in Threads : /\ Uses(T2[u]) <=> Uses(T[u])
                         /\ Pages(T2[u]) <=> Pages(T[u])
                         /\ T2[u].first = T[u].first /\ T2[u].cur = T[u].cur
  BY SameFaultIs DEF AllSame, SameFault
<1>2. {u \in Threads : Uses(T2[u]) /\ T2[u].first = o} = {u \in Threads : Uses(T[u]) /\ T[u].first = o}
  BY <1>1
<1>3. {u \in Threads : Pages(T2[u]) /\ (T2[u].first = o \/ T2[u].cur = o)}
        = {u \in Threads : Pages(T[u]) /\ (T[u].first = o \/ T[u].cur = o)}
  BY <1>1
<1> QED
  BY <1>2, <1>3 DEF FaultRefs, FaultPaging

\* The counts of the entries, when one changes.
Maps(M, a, o) == M[a].in /\ M[a].object = o

\* One entry changes: its own reference is gone or new, and no other.
LEMMA MapCounts ==
  ASSUME NEW M, NEW M2, NEW a \in Tasks, \A b \in Tasks \ {a} : M2[b] = M[b], NEW o
  PROVE  /\ MapRefs(M, o) \in Nat /\ MapRefs(M2, o) \in Nat
         /\ MapRefs(M2, o) + One(Maps(M, a, o)) = MapRefs(M, o) + One(Maps(M2, a, o))
<1> DEFINE R(f) == {b \in Tasks : f[b].in /\ f[b].object = o}
<1>1. \A b \in Tasks : b # a => (b \in R(M) <=> b \in R(M2))
  OBVIOUS
<1>2. R(M) \in SUBSET Tasks /\ R(M2) \in SUBSET Tasks
  OBVIOUS
<1>3. (a \in R(M) <=> Maps(M, a, o)) /\ (a \in R(M2) <=> Maps(M2, a, o))
  BY DEF Maps
<1>4. IsFiniteSet(Tasks)
  BY VmFinite
<1>5. MapRefs(M, o) = Cardinality(R(M)) /\ MapRefs(M2, o) = Cardinality(R(M2))
  BY DEF MapRefs
<1> HIDE DEF R
<1>6. /\ Cardinality(R(M)) \in Nat /\ Cardinality(R(M2)) \in Nat
      /\ Cardinality(R(M2)) + One(a \in R(M)) = Cardinality(R(M)) + One(a \in R(M2))
  BY <1>1, <1>2, <1>4, CountOne
<1> QED
  BY <1>3, <1>5, <1>6 DEF One

\* The counts of the shadows, when one object changes.
Shadows(O, p, o) == O[p].at # "free" /\ O[p].shadow = o

\* One object changes: so does what it shadows, and nothing else.
LEMMA ShadowCounts ==
  ASSUME NEW O, NEW O2, NEW p \in Objects, NEW o,
         \A q \in Objects \ {p} : Shadows(O2, q, o) <=> Shadows(O, q, o)
  PROVE  /\ ShadowRefs(O, o) \in Nat /\ ShadowRefs(O2, o) \in Nat
         /\ ShadowRefs(O2, o) + One(Shadows(O, p, o)) = ShadowRefs(O, o) + One(Shadows(O2, p, o))
<1> DEFINE R(f) == {q \in Objects : f[q].at # "free" /\ f[q].shadow = o}
<1>1. \A q \in Objects : q # p => (q \in R(O) <=> q \in R(O2))
  BY DEF Shadows
<1>2. R(O) \in SUBSET Objects /\ R(O2) \in SUBSET Objects
  OBVIOUS
<1>3. (p \in R(O) <=> Shadows(O, p, o)) /\ (p \in R(O2) <=> Shadows(O2, p, o))
  BY DEF Shadows
<1>4. IsFiniteSet(Objects)
  BY VmFinite
<1>5. ShadowRefs(O, o) = Cardinality(R(O)) /\ ShadowRefs(O2, o) = Cardinality(R(O2))
  BY DEF ShadowRefs
<1> HIDE DEF R
<1>6. /\ Cardinality(R(O)) \in Nat /\ Cardinality(R(O2)) \in Nat
      /\ Cardinality(R(O2)) + One(p \in R(O)) = Cardinality(R(O)) + One(p \in R(O2))
  BY <1>1, <1>2, <1>4, CountOne
<1> QED
  BY <1>3, <1>5, <1>6 DEF One

\* The shadows are counted as before.
LEMMA ShadowsSame ==
  ASSUME NEW O, NEW O2, NEW o,
         \A q \in Objects : Shadows(O2, q, o) <=> Shadows(O, q, o)
  PROVE  ShadowRefs(O2, o) = ShadowRefs(O, o)
<1>1. {q \in Objects : O2[q].at # "free" /\ O2[q].shadow = o} = {q \in Objects : O[q].at # "free"
          /\ O[q].shadow = o}
  BY DEF Shadows
<1> QED
  BY <1>1 DEF ShadowRefs

\* All the counts are numbers, and who refers is counted.
LEMMA Counts ==
  ASSUME NEW O, NEW M, NEW T, NEW o
  PROVE  /\ MapRefs(M, o) \in Nat /\ ShadowRefs(O, o) \in Nat /\ FaultRefs(T, o) \in Nat
         /\ FaultPaging(T, o) \in Nat
         /\ \A a \in Tasks : M[a].in /\ M[a].object = o => MapRefs(M, o) > 0
         /\ \A p \in Objects : Shadows(O, p, o) => ShadowRefs(O, o) > 0
         /\ \A t \in Threads : Refers(T[t], o) => FaultRefs(T, o) > 0
         /\ \A t \in Threads : PagesAt(T[t], o) => FaultPaging(T, o) > 0
         /\ \A p \in Objects, q \in Objects :
                Shadows(O, p, o) /\ Shadows(O, q, o) /\ ShadowRefs(O, o) = 1 => p = q
<1>1. IsFiniteSet(Threads) /\ IsFiniteSet(Tasks) /\ IsFiniteSet(Objects)
  BY VmFinite
<1> DEFINE A == {a \in Tasks : M[a].in /\ M[a].object = o}
           B == {p \in Objects : O[p].at # "free" /\ O[p].shadow = o}
           C == {t \in Threads : Uses(T[t]) /\ T[t].first = o}
           D == {t \in Threads : Pages(T[t]) /\ (T[t].first = o \/ T[t].cur = o)}
<1>2. A \in SUBSET Tasks /\ B \in SUBSET Objects /\ C \in SUBSET Threads /\ D \in SUBSET Threads
  OBVIOUS
<1>3. /\ MapRefs(M, o) = Cardinality(A) /\ ShadowRefs(O, o) = Cardinality(B)
      /\ FaultRefs(T, o) = Cardinality(C) /\ FaultPaging(T, o) = Cardinality(D)
  BY DEF MapRefs, ShadowRefs, FaultRefs, FaultPaging
<1>4. /\ \A a \in Tasks : M[a].in /\ M[a].object = o => a \in A
      /\ \A p \in Objects : Shadows(O, p, o) => p \in B
      /\ \A t \in Threads : Refers(T[t], o) => t \in C
      /\ \A t \in Threads : PagesAt(T[t], o) => t \in D
  BY DEF Shadows, Refers, PagesAt
<1> HIDE DEF A, B, C, D
<1>5. Cardinality(A) \in Nat /\ (Cardinality(A) > 0 <=> A # {})
  BY <1>1, <1>2, CountPositive
<1>6. /\ Cardinality(B) \in Nat /\ (Cardinality(B) > 0 <=> B # {})
      /\ \A x \in B : Cardinality(B) = 1 => B = {x}
  BY <1>1, <1>2, CountPositive
<1>7. Cardinality(C) \in Nat /\ (Cardinality(C) > 0 <=> C # {})
  BY <1>1, <1>2, CountPositive
<1>8. Cardinality(D) \in Nat /\ (Cardinality(D) > 0 <=> D # {})
  BY <1>1, <1>2, CountPositive
<1>9. \A p \in Objects, q \in Objects :
                Shadows(O, p, o) /\ Shadows(O, q, o) /\ ShadowRefs(O, o) = 1 => p = q
  BY <1>3, <1>4, <1>6
<1> QED
  BY <1>3, <1>4, <1>5, <1>6, <1>7, <1>8, <1>9

-----------------------------------------------------------------------------
(* Pages and their holders.                                                *)

\* Nobody but t holds the page.
Sole(T, d, t, o, x) ==
    ~ DaemonHolds(d, o, x) /\ \A u \in Threads \ {t} : ~ Holds(T[u], o, x)

\* A page that is not busy is nobody's, and one that somebody holds is nobody
\* else's.
LEMMA HolderIs ==
  ASSUME NEW O, NEW T, NEW d, NEW o \in Objects, NEW x \in Offsets, PagesHeld(O, T, d)
  PROVE  /\ PageOK(O[o].page[x])
         /\ ~ Kept(O[o].page[x]) =>
                ~ DaemonHolds(d, o, x) /\ \A u \in Threads : ~ Holds(T[u], o, x)
         /\ \A t \in Threads : Holds(T[t], o, x) => Sole(T, d, t, o, x)
         /\ DaemonHolds(d, o, x) => \A u \in Threads : ~ Holds(T[u], o, x)
<1>1. PageHeld(O, T, d, o, x)
  BY DEF PagesHeld
<1> DEFINE p == O[o].page[x]
<1>2. PageOK(p)
  BY <1>1 DEF PageHeld
<1>3. ASSUME NEW t \in Threads, Holds(T[t], o, x)
      PROVE  Kept(p) /\ ~ DaemonHolds(d, o, x) /\ \A u \in Threads : Holds(T[u], o, x) => u = t
  BY <1>1, <1>3 DEF PageHeld, Holds, Kept
<1>4. DaemonHolds(d, o, x) => Kept(p)
  BY <1>1 DEF PageHeld, Kept
<1> QED
  BY <1>2, <1>3, <1>4 DEF Sole

SameHeld(p, p2) == p2.at = p.at /\ p2.busy = p.busy

\* A page that a step leaves alone.
OtherPage(O, O2, r, r2, o, x) ==
    /\ SameHeld(O[o].page[x], O2[o].page[x])
    /\ HoldsFirst(r2, o, x) <=> HoldsFirst(r, o, x)
    /\ HoldsFound(r2, o, x) <=> HoldsFound(r, o, x)

\* A page of t's, after a step: it is as t holds it.
HeldAs(p, r, o, x) ==
    /\ PageOK(p)
    /\ HoldsFirst(r, o, x) => p.at = "empty" /\ p.busy
    /\ HoldsFound(r, o, x) => p.at = "filled" /\ p.busy
    /\ Kept(p) => Holds(r, o, x)

OwnPage(O2, T, d, t, r2, o, x) == Sole(T, d, t, o, x) /\ HeldAs(O2[o].page[x], r2, o, x)

\* Each page is one or the other.
LEMMA PagesStep ==
  ASSUME NEW O, NEW O2, NEW T, NEW T2, NEW d, NEW t \in Threads,
         PagesHeld(O, T, d), OthersSame(T, T2, t),
         \A o \in Objects, x \in Offsets :
            OtherPage(O, O2, T[t], T2[t], o, x) \/ OwnPage(O2, T, d, t, T2[t], o, x)
  PROVE  PagesHeld(O2, T2, d)
<1> SUFFICES ASSUME NEW o \in Objects, NEW x \in Offsets PROVE PageHeld(O2, T2, d, o, x)
  BY DEF PagesHeld
<1> DEFINE p == O[o].page[x]
           p2 == O2[o].page[x]
<1>1. PageHeld(O, T, d, o, x)
  BY DEF PagesHeld
<1>2. \A u \in Threads \ {t} : /\ HoldsFirst(T2[u], o, x) <=> HoldsFirst(T[u], o, x)
                               /\ HoldsFound(T2[u], o, x) <=> HoldsFound(T[u], o, x)
                               /\ Holds(T2[u], o, x) <=> Holds(T[u], o, x)
  BY SameFaultIs DEF OthersSame
<1>3. CASE OtherPage(O, O2, T[t], T2[t], o, x)
  <2>1. \A u \in Threads : /\ HoldsFirst(T2[u], o, x) <=> HoldsFirst(T[u], o, x)
                           /\ HoldsFound(T2[u], o, x) <=> HoldsFound(T[u], o, x)
                           /\ Holds(T2[u], o, x) <=> Holds(T[u], o, x)
    BY <1>2, <1>3 DEF OtherPage, Holds
  <2>2. p2.at = p.at /\ p2.busy = p.busy
    BY <1>3 DEF OtherPage, SameHeld
  <2>3. (PageOK(p2) <=> PageOK(p)) /\ (Kept(p2) <=> Kept(p))
    BY <2>2 DEF PageOK, Kept
  <2> HIDE DEF p, p2
  <2>4. PageHeld(O, T, d, o, x) <=>
          /\ PageOK(p)
          /\ \A u \in Threads :
            /\ HoldsFirst(T[u], o, x) => p.at = "empty" /\ p.busy
            /\ HoldsFound(T[u], o, x) => p.at = "filled" /\ p.busy
            /\ Holds(T[u], o, x) =>
                /\ ~ DaemonHolds(d, o, x)
                /\ \A w \in Threads : Holds(T[w], o, x) => w = u
          /\ DaemonHolds(d, o, x) =>
                p.busy /\ p.at = IF d.at = "end" THEN "holding" ELSE "filled"
          /\ Kept(p) => DaemonHolds(d, o, x) \/ \E u \in Threads : Holds(T[u], o, x)
    BY DEF PageHeld, p
  <2>5. PageHeld(O2, T2, d, o, x) <=>
          /\ PageOK(p2)
          /\ \A u \in Threads :
            /\ HoldsFirst(T2[u], o, x) => p2.at = "empty" /\ p2.busy
            /\ HoldsFound(T2[u], o, x) => p2.at = "filled" /\ p2.busy
            /\ Holds(T2[u], o, x) =>
                /\ ~ DaemonHolds(d, o, x)
                /\ \A w \in Threads : Holds(T2[w], o, x) => w = u
          /\ DaemonHolds(d, o, x) =>
                p2.busy /\ p2.at = IF d.at = "end" THEN "holding" ELSE "filled"
          /\ Kept(p2) => DaemonHolds(d, o, x) \/ \E u \in Threads : Holds(T2[u], o, x)
    BY DEF PageHeld, p2
  <2> QED
    BY <1>1, <2>1, <2>2, <2>3, <2>4, <2>5
<1>4. CASE OwnPage(O2, T, d, t, T2[t], o, x)
  <2>1. ~ DaemonHolds(d, o, x) /\ \A u \in Threads \ {t} : ~ Holds(T2[u], o, x)
    BY <1>2, <1>4 DEF OwnPage, Sole
  <2>2. HeldAs(p2, T2[t], o, x)
    BY <1>4 DEF OwnPage
  <2>3. ASSUME NEW u \in Threads
        PROVE  /\ HoldsFirst(T2[u], o, x) => p2.at = "empty" /\ p2.busy
               /\ HoldsFound(T2[u], o, x) => p2.at = "filled" /\ p2.busy
               /\ Holds(T2[u], o, x) => \A w \in Threads : Holds(T2[w], o, x) => w = u
    <3>1. CASE u = t
      BY <2>1, <2>2, <3>1 DEF HeldAs
    <3>2. CASE u # t
      BY <2>1, <3>2 DEF Holds
    <3> QED
      BY <3>1, <3>2
  <2>4. PageOK(p2) /\ (Kept(p2) => Holds(T2[t], o, x))
    BY <2>2 DEF HeldAs
  <2> QED
    BY <2>1, <2>3, <2>4 DEF PageHeld
<1> QED
  BY <1>3, <1>4

\* The daemon's page.
DaemonPage(p, d2, o, x) ==
    /\ PageOK(p)
    /\ DaemonHolds(d2, o, x) => p.busy /\ p.at = IF d2.at = "end" THEN "holding" ELSE "filled"
    /\ Kept(p) => DaemonHolds(d2, o, x)

\* Steps of the daemon's, or of nobody who holds a page.
LEMMA DaemonPagesStep ==
  ASSUME NEW O, NEW O2, NEW T, NEW T2, NEW d, NEW d2,
         PagesHeld(O, T, d), AllSame(T, T2),
         \A o \in Objects, x \in Offsets :
            \/ /\ SameHeld(O[o].page[x], O2[o].page[x])
               /\ DaemonHolds(d2, o, x) <=> DaemonHolds(d, o, x)
               /\ DaemonHolds(d, o, x) => (d2.at = "end" <=> d.at = "end")
            \/ /\ \A u \in Threads : ~ Holds(T[u], o, x)
               /\ DaemonPage(O2[o].page[x], d2, o, x)
  PROVE  PagesHeld(O2, T2, d2)
<1> SUFFICES ASSUME NEW o \in Objects, NEW x \in Offsets PROVE PageHeld(O2, T2, d2, o, x)
  BY DEF PagesHeld
<1> DEFINE p == O[o].page[x]
           p2 == O2[o].page[x]
<1>1. PageHeld(O, T, d, o, x)
  BY DEF PagesHeld
<1>2. \A u \in Threads : /\ HoldsFirst(T2[u], o, x) <=> HoldsFirst(T[u], o, x)
                         /\ HoldsFound(T2[u], o, x) <=> HoldsFound(T[u], o, x)
                         /\ Holds(T2[u], o, x) <=> Holds(T[u], o, x)
  BY SameFaultIs DEF AllSame
<1>3. CASE /\ SameHeld(O[o].page[x], O2[o].page[x])
           /\ DaemonHolds(d2, o, x) <=> DaemonHolds(d, o, x)
           /\ DaemonHolds(d, o, x) => (d2.at = "end" <=> d.at = "end")
  <2>2. p2.at = p.at /\ p2.busy = p.busy
    BY <1>3 DEF SameHeld
  <2>3. (PageOK(p2) <=> PageOK(p)) /\ (Kept(p2) <=> Kept(p))
    BY <2>2 DEF PageOK, Kept
  <2> HIDE DEF p, p2
  <2>4. PageHeld(O, T, d, o, x) <=>
          /\ PageOK(p)
          /\ \A u \in Threads :
            /\ HoldsFirst(T[u], o, x) => p.at = "empty" /\ p.busy
            /\ HoldsFound(T[u], o, x) => p.at = "filled" /\ p.busy
            /\ Holds(T[u], o, x) =>
                /\ ~ DaemonHolds(d, o, x)
                /\ \A w \in Threads : Holds(T[w], o, x) => w = u
          /\ DaemonHolds(d, o, x) =>
                p.busy /\ p.at = IF d.at = "end" THEN "holding" ELSE "filled"
          /\ Kept(p) => DaemonHolds(d, o, x) \/ \E u \in Threads : Holds(T[u], o, x)
    BY DEF PageHeld, p
  <2>5. PageHeld(O2, T2, d2, o, x) <=>
          /\ PageOK(p2)
          /\ \A u \in Threads :
            /\ HoldsFirst(T2[u], o, x) => p2.at = "empty" /\ p2.busy
            /\ HoldsFound(T2[u], o, x) => p2.at = "filled" /\ p2.busy
            /\ Holds(T2[u], o, x) =>
                /\ ~ DaemonHolds(d2, o, x)
                /\ \A w \in Threads : Holds(T2[w], o, x) => w = u
          /\ DaemonHolds(d2, o, x) =>
                p2.busy /\ p2.at = IF d2.at = "end" THEN "holding" ELSE "filled"
          /\ Kept(p2) => DaemonHolds(d2, o, x) \/ \E u \in Threads : Holds(T2[u], o, x)
    BY DEF PageHeld, p2
  <2> QED
    BY <1>1, <1>2, <1>3, <2>2, <2>3, <2>4, <2>5
<1>4. CASE /\ \A u \in Threads : ~ Holds(T[u], o, x)
           /\ DaemonPage(O2[o].page[x], d2, o, x)
  <2>1. \A u \in Threads : ~ Holds(T2[u], o, x) /\ ~ HoldsFirst(T2[u], o, x) /\ ~ HoldsFound(T2[u], o, x)
    BY <1>2, <1>4 DEF Holds
  <2> QED
    BY <1>4, <2>1 DEF PageHeld, DaemonPage
<1> QED
  BY <1>3, <1>4

-----------------------------------------------------------------------------
(* What routines change.                                                   *)

SameChains(O, O2) ==
    \A o \in Objects :
        O2[o].at = O[o].at /\ O2[o].ref_count = O[o].ref_count /\ O2[o].shadow = O[o].shadow
SamePaging(O, O2) ==
    \A o \in Objects : O2[o].paging_in_progress = O[o].paging_in_progress
PagingBy(O, O2, o, n) ==
    \A q \in Objects : O2[q].paging_in_progress = O[q].paging_in_progress + IF q = o THEN n ELSE 0
SamePages(O, O2) == \A o \in Objects, x \in Offsets : O2[o].page[x] = O[o].page[x]
PagesBut(O, O2, o, x) ==
    \A q \in Objects, y \in Offsets : q # o \/ y # x => O2[q].page[y] = O[q].page[y]

\* A kernel state with other objects, entries, mappings or threads.
LEMMA KernelWith ==
  ASSUME NEW k \in Kernels
  PROVE  /\ k.object \in [Objects -> ObjectRecord] /\ k.map \in [Tasks -> EntryRecord]
         /\ k.pmap \in [Tasks -> [Offsets -> Mapped]] /\ k.th \in [Threads -> FaultRecord]
         /\ \A O \in [Objects -> ObjectRecord] :
              LET k2 == [k EXCEPT !.object = O]
              IN  k2 \in Kernels /\ k2.object = O /\ k2.map = k.map /\ k2.pmap = k.pmap /\ k2.th = k.th
         /\ \A M \in [Tasks -> EntryRecord] :
              LET k2 == [k EXCEPT !.map = M]
              IN  k2 \in Kernels /\ k2.object = k.object /\ k2.map = M /\ k2.pmap = k.pmap /\ k2.th = k.th
         /\ \A P \in [Tasks -> [Offsets -> Mapped]] :
              LET k2 == [k EXCEPT !.pmap = P]
              IN  k2 \in Kernels /\ k2.object = k.object /\ k2.map = k.map /\ k2.pmap = P /\ k2.th = k.th
         /\ \A T \in [Threads -> FaultRecord] :
              LET k2 == [k EXCEPT !.th = T]
              IN  k2 \in Kernels /\ k2.object = k.object /\ k2.map = k.map /\ k2.pmap = k.pmap /\ k2.th = T
<1> DEFINE A == [Objects -> ObjectRecord]
           B == [Tasks -> EntryRecord]
           C == [Tasks -> [Offsets -> Mapped]]
           D == [Threads -> FaultRecord]
<1>1. k \in [object: A, map: B, pmap: C, th: D]
  BY DEF Kernels
<1> HIDE DEF A, B, C, D
<1>2. k.object \in A /\ k.map \in B /\ k.pmap \in C /\ k.th \in D
  BY <1>1
<1>3. \A O \in A :
              LET k2 == [k EXCEPT !.object = O]
              IN  k2 \in [object: A, map: B, pmap: C, th: D] /\ k2.object = O /\ k2.map = k.map
                      /\ k2.pmap = k.pmap /\ k2.th = k.th
  BY <1>1
<1>4. \A M \in B :
              LET k2 == [k EXCEPT !.map = M]
              IN  k2 \in [object: A, map: B, pmap: C, th: D] /\ k2.object = k.object /\ k2.map = M
                      /\ k2.pmap = k.pmap /\ k2.th = k.th
  BY <1>1
<1>5. \A P \in C :
              LET k2 == [k EXCEPT !.pmap = P]
              IN  k2 \in [object: A, map: B, pmap: C, th: D] /\ k2.object = k.object
                      /\ k2.map = k.map /\ k2.pmap = P /\ k2.th = k.th
  BY <1>1
<1>6. \A T \in D :
              LET k2 == [k EXCEPT !.th = T]
              IN  k2 \in [object: A, map: B, pmap: C, th: D] /\ k2.object = k.object
                      /\ k2.map = k.map /\ k2.pmap = k.pmap /\ k2.th = T
  BY <1>1
<1> QED
  BY <1>2, <1>3, <1>4, <1>5, <1>6 DEF A, B, C, D, Kernels

\* One object of a kernel state is another.
PutsObject(k, k2, o, v) == k2 = [k EXCEPT !.object = [k.object EXCEPT ![o] = v]]

\* The kernel state with the object v in o's place.
LEMMA SetObject ==
  ASSUME NEW k \in Kernels, NEW o \in Objects, NEW v \in ObjectRecord, NEW k2,
         PutsObject(k, k2, o, v)
  PROVE  /\ k2 \in Kernels /\ k2.map = k.map /\ k2.pmap = k.pmap /\ k2.th = k.th
         /\ k2.object[o] = v /\ \A q \in Objects \ {o} : k2.object[q] = k.object[q]
<1> DEFINE O == [k.object EXCEPT ![o] = v]
<1>1. k.object \in [Objects -> ObjectRecord]
  BY KernelWith
<1>2. O \in [Objects -> ObjectRecord] /\ O[o] = v /\ \A q \in Objects \ {o} : O[q] = k.object[q]
  BY <1>1
<1> HIDE DEF O
<1>3. k2 = [k EXCEPT !.object = O]
  BY DEF O, PutsObject
<1>4. k2 \in Kernels /\ k2.map = k.map /\ k2.pmap = k.pmap /\ k2.th = k.th /\ k2.object = O
  BY <1>2, <1>3, KernelWith
<1> QED
  BY <1>2, <1>4 DEF O

\* A routine changes nothing but objects.
ObjectsOnly(k, k2) == k2 \in Kernels /\ k2.map = k.map /\ k2.pmap = k.pmap /\ k2.th = k.th

\* A paging reference more.
LEMMA BeginIs ==
  ASSUME NEW k \in Kernels, NEW o \in Objects, NEW k2, k2 = vm_object_paging_begin(k, o)
  PROVE  /\ ObjectsOnly(k, k2)
         /\ SameChains(k.object, k2.object) /\ SamePages(k.object, k2.object)
         /\ PagingBy(k.object, k2.object, o, 1)
<1> DEFINE r == k.object[o]
           n == r.paging_in_progress + 1
           v == [r EXCEPT !.paging_in_progress = n]
<1>1. k.object \in [Objects -> ObjectRecord]
  BY KernelWith
<1>2. r \in ObjectRecord
  BY <1>1
<1>3. n \in Nat
  BY <1>2 DEF ObjectRecord
<1>4. PutsObject(k, k2, o, v)
  BY DEF vm_object_paging_begin, PutsObject
<1> HIDE DEF n
<1>5. /\ v \in ObjectRecord /\ v.paging_in_progress = n
      /\ v.at = r.at /\ v.ref_count = r.ref_count /\ v.shadow = r.shadow /\ v.page = r.page
  BY <1>2, <1>3 DEF ObjectRecord
<1> HIDE DEF v
<1>6. /\ ObjectsOnly(k, k2)
      /\ k2.object[o] = v /\ \A q \in Objects \ {o} : k2.object[q] = k.object[q]
  <2>1. v \in ObjectRecord
    BY <1>5
  <2>2. /\ k2 \in Kernels /\ k2.map = k.map /\ k2.pmap = k.pmap /\ k2.th = k.th
        /\ k2.object[o] = v /\ \A q \in Objects \ {o} : k2.object[q] = k.object[q]
    BY ONLY k \in Kernels, o \in Objects, <1>4, <2>1, SetObject
  <2> QED
    BY <2>2 DEF ObjectsOnly
<1>7. ASSUME NEW q \in Objects
      PROVE  /\ k2.object[q].at = k.object[q].at /\ k2.object[q].ref_count = k.object[q].ref_count
             /\ k2.object[q].shadow = k.object[q].shadow /\ k2.object[q].page = k.object[q].page
             /\ k2.object[q].paging_in_progress = k.object[q].paging_in_progress + IF q = o THEN 1 ELSE 0
  <2>1. CASE q = o
    BY <1>5, <1>6, <2>1 DEF n
  <2>2. CASE q # o
    <3>1. k.object[q].paging_in_progress \in Nat
      BY <1>1 DEF ObjectRecord
    <3> QED
      BY <1>6, <2>2, <3>1
  <2> QED
    BY <2>1, <2>2
<1> QED
  BY <1>6, <1>7 DEF SameChains, SamePages, PagingBy

\* And one less.
LEMMA EndIs ==
  ASSUME NEW k \in Kernels, NEW o \in Objects, NEW k2, k2 = vm_object_paging_end(k, o),
         k.object[o].paging_in_progress > 0
  PROVE  /\ ObjectsOnly(k, k2)
         /\ SameChains(k.object, k2.object) /\ SamePages(k.object, k2.object)
         /\ PagingBy(k.object, k2.object, o, -1)
<1> DEFINE r == k.object[o]
           n == r.paging_in_progress - 1
           v == [r EXCEPT !.paging_in_progress = n]
<1>1. k.object \in [Objects -> ObjectRecord]
  BY KernelWith
<1>2. r \in ObjectRecord
  BY <1>1
<1>3. n \in Nat
  BY <1>2 DEF ObjectRecord
<1>4. PutsObject(k, k2, o, v)
  BY DEF vm_object_paging_end, PutsObject
<1> HIDE DEF n
<1>5. /\ v \in ObjectRecord /\ v.paging_in_progress = n
      /\ v.at = r.at /\ v.ref_count = r.ref_count /\ v.shadow = r.shadow /\ v.page = r.page
  BY <1>2, <1>3 DEF ObjectRecord
<1> HIDE DEF v
<1>6. /\ ObjectsOnly(k, k2)
      /\ k2.object[o] = v /\ \A q \in Objects \ {o} : k2.object[q] = k.object[q]
  <2>1. v \in ObjectRecord
    BY <1>5
  <2>2. /\ k2 \in Kernels /\ k2.map = k.map /\ k2.pmap = k.pmap /\ k2.th = k.th
        /\ k2.object[o] = v /\ \A q \in Objects \ {o} : k2.object[q] = k.object[q]
    BY ONLY k \in Kernels, o \in Objects, <1>4, <2>1, SetObject
  <2> QED
    BY <2>2 DEF ObjectsOnly
<1>7. ASSUME NEW q \in Objects
      PROVE  /\ k2.object[q].at = k.object[q].at /\ k2.object[q].ref_count = k.object[q].ref_count
             /\ k2.object[q].shadow = k.object[q].shadow /\ k2.object[q].page = k.object[q].page
             /\ k2.object[q].paging_in_progress = k.object[q].paging_in_progress + IF q = o THEN -1 ELSE 0
  <2>0. k.object[q].paging_in_progress \in Nat
    BY <1>1 DEF ObjectRecord
  <2>1. CASE q = o
    BY <1>5, <1>6, <2>0, <2>1 DEF n
  <2>2. CASE q # o
    BY <1>6, <2>0, <2>2
  <2> QED
    BY <2>1, <2>2
<1> QED
  BY <1>6, <1>7 DEF SameChains, SamePages, PagingBy

\* One page changes.
OnePage(O, O2, o, x, p) ==
    /\ SameChains(O, O2) /\ SamePaging(O, O2) /\ PagesBut(O, O2, o, x)
    /\ O2[o].page[x] = p
    /\ \A q \in Objects : O2[q].pager = O[q].pager

PutsPage(k, k2, o, x, p) == k2 = [k EXCEPT !.object[o].page[x] = p]

\* Setting a page changes nothing else.
LEMMA SetPageIs ==
  ASSUME NEW k \in Kernels, NEW o \in Objects, NEW x \in Offsets, NEW p \in PageRecord, NEW k2,
         PutsPage(k, k2, o, x, p)
  PROVE  ObjectsOnly(k, k2) /\ OnePage(k.object, k2.object, o, x, p)
<1> DEFINE r == k.object[o]
           f == [r.page EXCEPT ![x] = p]
           v == [r EXCEPT !.page = f]
<1>1. k.object \in [Objects -> ObjectRecord]
  BY KernelWith
<1>2. r \in ObjectRecord
  BY <1>1
<1>3. f \in [Offsets -> PageRecord] /\ f[x] = p /\ \A y \in Offsets : y # x => f[y] = r.page[y]
  <2>1. r.page \in [Offsets -> PageRecord]
    BY <1>2 DEF ObjectRecord
  <2> HIDE DEF r
  <2> QED
    BY <2>1
<1>4. PutsObject(k, k2, o, v)
  BY DEF PutsObject, PutsPage
<1> HIDE DEF f
<1>5. /\ v \in ObjectRecord /\ v.page = f
      /\ v.at = r.at /\ v.ref_count = r.ref_count /\ v.shadow = r.shadow /\ v.pager = r.pager
      /\ v.paging_in_progress = r.paging_in_progress
  BY <1>2, <1>3 DEF ObjectRecord
<1> HIDE DEF v
<1>6. /\ ObjectsOnly(k, k2)
      /\ k2.object[o] = v /\ \A q \in Objects \ {o} : k2.object[q] = k.object[q]
  <2>1. v \in ObjectRecord
    BY <1>5
  <2>2. /\ k2 \in Kernels /\ k2.map = k.map /\ k2.pmap = k.pmap /\ k2.th = k.th
        /\ k2.object[o] = v /\ \A q \in Objects \ {o} : k2.object[q] = k.object[q]
    BY ONLY k \in Kernels, o \in Objects, <1>4, <2>1, SetObject
  <2> QED
    BY <2>2 DEF ObjectsOnly
<1>7. ASSUME NEW q \in Objects
      PROVE  /\ k2.object[q].at = k.object[q].at /\ k2.object[q].ref_count = k.object[q].ref_count
             /\ k2.object[q].shadow = k.object[q].shadow /\ k2.object[q].pager = k.object[q].pager
             /\ k2.object[q].paging_in_progress = k.object[q].paging_in_progress
             /\ \A y \in Offsets : q # o \/ y # x => k2.object[q].page[y] = k.object[q].page[y]
  <2>1. CASE q = o
    BY <1>3, <1>5, <1>6, <2>1
  <2>2. CASE q # o
    BY <1>6, <2>2
  <2> QED
    BY <2>1, <2>2
<1>8. k2.object[o].page[x] = p
  BY <1>3, <1>5, <1>6
<1> QED
  BY <1>6, <1>7, <1>8 DEF SameChains, SamePages, SamePaging, PagesBut, OnePage

\* The busy bit of a page.
PutsBusy(k, k2, o, x, b) == k2 = [k EXCEPT !.object[o].page[x].busy = b]

\* Setting a busy bit (m->busy) leaves what the page is, and the other pages.
LEMMA SetBusyIs ==
  ASSUME NEW k \in Kernels, NEW o \in Objects, NEW x \in Offsets, NEW b \in BOOLEAN, NEW k2,
         PutsBusy(k, k2, o, x, b)
  PROVE  /\ ObjectsOnly(k, k2)
         /\ \E p \in PageRecord : /\ OnePage(k.object, k2.object, o, x, p)
                                  /\ p.at = k.object[o].page[x].at /\ p.busy = b
                                  /\ p.val = k.object[o].page[x].val
<1> DEFINE q == k.object[o].page[x]
           p == [q EXCEPT !.busy = b]
<1>1. k.object \in [Objects -> ObjectRecord]
  BY KernelWith
<1>2. q \in PageRecord
  BY <1>1 DEF ObjectRecord
<1>3. PutsPage(k, k2, o, x, p)
  BY DEF PutsPage, PutsBusy
<1> HIDE DEF q
<1>4. p \in PageRecord /\ p.at = q.at /\ p.busy = b /\ p.val = q.val
  BY <1>2 DEF PageRecord
<1> HIDE DEF p
<1> QED
  BY <1>3, <1>4, SetPageIs DEF q

\* Nothing that is counted here.
Alike(O, O2) ==
    /\ SameChains(O, O2) /\ SamePaging(O, O2)
    /\ \A o \in Objects, x \in Offsets : SameHeld(O[o].page[x], O2[o].page[x])

\* vm_object_absent_release changes nothing that the invariant speaks about.
LEMMA AbsentReleaseIs ==
  ASSUME NEW k \in Kernels, NEW o \in Objects, NEW k2, k2 = AbsentRelease(k, o)
  PROVE  /\ ObjectsOnly(k, k2)
         /\ SameChains(k.object, k2.object) /\ SamePaging(k.object, k2.object)
         /\ SamePages(k.object, k2.object)
         /\ \A q \in Objects : k2.object[q].pager = k.object[q].pager
<1> DEFINE r == k.object[o]
           n == r.absent_count - 1
           v == [r EXCEPT !.absent_count = n]
<1>1. k.object \in [Objects -> ObjectRecord]
  BY KernelWith
<1>2. r \in ObjectRecord
  BY <1>1
<1>3. n \in Int
  BY <1>2 DEF ObjectRecord
<1>4. PutsObject(k, k2, o, v)
  BY DEF AbsentRelease, PutsObject
<1> HIDE DEF n
<1>5. /\ v \in ObjectRecord /\ v.paging_in_progress = r.paging_in_progress
      /\ v.at = r.at /\ v.ref_count = r.ref_count /\ v.shadow = r.shadow /\ v.page = r.page
      /\ v.pager = r.pager
  BY <1>2, <1>3 DEF ObjectRecord
<1> HIDE DEF v
<1>6. /\ ObjectsOnly(k, k2)
      /\ k2.object[o] = v /\ \A q \in Objects \ {o} : k2.object[q] = k.object[q]
  <2>1. v \in ObjectRecord
    BY <1>5
  <2>2. /\ k2 \in Kernels /\ k2.map = k.map /\ k2.pmap = k.pmap /\ k2.th = k.th
        /\ k2.object[o] = v /\ \A q \in Objects \ {o} : k2.object[q] = k.object[q]
    BY ONLY k \in Kernels, o \in Objects, <1>4, <2>1, SetObject
  <2> QED
    BY <2>2 DEF ObjectsOnly
<1>7. ASSUME NEW q \in Objects
      PROVE  /\ k2.object[q].at = k.object[q].at /\ k2.object[q].ref_count = k.object[q].ref_count
             /\ k2.object[q].shadow = k.object[q].shadow /\ k2.object[q].page = k.object[q].page
             /\ k2.object[q].paging_in_progress = k.object[q].paging_in_progress
             /\ k2.object[q].pager = k.object[q].pager
  BY <1>5, <1>6
<1> QED
  BY <1>6, <1>7 DEF SameChains, SamePages, SamePaging

\* Nothing but where threads wait.
WakesOnly(k, k2) ==
    k2 \in Kernels /\ k2.object = k.object /\ k2.map = k.map /\ k2.pmap = k.pmap /\ AllSame(k.th, k2.th)

\* PAGE_WAKEUP wakes threads that wait for the page, and does nothing else.
LEMMA PageWakeupIs ==
  ASSUME NEW k \in Kernels, NEW o, NEW x, NEW k2, k2 = PageWakeup(k, o, x)
  PROVE  /\ WakesOnly(k, k2)
         /\ \A t \in Threads : k.th[t].at # "wait" => k2.th[t] = k.th[t]
<1> DEFINE w(r) == IF r.at = "wait" /\ r.cur = o /\ r.off = x THEN [r EXCEPT !.at = "search"] ELSE r
           T == [t \in Threads |-> w(k.th[t])]
<1>1. k.th \in [Threads -> FaultRecord]
  BY KernelWith
<1>2. ASSUME NEW r \in FaultRecord
      PROVE  w(r) \in FaultRecord /\ SameFault(r, w(r)) /\ (r.at # "wait" => w(r) = r)
  BY DEF FaultRecord, SameFault
<1>3. k2 = [k EXCEPT !.th = T]
  BY DEF PageWakeup
<1> HIDE DEF w
<1>4. T \in [Threads -> FaultRecord] /\ \A t \in Threads : T[t] = w(k.th[t])
  BY <1>1, <1>2
<1>5. AllSame(k.th, T) /\ \A t \in Threads : k.th[t].at # "wait" => T[t] = k.th[t]
  BY <1>1, <1>2, <1>4 DEF AllSame
<1> HIDE DEF T
<1>6. k2 \in Kernels /\ k2.object = k.object /\ k2.map = k.map /\ k2.pmap = k.pmap /\ k2.th = T
  BY <1>3, <1>4, KernelWith
<1> QED
  BY <1>5, <1>6 DEF WakesOnly

\* A locked map leaves threads where they are: their lookups are stale at most.
LEMMA MapChangedIs ==
  ASSUME NEW k \in Kernels, NEW a, NEW k2, k2 = MapChanged(k, a)
  PROVE  /\ WakesOnly(k, k2)
         /\ \A t \in Threads : k.th[t].at \in {"run", "lookup"} => k2.th[t] = k.th[t]
<1> DEFINE w(t, r) == IF TaskOf[t] = a /\ r.at \notin {"run", "lookup"}
                      THEN [r EXCEPT !.stale = TRUE] ELSE r
           T == [t \in Threads |-> w(t, k.th[t])]
<1>1. k.th \in [Threads -> FaultRecord]
  BY KernelWith
<1>2. ASSUME NEW t \in Threads, NEW r \in FaultRecord
      PROVE  w(t, r) \in FaultRecord /\ SameFault(r, w(t, r)) /\ (r.at \in {"run", "lookup"} => w(t, r) = r)
  BY DEF FaultRecord, SameFault
<1>3. k2 = [k EXCEPT !.th = T]
  BY DEF MapChanged
<1> HIDE DEF w
<1>4. T \in [Threads -> FaultRecord] /\ \A t \in Threads : T[t] = w(t, k.th[t])
  BY <1>1, <1>2
<1>5. AllSame(k.th, T) /\ \A t \in Threads : k.th[t].at \in {"run", "lookup"} => T[t] = k.th[t]
  BY <1>1, <1>2, <1>4 DEF AllSame
<1> HIDE DEF T
<1>6. k2 \in Kernels /\ k2.object = k.object /\ k2.map = k.map /\ k2.pmap = k.pmap /\ k2.th = T
  BY <1>3, <1>4, KernelWith
<1> QED
  BY <1>5, <1>6 DEF WakesOnly

\* What composed routines change besides objects.
WakesAnd(k, k2) == k2 \in Kernels /\ k2.map = k.map /\ k2.pmap = k.pmap /\ AllSame(k.th, k2.th)

\* Nothing done, and one wakeup after another.
LEMMA AllSameAgain ==
  ASSUME NEW k \in Kernels
  PROVE  /\ AllSame(k.th, k.th)
         /\ \A T2, T3 : AllSame(k.th, T2) /\ AllSame(T2, T3) => AllSame(k.th, T3)
<1>1. k.th \in [Threads -> FaultRecord]
  BY KernelWith
<1>2. \A r, r2, r3 : SameFault(r, r) /\ (SameFault(r, r2) /\ SameFault(r2, r3) => SameFault(r, r3))
  BY DEF SameFault
<1> QED
  BY <1>1, <1>2 DEF AllSame

\* The end of a page.
LEMMA FreePageIs ==
  ASSUME NEW k \in Kernels, NEW o \in Objects, NEW x \in Offsets, NEW k2, k2 = vm_page_free(k, o, x)
  PROVE  /\ WakesAnd(k, k2) /\ OnePage(k.object, k2.object, o, x, NoPage)
         /\ \A t \in Threads : k.th[t].at # "wait" => k2.th[t] = k.th[t]
<1> DEFINE a == SetPage(k, o, x, NoPage)
           b == PageWakeup(a, o, x)
           c == AbsentRelease(b, o)
<1>1. NoPage \in PageRecord
  BY VmConstants DEF NoPage, PageRecord
<1>2. ObjectsOnly(k, a) /\ OnePage(k.object, a.object, o, x, NoPage)
  <2>1. PutsPage(k, a, o, x, NoPage)
    BY DEF SetPage, PutsPage
  <2> HIDE DEF a
  <2> QED
    BY <1>1, <2>1, SetPageIs
<1>3. WakesOnly(a, b) /\ \A t \in Threads : a.th[t].at # "wait" => b.th[t] = a.th[t]
  <2> HIDE DEF a
  <2> QED
    BY <1>2, PageWakeupIs DEF ObjectsOnly
<1>4. k2 = IF k.object[o].page[x].at = "absent" THEN c ELSE b
  BY DEF vm_page_free
<1>5. /\ ObjectsOnly(b, c)
      /\ SameChains(b.object, c.object) /\ SamePaging(b.object, c.object)
      /\ SamePages(b.object, c.object)
      /\ \A q \in Objects : c.object[q].pager = b.object[q].pager
  <2> HIDE DEF b
  <2> QED
    BY <1>3, AbsentReleaseIs DEF WakesOnly
<1> HIDE DEF a, b, c
<1>6. /\ b \in Kernels /\ b.map = k.map /\ b.pmap = k.pmap /\ AllSame(k.th, b.th)
      /\ \A t \in Threads : k.th[t].at # "wait" => b.th[t] = k.th[t]
      /\ b.object = a.object
  BY <1>2, <1>3 DEF ObjectsOnly, WakesOnly
<1>7. WakesAnd(k, k2) /\ \A t \in Threads : k.th[t].at # "wait" => k2.th[t] = k.th[t]
  BY <1>4, <1>5, <1>6 DEF ObjectsOnly, WakesAnd
<1>8. OnePage(k.object, b.object, o, x, NoPage)
  BY <1>2, <1>6
<1>9. OnePage(k.object, c.object, o, x, NoPage)
  BY <1>5, <1>8 DEF OnePage, SameChains, SamePaging, SamePages, PagesBut
<1> QED
  BY <1>4, <1>7, <1>8, <1>9

\* A page is there for the others.
NotBusy(O, O2, o, x) ==
    \E p \in PageRecord : /\ OnePage(O, O2, o, x, p)
                          /\ p.at = O[o].page[x].at /\ p.busy = FALSE

\* PAGE_WAKEUP_DONE: the page stays what it is, and is not busy any more.
LEMMA WakeupDoneIs ==
  ASSUME NEW k \in Kernels, NEW o \in Objects, NEW x \in Offsets, NEW k2, k2 = PageWakeupDone(k, o, x)
  PROVE  /\ WakesAnd(k, k2)
         /\ NotBusy(k.object, k2.object, o, x)
         /\ \A t \in Threads : k.th[t].at # "wait" => k2.th[t] = k.th[t]
<1> DEFINE a == [k EXCEPT !.object[o].page[x].busy = FALSE]
<1>1. /\ ObjectsOnly(k, a)
      /\ \E p \in PageRecord : /\ OnePage(k.object, a.object, o, x, p)
                               /\ p.at = k.object[o].page[x].at /\ p.busy = FALSE
  <2> DEFINE b == FALSE
  <2>1. PutsBusy(k, a, o, x, b) /\ b \in BOOLEAN
    BY DEF PutsBusy
  <2> HIDE DEF a, b
  <2>2. /\ ObjectsOnly(k, a)
        /\ \E p \in PageRecord : /\ OnePage(k.object, a.object, o, x, p)
                                 /\ p.at = k.object[o].page[x].at /\ p.busy = b
                                 /\ p.val = k.object[o].page[x].val
    BY <2>1, SetBusyIs
  <2> QED
    BY <2>2 DEF b
<1>2. k2 = PageWakeup(a, o, x)
  BY DEF PageWakeupDone
<1> HIDE DEF a
<1>3. WakesOnly(a, k2) /\ \A t \in Threads : a.th[t].at # "wait" => k2.th[t] = a.th[t]
  BY <1>1, <1>2, PageWakeupIs DEF ObjectsOnly
<1> QED
  BY <1>1, <1>3 DEF ObjectsOnly, WakesOnly, WakesAnd, NotBusy

\* One thread of a kernel state is elsewhere.
ThreadOnly(k, k2, t, r) ==
    /\ k2 \in Kernels /\ k2.object = k.object /\ k2.map = k.map /\ k2.pmap = k.pmap
    /\ k2.th[t] = r /\ \A u \in Threads \ {t} : k2.th[u] = k.th[u]

\* The kernel state with the fault r in t's place.
LEMMA SetFault ==
  ASSUME NEW k \in Kernels, NEW t \in Threads, NEW r \in FaultRecord, NEW k2,
         k2 = [k EXCEPT !.th[t] = r]
  PROVE  ThreadOnly(k, k2, t, r)
<1> DEFINE T == [k.th EXCEPT ![t] = r]
<1>1. k.th \in [Threads -> FaultRecord]
  BY KernelWith
<1>2. T \in [Threads -> FaultRecord] /\ T[t] = r /\ \A u \in Threads \ {t} : T[u] = k.th[u]
  BY <1>1
<1>3. k2 = [k EXCEPT !.th = T]
  OBVIOUS
<1> HIDE DEF T
<1> QED
  BY <1>2, <1>3, KernelWith DEF ThreadOnly

-----------------------------------------------------------------------------
(* What keeps the invariant.                                               *)

\* What the invariant says of an object in use.
LEMMA GoodFacts ==
  ASSUME NEW O, NEW M, NEW T, NEW d, NEW e, Good(O, M, T, d, e), NEW o \in Objects
  PROVE  /\ O[o] \in ObjectRecord
         /\ \A t \in Threads : PagesAt(T[t], o) => O[o].paging_in_progress > 0 /\ O[o].at # "free"
         /\ \A t \in Threads : Refers(T[t], o) => O[o].ref_count > 0 /\ O[o].at = "live"
         /\ \A p \in Objects : Shadows(O, p, o) => O[o].ref_count > 0 /\ O[o].at = "live"
         /\ \A a \in Tasks : M[a].in /\ M[a].object = o => O[o].ref_count > 0 /\ O[o].at = "live"
         /\ d.object = o /\ d.at # "alone" => O[o].paging_in_progress > 0 /\ O[o].at # "free"
         /\ e = o => O[o].ref_count > 0 /\ O[o].at = "live"
<1> DEFINE m == MapRefs(M, o)
           s == ShadowRefs(O, o)
           f == FaultRefs(T, o)
           p == FaultPaging(T, o)
           dp == DaemonPaging(d, o)
           n == O[o].ref_count
           w == O[o].paging_in_progress
<1>1. O[o] \in ObjectRecord
  BY DEF Good
<1>2. m \in Nat /\ s \in Nat /\ f \in Nat /\ p \in Nat
  BY Counts
<1>3. /\ \A a \in Tasks : M[a].in /\ M[a].object = o => m > 0
      /\ \A q \in Objects : Shadows(O, q, o) => s > 0
      /\ \A t \in Threads : Refers(T[t], o) => f > 0
      /\ \A t \in Threads : PagesAt(T[t], o) => p > 0
  BY Counts
<1>4. dp \in {0, 1} /\ (d.object = o /\ d.at # "alone" => dp = 1)
  BY DEF DaemonPaging
<1>5. /\ n = m + s + f + One(o = e)
      /\ O[o].at = "live" <=> n > 0
      /\ w = p + dp
  BY DEF Good, Counted, Refs
<1>6. One(o = e) \in {0, 1} /\ (o = e => One(o = e) = 1)
  BY DEF One
<1>7. O[o].at = "free" => w = 0
  BY DEF Good, FreeIsClean
<1> HIDE DEF m, s, f, p, dp, n, w
<1>8. (m > 0 \/ s > 0 \/ f > 0 \/ e = o) => n > 0
  BY <1>2, <1>5, <1>6
<1>9. (p > 0 \/ dp = 1) => w > 0
  BY <1>2, <1>4, <1>5
<1>10. w > 0 => O[o].at # "free"
  BY <1>7
<1> QED
  BY <1>1, <1>3, <1>4, <1>5, <1>8, <1>9, <1>10 DEF n, w

\* Where a search is below its first object.
Below(r, rank) == Pages(r) /\ r.cur # r.first => rank[r.cur] < rank[r.first]

\* A step of t's, which changes pages and paging references only.
Moves(O, O2, T, T2, d, t) ==
    /\ O2 \in [Objects -> ObjectRecord] /\ SameChains(O, O2)
    /\ OthersSame(T, T2, t) /\ FaultOK(T2[t])
    /\ \A o \in Objects :
        /\ Refers(T2[t], o) <=> Refers(T[t], o)
        /\ O2[o].paging_in_progress + One(PagesAt(T[t], o))
             = O[o].paging_in_progress + One(PagesAt(T2[t], o))
    /\ \A o \in Objects, x \in Offsets :
            OtherPage(O, O2, T[t], T2[t], o, x) \/ OwnPage(O2, T, d, t, T2[t], o, x)
    /\ FreeIsClean(O2)
    /\ \A rank \in [Objects -> Nat] : Descends(O, T, rank) => Below(T2[t], rank)

\* The rank of the others stays.
SameShadows(O, O2) == \A o \in Objects : O2[o].shadow = O[o].shadow

\* The ranks that show the chains to end show it after the step, too.
LEMMA ChainsStay ==
  ASSUME NEW O, NEW O2, NEW T, NEW T2, NEW t \in Threads, Chained(O, T),
         SameShadows(O, O2), OthersSame(T, T2, t),
         \A rank \in [Objects -> Nat] : Descends(O, T, rank) => Below(T2[t], rank)
  PROVE  Chained(O2, T2)
<1>1. PICK rank \in [Objects -> Nat] : Descends(O, T, rank)
  BY DEF Chained
<1>2. \A o \in Objects : O2[o].shadow # Nil => rank[O2[o].shadow] < rank[o]
  BY <1>1 DEF Descends, SameShadows
<1>3. ASSUME NEW u \in Threads PROVE Below(T2[u], rank)
  <2>1. CASE u = t
    BY <1>1, <2>1
  <2>2. CASE u # t
    <3>1. SameFault(T[u], T2[u])
      BY <2>2 DEF OthersSame
    <3>2. /\ Pages(T2[u]) <=> Pages(T[u])
          /\ T2[u].first = T[u].first /\ T2[u].cur = T[u].cur
      BY <3>1, SameFaultIs DEF SameFault
    <3> QED
      BY <1>1, <3>2 DEF Below, Descends
  <2> QED
    BY <2>1, <2>2
<1>4. Descends(O2, T2, rank)
  BY <1>2, <1>3 DEF Below, Descends
<1> QED
  BY <1>4 DEF Chained

\* Faults stay consistent when those of the others stay where they are.
LEMMA FaultsFit ==
  ASSUME NEW T, NEW T2, NEW t \in Threads, OthersSame(T, T2, t), FaultOK(T2[t]),
         \A u \in Threads : FaultOK(T[u])
  PROVE  \A u \in Threads : FaultOK(T2[u])
<1> SUFFICES ASSUME NEW u \in Threads, u # t PROVE FaultOK(T2[u])
  OBVIOUS
<1>1. SameFault(T[u], T2[u])
  BY DEF OthersSame
<1> QED
  BY <1>1, SameFaultIs

\* The invariant after such a step: counts, holders and chains together.
LEMMA GoodStep ==
  ASSUME NEW O, NEW O2, NEW M, NEW T, NEW T2, NEW d, NEW e, NEW t \in Threads,
         Good(O, M, T, d, e), Moves(O, O2, T, T2, d, t)
  PROVE  Good(O2, M, T2, d, e)
<1>1. /\ O \in [Objects -> ObjectRecord] /\ M \in [Tasks -> EntryRecord]
      /\ T \in [Threads -> FaultRecord] /\ d \in DaemonRecord
      /\ \A u \in Threads : FaultOK(T[u])
      /\ DaemonOK(d) /\ PagesHeld(O, T, d) /\ Counted(O, M, T, d, e) /\ FreeIsClean(O) /\ Chained(O, T)
  BY DEF Good
<1>2. /\ O2 \in [Objects -> ObjectRecord] /\ SameChains(O, O2)
      /\ OthersSame(T, T2, t) /\ FaultOK(T2[t])
      /\ FreeIsClean(O2)
  BY DEF Moves
<1>3. T2 \in [Threads -> FaultRecord]
  BY <1>2 DEF OthersSame
<1>4. PagesHeld(O2, T2, d)
  <2>1. \A o \in Objects, x \in Offsets :
            OtherPage(O, O2, T[t], T2[t], o, x) \/ OwnPage(O2, T, d, t, T2[t], o, x)
    BY DEF Moves
  <2> QED
    BY <1>1, <1>2, <2>1, PagesStep
<1>5. Chained(O2, T2)
  <2>1. \A rank \in [Objects -> Nat] : Descends(O, T, rank) => Below(T2[t], rank)
    BY DEF Moves
  <2>2. SameShadows(O, O2)
    BY <1>2 DEF SameChains, SameShadows
  <2> QED
    BY <1>1, <1>2, <2>1, <2>2, ChainsStay
<1>6. \A u \in Threads : FaultOK(T2[u])
  BY <1>1, <1>2, FaultsFit
<1>7. Counted(O2, M, T2, d, e)
  <2> SUFFICES ASSUME NEW o \in Objects
               PROVE  /\ O2[o].ref_count = Refs(O2, M, T2, o) + One(o = e)
                      /\ O2[o].at = "live" <=> O2[o].ref_count > 0
                      /\ O2[o].paging_in_progress = FaultPaging(T2, o) + DaemonPaging(d, o)
    BY DEF Counted
  <2>1. /\ O[o].ref_count = Refs(O, M, T, o) + One(o = e)
        /\ O[o].at = "live" <=> O[o].ref_count > 0
        /\ O[o].paging_in_progress = FaultPaging(T, o) + DaemonPaging(d, o)
    BY <1>1 DEF Counted
  <2>2. O2[o].ref_count = O[o].ref_count /\ O2[o].at = O[o].at
    BY <1>2 DEF SameChains
  <2>3. ShadowRefs(O2, o) = ShadowRefs(O, o)
    <3>1. \A q \in Objects : Shadows(O2, q, o) <=> Shadows(O, q, o)
      BY <1>2 DEF SameChains, Shadows
    <3> QED
      BY <3>1, ShadowsSame
  <2>4. /\ FaultRefs(T, o) \in Nat /\ FaultRefs(T2, o) \in Nat
        /\ FaultPaging(T, o) \in Nat /\ FaultPaging(T2, o) \in Nat
        /\ FaultRefs(T2, o) + One(Refers(T[t], o)) = FaultRefs(T, o) + One(Refers(T2[t], o))
        /\ FaultPaging(T2, o) + One(PagesAt(T[t], o)) = FaultPaging(T, o) + One(PagesAt(T2[t], o))
    BY <1>2, FaultCounts
  <2>5. /\ Refers(T2[t], o) <=> Refers(T[t], o)
        /\ O2[o].paging_in_progress + One(PagesAt(T[t], o))
             = O[o].paging_in_progress + One(PagesAt(T2[t], o))
    BY DEF Moves
  <2>6. FaultRefs(T2, o) = FaultRefs(T, o)
    <3>1. One(Refers(T2[t], o)) = One(Refers(T[t], o)) /\ One(Refers(T[t], o)) \in {0, 1}
      BY <2>5 DEF One
    <3> QED
      BY <2>4, <3>1
  <2>7. O2[o].paging_in_progress = FaultPaging(T2, o) + DaemonPaging(d, o)
    <3>1. One(PagesAt(T[t], o)) \in {0, 1} /\ One(PagesAt(T2[t], o)) \in {0, 1}
      BY DEF One
    <3>2. O2[o].paging_in_progress \in Nat /\ O[o].paging_in_progress \in Nat /\ DaemonPaging(d, o) \in {0, 1}
      BY <1>1, <1>2 DEF ObjectRecord, DaemonPaging
    <3> QED
      BY <2>1, <2>4, <2>5, <3>1, <3>2
  <2>8. Refs(O2, M, T2, o) = Refs(O, M, T, o)
    BY <2>3, <2>6 DEF Refs
  <2> QED
    BY <2>1, <2>2, <2>7, <2>8
<1> QED
  BY <1>1, <1>2, <1>3, <1>4, <1>5, <1>6, <1>7 DEF Good

\* A step that only moves threads between waiting and searching, or changes what
\* the invariant does not speak about.
LEMMA GoodSame ==
  ASSUME NEW O, NEW O2, NEW M, NEW T, NEW T2, NEW d, NEW e,
         Good(O, M, T, d, e), O2 \in [Objects -> ObjectRecord], Alike(O, O2), AllSame(T, T2)
  PROVE  Good(O2, M, T2, d, e)
<1>1. /\ O \in [Objects -> ObjectRecord] /\ M \in [Tasks -> EntryRecord]
      /\ T \in [Threads -> FaultRecord] /\ d \in DaemonRecord
      /\ \A u \in Threads : FaultOK(T[u])
      /\ DaemonOK(d) /\ PagesHeld(O, T, d) /\ Counted(O, M, T, d, e) /\ FreeIsClean(O) /\ Chained(O, T)
  BY DEF Good
<1>2. /\ SameChains(O, O2) /\ SamePaging(O, O2)
      /\ \A o \in Objects, x \in Offsets : SameHeld(O[o].page[x], O2[o].page[x])
  BY DEF Alike
<1>3. T2 \in [Threads -> FaultRecord] /\ \A u \in Threads : SameFault(T[u], T2[u])
  BY DEF AllSame
<1>4. PagesHeld(O2, T2, d)
  <2>1. \A o \in Objects, x \in Offsets :
            \/ /\ SameHeld(O[o].page[x], O2[o].page[x])
               /\ DaemonHolds(d, o, x) <=> DaemonHolds(d, o, x)
               /\ DaemonHolds(d, o, x) => (d.at = "end" <=> d.at = "end")
            \/ /\ \A u \in Threads : ~ Holds(T[u], o, x)
               /\ DaemonPage(O2[o].page[x], d, o, x)
    BY <1>2
  <2> QED
    BY <1>1, <2>1, DaemonPagesStep
<1>5. \A u \in Threads : /\ FaultOK(T2[u])
                         /\ Pages(T2[u]) <=> Pages(T[u])
                         /\ T2[u].first = T[u].first /\ T2[u].cur = T[u].cur
  BY <1>1, <1>3, SameFaultIs DEF SameFault
<1>6. Chained(O2, T2)
  <2>1. PICK rank \in [Objects -> Nat] : Descends(O, T, rank)
    BY <1>1 DEF Chained
  <2>2. Descends(O2, T2, rank)
    BY <1>2, <1>5, <2>1 DEF Descends, SameChains
  <2> QED
    BY <2>2 DEF Chained
<1>7. FreeIsClean(O2)
  BY <1>1, <1>2 DEF FreeIsClean, SameChains, SamePaging, SameHeld
<1>8. Counted(O2, M, T2, d, e)
  <2> SUFFICES ASSUME NEW o \in Objects
               PROVE  /\ O2[o].ref_count = Refs(O2, M, T2, o) + One(o = e)
                      /\ O2[o].at = "live" <=> O2[o].ref_count > 0
                      /\ O2[o].paging_in_progress = FaultPaging(T2, o) + DaemonPaging(d, o)
    BY DEF Counted
  <2>1. /\ O[o].ref_count = Refs(O, M, T, o) + One(o = e)
        /\ O[o].at = "live" <=> O[o].ref_count > 0
        /\ O[o].paging_in_progress = FaultPaging(T, o) + DaemonPaging(d, o)
    BY <1>1 DEF Counted
  <2>2. /\ O2[o].ref_count = O[o].ref_count /\ O2[o].at = O[o].at
        /\ O2[o].paging_in_progress = O[o].paging_in_progress
    BY <1>2 DEF SameChains, SamePaging
  <2>3. ShadowRefs(O2, o) = ShadowRefs(O, o)
    <3>1. \A q \in Objects : Shadows(O2, q, o) <=> Shadows(O, q, o)
      BY <1>2 DEF SameChains, Shadows
    <3> QED
      BY <3>1, ShadowsSame
  <2>4. FaultRefs(T2, o) = FaultRefs(T, o) /\ FaultPaging(T2, o) = FaultPaging(T, o)
    BY FaultsSame
  <2> QED
    BY <2>1, <2>2, <2>3, <2>4 DEF Refs
<1> QED
  BY <1>1, <1>3, <1>4, <1>5, <1>6, <1>7, <1>8 DEF Good

\* The end of a fault: its reference is still to be given up.
Leaves(T, T2, t) ==
    /\ T[t].at = "sleep" /\ T2[t].at \in {"run", "lookup"}
    /\ OthersSame(T, T2, t) /\ FaultOK(T2[t])

\* What is left is the invariant, but for the reference to the first object.
LEMMA GoodLeave ==
  ASSUME NEW O, NEW M, NEW T, NEW T2, NEW d, NEW t \in Threads,
         Good(O, M, T, d, Nil), Leaves(T, T2, t)
  PROVE  T[t].first \in Objects /\ Good(O, M, T2, d, T[t].first)
<1> DEFINE e == T[t].first
<1>1. /\ O \in [Objects -> ObjectRecord] /\ M \in [Tasks -> EntryRecord]
      /\ T \in [Threads -> FaultRecord] /\ d \in DaemonRecord
      /\ \A u \in Threads : FaultOK(T[u])
      /\ DaemonOK(d) /\ PagesHeld(O, T, d) /\ Counted(O, M, T, d, Nil) /\ FreeIsClean(O) /\ Chained(O, T)
  BY DEF Good
<1>2. /\ T[t].at = "sleep" /\ T2[t].at \in {"run", "lookup"}
      /\ OthersSame(T, T2, t) /\ FaultOK(T2[t])
  BY DEF Leaves
<1>3. ~ Pages(T[t]) /\ ~ Pages(T2[t]) /\ Uses(T[t]) /\ ~ Uses(T2[t])
      /\ \A o, x : ~ HoldsFound(T[t], o, x) /\ ~ HoldsFound(T2[t], o, x)
  BY <1>2 DEF Pages, Uses, HoldsFound
<1>4. e \in Objects
  BY <1>1, <1>3 DEF FaultOK
<1>5. T2 \in [Threads -> FaultRecord] /\ \A u \in Threads : FaultOK(T2[u])
  BY <1>1, <1>2, FaultsFit DEF OthersSame
<1>6. PagesHeld(O, T2, d)
  <2>1. \A o \in Objects, x \in Offsets : OtherPage(O, O, T[t], T2[t], o, x)
    BY <1>3 DEF OtherPage, HoldsFirst, SameHeld
  <2> QED
    BY <1>1, <1>2, <2>1, PagesStep
<1>7. Chained(O, T2)
  <2>1. SameShadows(O, O) /\ \A rank \in [Objects -> Nat] : Below(T2[t], rank)
    BY <1>3 DEF SameShadows, Below
  <2> QED
    BY <1>1, <1>2, <2>1, ChainsStay
<1>8. Counted(O, M, T2, d, e)
  <2> SUFFICES ASSUME NEW o \in Objects
               PROVE  /\ O[o].ref_count = Refs(O, M, T2, o) + One(o = e)
                      /\ O[o].at = "live" <=> O[o].ref_count > 0
                      /\ O[o].paging_in_progress = FaultPaging(T2, o) + DaemonPaging(d, o)
    BY DEF Counted
  <2>1. /\ O[o].ref_count = Refs(O, M, T, o) + One(o = Nil)
        /\ O[o].at = "live" <=> O[o].ref_count > 0
        /\ O[o].paging_in_progress = FaultPaging(T, o) + DaemonPaging(d, o)
    BY <1>1 DEF Counted
  <2>2. /\ FaultRefs(T, o) \in Nat /\ FaultRefs(T2, o) \in Nat
        /\ FaultPaging(T, o) \in Nat /\ FaultPaging(T2, o) \in Nat
        /\ FaultRefs(T2, o) + One(Refers(T[t], o)) = FaultRefs(T, o) + One(Refers(T2[t], o))
        /\ FaultPaging(T2, o) + One(PagesAt(T[t], o)) = FaultPaging(T, o) + One(PagesAt(T2[t], o))
    BY <1>2, FaultCounts
  <2>3. /\ One(PagesAt(T[t], o)) = 0 /\ One(PagesAt(T2[t], o)) = 0 /\ One(Refers(T2[t], o)) = 0
        /\ One(Refers(T[t], o)) = One(o = e) /\ One(o = e) \in {0, 1} /\ One(o = Nil) = 0
    BY <1>3, VmConstants DEF PagesAt, Refers, One
  <2>4. FaultPaging(T2, o) = FaultPaging(T, o)
    BY <2>2, <2>3
  <2>5. FaultRefs(T2, o) + One(o = e) = FaultRefs(T, o)
    BY <2>2, <2>3
  <2>6. MapRefs(M, o) \in Nat /\ ShadowRefs(O, o) \in Nat
    BY Counts
  <2>7. Refs(O, M, T2, o) + One(o = e) = Refs(O, M, T, o) + One(o = Nil)
    BY <2>2, <2>3, <2>5, <2>6 DEF Refs
  <2> QED
    BY <2>1, <2>4, <2>7
<1> QED
  BY <1>1, <1>4, <1>5, <1>6, <1>7, <1>8 DEF Good

\* A reference to o less.
DropsRef(O, O2, o) ==
    \A q \in Objects :
        /\ O2[q].shadow = O[q].shadow /\ O2[q].page = O[q].page
        /\ O2[q].paging_in_progress = O[q].paging_in_progress
        /\ O2[q].ref_count = IF q = o THEN O[q].ref_count - 1 ELSE O[q].ref_count
        /\ O2[q].at = IF q = o /\ O[q].ref_count = 1 THEN "dying" ELSE O[q].at

\* vm_object_deallocate, of an object with references, gives one up.
LEMMA DeallocateIs ==
  ASSUME NEW k \in Kernels, NEW o \in Objects, NEW k2, k2 = vm_object_deallocate(k, o),
         k.object[o].ref_count > 0
  PROVE  ObjectsOnly(k, k2) /\ DropsRef(k.object, k2.object, o)
<1> DEFINE r == k.object[o]
           n == r.ref_count - 1
           at == IF r.ref_count = 1 THEN "dying" ELSE r.at
           v == [r EXCEPT !.ref_count = n, !.at = at]
<1>1. k.object \in [Objects -> ObjectRecord]
  BY KernelWith
<1>2. r \in ObjectRecord
  BY <1>1
<1>3. n \in Nat /\ at \in {"free", "live", "dying"}
  BY <1>2 DEF ObjectRecord
<1>4. PutsObject(k, k2, o, v)
  <2>1. o # Nil
    BY VmConstants
  <2> QED
    BY <2>1 DEF vm_object_deallocate, PutsObject
<1> HIDE DEF n, at
<1>5. /\ v \in ObjectRecord /\ v.ref_count = n /\ v.at = at
      /\ v.paging_in_progress = r.paging_in_progress /\ v.shadow = r.shadow /\ v.page = r.page
  BY <1>2, <1>3 DEF ObjectRecord
<1> HIDE DEF v
<1>6. /\ ObjectsOnly(k, k2)
      /\ k2.object[o] = v /\ \A q \in Objects \ {o} : k2.object[q] = k.object[q]
  <2>1. v \in ObjectRecord
    BY <1>5
  <2>2. /\ k2 \in Kernels /\ k2.map = k.map /\ k2.pmap = k.pmap /\ k2.th = k.th
        /\ k2.object[o] = v /\ \A q \in Objects \ {o} : k2.object[q] = k.object[q]
    BY ONLY k \in Kernels, o \in Objects, <1>4, <2>1, SetObject
  <2> QED
    BY <2>2 DEF ObjectsOnly
<1>7. ASSUME NEW q \in Objects
      PROVE  /\ k2.object[q].shadow = k.object[q].shadow /\ k2.object[q].page = k.object[q].page
             /\ k2.object[q].paging_in_progress = k.object[q].paging_in_progress
             /\ k2.object[q].ref_count = IF q = o THEN k.object[q].ref_count - 1 ELSE k.object[q].ref_count
             /\ k2.object[q].at = IF q = o /\ k.object[q].ref_count = 1 THEN "dying" ELSE k.object[q].at
  <2>1. CASE q = o
    BY <1>5, <1>6, <2>1 DEF n, at
  <2>2. CASE q # o
    BY <1>6, <2>2
  <2> QED
    BY <2>1, <2>2
<1> QED
  BY <1>6, <1>7 DEF DropsRef

\* The reference that was too many is given up: the counts are exact again.
LEMMA GoodDrop ==
  ASSUME NEW O, NEW O2, NEW M, NEW T, NEW d, NEW e \in Objects,
         Good(O, M, T, d, e), O2 \in [Objects -> ObjectRecord], DropsRef(O, O2, e)
  PROVE  Good(O2, M, T, d, Nil)
<1>1. /\ O \in [Objects -> ObjectRecord] /\ M \in [Tasks -> EntryRecord]
      /\ T \in [Threads -> FaultRecord] /\ d \in DaemonRecord
      /\ \A u \in Threads : FaultOK(T[u])
      /\ DaemonOK(d) /\ PagesHeld(O, T, d) /\ Counted(O, M, T, d, e) /\ FreeIsClean(O) /\ Chained(O, T)
  BY DEF Good
<1>2. /\ \A q \in Objects : /\ O2[q].shadow = O[q].shadow /\ O2[q].page = O[q].page
                            /\ O2[q].paging_in_progress = O[q].paging_in_progress
      /\ O[e].ref_count > 0 /\ O[e].at = "live"
  BY GoodFacts DEF DropsRef
<1>3. \A q \in Objects : O2[q].at = "free" <=> O[q].at = "free"
  BY <1>2 DEF DropsRef
<1>4. PagesHeld(O2, T, d)
  BY <1>1, <1>2 DEF PagesHeld, PageHeld
<1>5. FreeIsClean(O2)
  BY <1>1, <1>2, <1>3 DEF FreeIsClean
<1>6. Chained(O2, T)
  BY <1>1, <1>2 DEF Chained, Descends
<1>7. Counted(O2, M, T, d, Nil)
  <2> SUFFICES ASSUME NEW o \in Objects
               PROVE  /\ O2[o].ref_count = Refs(O2, M, T, o) + One(o = Nil)
                      /\ O2[o].at = "live" <=> O2[o].ref_count > 0
                      /\ O2[o].paging_in_progress = FaultPaging(T, o) + DaemonPaging(d, o)
    BY DEF Counted
  <2>1. /\ O[o].ref_count = Refs(O, M, T, o) + One(o = e)
        /\ O[o].at = "live" <=> O[o].ref_count > 0
        /\ O[o].paging_in_progress = FaultPaging(T, o) + DaemonPaging(d, o)
    BY <1>1 DEF Counted
  <2>2. ShadowRefs(O2, o) = ShadowRefs(O, o)
    <3>1. \A q \in Objects : Shadows(O2, q, o) <=> Shadows(O, q, o)
      BY <1>2, <1>3 DEF Shadows
    <3> QED
      BY <3>1, ShadowsSame
  <2>3. Refs(O2, M, T, o) = Refs(O, M, T, o) /\ Refs(O, M, T, o) \in Nat
    <3>1. MapRefs(M, o) \in Nat /\ ShadowRefs(O, o) \in Nat /\ FaultRefs(T, o) \in Nat
      BY Counts
    <3> QED
      BY <2>2, <3>1 DEF Refs
  <2>4. One(o = Nil) = 0
    BY VmConstants DEF One
  <2>5. CASE o = e
    <3>1. One(o = e) = 1
      BY <2>5 DEF One
    <3>2. O2[o].ref_count = Refs(O, M, T, o)
      BY <2>1, <2>3, <2>5, <3>1 DEF DropsRef
    <3>3. O2[o].at = "live" <=> O2[o].ref_count > 0
      <4>1. O2[o].ref_count = O[o].ref_count - 1 /\ O[o].ref_count \in Nat
            /\ O2[o].at = IF O[o].ref_count = 1 THEN "dying" ELSE O[o].at
        BY <1>1, <2>5 DEF DropsRef, ObjectRecord
      <4> QED
        BY <1>2, <2>5, <4>1
    <3> QED
      BY <1>2, <2>1, <2>3, <2>4, <3>2, <3>3
  <2>6. CASE o # e
    <3>1. One(o = e) = 0
      BY <2>6 DEF One
    <3>2. O2[o].ref_count = O[o].ref_count /\ O2[o].at = O[o].at
      BY <2>6 DEF DropsRef
    <3> QED
      BY <1>2, <2>1, <2>3, <2>4, <3>1, <3>2
  <2> QED
    BY <2>5, <2>6
<1> QED
  BY <1>1, <1>4, <1>5, <1>6, <1>7 DEF Good

-----------------------------------------------------------------------------
(* The search.                                                             *)

\* Thread t is at another point, or at another object.
ThreadAt(k, k2, t, at, cur) ==
    /\ k2 \in Kernels /\ k2.object = k.object /\ k2.map = k.map /\ k2.pmap = k.pmap
    /\ k2.th[t].at = at /\ k2.th[t].cur = cur
    /\ k2.th[t].first = k.th[t].first /\ k2.th[t].off = k.th[t].off
    /\ OthersSame(k.th, k2.th, t)

\* Where a thread may be.
Points == {"run", "lookup", "search", "wait", "sleep", "copy", "collapse", "verify", "alone"}

\* When one thread is elsewhere, the others are where they were.
LEMMA OthersAre ==
  ASSUME NEW k \in Kernels, NEW k2, NEW t \in Threads, NEW r, ThreadOnly(k, k2, t, r)
  PROVE  OthersSame(k.th, k2.th, t)
<1>1. k2.th \in [Threads -> FaultRecord] /\ \A u \in Threads \ {t} : k2.th[u] = k.th[u]
  BY KernelWith DEF ThreadOnly
<1> QED
  BY <1>1 DEF OthersSame, SameFault

\* A thread goes to another point of vm_fault_page with what it has.
LEMMA GoesToIs ==
  ASSUME NEW k \in Kernels, NEW t \in Threads, NEW at \in Points, NEW k2, k2 = GoesTo(k, t, at)
  PROVE  ThreadAt(k, k2, t, at, k.th[t].cur)
<1> DEFINE r == k.th[t]
           v == [r EXCEPT !.at = at]
<1>1. r \in FaultRecord
  BY KernelWith
<1>2. k2 = [k EXCEPT !.th[t] = v]
  BY DEF GoesTo
<1>3. v \in FaultRecord /\ v.at = at /\ v.cur = r.cur /\ v.first = r.first /\ v.off = r.off
  BY <1>1 DEF FaultRecord, Points
<1> HIDE DEF v
<1>4. ThreadOnly(k, k2, t, v)
  BY <1>2, <1>3, SetFault
<1>5. OthersSame(k.th, k2.th, t)
  BY <1>4, OthersAre
<1> QED
  BY <1>3, <1>4, <1>5 DEF ThreadOnly, ThreadAt

\* A search goes to another object.
LEMMA SetCurIs ==
  ASSUME NEW k \in Kernels, NEW t \in Threads, NEW o \in Objects, NEW k2, k2 = [k EXCEPT !.th[t].cur = o]
  PROVE  ThreadAt(k, k2, t, k.th[t].at, o)
<1> DEFINE r == k.th[t]
           v == [r EXCEPT !.cur = o]
<1>1. r \in FaultRecord
  BY KernelWith
<1>2. k2 = [k EXCEPT !.th[t] = v]
  OBVIOUS
<1>3. v \in FaultRecord /\ v.at = r.at /\ v.cur = o /\ v.first = r.first /\ v.off = r.off
  BY <1>1 DEF FaultRecord
<1> HIDE DEF v
<1>4. ThreadOnly(k, k2, t, v)
  BY <1>2, <1>3, SetFault
<1>5. OthersSame(k.th, k2.th, t)
  BY <1>4, OthersAre
<1> QED
  BY <1>3, <1>4, <1>5 DEF ThreadOnly, ThreadAt

\* The others, over two steps.
LEMMA OthersAgain ==
  ASSUME NEW T, NEW T2, NEW T3, NEW t
  PROVE  /\ OthersSame(T, T2, t) /\ OthersSame(T2, T3, t) => OthersSame(T, T3, t)
         /\ AllSame(T, T2) => OthersSame(T, T2, t)
BY DEF OthersSame, AllSame, SameFault

\* A page set in the top object.
Empty(p) == p.at = "empty" /\ p.busy

\* In the top object, vm_fault_page leaves a busy page as place-holder.
LEMMA PlaceFirstIs ==
  ASSUME NEW k \in Kernels, NEW t \in Threads, NEW o \in Objects, NEW x \in Offsets,
         k.th[t].cur = o, k.th[t].first = o, k.th[t].off = x,
         NEW k2, k2 = Placeholder(k, t)
  PROVE  /\ ObjectsOnly(k, k2)
         /\ \E p \in PageRecord : Empty(p) /\ OnePage(k.object, k2.object, o, x, p)
<1> DEFINE p == Page("empty", Zero, FALSE)
           a == SetPage(k, o, x, p)
           b == AbsentRelease(a, o)
<1>1. p \in PageRecord /\ Empty(p)
  BY VmConstants DEF Page, PageRecord, Empty
<1>2. k2 = IF PageOf(k, t).at = "absent" THEN b ELSE a
  BY DEF Placeholder
<1> HIDE DEF p
<1>3. ObjectsOnly(k, a) /\ OnePage(k.object, a.object, o, x, p)
  <2>1. PutsPage(k, a, o, x, p)
    BY DEF SetPage, PutsPage
  <2> HIDE DEF a
  <2> QED
    BY <1>1, <2>1, SetPageIs
<1>4. /\ ObjectsOnly(a, b)
      /\ SameChains(a.object, b.object) /\ SamePaging(a.object, b.object)
      /\ SamePages(a.object, b.object)
      /\ \A q \in Objects : b.object[q].pager = a.object[q].pager
  <2> HIDE DEF a
  <2> QED
    BY <1>3, AbsentReleaseIs DEF ObjectsOnly
<1> HIDE DEF a, b
<1>5. ObjectsOnly(k, b) /\ OnePage(k.object, b.object, o, x, p)
  BY <1>3, <1>4 DEF ObjectsOnly, OnePage, SameChains, SamePaging, SamePages, PagesBut
<1> QED
  BY <1>1, <1>2, <1>3, <1>5

\* A page freed, if there is one, and the paging reference given up.
FreedBelow(O, O2, o, x) ==
    /\ SameChains(O, O2) /\ PagingBy(O, O2, o, -1) /\ PagesBut(O, O2, o, x)
    /\ O2[o].page[x] = IF O[o].page[x].at = "absent" THEN NoPage ELSE O[o].page[x]

\* Further down it leaves nothing there, and its paging reference is given up.
LEMMA PlaceBelowIs ==
  ASSUME NEW k \in Kernels, NEW t \in Threads, NEW o \in Objects, NEW x \in Offsets,
         k.th[t].cur = o, k.th[t].first # o, k.th[t].off = x,
         k.object[o].paging_in_progress > 0,
         NEW k2, k2 = Placeholder(k, t)
  PROVE  /\ WakesAnd(k, k2) /\ FreedBelow(k.object, k2.object, o, x)
         /\ \A u \in Threads : k.th[u].at # "wait" => k2.th[u] = k.th[u]
<1> DEFINE absent == k.object[o].page[x].at = "absent"
           f == vm_page_free(k, o, x)
           a == IF absent THEN f ELSE k
<1>1. k2 = vm_object_paging_end(a, o)
  BY DEF Placeholder, PageOf
<1>2. /\ WakesAnd(k, a)
      /\ \A u \in Threads : k.th[u].at # "wait" => a.th[u] = k.th[u]
      /\ SameChains(k.object, a.object) /\ SamePaging(k.object, a.object)
      /\ PagesBut(k.object, a.object, o, x)
      /\ a.object[o].page[x] = IF absent THEN NoPage ELSE k.object[o].page[x]
  <2>1. CASE absent
    <3>1. /\ WakesAnd(k, f) /\ OnePage(k.object, f.object, o, x, NoPage)
          /\ \A u \in Threads : k.th[u].at # "wait" => f.th[u] = k.th[u]
      BY FreePageIs
    <3> HIDE DEF f
    <3> QED
      BY <2>1, <3>1 DEF OnePage
  <2>2. CASE ~ absent
    <3>1. WakesAnd(k, k)
      BY AllSameAgain DEF WakesAnd
    <3> QED
      BY <2>2, <3>1 DEF SameChains, SamePaging, PagesBut
  <2> QED
    BY <2>1, <2>2
<1> HIDE DEF a, absent
<1>3. a \in Kernels /\ a.object[o].paging_in_progress > 0
  BY <1>2 DEF WakesAnd, SamePaging
<1>4. /\ ObjectsOnly(a, k2)
      /\ SameChains(a.object, k2.object) /\ SamePages(a.object, k2.object)
      /\ PagingBy(a.object, k2.object, o, -1)
  BY <1>1, <1>3, EndIs
<1>5. WakesAnd(k, k2) /\ \A u \in Threads : k.th[u].at # "wait" => k2.th[u] = k.th[u]
  BY <1>2, <1>4 DEF ObjectsOnly, WakesAnd
<1>6. SameChains(k.object, k2.object) /\ PagesBut(k.object, k2.object, o, x)
  BY <1>2, <1>4 DEF SameChains, SamePages, PagesBut
<1>7. PagingBy(k.object, k2.object, o, -1)
  BY <1>2, <1>4 DEF SamePaging, PagingBy
<1>8. k2.object[o].page[x] = IF absent THEN NoPage ELSE k.object[o].page[x]
  BY <1>2, <1>4 DEF SamePages
<1> QED
  BY <1>5, <1>6, <1>7, <1>8 DEF FreedBelow, absent

\* What stays during a search.
Searching(k, k2, t) ==
    /\ k2 \in Kernels /\ k2.map = k.map /\ k2.pmap = k.pmap
    /\ OthersSame(k.th, k2.th, t)
    /\ k2.th[t].at = "search"
    /\ k2.th[t].first = k.th[t].first /\ k2.th[t].off = k.th[t].off

\* What an object is, by the invariant.
LEMMA GoodParts ==
  ASSUME NEW O, NEW M, NEW T, NEW d, NEW e, Good(O, M, T, d, e)
  PROVE  /\ O \in [Objects -> ObjectRecord] /\ M \in [Tasks -> EntryRecord]
         /\ T \in [Threads -> FaultRecord] /\ d \in DaemonRecord
         /\ \A t \in Threads : FaultOK(T[t])
         /\ DaemonOK(d) /\ PagesHeld(O, T, d) /\ Counted(O, M, T, d, e)
         /\ FreeIsClean(O) /\ Chained(O, T)
BY DEF Good

\* A free object stays as it is when pages and paging of others change.
LEMMA StaysClean ==
  ASSUME NEW O, NEW O2, FreeIsClean(O), SameChains(O, O2),
         \A q \in Objects : O[q].at = "free" =>
            /\ O2[q].paging_in_progress = O[q].paging_in_progress
            /\ \A y \in Offsets : O2[q].page[y] = O[q].page[y]
  PROVE  FreeIsClean(O2)
BY DEF FreeIsClean, SameChains

\* A page that is not kept may become t's.
LEMMA NobodysIs ==
  ASSUME NEW O, NEW T, NEW d, NEW o \in Objects, NEW x \in Offsets, PagesHeld(O, T, d),
         ~ Kept(O[o].page[x]), NEW t \in Threads
  PROVE  Sole(T, d, t, o, x) /\ ~ Holds(T[t], o, x)
BY HolderIs DEF Sole

\* The objects of a search.
LEMMA SearchIs ==
  ASSUME NEW O, NEW M, NEW T, NEW d, NEW e, Good(O, M, T, d, e), NEW t \in Threads, Pages(T[t])
  PROVE  LET c == T[t].cur  f == T[t].first
         IN  /\ c \in Objects /\ f \in Objects /\ T[t].off \in Offsets
             /\ O[c].paging_in_progress > 0 /\ O[c].at # "free"
             /\ O[f].paging_in_progress > 0 /\ O[f].at = "live"
             /\ O[c].shadow # Nil =>
                    /\ O[c].shadow \in Objects /\ O[O[c].shadow].at = "live"
                    /\ O[c].shadow # c /\ O[c].shadow # f
             /\ \A rank \in [Objects -> Nat] :
                    Descends(O, T, rank) /\ O[c].shadow # Nil => rank[O[c].shadow] < rank[f]
<1> DEFINE c == T[t].cur
           f == T[t].first
           s == O[c].shadow
<1>1. FaultOK(T[t]) /\ O \in [Objects -> ObjectRecord] /\ Chained(O, T)
  BY GoodParts
<1>2. T[t].at \notin {"run", "lookup"} /\ Uses(T[t])
  BY DEF Pages, Uses
<1>3. c \in Objects /\ f \in Objects /\ T[t].off \in Offsets
  BY <1>1, <1>2 DEF FaultOK
<1>4. PagesAt(T[t], c) /\ PagesAt(T[t], f) /\ Refers(T[t], f)
  BY <1>2 DEF PagesAt, Refers
<1>5. /\ O[c].paging_in_progress > 0 /\ O[c].at # "free"
      /\ O[f].paging_in_progress > 0 /\ O[f].at = "live"
  BY <1>3, <1>4, GoodFacts
<1>6. ASSUME NEW rank \in [Objects -> Nat], Descends(O, T, rank), s # Nil
      PROVE  s \in Objects /\ rank[s] < rank[c] /\ rank[s] < rank[f]
  <2>1. s \in Objects
    BY <1>1, <1>3, <1>6 DEF ObjectRecord
  <2>2. rank[s] < rank[c]
    BY <1>3, <1>6 DEF Descends
  <2>3. c # f => rank[c] < rank[f]
    BY <1>6 DEF Descends
  <2>4. rank[s] \in Nat /\ rank[c] \in Nat /\ rank[f] \in Nat
    BY <1>3, <2>1
  <2> HIDE DEF s, c, f
  <2> QED
    BY <2>1, <2>2, <2>3, <2>4
<1>7. ASSUME s # Nil
      PROVE  s \in Objects /\ O[s].at = "live" /\ s # c /\ s # f
  <2>1. PICK rank \in [Objects -> Nat] : Descends(O, T, rank)
    BY <1>1 DEF Chained
  <2>2. s \in Objects /\ rank[s] < rank[c] /\ rank[s] < rank[f]
    BY <1>6, <1>7, <2>1
  <2>3. rank[s] \in Nat
    BY <2>2
  <2>4. s # c /\ s # f
    BY <2>2, <2>3
  <2>5. Shadows(O, c, s)
    BY <1>5 DEF Shadows
  <2> QED
    BY <1>3, <2>2, <2>4, <2>5, GoodFacts
<1> QED
  BY <1>3, <1>5, <1>6, <1>7

\* From the top object, where a page is left busy, to its shadow.
FirstToNext(O, O1, O2, T, T2, t, o, x, s, p) ==
    /\ T[t].at = "search" /\ T[t].cur = o /\ T[t].first = o /\ T[t].off = x
    /\ ~ O[o].page[x].busy
    /\ O[o].shadow = s /\ s # Nil
    /\ O1 \in [Objects -> ObjectRecord] /\ O2 \in [Objects -> ObjectRecord]
    /\ p \in PageRecord /\ Empty(p) /\ OnePage(O, O1, o, x, p)
    /\ SameChains(O1, O2) /\ SamePages(O1, O2) /\ PagingBy(O1, O2, s, 1)
    /\ T2[t].at = "search" /\ T2[t].cur = s /\ T2[t].first = o /\ T2[t].off = x
    /\ OthersSame(T, T2, t)

\* Going on from the top object keeps the invariant.
LEMMA FirstToNextKeeps ==
  ASSUME NEW O, NEW O1, NEW O2, NEW M, NEW T, NEW T2, NEW d, NEW e, NEW t \in Threads,
         NEW o, NEW x, NEW s, NEW p,
         Good(O, M, T, d, e), FirstToNext(O, O1, O2, T, T2, t, o, x, s, p)
  PROVE  Good(O2, M, T2, d, e)
<1>1. /\ T[t].at = "search" /\ T[t].cur = o /\ T[t].first = o /\ T[t].off = x
      /\ ~ O[o].page[x].busy
      /\ O[o].shadow = s /\ s # Nil
      /\ O2 \in [Objects -> ObjectRecord]
      /\ Empty(p) /\ OnePage(O, O1, o, x, p)
      /\ SameChains(O1, O2) /\ SamePages(O1, O2) /\ PagingBy(O1, O2, s, 1)
      /\ T2[t].at = "search" /\ T2[t].cur = s /\ T2[t].first = o /\ T2[t].off = x
      /\ OthersSame(T, T2, t)
  BY DEF FirstToNext
<1>2. Pages(T[t]) /\ Pages(T2[t]) /\ Uses(T[t]) /\ Uses(T2[t])
  BY <1>1 DEF Pages, Uses
<1>3. /\ o \in Objects /\ x \in Offsets /\ s \in Objects /\ s # o
      /\ O[o].at # "free" /\ O[s].at = "live"
      /\ \A rank \in [Objects -> Nat] : Descends(O, T, rank) => rank[s] < rank[o]
  BY <1>1, <1>2, SearchIs
<1>4. SameChains(O, O2)
  BY <1>1 DEF SameChains, OnePage
<1>5. \A q \in Objects, y \in Offsets :
        O2[q].page[y] = IF q = o /\ y = x THEN p ELSE O[q].page[y]
  BY <1>1 DEF OnePage, SamePages, PagesBut
<1>6. \A q \in Objects : O2[q].paging_in_progress = O[q].paging_in_progress + IF q = s THEN 1 ELSE 0
  BY <1>1 DEF OnePage, SamePaging, PagingBy
<1>7. O \in [Objects -> ObjectRecord] /\ FreeIsClean(O) /\ PagesHeld(O, T, d)
  BY GoodParts
<1>8. \A q \in Objects : O[q].paging_in_progress \in Nat /\ O2[q].paging_in_progress \in Nat
  BY <1>1, <1>7 DEF ObjectRecord
<1>9. FaultOK(T2[t])
  BY <1>1, <1>3 DEF FaultOK
<1>10. ASSUME NEW q \in Objects
       PROVE  /\ Refers(T2[t], q) <=> Refers(T[t], q)
              /\ O2[q].paging_in_progress + One(PagesAt(T[t], q))
                   = O[q].paging_in_progress + One(PagesAt(T2[t], q))
  <2>1. Refers(T2[t], q) <=> Refers(T[t], q)
    BY <1>1, <1>2 DEF Refers
  <2>2. One(PagesAt(T[t], q)) = One(q = o) /\ One(PagesAt(T2[t], q)) = One(q = o \/ q = s)
    BY <1>1, <1>2 DEF PagesAt, One
  <2> QED
    BY <1>3, <1>6, <1>8, <2>1, <2>2 DEF One
<1>11. ASSUME NEW q \in Objects, NEW y \in Offsets
       PROVE  OtherPage(O, O2, T[t], T2[t], q, y) \/ OwnPage(O2, T, d, t, T2[t], q, y)
  <2>1. ~ HoldsFound(T[t], q, y) /\ ~ HoldsFound(T2[t], q, y) /\ ~ HoldsFirst(T[t], q, y)
        /\ (HoldsFirst(T2[t], q, y) <=> q = o /\ y = x)
    BY <1>1, <1>2, <1>3 DEF HoldsFound, HoldsFirst
  <2>2. CASE q = o /\ y = x
    <3>1. Sole(T, d, t, q, y)
      BY <1>1, <1>7, <2>2, NobodysIs DEF Kept
    <3>2. O2[q].page[y] = p
      BY <1>5, <2>2
    <3>3. HeldAs(O2[q].page[y], T2[t], q, y)
      BY <1>1, <2>1, <2>2, <3>2 DEF HeldAs, PageOK, Kept, Empty, Holds
    <3> QED
      BY <3>1, <3>3 DEF OwnPage
  <2>3. CASE ~ (q = o /\ y = x)
    BY <1>5, <2>1, <2>3 DEF OtherPage, SameHeld
  <2> QED
    BY <2>2, <2>3
<1>12. FreeIsClean(O2)
  <2>1. \A q \in Objects : O[q].at = "free" => q # o /\ q # s
    BY <1>3
  <2> QED
    BY <1>4, <1>5, <1>6, <1>7, <1>8, <2>1, StaysClean
<1>13. \A rank \in [Objects -> Nat] : Descends(O, T, rank) => Below(T2[t], rank)
  BY <1>1, <1>3 DEF Below
<1>14. Moves(O, O2, T, T2, d, t)
  BY <1>1, <1>4, <1>9, <1>10, <1>11, <1>12, <1>13 DEF Moves
<1> QED
  BY <1>14, GoodStep

\* From an object further down to its shadow.
BelowToNext(O, O1, O2, T, T2, t, o, x, s) ==
    /\ T[t].at = "search" /\ T[t].cur = o /\ T[t].first # o /\ T[t].off = x
    /\ ~ O[o].page[x].busy
    /\ O[o].shadow = s /\ s # Nil
    /\ O1 \in [Objects -> ObjectRecord] /\ O2 \in [Objects -> ObjectRecord]
    /\ FreedBelow(O, O1, o, x)
    /\ SameChains(O1, O2) /\ SamePages(O1, O2) /\ PagingBy(O1, O2, s, 1)
    /\ T2[t].at = "search" /\ T2[t].cur = s /\ T2[t].first = T[t].first /\ T2[t].off = x
    /\ OthersSame(T, T2, t)

\* Going on from an object further down keeps the invariant.
LEMMA BelowToNextKeeps ==
  ASSUME NEW O, NEW O1, NEW O2, NEW M, NEW T, NEW T2, NEW d, NEW e, NEW t \in Threads,
         NEW o, NEW x, NEW s,
         Good(O, M, T, d, e), BelowToNext(O, O1, O2, T, T2, t, o, x, s)
  PROVE  Good(O2, M, T2, d, e)
<1> DEFINE f == T[t].first
<1>1. /\ T[t].at = "search" /\ T[t].cur = o /\ f # o /\ T[t].off = x
      /\ ~ O[o].page[x].busy
      /\ O[o].shadow = s /\ s # Nil
      /\ O2 \in [Objects -> ObjectRecord]
      /\ FreedBelow(O, O1, o, x)
      /\ SameChains(O1, O2) /\ SamePages(O1, O2) /\ PagingBy(O1, O2, s, 1)
      /\ T2[t].at = "search" /\ T2[t].cur = s /\ T2[t].first = f /\ T2[t].off = x
      /\ OthersSame(T, T2, t)
  BY DEF BelowToNext
<1>2. Pages(T[t]) /\ Pages(T2[t]) /\ Uses(T[t]) /\ Uses(T2[t])
  BY <1>1 DEF Pages, Uses
<1>3. /\ o \in Objects /\ x \in Offsets /\ s \in Objects /\ s # o /\ f \in Objects /\ s # f
      /\ O[o].at # "free" /\ O[s].at = "live"
      /\ \A rank \in [Objects -> Nat] : Descends(O, T, rank) => rank[s] < rank[f]
  BY <1>1, <1>2, SearchIs
<1>4. SameChains(O, O2)
  BY <1>1 DEF SameChains, FreedBelow
<1>5. /\ \A q \in Objects, y \in Offsets : ~ (q = o /\ y = x) => O2[q].page[y] = O[q].page[y]
      /\ O2[o].page[x] = O[o].page[x] \/ O2[o].page[x] = NoPage
  BY <1>1, <1>3 DEF FreedBelow, SamePages, PagesBut
<1>7. O \in [Objects -> ObjectRecord] /\ FreeIsClean(O) /\ PagesHeld(O, T, d)
  BY GoodParts
<1>8. \A q \in Objects : O[q].paging_in_progress \in Nat /\ O2[q].paging_in_progress \in Nat
                         /\ O1[q].paging_in_progress \in Nat
  BY <1>1, <1>7 DEF ObjectRecord, BelowToNext
<1>6. \A q \in Objects : O2[q].paging_in_progress = O[q].paging_in_progress + IF q = s THEN 1
          ELSE IF q = o THEN -1 ELSE 0
  <2>1. \A q \in Objects : O1[q].paging_in_progress = O[q].paging_in_progress + IF q = o THEN -1 ELSE 0
    BY <1>1 DEF FreedBelow, PagingBy
  <2>2. \A q \in Objects : O2[q].paging_in_progress = O1[q].paging_in_progress + IF q = s THEN 1 ELSE 0
    BY <1>1 DEF PagingBy
  <2> QED
    BY <1>3, <1>8, <2>1, <2>2
<1>9. FaultOK(T2[t])
  BY <1>1, <1>3 DEF FaultOK
<1>10. ASSUME NEW q \in Objects
       PROVE  /\ Refers(T2[t], q) <=> Refers(T[t], q)
              /\ O2[q].paging_in_progress + One(PagesAt(T[t], q))
                   = O[q].paging_in_progress + One(PagesAt(T2[t], q))
  <2>1. Refers(T2[t], q) <=> Refers(T[t], q)
    BY <1>1, <1>2 DEF Refers
  <2>2. One(PagesAt(T[t], q)) = One(q = f \/ q = o) /\ One(PagesAt(T2[t], q)) = One(q = f \/ q = s)
    BY <1>1, <1>2 DEF PagesAt, One
  <2> HIDE DEF f
  <2> QED
    BY <1>1, <1>3, <1>6, <1>8, <2>1, <2>2 DEF One
<1>11. ASSUME NEW q \in Objects, NEW y \in Offsets
       PROVE  OtherPage(O, O2, T[t], T2[t], q, y) \/ OwnPage(O2, T, d, t, T2[t], q, y)
  <2>1. ~ HoldsFound(T[t], q, y) /\ ~ HoldsFound(T2[t], q, y)
        /\ (HoldsFirst(T[t], q, y) <=> q = f /\ y = x)
        /\ (HoldsFirst(T2[t], q, y) <=> q = f /\ y = x)
    BY <1>1, <1>2, <1>3 DEF HoldsFound, HoldsFirst
  <2>2. CASE q = o /\ y = x
    <3>1. Sole(T, d, t, q, y) /\ PageOK(O[q].page[y])
      BY <1>1, <1>7, <2>2, NobodysIs, HolderIs DEF Kept
    <3>2. ~ Holds(T2[t], q, y)
      BY <1>1, <2>1, <2>2 DEF Holds
    <3>3. PageOK(O2[q].page[y]) /\ ~ O2[q].page[y].busy
      BY <1>1, <1>5, <2>2, <3>1 DEF PageOK, NoPage
    <3>4. HeldAs(O2[q].page[y], T2[t], q, y)
      BY <3>2, <3>3 DEF HeldAs, Kept, Holds
    <3> QED
      BY <3>1, <3>4 DEF OwnPage
  <2>3. CASE ~ (q = o /\ y = x)
    BY <1>5, <2>1, <2>3 DEF OtherPage, SameHeld
  <2> QED
    BY <2>2, <2>3
<1>12. FreeIsClean(O2)
  <2>1. \A q \in Objects : O[q].at = "free" => q # o /\ q # s
    BY <1>3
  <2> QED
    BY <1>4, <1>5, <1>6, <1>7, <1>8, <2>1, StaysClean
<1>13. \A rank \in [Objects -> Nat] : Descends(O, T, rank) => Below(T2[t], rank)
  BY <1>1, <1>3 DEF Below
<1>14. Moves(O, O2, T, T2, d, t)
  BY <1>1, <1>4, <1>9, <1>10, <1>11, <1>12, <1>13 DEF Moves
<1> QED
  BY <1>14, GoodStep

\* One step down the chain.
LEMMA NextObjectIs ==
  ASSUME NEW k, NEW d, NEW e, VInv(k, d, e), NEW t \in Threads, k.th[t].at = "search",
         NEW k2, k2 = NextObject(k, t)
  PROVE  VInv(k2, d, e) /\ Searching(k, k2, t)
<1> DEFINE o == k.th[t].cur
           f == k.th[t].first
           x == k.th[t].off
           s == k.object[o].shadow
           moves == ~ PageOf(k, t).busy /\ NoData(k, t) /\ s # Nil
<1>1. k \in Kernels /\ Good(k.object, k.map, k.th, d, e)
  BY DEF VInv
<1>2. Pages(k.th[t])
  BY DEF Pages
<1>3. /\ o \in Objects /\ f \in Objects /\ x \in Offsets
      /\ k.object[o].paging_in_progress > 0
      /\ s # Nil => s \in Objects
  BY <1>1, <1>2, SearchIs
<1>4. CASE ~ moves
  <2>1. k2 = k
    BY <1>4 DEF NextObject
  <2>2. OthersSame(k.th, k.th, t)
    BY <1>1, AllSameAgain, OthersAgain
  <2> QED
    BY <1>1, <2>1, <2>2 DEF Searching
<1>5. CASE moves
  <2> DEFINE a == Placeholder(k, t)
             b == vm_object_paging_begin(a, s)
  <2>1. k2 = [b EXCEPT !.th[t].cur = s]
    BY <1>5 DEF NextObject
  <2>2. s \in Objects /\ ~ k.object[o].page[x].busy
    BY <1>3, <1>5 DEF PageOf
  <2>3. CASE o = f
    <3>1. /\ ObjectsOnly(k, a)
          /\ \E p \in PageRecord : Empty(p) /\ OnePage(k.object, a.object, o, x, p)
      BY <1>1, <1>3, <2>3, PlaceFirstIs
    <3>2. PICK p \in PageRecord : Empty(p) /\ OnePage(k.object, a.object, o, x, p)
      BY <3>1
    <3> HIDE DEF a
    <3>3. /\ ObjectsOnly(a, b) /\ SameChains(a.object, b.object) /\ SamePages(a.object, b.object)
          /\ PagingBy(a.object, b.object, s, 1)
      BY <2>2, <3>1, BeginIs DEF ObjectsOnly
    <3> HIDE DEF b
    <3>4. b \in Kernels /\ b.th = k.th /\ b.map = k.map /\ b.pmap = k.pmap
      BY <3>1, <3>3 DEF ObjectsOnly
    <3>5. ThreadAt(b, k2, t, "search", s)
      BY <2>1, <2>2, <3>4, SetCurIs
    <3>6. Searching(k, k2, t) /\ k2.th[t].cur = s /\ k2.object = b.object
      BY <3>4, <3>5 DEF ThreadAt, Searching
    <3>7. FirstToNext(k.object, a.object, k2.object, k.th, k2.th, t, o, x, s, p)
      <4>1. a.object \in [Objects -> ObjectRecord] /\ k2.object \in [Objects -> ObjectRecord]
        BY <3>1, <3>6, KernelWith DEF ObjectsOnly, Searching
      <4> QED
        BY <1>5, <2>2, <2>3, <3>2, <3>3, <3>6, <4>1 DEF FirstToNext, Searching
    <3>8. Good(k2.object, k.map, k2.th, d, e)
      BY <1>1, <3>7, FirstToNextKeeps
    <3> QED
      BY <3>6, <3>8 DEF VInv, Searching
  <2>4. CASE o # f
    <3>1. /\ WakesAnd(k, a) /\ FreedBelow(k.object, a.object, o, x)
          /\ \A u \in Threads : k.th[u].at # "wait" => a.th[u] = k.th[u]
      BY <1>1, <1>3, <2>4, PlaceBelowIs
    <3> HIDE DEF a
    <3>3. /\ ObjectsOnly(a, b) /\ SameChains(a.object, b.object) /\ SamePages(a.object, b.object)
          /\ PagingBy(a.object, b.object, s, 1)
      BY <2>2, <3>1, BeginIs DEF WakesAnd
    <3> HIDE DEF b
    <3>4. b \in Kernels /\ b.th = a.th /\ b.map = k.map /\ b.pmap = k.pmap /\ a.th[t] = k.th[t]
          /\ OthersSame(k.th, a.th, t)
      BY <3>1, <3>3, OthersAgain DEF ObjectsOnly, WakesAnd
    <3>41. b.th[t].at = "search" /\ b \in Kernels
      BY <3>4
    <3>5. ThreadAt(b, k2, t, "search", s)
      <4>1. ThreadAt(b, k2, t, b.th[t].at, s)
        BY <2>1, <2>2, <3>41, SetCurIs
      <4> QED
        BY <3>41, <4>1
    <3>6. Searching(k, k2, t) /\ k2.th[t].cur = s /\ k2.object = b.object
      BY <3>4, <3>5, OthersAgain DEF ThreadAt, Searching
    <3>7. BelowToNext(k.object, a.object, k2.object, k.th, k2.th, t, o, x, s)
      <4>1. a.object \in [Objects -> ObjectRecord] /\ k2.object \in [Objects -> ObjectRecord]
        BY <3>1, <3>6, KernelWith DEF WakesAnd, Searching
      <4> QED
        BY <1>5, <2>2, <2>4, <3>1, <3>3, <3>6, <4>1 DEF BelowToNext, Searching
    <3>8. Good(k2.object, k.map, k2.th, d, e)
      BY <1>1, <3>7, BelowToNextKeeps
    <3> QED
      BY <3>6, <3>8 DEF VInv, Searching
  <2> QED
    BY <2>3, <2>4
<1> QED
  BY <1>4, <1>5

\* Rounds that stay in V lead to V.
LEMMA RoundsIn ==
  ASSUME NEW N \in Nat, NEW V, NEW f, f[0] \in V,
         \A n \in 1 .. N : f[n - 1] \in V => f[n] \in V
  PROVE  f[N] \in V
<1> DEFINE A == {n \in 0 .. N : f[n] \in V}
<1>1. 0 \in A
  OBVIOUS
<1>2. ASSUME NEW n \in 0 .. N, n + 1 \in 0 .. N, n \in A PROVE n + 1 \in A
  <2>1. n + 1 \in 1 .. N /\ (n + 1) - 1 = n
    BY <1>2
  <2>2. f[n] \in V
    BY <1>2
  <2>3. f[n + 1] \in V
    BY <2>1, <2>2
  <2> QED
    BY <1>2, <2>3
<1>3. A \in SUBSET (0 .. N)
  OBVIOUS
<1> HIDE DEF A
<1>4. A = 0 .. N
  BY <1>1, <1>2, <1>3, UpTo
<1> QED
  BY <1>4 DEF A

\* There are such rounds.
Rounds(r, N, V, c, H) ==
    r \in [0 .. N -> V] /\ r[0] = c /\ \A n \in 1 .. N : r[n] = H[r[n - 1]]

\* Rounds exist, of any number.
LEMMA RoundsAre ==
  ASSUME NEW N \in Nat, NEW V, NEW c \in V, NEW H \in [V -> V]
  PROVE  \E r : Rounds(r, N, V, c, H)
<1> DEFINE G == [n \in 1 .. N |-> H]
<1>1. G \in [1 .. N -> [V -> V]] /\ \A n \in 1 .. N : G[n] = H
  OBVIOUS
<1> HIDE DEF G
<1>2. PICK r : Computes(r, N, V, c, G)
  BY <1>1, Recursion
<1>3. r \in [0 .. N -> V] /\ r[0] = c /\ \A n \in 1 .. N : r[n] = G[n][r[n - 1]]
  BY <1>2 DEF Computes
<1> QED
  BY <1>1, <1>3 DEF Rounds

\* The end of the chain, or the page.
Reached(k, t) ==
    LET passed[n \in 0 .. Cardinality(Objects)] ==
            IF n = 0 THEN k ELSE NextObject(passed[n - 1], t)
    IN  passed[Cardinality(Objects)]

\* The invariant holds where the search down the chain ends.
LEMMA ReachedIs ==
  ASSUME NEW k, NEW d, NEW e, VInv(k, d, e), NEW t \in Threads, k.th[t].at = "search"
  PROVE  VInv(Reached(k, t), d, e) /\ Searching(k, Reached(k, t), t)
<1> DEFINE N == Cardinality(Objects)
           V == {j \in Kernels : VInv(j, d, e) /\ Searching(k, j, t)}
           Step(f, n) == IF n = 0 THEN k ELSE NextObject(f[n - 1], t)
           IsPassed(f) == f = [n \in 0 .. N |-> Step(f, n)]
           passed[n \in 0 .. N] == IF n = 0 THEN k ELSE NextObject(passed[n - 1], t)
<1>1. N \in Nat
  BY VmFinite, FS_CardinalityType
<1>2. Reached(k, t) = passed[N]
  BY DEF Reached
<1>3. passed = CHOOSE f : IsPassed(f)
  OBVIOUS
<1>4. k \in V
  <2>1. k \in Kernels
    BY DEF VInv
  <2>2. OthersSame(k.th, k.th, t)
    BY <2>1, AllSameAgain, OthersAgain
  <2> QED
    BY <2>1, <2>2 DEF Searching
<1>5. ASSUME NEW j \in V PROVE NextObject(j, t) \in V
  <2> DEFINE j2 == NextObject(j, t)
  <2>1. VInv(j, d, e) /\ Searching(k, j, t)
    OBVIOUS
  <2>2. j.th[t].at = "search"
    BY <2>1 DEF Searching
  <2>3. VInv(j2, d, e) /\ Searching(j, j2, t)
    BY <2>1, <2>2, NextObjectIs
  <2> HIDE DEF j2
  <2>4. Searching(k, j2, t) /\ j2 \in Kernels
    BY <2>1, <2>3, OthersAgain DEF Searching
  <2> QED
    BY <2>3, <2>4 DEF j2
<1> HIDE DEF passed, N
<1>6. \E f : IsPassed(f)
  <2> DEFINE H == [j \in V |-> NextObject(j, t)]
  <2>1. H \in [V -> V] /\ \A j \in V : H[j] = NextObject(j, t)
    BY <1>5
  <2> HIDE DEF H, V
  <2>0. PICK r : Rounds(r, N, V, k, H)
    BY <1>1, <1>4, <2>1, RoundsAre
  <2>2. r \in [0 .. N -> V] /\ r[0] = k /\ \A n \in 1 .. N : r[n] = H[r[n - 1]]
    BY <2>0 DEF Rounds
  <2>3. ASSUME NEW n \in 0 .. N PROVE r[n] = Step(r, n)
    <3>1. CASE n = 0
      BY <2>2, <3>1
    <3>2. CASE n # 0
      <4>1. n \in 1 .. N /\ n - 1 \in 0 .. N
        BY <1>1, <3>2
      <4>2. r[n] = H[r[n - 1]] /\ r[n - 1] \in V
        BY <2>2, <4>1
      <4> QED
        BY <2>1, <3>2, <4>1, <4>2
    <3> QED
      BY <3>1, <3>2
  <2> HIDE DEF Step
  <2>4. r = [n \in 0 .. N |-> Step(r, n)]
    BY <2>2, <2>3
  <2> QED
    BY <2>4
<1>7. IsPassed(passed)
  <2> HIDE DEF IsPassed
  <2> QED
    BY <1>3, <1>6, Zenon
<1>8. \A n \in 0 .. N : passed[n] = Step(passed, n)
  BY <1>7
<1> HIDE DEF V
<1>9. passed[0] \in V
  BY <1>1, <1>4, <1>8
<1>10. ASSUME NEW n \in 1 .. N, passed[n - 1] \in V PROVE passed[n] \in V
  <2>1. n \in 0 .. N /\ n # 0
    BY <1>1
  <2>2. passed[n] = NextObject(passed[n - 1], t)
    BY <1>8, <2>1
  <2> QED
    BY <1>5, <1>10, <2>2
<1>11. passed[N] \in V
  BY <1>1, <1>9, <1>10, RoundsIn
<1> QED
  BY <1>2, <1>11 DEF V

-----------------------------------------------------------------------------
(* The ends of a search.                                                   *)

\* t's pages are as they were, and t does not move.
StaysAt(T, T2, t, at) ==
    /\ T2[t].at = at /\ T2[t].cur = T[t].cur /\ T2[t].first = T[t].first /\ T2[t].off = T[t].off
    /\ OthersSame(T, T2, t)

\* A page in the current object that is nobody's, or t's own, changes, and t comes to
\* hold it or to wait.
TurnsPage(O, O2, T, T2, t, o, x, at) ==
    /\ T[t].at \in {"search", "verify"} /\ T[t].cur = o /\ T[t].off = x
    /\ at \in {"search", "wait", "copy", "verify"}
    /\ at = "copy" => T[t].first # o
    /\ O2 \in [Objects -> ObjectRecord] /\ SameChains(O, O2) /\ SamePaging(O, O2)
    /\ \A q \in Objects, y \in Offsets : ~ (q = o /\ y = x) => SameHeld(O[q].page[y], O2[q].page[y])
    /\ StaysAt(T, T2, t, at)
    /\ \/ SameHeld(O[o].page[x], O2[o].page[x]) /\ (at \in {"copy", "verify"} <=> T[t].at = "verify")
       \/ /\ Kept(O[o].page[x]) => T[t].at = "verify"
          /\ PageOK(O2[o].page[x])
          /\ IF at \in {"copy", "verify"} THEN O2[o].page[x].at = "filled" /\ O2[o].page[x].busy
             ELSE ~ Kept(O2[o].page[x])

\* What a thread does to the page it has come to keeps the invariant.
LEMMA TurnsPageKeeps ==
  ASSUME NEW O, NEW O2, NEW M, NEW T, NEW T2, NEW d, NEW e, NEW t \in Threads,
         NEW o, NEW x, NEW at,
         Good(O, M, T, d, e), TurnsPage(O, O2, T, T2, t, o, x, at)
  PROVE  Good(O2, M, T2, d, e)
<1> DEFINE f == T[t].first
<1>1. /\ T[t].at \in {"search", "verify"} /\ T[t].cur = o /\ T[t].off = x
      /\ at \in {"search", "wait", "copy", "verify"}
      /\ at = "copy" => f # o
      /\ O2 \in [Objects -> ObjectRecord] /\ SameChains(O, O2) /\ SamePaging(O, O2)
      /\ \A q \in Objects, y \in Offsets : ~ (q = o /\ y = x) => SameHeld(O[q].page[y], O2[q].page[y])
      /\ T2[t].at = at /\ T2[t].cur = o /\ T2[t].first = f /\ T2[t].off = x
      /\ OthersSame(T, T2, t)
  BY DEF TurnsPage, StaysAt
<1>2. Pages(T[t]) /\ Pages(T2[t]) /\ Uses(T[t]) /\ Uses(T2[t])
  BY <1>1 DEF Pages, Uses
<1>3. /\ o \in Objects /\ x \in Offsets /\ f \in Objects
      /\ O[o].at # "free"
  BY <1>1, <1>2, SearchIs
<1>4. O \in [Objects -> ObjectRecord] /\ FreeIsClean(O) /\ PagesHeld(O, T, d) /\ Chained(O, T)
  BY GoodParts
<1>5. \A q \in Objects : O[q].paging_in_progress \in Nat /\ O2[q].paging_in_progress = O[q].paging_in_progress
  BY <1>1, <1>4 DEF ObjectRecord, SamePaging
<1>6. FaultOK(T2[t])
  BY <1>1, <1>3 DEF FaultOK
<1>7. ASSUME NEW q \in Objects
       PROVE  /\ Refers(T2[t], q) <=> Refers(T[t], q)
              /\ O2[q].paging_in_progress + One(PagesAt(T[t], q))
                   = O[q].paging_in_progress + One(PagesAt(T2[t], q))
  BY <1>1, <1>2, <1>5 DEF Refers, PagesAt, One
<1>8. ASSUME NEW q \in Objects, NEW y \in Offsets
       PROVE  OtherPage(O, O2, T[t], T2[t], q, y) \/ OwnPage(O2, T, d, t, T2[t], q, y)
  <2>1. /\ HoldsFirst(T[t], q, y) <=> f # o /\ q = f /\ y = x
        /\ HoldsFirst(T2[t], q, y) <=> f # o /\ q = f /\ y = x
        /\ HoldsFound(T[t], q, y) <=> T[t].at = "verify" /\ q = o /\ y = x
        /\ HoldsFound(T2[t], q, y) <=> at \in {"copy", "verify"} /\ q = o /\ y = x
    BY <1>1, <1>2, <1>3 DEF HoldsFound, HoldsFirst
  <2>2. CASE q = o /\ y = x
    <3>1. CASE SameHeld(O[o].page[x], O2[o].page[x]) /\ (at \in {"copy", "verify"} <=> T[t].at = "verify")
      BY <2>1, <2>2, <3>1 DEF OtherPage
    <3>2. CASE /\ Kept(O[o].page[x]) => T[t].at = "verify"
               /\ PageOK(O2[o].page[x])
               /\ IF at \in {"copy", "verify"} THEN O2[o].page[x].at = "filled" /\ O2[o].page[x].busy
                  ELSE ~ Kept(O2[o].page[x])
      <4>1. Sole(T, d, t, o, x)
        <5>1. CASE Kept(O[o].page[x])
          <6>1. Holds(T[t], o, x)
            BY <2>1, <2>2, <3>2, <5>1 DEF Holds
          <6> QED
            BY <1>3, <1>4, <6>1, HolderIs
        <5>2. CASE ~ Kept(O[o].page[x])
          BY <1>3, <1>4, <5>2, NobodysIs
        <5> QED
          BY <5>1, <5>2
      <4>2. HeldAs(O2[o].page[x], T2[t], o, x)
        <5>1. ~ HoldsFirst(T2[t], o, x)
          BY <2>1, <2>2
        <5>2. CASE at \in {"copy", "verify"}
          BY <2>1, <2>2, <3>2, <5>1, <5>2 DEF HeldAs, Holds
        <5>3. CASE at \notin {"copy", "verify"}
          BY <2>1, <2>2, <3>2, <5>1, <5>3 DEF HeldAs
        <5> QED
          BY <5>2, <5>3
      <4> QED
        BY <2>2, <4>1, <4>2 DEF OwnPage
    <3> QED
      BY <3>1, <3>2 DEF TurnsPage
  <2>3. CASE ~ (q = o /\ y = x)
    BY <1>1, <2>1, <2>3 DEF OtherPage
  <2> QED
    BY <2>2, <2>3
<1>9. FreeIsClean(O2)
  <2>1. \A q \in Objects : O[q].at = "free" => q # o
    BY <1>3
  <2> QED
    BY <1>1, <1>4, <1>5, <2>1 DEF FreeIsClean, SameChains, SameHeld
<1>10. \A rank \in [Objects -> Nat] : Descends(O, T, rank) => Below(T2[t], rank)
  BY <1>1, <1>2 DEF Below, Descends
<1>11. Moves(O, O2, T, T2, d, t)
  BY <1>1, <1>6, <1>7, <1>8, <1>9, <1>10 DEF Moves
<1> QED
  BY <1>11, GoodStep

\* What a thread does at its page: others are at most woken.
AtPageOnly(k, k2, t, at) ==
    /\ k2 \in Kernels /\ k2.map = k.map /\ k2.pmap = k.pmap
    /\ StaysAt(k.th, k2.th, t, at)

\* To go to another point is to stay at the page.
LEMMA GoesToAt ==
  ASSUME NEW k \in Kernels, NEW t \in Threads, NEW at \in Points, NEW k2, k2 = GoesTo(k, t, at)
  PROVE  AtPageOnly(k, k2, t, at) /\ k2.object = k.object
BY GoesToIs DEF ThreadAt, AtPageOnly, StaysAt

\* The page is handed out.
LEMMA ReturnsIs ==
  ASSUME NEW k \in Kernels, NEW t \in Threads, k.th[t].cur \in Objects, k.th[t].off \in Offsets,
         NEW k2, k2 = Returns(k, t)
  PROVE  AtPageOnly(k, k2, t, "verify") /\ Alike(k.object, k2.object)
<1> DEFINE r == k.th[t]
           o == r.cur
           x == r.off
           q == k.object[o].page[x]
           prot == r.prot /\ r.cur = r.first
           dirty == q.dirty \/ (VmFaultDirtyHandling /\ prot)
           v == [r EXCEPT !.at = "verify", !.prot = prot]
           p == [q EXCEPT !.dirty = dirty]
           k1 == [k EXCEPT !.th[t] = v]
<1>1. r \in FaultRecord /\ k.object \in [Objects -> ObjectRecord]
  BY KernelWith
<1>2. q \in PageRecord
  <2>1. k.object[o] \in ObjectRecord
    BY <1>1
  <2> QED
    BY <2>1 DEF ObjectRecord
<1>3. prot \in BOOLEAN /\ dirty \in BOOLEAN
  OBVIOUS
<1>4. k2 = [k1 EXCEPT !.object[o].page[x] = p]
  BY DEF Returns
<1> HIDE DEF prot, dirty
<1>5. v \in FaultRecord /\ v.at = "verify" /\ v.cur = r.cur /\ v.first = r.first /\ v.off = r.off
  BY <1>1, <1>3 DEF FaultRecord
<1> HIDE DEF q
<1>6. p \in PageRecord /\ p.at = q.at /\ p.busy = q.busy
  BY <1>2, <1>3 DEF PageRecord
<1> HIDE DEF v, p
<1>7. ThreadOnly(k, k1, t, v)
  BY <1>5, SetFault
<1>8. OthersSame(k.th, k1.th, t)
  BY <1>7, OthersAre
<1> HIDE DEF k1
<1>9. k1 \in Kernels /\ k1.object = k.object /\ k1.map = k.map /\ k1.pmap = k.pmap /\ k1.th[t] = v
  BY <1>7 DEF ThreadOnly
<1>10. ObjectsOnly(k1, k2) /\ OnePage(k1.object, k2.object, o, x, p)
  <2>1. PutsPage(k1, k2, o, x, p)
    BY <1>4 DEF PutsPage
  <2> QED
    BY <1>6, <1>9, <2>1, SetPageIs
<1>11. Alike(k.object, k2.object)
  <2>1. OnePage(k.object, k2.object, o, x, p)
    BY <1>9, <1>10
  <2>2. \A w \in Objects, y \in Offsets : SameHeld(k.object[w].page[y], k2.object[w].page[y])
    BY <1>6, <2>1 DEF OnePage, PagesBut, SameHeld, q
  <2> QED
    BY <2>1, <2>2 DEF OnePage, Alike
<1> QED
  BY <1>5, <1>8, <1>9, <1>10, <1>11 DEF ObjectsOnly, AtPageOnly, StaysAt

\* Two things at the page.
LEMMA AtPageAgain ==
  ASSUME NEW k, NEW k2, NEW k3, NEW t, NEW at, NEW at2
  PROVE  /\ AtPageOnly(k, k2, t, at) /\ AtPageOnly(k2, k3, t, at2) => AtPageOnly(k, k3, t, at2)
         /\ k \in Kernels /\ ObjectsOnly(k, k2) /\ AtPageOnly(k2, k3, t, at2) => AtPageOnly(k, k3, t, at2)
         /\ k \in Kernels /\ ObjectsOnly(k, k2) => AtPageOnly(k, k2, t, k.th[t].at)
<1>1. AtPageOnly(k, k2, t, at) /\ AtPageOnly(k2, k3, t, at2) => AtPageOnly(k, k3, t, at2)
  BY OthersAgain DEF AtPageOnly, StaysAt
<1>2. ASSUME k \in Kernels, ObjectsOnly(k, k2)
      PROVE  /\ AtPageOnly(k2, k3, t, at2) => AtPageOnly(k, k3, t, at2)
             /\ AtPageOnly(k, k2, t, k.th[t].at)
  <2>1. k2 \in Kernels /\ k2.map = k.map /\ k2.pmap = k.pmap /\ k2.th = k.th
    BY <1>2 DEF ObjectsOnly
  <2>2. AtPageOnly(k2, k3, t, at2) => AtPageOnly(k, k3, t, at2)
    BY <2>1 DEF AtPageOnly
  <2>3. OthersSame(k.th, k.th, t)
    BY <1>2, AllSameAgain, OthersAgain
  <2> QED
    BY <2>1, <2>2, <2>3 DEF AtPageOnly, StaysAt
<1> QED
  BY <1>1, <1>2

\* What a search ends with: t is at its page, or asleep.
Ended(k, k2, d, e, t) ==
    /\ VInv(k2, d, e)
    /\ k2.map = k.map /\ k2.pmap = k.pmap
    /\ OthersSame(k.th, k2.th, t)
    /\ k2.th[t].at \in {"search", "wait", "sleep", "copy", "collapse", "verify"}

\* A search may end by what it does to its page.
LEMMA EndsByTurning ==
  ASSUME NEW k, NEW d, NEW e, VInv(k, d, e), NEW t \in Threads, NEW k2, NEW o, NEW x,
         NEW at \in {"search", "wait", "copy", "verify"},
         AtPageOnly(k, k2, t, at), TurnsPage(k.object, k2.object, k.th, k2.th, t, o, x, at)
  PROVE  Ended(k, k2, d, e, t)
<1>1. Good(k2.object, k.map, k2.th, d, e)
  BY TurnsPageKeeps DEF VInv
<1> QED
  BY <1>1 DEF AtPageOnly, StaysAt, VInv, Ended

\* A search that finds the page busy waits for it.
LEMMA WaitIs ==
  ASSUME NEW k, NEW d, NEW e, VInv(k, d, e), NEW t \in Threads, k.th[t].at = "search",
         NEW k2, k2 = GoesTo(k, t, "wait")
  PROVE  Ended(k, k2, d, e, t)
<1>1. k \in Kernels /\ k.object \in [Objects -> ObjectRecord]
  BY KernelWith DEF VInv
<1>2. AtPageOnly(k, k2, t, "wait") /\ k2.object = k.object
  BY <1>1, GoesToAt DEF Points
<1>3. TurnsPage(k.object, k2.object, k.th, k2.th, t, k.th[t].cur, k.th[t].off, "wait")
  BY <1>1, <1>2 DEF TurnsPage, SameChains, SamePaging, SameHeld, AtPageOnly
<1> QED
  BY <1>2, <1>3, EndsByTurning

\* A search that finds the page makes it busy: it is the thread's now.
LEMMA FoundPageIs ==
  ASSUME NEW k, NEW d, NEW e, VInv(k, d, e), NEW t \in Threads, k.th[t].at = "search",
         PageOf(k, t).at = "filled", ~ PageOf(k, t).busy,
         NEW k2, k2 = FoundPage(k, t)
  PROVE  Ended(k, k2, d, e, t)
<1> DEFINE r == k.th[t]
           o == r.cur
           x == r.off
           b == TRUE
           a == [k EXCEPT !.object[o].page[x].busy = b]
           copies == r.write /\ r.cur # r.first
           at == IF copies THEN "copy" ELSE "verify"
<1>1. k \in Kernels /\ Good(k.object, k.map, k.th, d, e)
  BY DEF VInv
<1>2. Pages(r)
  BY DEF Pages
<1>3. o \in Objects /\ x \in Offsets
  BY <1>1, <1>2, SearchIs
<1>4. k2 = IF copies THEN GoesTo(a, t, "copy") ELSE Returns(a, t)
  BY DEF FoundPage
<1>5. /\ ObjectsOnly(k, a)
      /\ \E p \in PageRecord : /\ OnePage(k.object, a.object, o, x, p)
                               /\ p.at = k.object[o].page[x].at /\ p.busy = b
  <2>1. PutsBusy(k, a, o, x, b) /\ b \in BOOLEAN
    BY DEF PutsBusy
  <2> HIDE DEF a, b
  <2> QED
    BY <1>1, <1>3, <2>1, SetBusyIs
<1>6. PICK p \in PageRecord : /\ OnePage(k.object, a.object, o, x, p)
                              /\ p.at = k.object[o].page[x].at /\ p.busy = b
  BY <1>5
<1> HIDE DEF a
<1>7. a \in Kernels /\ a.th[t].cur = o /\ a.th[t].off = x
  BY <1>5 DEF ObjectsOnly
<1>8. AtPageOnly(k, k2, t, at) /\ Alike(a.object, k2.object)
  <2>1. CASE copies
    <3>1. AtPageOnly(a, k2, t, "copy") /\ k2.object = a.object
      BY <1>4, <1>7, <2>1, GoesToAt DEF Points
    <3>2. AtPageOnly(k, k2, t, "copy")
      BY <1>1, <1>5, <3>1, AtPageAgain
    <3> QED
      BY <2>1, <3>1, <3>2 DEF Alike, SameChains, SamePaging, SameHeld
  <2>2. CASE ~ copies
    <3>1. AtPageOnly(a, k2, t, "verify") /\ Alike(a.object, k2.object)
      BY <1>3, <1>4, <1>7, <2>2, ReturnsIs
    <3>2. AtPageOnly(k, k2, t, "verify")
      BY <1>1, <1>5, <3>1, AtPageAgain
    <3> QED
      BY <2>2, <3>1, <3>2
  <2> QED
    BY <2>1, <2>2
<1>9. k.object[o].page[x].at = "filled" /\ ~ k.object[o].page[x].busy
  BY DEF PageOf
<1>10. SameChains(k.object, k2.object) /\ SamePaging(k.object, k2.object)
  BY <1>6, <1>8 DEF OnePage, Alike, SameChains, SamePaging
<1>11. \A q \in Objects, y \in Offsets : ~ (q = o /\ y = x)
           => SameHeld(k.object[q].page[y], k2.object[q].page[y])
  <2> SUFFICES ASSUME NEW q \in Objects, NEW y \in Offsets, ~ (q = o /\ y = x)
               PROVE  SameHeld(k.object[q].page[y], k2.object[q].page[y])
    OBVIOUS
  <2>1. a.object[q].page[y] = k.object[q].page[y]
    BY <1>6 DEF OnePage, PagesBut
  <2>2. SameHeld(a.object[q].page[y], k2.object[q].page[y])
    BY <1>8 DEF Alike
  <2> QED
    BY <2>1, <2>2
<1>12. k2.object[o].page[x].at = "filled" /\ k2.object[o].page[x].busy
  <2>1. a.object[o].page[x] = p /\ SameHeld(a.object[o].page[x], k2.object[o].page[x])
    BY <1>3, <1>6, <1>8 DEF OnePage, Alike
  <2> QED
    BY <1>6, <1>9, <2>1 DEF SameHeld
<1>13. TurnsPage(k.object, k2.object, k.th, k2.th, t, o, x, at)
  <2>1. k2.object \in [Objects -> ObjectRecord]
    BY <1>8, KernelWith DEF AtPageOnly
  <2>2. at \in {"copy", "verify"} /\ (at = "copy" => r.first # o)
    OBVIOUS
  <2>3. StaysAt(k.th, k2.th, t, at)
    BY <1>8 DEF AtPageOnly
  <2> HIDE DEF at
  <2> QED
    BY <1>9, <1>10, <1>11, <1>12, <2>1, <2>2, <2>3 DEF TurnsPage, PageOK, Kept
<1> QED
  <2>1. at \in {"search", "wait", "copy", "verify"}
    OBVIOUS
  <2> HIDE DEF at
  <2> QED
    BY <1>8, <1>13, <2>1, EndsByTurning

-----------------------------------------------------------------------------
(* Giving the objects up.                                                  *)

\* The page that was left in the top object is gone, and the paging references.
Unlocked(O, O2, c, f, x) ==
    /\ SameChains(O, O2) /\ PagesBut(O, O2, f, x)
    /\ O2[f].page[x] = IF c = f THEN O[f].page[x] ELSE NoPage
    /\ \A q \in Objects : O2[q].paging_in_progress =
            O[q].paging_in_progress + IF q = c \/ q = f THEN -1 ELSE 0

\* UNLOCK_THINGS frees the page left in the top object and ends paging in both.
LEMMA UnlockIs ==
  ASSUME NEW k \in Kernels, NEW t \in Threads, NEW c \in Objects, NEW f \in Objects, NEW x \in Offsets,
         k.th[t].cur = c, k.th[t].first = f, k.th[t].off = x,
         k.object[c].paging_in_progress > 0, k.object[f].paging_in_progress > 0,
         NEW k2, k2 = UnlockThings(k, t)
  PROVE  /\ WakesAnd(k, k2) /\ Unlocked(k.object, k2.object, c, f, x)
         /\ \A u \in Threads : k.th[u].at # "wait" => k2.th[u] = k.th[u]
<1> DEFINE a == vm_object_paging_end(k, c)
           b == vm_page_free(a, f, x)
           g == vm_object_paging_end(b, f)
<1>1. k2 = IF c = f THEN a ELSE g
  BY DEF UnlockThings
<1>2. /\ ObjectsOnly(k, a)
      /\ SameChains(k.object, a.object) /\ SamePages(k.object, a.object)
      /\ PagingBy(k.object, a.object, c, -1)
  BY EndIs
<1> HIDE DEF a
<1>3. CASE c = f
  <2>1. WakesAnd(k, k2) /\ \A u \in Threads : k.th[u].at # "wait" => k2.th[u] = k.th[u]
    BY <1>1, <1>2, <1>3, AllSameAgain DEF ObjectsOnly, WakesAnd
  <2>2. Unlocked(k.object, k2.object, c, f, x)
    BY <1>1, <1>2, <1>3 DEF Unlocked, SamePages, PagesBut, PagingBy
  <2> QED
    BY <2>1, <2>2
<1>4. CASE c # f
  <2>1. a \in Kernels
    BY <1>2 DEF ObjectsOnly
  <2>2. /\ WakesAnd(a, b) /\ OnePage(a.object, b.object, f, x, NoPage)
        /\ \A u \in Threads : a.th[u].at # "wait" => b.th[u] = a.th[u]
    BY <2>1, FreePageIs
  <2> HIDE DEF b
  <2>0. k.object \in [Objects -> ObjectRecord]
    BY KernelWith
  <2>3. b \in Kernels /\ b.object[f].paging_in_progress > 0
    <3>1. b.object[f].paging_in_progress = k.object[f].paging_in_progress + 0
      BY <1>2, <1>4, <2>2 DEF OnePage, SamePaging, PagingBy
    <3>2. k.object[f].paging_in_progress \in Nat
      BY <2>0 DEF ObjectRecord
    <3> QED
      BY <2>2, <3>1, <3>2 DEF WakesAnd
  <2>4. /\ ObjectsOnly(b, g)
        /\ SameChains(b.object, g.object) /\ SamePages(b.object, g.object)
        /\ PagingBy(b.object, g.object, f, -1)
    BY <2>3, EndIs
  <2> HIDE DEF g
  <2>5. WakesAnd(k, k2) /\ \A u \in Threads : k.th[u].at # "wait" => k2.th[u] = k.th[u]
    BY <1>1, <1>2, <1>4, <2>2, <2>4 DEF ObjectsOnly, WakesAnd
  <2>6. SameChains(k.object, g.object) /\ PagesBut(k.object, g.object, f, x)
    BY <1>2, <2>2, <2>4 DEF SameChains, SamePages, PagesBut, OnePage
  <2>7. g.object[f].page[x] = NoPage
    BY <2>2, <2>4 DEF SamePages, OnePage
  <2>8. ASSUME NEW q \in Objects
        PROVE  g.object[q].paging_in_progress =
            k.object[q].paging_in_progress + IF q = c \/ q = f THEN -1 ELSE 0
    <3>1. a.object[q].paging_in_progress = k.object[q].paging_in_progress + IF q = c THEN -1 ELSE 0
      BY <1>2 DEF PagingBy
    <3>2. b.object[q].paging_in_progress = a.object[q].paging_in_progress
      BY <2>2 DEF OnePage, SamePaging
    <3>3. g.object[q].paging_in_progress = b.object[q].paging_in_progress + IF q = f THEN -1 ELSE 0
      BY <2>4 DEF PagingBy
    <3>4. k.object[q].paging_in_progress \in Nat
      BY <2>0 DEF ObjectRecord
    <3> QED
      BY <1>4, <3>1, <3>2, <3>3, <3>4
  <2> QED
    BY <1>1, <1>4, <2>5, <2>6, <2>7, <2>8 DEF Unlocked
<1> QED
  BY <1>3, <1>4

\* A search that is given up.
LEMMA UnlockKeeps ==
  ASSUME NEW O, NEW O2, NEW M, NEW T, NEW T2, NEW d, NEW e, NEW t \in Threads,
         Good(O, M, T, d, e), T[t].at \in {"search", "wait"},
         O2 \in [Objects -> ObjectRecord], Unlocked(O, O2, T[t].cur, T[t].first, T[t].off),
         StaysAt(T, T2, t, "sleep")
  PROVE  Good(O2, M, T2, d, e)
<1> DEFINE o == T[t].cur
           f == T[t].first
           x == T[t].off
<1>1. /\ T[t].at \in {"search", "wait"}
      /\ SameChains(O, O2) /\ PagesBut(O, O2, f, x)
      /\ O2[f].page[x] = IF o = f THEN O[f].page[x] ELSE NoPage
      /\ \A q \in Objects : O2[q].paging_in_progress =
            O[q].paging_in_progress + IF q = o \/ q = f THEN -1 ELSE 0
      /\ T2[t].at = "sleep" /\ T2[t].cur = o /\ T2[t].first = f /\ T2[t].off = x
      /\ OthersSame(T, T2, t)
  BY DEF Unlocked, StaysAt
<1>2. Pages(T[t]) /\ ~ Pages(T2[t]) /\ Uses(T[t]) /\ Uses(T2[t])
  BY <1>1 DEF Pages, Uses
<1>3. /\ o \in Objects /\ x \in Offsets /\ f \in Objects
      /\ O[o].at # "free" /\ O[f].at = "live"
  BY <1>1, <1>2, SearchIs
<1>4. O \in [Objects -> ObjectRecord] /\ FreeIsClean(O) /\ PagesHeld(O, T, d)
  BY GoodParts
<1>5. \A q \in Objects : O[q].paging_in_progress \in Nat /\ O2[q].paging_in_progress \in Nat
  BY <1>4 DEF ObjectRecord
<1>6. FaultOK(T2[t])
  BY <1>1, <1>2, <1>3 DEF FaultOK
<1>7. ASSUME NEW q \in Objects
       PROVE  /\ Refers(T2[t], q) <=> Refers(T[t], q)
              /\ O2[q].paging_in_progress + One(PagesAt(T[t], q))
                   = O[q].paging_in_progress + One(PagesAt(T2[t], q))
  <2>1. Refers(T2[t], q) <=> Refers(T[t], q)
    BY <1>1, <1>2 DEF Refers
  <2>2. One(PagesAt(T[t], q)) = One(q = o \/ q = f) /\ One(PagesAt(T2[t], q)) = 0
    BY <1>1, <1>2 DEF PagesAt, One
  <2> HIDE DEF f, o
  <2> QED
    BY <1>1, <1>5, <2>1, <2>2 DEF One
<1>8. ASSUME NEW q \in Objects, NEW y \in Offsets
       PROVE  OtherPage(O, O2, T[t], T2[t], q, y) \/ OwnPage(O2, T, d, t, T2[t], q, y)
  <2>1. /\ HoldsFirst(T[t], q, y) <=> f # o /\ q = f /\ y = x
        /\ ~ HoldsFirst(T2[t], q, y)
        /\ ~ HoldsFound(T[t], q, y) /\ ~ HoldsFound(T2[t], q, y)
    BY <1>1, <1>2, <1>3 DEF HoldsFound, HoldsFirst
  <2>2. CASE q = f /\ y = x /\ o # f
    <3>1. Sole(T, d, t, q, y)
      <4>1. Holds(T[t], q, y)
        BY <2>1, <2>2 DEF Holds
      <4> QED
        BY <1>4, <4>1, HolderIs
    <3>2. HeldAs(O2[q].page[y], T2[t], q, y)
      BY <1>1, <2>1, <2>2 DEF HeldAs, PageOK, Kept, Holds, NoPage
    <3> QED
      BY <3>1, <3>2 DEF OwnPage
  <2>3. CASE ~ (q = f /\ y = x /\ o # f)
    <3>1. O2[q].page[y] = O[q].page[y]
      BY <1>1, <2>3 DEF PagesBut
    <3> QED
      BY <2>1, <2>3, <3>1 DEF OtherPage, SameHeld
  <2> QED
    BY <2>2, <2>3
<1>9. FreeIsClean(O2)
  <2>1. \A q \in Objects : O[q].at = "free" => q # o /\ q # f
    BY <1>3
  <2>2. \A q \in Objects : O[q].at = "free" =>
            /\ O2[q].paging_in_progress = O[q].paging_in_progress
            /\ \A y \in Offsets : O2[q].page[y] = O[q].page[y]
    BY <1>1, <1>5, <2>1 DEF PagesBut
  <2> QED
    BY <1>1, <1>4, <2>2, StaysClean
<1>10. \A rank \in [Objects -> Nat] : Descends(O, T, rank) => Below(T2[t], rank)
  BY <1>2 DEF Below
<1>11. Moves(O, O2, T, T2, d, t)
  BY <1>1, <1>6, <1>7, <1>8, <1>9, <1>10 DEF Moves
<1> QED
  BY <1>11, GoodStep

\* The pager is asked, or there is none yet to ask.
LEMMA AsksPagerIs ==
  ASSUME NEW k, NEW d, NEW e, VInv(k, d, e), NEW t \in Threads, k.th[t].at = "search",
         PageOf(k, t).at = "none",
         NEW k2, k2 = AsksPager(k, t)
  PROVE  Ended(k, k2, d, e, t)
<1> DEFINE r == k.th[t]
           o == r.cur
           x == r.off
           f == r.first
<1>1. k \in Kernels /\ Good(k.object, k.map, k.th, d, e)
  BY DEF VInv
<1>2. Pages(r)
  BY DEF Pages
<1>3. /\ o \in Objects /\ x \in Offsets /\ f \in Objects
      /\ k.object[o].paging_in_progress > 0 /\ k.object[f].paging_in_progress > 0
  BY <1>1, <1>2, SearchIs
<1>4. k.object \in [Objects -> ObjectRecord] /\ PagesHeld(k.object, k.th, d)
  BY <1>1, GoodParts
<1>5. CASE k.object[o].pager = "created"
  <2> DEFINE a == UnlockThings(k, t)
  <2>1. k2 = GoesTo(a, t, "sleep")
    BY <1>5 DEF AsksPager
  <2>2. /\ WakesAnd(k, a) /\ Unlocked(k.object, a.object, o, f, x)
        /\ \A u \in Threads : k.th[u].at # "wait" => a.th[u] = k.th[u]
    BY <1>1, <1>3, UnlockIs
  <2> HIDE DEF a
  <2>3. a \in Kernels /\ a.th[t] = k.th[t] /\ OthersSame(k.th, a.th, t)
        /\ a.map = k.map /\ a.pmap = k.pmap
    BY <2>2, OthersAgain DEF WakesAnd
  <2>4. AtPageOnly(a, k2, t, "sleep") /\ k2.object = a.object
    BY <2>1, <2>3, GoesToAt DEF Points
  <2>5. AtPageOnly(k, k2, t, "sleep")
    BY <2>3, <2>4, OthersAgain DEF AtPageOnly, StaysAt
  <2>6. Good(k2.object, k.map, k2.th, d, e)
    <3>1. k2.object \in [Objects -> ObjectRecord]
      BY <2>4, KernelWith DEF AtPageOnly
    <3>2. Unlocked(k.object, k2.object, o, f, x) /\ StaysAt(k.th, k2.th, t, "sleep")
      BY <2>2, <2>4, <2>5 DEF AtPageOnly
    <3> QED
      BY <1>1, <3>1, <3>2, UnlockKeeps
  <2> QED
    BY <2>5, <2>6 DEF AtPageOnly, StaysAt, VInv, Ended
<1>6. CASE k.object[o].pager # "created"
  <2> DEFINE p == Page("absent", Zero, FALSE)
             a == SetPage(k, o, x, p)
             n == a.object[o].absent_count + 1
             v == [a.object[o] EXCEPT !.absent_count = n]
             b == [a EXCEPT !.object[o].absent_count = @ + 1]
  <2>1. k2 = GoesTo(b, t, "search")
    BY <1>6 DEF AsksPager
  <2>2. p \in PageRecord /\ p.at = "absent" /\ p.busy
    BY VmConstants DEF Page, PageRecord
  <2> HIDE DEF p
  <2>3. ObjectsOnly(k, a) /\ OnePage(k.object, a.object, o, x, p)
    <3>1. PutsPage(k, a, o, x, p)
      BY DEF SetPage, PutsPage
    <3> HIDE DEF a
    <3> QED
      BY <1>1, <1>3, <2>2, <3>1, SetPageIs
  <2> HIDE DEF a
  <2>4. PutsObject(a, b, o, v)
    BY DEF PutsObject
  <2>5. a \in Kernels /\ a.object[o] \in ObjectRecord
    <3>1. a \in Kernels
      BY <2>3 DEF ObjectsOnly
    <3>2. a.object \in [Objects -> ObjectRecord]
      BY <3>1, KernelWith
    <3> QED
      BY <1>3, <3>1, <3>2
  <2>6. n \in Int
    BY <2>5 DEF ObjectRecord
  <2> HIDE DEF n, b
  <2>7. /\ v \in ObjectRecord /\ v.at = a.object[o].at /\ v.ref_count = a.object[o].ref_count
        /\ v.shadow = a.object[o].shadow /\ v.paging_in_progress = a.object[o].paging_in_progress
        /\ v.page = a.object[o].page
    BY <2>5, <2>6 DEF ObjectRecord
  <2> HIDE DEF v
  <2>8. /\ b \in Kernels /\ b.map = a.map /\ b.pmap = a.pmap /\ b.th = a.th
        /\ b.object[o] = v /\ \A q \in Objects \ {o} : b.object[q] = a.object[q]
    BY ONLY <1>3, <2>4, <2>5, <2>7, SetObject
  <2>9. AtPageOnly(b, k2, t, "search") /\ k2.object = b.object
    BY <2>1, <2>8, GoesToAt DEF Points
  <2>10. AtPageOnly(k, k2, t, "search")
    <3>1. ObjectsOnly(k, b)
      BY <2>3, <2>8 DEF ObjectsOnly
    <3> QED
      BY <1>1, <2>9, <3>1, AtPageAgain
  <2>11. OnePage(k.object, a.object, o, x, p)
    BY <2>3
  <2>12. ASSUME NEW q \in Objects
         PROVE  /\ b.object[q].at = a.object[q].at /\ b.object[q].ref_count = a.object[q].ref_count
                /\ b.object[q].shadow = a.object[q].shadow
                /\ b.object[q].paging_in_progress = a.object[q].paging_in_progress
                /\ b.object[q].page = a.object[q].page
    <3>1. CASE q = o
      BY <2>7, <2>8, <3>1
    <3>2. CASE q # o
      BY <2>8, <3>2
    <3> QED
      BY <3>1, <3>2
  <2>13. SameChains(k.object, k2.object) /\ SamePaging(k.object, k2.object)
    BY <2>9, <2>11, <2>12 DEF OnePage, SameChains, SamePaging
  <2>14. \A q \in Objects, y \in Offsets : ~ (q = o /\ y = x)
             => SameHeld(k.object[q].page[y], k2.object[q].page[y])
    BY <2>9, <2>11, <2>12 DEF OnePage, PagesBut, SameHeld
  <2>15. k2.object[o].page[x] = p
    BY <1>3, <2>9, <2>11, <2>12 DEF OnePage
  <2>16. ~ Kept(k.object[o].page[x])
    <3>1. PageOK(k.object[o].page[x])
      BY <1>3, <1>4, HolderIs
    <3> QED
      BY <3>1 DEF PageOf, PageOK, Kept
  <2>17. TurnsPage(k.object, k2.object, k.th, k2.th, t, o, x, "search")
    <3>1. k2.object \in [Objects -> ObjectRecord]
      BY <2>10, KernelWith DEF AtPageOnly
    <3>2. StaysAt(k.th, k2.th, t, "search")
      BY <2>10 DEF AtPageOnly
    <3> QED
      BY <2>2, <2>13, <2>14, <2>15, <2>16, <3>1, <3>2 DEF TurnsPage, PageOK, Kept
  <2> QED
    BY <2>10, <2>17, EndsByTurning
<1> QED
  BY <1>5, <1>6

\* A page of zeroes in the top object, after a search that has come further down.
ZeroBelow(O, O1, O2, T, T2, t, o, x, p) ==
    /\ T[t].at = "search" /\ T[t].cur = o /\ T[t].first # o /\ T[t].off = x
    /\ ~ O[o].page[x].busy
    /\ O2 \in [Objects -> ObjectRecord]
    /\ FreedBelow(O, O1, o, x)
    /\ OnePage(O1, O2, T[t].first, x, p) /\ p.at = "filled" /\ p.busy
    /\ T2[t].at = "verify" /\ T2[t].cur = T[t].first /\ T2[t].first = T[t].first /\ T2[t].off = x
    /\ OthersSame(T, T2, t)

\* Filling a page with zeroes at the end of a chain keeps the invariant.
LEMMA ZeroBelowKeeps ==
  ASSUME NEW O, NEW O1, NEW O2, NEW M, NEW T, NEW T2, NEW d, NEW e, NEW t \in Threads,
         NEW o, NEW x, NEW p,
         Good(O, M, T, d, e), ZeroBelow(O, O1, O2, T, T2, t, o, x, p)
  PROVE  Good(O2, M, T2, d, e)
<1> DEFINE f == T[t].first
<1>1. /\ T[t].at = "search" /\ T[t].cur = o /\ f # o /\ T[t].off = x
      /\ ~ O[o].page[x].busy
      /\ O2 \in [Objects -> ObjectRecord]
      /\ FreedBelow(O, O1, o, x)
      /\ OnePage(O1, O2, f, x, p) /\ p.at = "filled" /\ p.busy
      /\ T2[t].at = "verify" /\ T2[t].cur = f /\ T2[t].first = f /\ T2[t].off = x
      /\ OthersSame(T, T2, t)
  BY DEF ZeroBelow
<1>2. Pages(T[t]) /\ Pages(T2[t]) /\ Uses(T[t]) /\ Uses(T2[t])
  BY <1>1 DEF Pages, Uses
<1>3. /\ o \in Objects /\ x \in Offsets /\ f \in Objects
      /\ O[o].at # "free" /\ O[f].at = "live"
  BY <1>1, <1>2, SearchIs
<1>4. SameChains(O, O2)
  BY <1>1 DEF SameChains, FreedBelow, OnePage
<1>5. /\ \A q \in Objects, y \in Offsets : ~ (q = o /\ y = x) /\ ~ (q = f /\ y = x)
            => O2[q].page[y] = O[q].page[y]
      /\ O2[o].page[x] = O[o].page[x] \/ O2[o].page[x] = NoPage
      /\ O2[f].page[x] = p
  BY <1>1, <1>3 DEF FreedBelow, OnePage, PagesBut
<1>7. O \in [Objects -> ObjectRecord] /\ FreeIsClean(O) /\ PagesHeld(O, T, d)
  BY GoodParts
<1>8. \A q \in Objects : O[q].paging_in_progress \in Nat /\ O2[q].paging_in_progress \in Nat
  BY <1>1, <1>7 DEF ObjectRecord
<1>6. \A q \in Objects : O2[q].paging_in_progress = O[q].paging_in_progress + IF q = o THEN -1 ELSE 0
  BY <1>1 DEF FreedBelow, PagingBy, OnePage, SamePaging
<1>9. FaultOK(T2[t])
  BY <1>1, <1>3 DEF FaultOK
<1>10. ASSUME NEW q \in Objects
       PROVE  /\ Refers(T2[t], q) <=> Refers(T[t], q)
              /\ O2[q].paging_in_progress + One(PagesAt(T[t], q))
                   = O[q].paging_in_progress + One(PagesAt(T2[t], q))
  <2>1. Refers(T2[t], q) <=> Refers(T[t], q)
    BY <1>1, <1>2 DEF Refers
  <2>2. One(PagesAt(T[t], q)) = One(q = f \/ q = o) /\ One(PagesAt(T2[t], q)) = One(q = f)
    BY <1>1, <1>2 DEF PagesAt, One
  <2> HIDE DEF f
  <2> QED
    BY <1>1, <1>3, <1>6, <1>8, <2>1, <2>2 DEF One
<1>11. ASSUME NEW q \in Objects, NEW y \in Offsets
       PROVE  OtherPage(O, O2, T[t], T2[t], q, y) \/ OwnPage(O2, T, d, t, T2[t], q, y)
  <2>1. ~ HoldsFound(T[t], q, y) /\ ~ HoldsFirst(T2[t], q, y)
        /\ (HoldsFirst(T[t], q, y) <=> q = f /\ y = x)
        /\ (HoldsFound(T2[t], q, y) <=> q = f /\ y = x)
    BY <1>1, <1>2, <1>3 DEF HoldsFound, HoldsFirst
  <2>2. CASE q = o /\ y = x
    <3>1. Sole(T, d, t, q, y) /\ PageOK(O[q].page[y])
      BY <1>1, <1>7, <2>2, NobodysIs, HolderIs DEF Kept
    <3>2. ~ Holds(T2[t], q, y)
      BY <1>1, <2>1, <2>2 DEF Holds
    <3>3. PageOK(O2[q].page[y]) /\ ~ O2[q].page[y].busy
      BY <1>1, <1>5, <2>2, <3>1 DEF PageOK, NoPage
    <3>4. HeldAs(O2[q].page[y], T2[t], q, y)
      BY <3>2, <3>3 DEF HeldAs, Kept, Holds
    <3> QED
      BY <3>1, <3>4 DEF OwnPage
  <2>3. CASE q = f /\ y = x
    <3>1. Sole(T, d, t, q, y)
      <4>1. Holds(T[t], q, y)
        BY <2>1, <2>3 DEF Holds
      <4> QED
        BY <1>7, <4>1, HolderIs
    <3>2. O2[q].page[y] = p
      BY <1>5, <2>3
    <3>3. HeldAs(p, T2[t], q, y)
      BY <1>1, <2>1, <2>3 DEF HeldAs, PageOK, Kept, Holds
    <3> QED
      BY <3>1, <3>2, <3>3 DEF OwnPage
  <2>4. CASE ~ (q = o /\ y = x) /\ ~ (q = f /\ y = x)
    BY <1>5, <2>1, <2>4 DEF OtherPage, SameHeld
  <2> QED
    BY <2>2, <2>3, <2>4
<1>12. FreeIsClean(O2)
  <2>1. \A q \in Objects : O[q].at = "free" => q # o /\ q # f
    BY <1>3
  <2>2. \A q \in Objects : O[q].at = "free" =>
            /\ O2[q].paging_in_progress = O[q].paging_in_progress
            /\ \A y \in Offsets : O2[q].page[y] = O[q].page[y]
    BY <1>5, <1>6, <1>8, <2>1
  <2> QED
    BY <1>4, <1>7, <2>2, StaysClean
<1>13. \A rank \in [Objects -> Nat] : Descends(O, T, rank) => Below(T2[t], rank)
  BY <1>1, <1>3 DEF Below
<1>14. Moves(O, O2, T, T2, d, t)
  BY <1>1, <1>4, <1>9, <1>10, <1>11, <1>12, <1>13 DEF Moves
<1> QED
  BY <1>14, GoodStep

\* A page of zeroes.
LEMMA ZeroFilledIs ==
  ASSUME NEW k, NEW d, NEW e, VInv(k, d, e), NEW t \in Threads, k.th[t].at = "search",
         PageOf(k, t).at \in {"none", "absent"}, ~ PageOf(k, t).busy,
         NEW k2, k2 = ZeroFilled(k, t)
  PROVE  Ended(k, k2, d, e, t)
<1> DEFINE r == k.th[t]
           o == r.cur
           x == r.off
           f == r.first
           a == Placeholder(k, t)
           p == Page("filled", Zero, FALSE)
           b == SetPage(a, f, x, p)
           c == [b EXCEPT !.th[t].cur = f]
<1>1. k \in Kernels /\ Good(k.object, k.map, k.th, d, e)
  BY DEF VInv
<1>2. Pages(r)
  BY DEF Pages
<1>3. /\ o \in Objects /\ x \in Offsets /\ f \in Objects
      /\ k.object[o].paging_in_progress > 0 /\ k.object[f].paging_in_progress > 0
  BY <1>1, <1>2, SearchIs
<1>4. k2 = Returns(c, t)
  BY DEF ZeroFilled
<1>5. p \in PageRecord /\ p.at = "filled" /\ p.busy
  BY VmConstants DEF Page, PageRecord
<1> HIDE DEF p
<1>6. /\ WakesAnd(k, a) /\ a.th[t] = k.th[t]
      /\ o = f => \E p2 \in PageRecord : Empty(p2) /\ OnePage(k.object, a.object, o, x, p2)
      /\ o # f => FreedBelow(k.object, a.object, o, x)
  <2>1. CASE o = f
    <3>1. /\ ObjectsOnly(k, a)
          /\ \E p2 \in PageRecord : Empty(p2) /\ OnePage(k.object, a.object, o, x, p2)
      BY <1>1, <1>3, <2>1, PlaceFirstIs
    <3> QED
      BY <1>1, <2>1, <3>1, AllSameAgain DEF ObjectsOnly, WakesAnd
  <2>2. CASE o # f
    <3>1. /\ WakesAnd(k, a) /\ FreedBelow(k.object, a.object, o, x)
          /\ \A u \in Threads : k.th[u].at # "wait" => a.th[u] = k.th[u]
      BY <1>1, <1>3, <2>2, PlaceBelowIs
    <3> QED
      BY <2>2, <3>1
  <2> QED
    BY <2>1, <2>2
<1> HIDE DEF a
<1>7. ObjectsOnly(a, b) /\ OnePage(a.object, b.object, f, x, p)
  <2>1. PutsPage(a, b, f, x, p)
    BY DEF SetPage, PutsPage
  <2>2. a \in Kernels
    BY <1>6 DEF WakesAnd
  <2> HIDE DEF b
  <2> QED
    BY <1>3, <1>5, <2>1, <2>2, SetPageIs
<1> HIDE DEF b
<1>8. ThreadAt(b, c, t, b.th[t].at, f)
  <2>1. b \in Kernels
    BY <1>7 DEF ObjectsOnly
  <2> QED
    BY <1>3, <2>1, SetCurIs
<1> HIDE DEF c
<1>9. c \in Kernels /\ c.th[t].cur = f /\ c.th[t].off = x /\ c.th[t].first = f
      /\ c.object = b.object /\ c.map = k.map /\ c.pmap = k.pmap /\ OthersSame(k.th, c.th, t)
  <2>1. b.th = a.th /\ b.map = k.map /\ b.pmap = k.pmap /\ b.th[t] = k.th[t]
    BY <1>6, <1>7 DEF ObjectsOnly, WakesAnd
  <2>2. OthersSame(k.th, a.th, t)
    BY <1>6, OthersAgain DEF WakesAnd
  <2> QED
    BY <1>8, <2>1, <2>2, OthersAgain DEF ThreadAt
<1>10. AtPageOnly(c, k2, t, "verify") /\ Alike(c.object, k2.object)
  BY <1>3, <1>4, <1>9, ReturnsIs
<1>11. /\ k2 \in Kernels /\ k2.map = k.map /\ k2.pmap = k.pmap /\ OthersSame(k.th, k2.th, t)
       /\ k2.th[t].at = "verify" /\ k2.th[t].cur = f /\ k2.th[t].first = f /\ k2.th[t].off = x
  BY <1>9, <1>10, OthersAgain DEF AtPageOnly, StaysAt
<1>12. k2.object \in [Objects -> ObjectRecord]
  BY <1>11, KernelWith
<1>13. SameChains(b.object, k2.object) /\ SamePaging(b.object, k2.object)
       /\ \A q \in Objects, y \in Offsets : SameHeld(b.object[q].page[y], k2.object[q].page[y])
  BY <1>9, <1>10 DEF Alike
<1>14. Ended(k, k2, d, e, t) <=> Good(k2.object, k.map, k2.th, d, e)
  BY <1>11 DEF Ended, VInv
<1>15. CASE o = f
  <2>1. PICK p2 \in PageRecord : OnePage(k.object, a.object, o, x, p2)
    BY <1>6, <1>15
  <2>2. SameChains(k.object, k2.object) /\ SamePaging(k.object, k2.object)
    BY <1>7, <1>13, <2>1 DEF OnePage, SameChains, SamePaging
  <2>3. \A q \in Objects, y \in Offsets : ~ (q = o /\ y = x) => b.object[q].page[y] = k.object[q].page[y]
    BY <1>7, <1>15, <2>1 DEF OnePage, PagesBut
  <2>4. \A q \in Objects, y \in Offsets : ~ (q = o /\ y = x)
            => SameHeld(k.object[q].page[y], k2.object[q].page[y])
    BY <1>13, <2>3 DEF SameHeld
  <2>5. b.object[o].page[x] = p
    BY <1>7, <1>15 DEF OnePage
  <2>6. k2.object[o].page[x].at = "filled" /\ k2.object[o].page[x].busy
    BY <1>3, <1>5, <1>13, <2>5 DEF SameHeld
  <2>7. StaysAt(k.th, k2.th, t, "verify")
    BY <1>11, <1>15 DEF StaysAt
  <2>8. ~ Kept(k.object[o].page[x])
    BY DEF PageOf, Kept
  <2>9. TurnsPage(k.object, k2.object, k.th, k2.th, t, o, x, "verify")
    BY <1>12, <2>2, <2>4, <2>6, <2>7, <2>8 DEF TurnsPage, PageOK
  <2> QED
    BY <1>1, <1>14, <2>9, TurnsPageKeeps
<1>16. CASE o # f
  <2>1. FreedBelow(k.object, a.object, o, x)
    BY <1>6, <1>16
  <2> DEFINE p2 == k2.object[f].page[x]
  <2>2. p2.at = "filled" /\ p2.busy
    <3>1. b.object[f].page[x] = p
      BY <1>7 DEF OnePage
    <3> QED
      BY <1>3, <1>5, <1>13, <3>1 DEF SameHeld
  <2>3. b.object \in [Objects -> ObjectRecord]
    BY <1>7, KernelWith DEF ObjectsOnly
  <2>4. Good(b.object, k.map, k2.th, d, e)
    <3>1. ZeroBelow(k.object, a.object, b.object, k.th, k2.th, t, o, x, p)
      BY <1>5, <1>7, <1>11, <1>16, <2>1, <2>3 DEF ZeroBelow, PageOf
    <3> QED
      BY <1>1, <3>1, ZeroBelowKeeps
  <2>5. Good(k2.object, k.map, k2.th, d, e)
    <3>1. Alike(b.object, k2.object)
      BY <1>9, <1>10
    <3>2. AllSame(k2.th, k2.th)
      BY <1>11, AllSameAgain
    <3> QED
      BY <1>12, <2>4, <3>1, <3>2, GoodSame
  <2> QED
    BY <1>14, <2>5
<1> QED
  BY <1>15, <1>16

\* The whole search.
LEMMA SearchedIs ==
  ASSUME NEW k, NEW d, NEW e, VInv(k, d, e), NEW t \in Threads, k.th[t].at = "search",
         NEW k2, k2 = Searched(k, t)
  PROVE  Ended(k, k2, d, e, t)
<1> DEFINE end == Reached(k, t)
           page == PageOf(end, t)
<1>1. VInv(end, d, e) /\ Searching(k, end, t)
  BY ReachedIs
<1>2. k2 = CASE page.busy -> GoesTo(end, t, "wait")
            [] page.at = "filled" /\ ~page.busy -> FoundPage(end, t)
            [] page.at = "none" /\ LookForPage(end, t) -> AsksPager(end, t)
            [] ~page.busy /\ NoData(end, t) -> ZeroFilled(end, t)
  BY DEF Searched, Reached
<1> HIDE DEF end
<1>3. end.th[t].at = "search"
  BY <1>1 DEF Searching
<1>4. PageOK(page) /\ page \in PageRecord
  <2>1. end \in Kernels /\ Good(end.object, end.map, end.th, d, e)
    BY <1>1 DEF VInv
  <2>2. Pages(end.th[t])
    BY <1>3 DEF Pages
  <2>3. end.th[t].cur \in Objects /\ end.th[t].off \in Offsets
    BY <2>1, <2>2, SearchIs
  <2>4. end.object \in [Objects -> ObjectRecord] /\ PagesHeld(end.object, end.th, d)
    BY <2>1, GoodParts
  <2>5. end.object[end.th[t].cur] \in ObjectRecord
    BY <2>3, <2>4
  <2> QED
    BY <2>3, <2>4, <2>5, HolderIs DEF ObjectRecord, PageOf
<1>5. ASSUME Ended(end, k2, d, e, t) PROVE Ended(k, k2, d, e, t)
  BY <1>1, <1>5, OthersAgain DEF Ended, Searching
<1>6. CASE page.busy
  <2>1. page.at = "none" => FALSE
    BY <1>4, <1>6 DEF PageOK
  <2>2. k2 = GoesTo(end, t, "wait")
    BY <1>2, <1>6, <2>1
  <2> QED
    BY <1>1, <1>3, <1>5, <2>2, WaitIs
<1>7. CASE ~ page.busy /\ page.at = "filled"
  <2>1. ~ NoData(end, t)
    BY <1>7 DEF NoData
  <2>2. k2 = FoundPage(end, t)
    BY <1>2, <1>7, <2>1
  <2> QED
    BY <1>1, <1>3, <1>5, <1>7, <2>2, FoundPageIs
<1>8. CASE ~ page.busy /\ page.at = "none" /\ LookForPage(end, t)
  <2>1. ~ NoData(end, t)
    BY <1>8 DEF NoData
  <2>2. k2 = AsksPager(end, t)
    BY <1>2, <1>8, <2>1
  <2> QED
    BY <1>1, <1>3, <1>5, <1>8, <2>2, AsksPagerIs
<1>9. CASE ~ page.busy /\ (page.at = "absent" \/ (page.at = "none" /\ ~ LookForPage(end, t)))
  <2>1. NoData(end, t)
    BY <1>9 DEF NoData
  <2>2. k2 = ZeroFilled(end, t)
    BY <1>2, <1>9, <2>1
  <2>3. PageOf(end, t).at \in {"none", "absent"} /\ ~ PageOf(end, t).busy
    BY <1>9
  <2> QED
    BY <1>1, <1>3, <1>5, <2>2, <2>3, ZeroFilledIs
<1>10. page.at \in {"none", "absent", "filled"} \/ page.busy
  BY <1>4 DEF PageRecord, PageOK
<1> QED
  BY <1>6, <1>7, <1>8, <1>9, <1>10

-----------------------------------------------------------------------------
(* The end of a fault.                                                     *)

\* A search, a wait or a sleep is given up, with its reference.
LEMMA GivesUp ==
  ASSUME NEW O, NEW O1, NEW O2, NEW M, NEW T, NEW T2, NEW d, NEW t \in Threads,
         Good(O, M, T, d, Nil), T[t].at \in {"search", "wait"},
         O1 \in [Objects -> ObjectRecord], O2 \in [Objects -> ObjectRecord],
         Unlocked(O, O1, T[t].cur, T[t].first, T[t].off), DropsRef(O1, O2, T[t].first),
         OthersSame(T, T2, t), T2[t].at \in {"run", "lookup"}, FaultOK(T2[t])
  PROVE  Good(O2, M, T2, d, Nil)
<1> DEFINE r == T[t]
           v == [r EXCEPT !.at = "sleep"]
           S == [T2 EXCEPT ![t] = v]
<1>1. T \in [Threads -> FaultRecord] /\ T2 \in [Threads -> FaultRecord]
  BY GoodParts DEF OthersSame
<1>2. v \in FaultRecord /\ v.at = "sleep" /\ v.cur = r.cur /\ v.first = r.first /\ v.off = r.off
  <2>1. r \in FaultRecord
    BY <1>1
  <2> HIDE DEF r
  <2> QED
    BY <2>1 DEF FaultRecord
<1> HIDE DEF v
<1>3. S \in [Threads -> FaultRecord] /\ S[t] = v /\ \A u \in Threads \ {t} : S[u] = T2[u]
  BY <1>1, <1>2
<1> HIDE DEF S
<1>4. StaysAt(T, S, t, "sleep")
  BY <1>2, <1>3 DEF StaysAt, OthersSame
<1>5. Good(O1, M, S, d, Nil)
  BY <1>4, UnlockKeeps
<1>6. Leaves(S, T2, t)
  BY <1>1, <1>2, <1>3 DEF Leaves, OthersSame, SameFault
<1>7. S[t].first \in Objects /\ Good(O1, M, T2, d, S[t].first)
  BY <1>5, <1>6, GoodLeave
<1>8. S[t].first = T[t].first
  BY <1>2, <1>3
<1> QED
  BY <1>7, <1>8, GoodDrop

\* A thread that is done.
LEMMA RunningIs ==
  ASSUME NEW r \in FaultRecord, NEW at \in {"run", "lookup"}, r.off \in Offsets, NEW v,
         v = IF at = "run" THEN Running
             ELSE [Running EXCEPT !.at = at, !.off = r.off, !.write = r.write]
  PROVE  v \in FaultRecord /\ v.at = at /\ FaultOK(v)
<1>1. Running \in FaultRecord /\ Running.at = "run"
  BY DEF Running, FaultRecord, AnyOffset
<1>2. v \in FaultRecord /\ v.at = at /\ (at # "run" => v.off = r.off)
  <2>1. CASE at = "run"
    BY <1>1, <2>1
  <2>2. CASE at # "run"
    <3>1. v = [Running EXCEPT !.at = at, !.off = r.off, !.write = r.write]
      BY <2>2
    <3> HIDE DEF Running
    <3> QED
      BY <1>1, <2>2, <3>1 DEF FaultRecord, AnyOffset
  <2> QED
    BY <2>1, <2>2
<1> QED
  BY <1>2 DEF FaultOK, Uses, Pages

\* What a thread comes out of a fault with.
Done(k, k2, d, t) ==
    /\ VInv(k2, d, Nil)
    /\ k2.map = k.map /\ k2.pmap = k.pmap
    /\ OthersSame(k.th, k2.th, t)
    /\ k2.th[t].at \in {"run", "lookup"}

\* RELEASE_PAGE and UNLOCK_AND_DEALLOCATE give back all that the fault had.
LEMMA ReleaseIs ==
  ASSUME NEW k, NEW d, VInv(k, d, Nil), NEW t \in Threads, k.th[t].at = "verify",
         NEW at \in {"run", "lookup"}, NEW k2, k2 = Release(k, t, at)
  PROVE  Done(k, k2, d, t)
<1> DEFINE r == k.th[t]
           o == r.cur
           x == r.off
           f == r.first
           v == IF at = "run" THEN Running
                ELSE [Running EXCEPT !.at = at, !.off = r.off, !.write = r.write]
           a == PageWakeupDone(k, o, x)
           b == UnlockThings(a, t)
           c == vm_object_deallocate(b, f)
           w == [r EXCEPT !.at = "search"]
           S == [a.th EXCEPT ![t] = w]
<1>1. k \in Kernels /\ Good(k.object, k.map, k.th, d, Nil)
  BY DEF VInv
<1>2. Pages(r) /\ Uses(r)
  BY DEF Pages, Uses
<1>3. /\ o \in Objects /\ x \in Offsets /\ f \in Objects
      /\ k.object[o].paging_in_progress > 0 /\ k.object[f].paging_in_progress > 0
      /\ k.object[f].ref_count > 0
  <2>1. Refers(r, f)
    BY <1>2 DEF Refers
  <2>2. /\ o \in Objects /\ x \in Offsets /\ f \in Objects
        /\ k.object[o].paging_in_progress > 0 /\ k.object[f].paging_in_progress > 0
    BY <1>1, <1>2, SearchIs
  <2> QED
    BY <1>1, <2>1, <2>2, GoodFacts
<1>4. k2 = [c EXCEPT !.th[t] = v]
  BY DEF Release
<1>5. r \in FaultRecord
  BY <1>1, KernelWith
<1>6. v \in FaultRecord /\ v.at = at /\ FaultOK(v)
  <2>1. v = IF at = "run" THEN Running
            ELSE [Running EXCEPT !.at = at, !.off = r.off, !.write = r.write]
    OBVIOUS
  <2>2. r.off \in Offsets
    BY <1>3
  <2> HIDE DEF v, r
  <2> QED
    BY ONLY <1>5, <2>1, <2>2, at \in {"run", "lookup"}, RunningIs
<1> HIDE DEF v
<1>7. /\ WakesAnd(k, a) /\ NotBusy(k.object, a.object, o, x)
      /\ \A u \in Threads : k.th[u].at # "wait" => a.th[u] = k.th[u]
  BY <1>1, <1>3, WakeupDoneIs
<1> HIDE DEF a
<1>8. PICK p \in PageRecord : /\ OnePage(k.object, a.object, o, x, p)
                              /\ p.at = k.object[o].page[x].at /\ p.busy = FALSE
  BY <1>7 DEF NotBusy
<1>9. a \in Kernels /\ a.map = k.map /\ a.pmap = k.pmap /\ a.th[t] = r /\ OthersSame(k.th, a.th, t)
  BY <1>7, OthersAgain DEF WakesAnd
<1>10. a.object[o].paging_in_progress > 0 /\ a.object[f].paging_in_progress > 0 /\ a.object[f].ref_count > 0
  BY <1>3, <1>8 DEF OnePage, SamePaging, SameChains
<1>11. /\ WakesAnd(a, b) /\ Unlocked(a.object, b.object, o, f, x)
       /\ \A u \in Threads : a.th[u].at # "wait" => b.th[u] = a.th[u]
  BY <1>3, <1>9, <1>10, UnlockIs
<1> HIDE DEF b
<1>12. b \in Kernels /\ b.map = k.map /\ b.pmap = k.pmap /\ OthersSame(k.th, b.th, t)
       /\ b.object[f].ref_count > 0
  <2>1. b.object[f].ref_count > 0
    BY <1>3, <1>10, <1>11 DEF Unlocked, SameChains
  <2> QED
    BY <1>9, <1>11, <2>1, OthersAgain DEF WakesAnd
<1>13. ObjectsOnly(b, c) /\ DropsRef(b.object, c.object, f)
  BY <1>3, <1>12, DeallocateIs
<1> HIDE DEF c
<1>14. ThreadOnly(c, k2, t, v)
  <2>1. c \in Kernels
    BY <1>13 DEF ObjectsOnly
  <2> QED
    BY <1>4, <1>6, <2>1, SetFault
<1>15. /\ k2 \in Kernels /\ k2.map = k.map /\ k2.pmap = k.pmap /\ k2.th[t] = v
       /\ OthersSame(k.th, k2.th, t) /\ k2.object = c.object
       /\ \A u \in Threads \ {t} : k2.th[u] = b.th[u]
  <2>1. c \in Kernels /\ c.th = b.th /\ c.map = k.map /\ c.pmap = k.pmap
    BY <1>12, <1>13 DEF ObjectsOnly
  <2>2. OthersSame(c.th, k2.th, t)
    BY <1>14, <2>1, OthersAre
  <2> QED
    BY <1>12, <1>14, <2>1, <2>2, OthersAgain DEF ThreadOnly
\* as if it searched again
<1>16. w \in FaultRecord /\ w.at = "search" /\ w.cur = o /\ w.first = f /\ w.off = x
  BY <1>5 DEF FaultRecord
<1> HIDE DEF w
<1>17. a.th \in [Threads -> FaultRecord]
  BY <1>9, KernelWith
<1>18. S \in [Threads -> FaultRecord] /\ S[t] = w /\ \A u \in Threads \ {t} : S[u] = a.th[u]
  BY <1>16, <1>17
<1> HIDE DEF S
<1>19. StaysAt(k.th, S, t, "search")
  BY <1>9, <1>16, <1>18 DEF StaysAt, OthersSame
<1>20. TurnsPage(k.object, a.object, k.th, S, t, o, x, "search")
  <2>1. a.object \in [Objects -> ObjectRecord]
    BY <1>9, KernelWith
  <2>2. k.object[o].page[x].at = "filled"
    <3>1. PageHeld(k.object, k.th, d, o, x)
      BY <1>1, <1>3, GoodParts DEF PagesHeld
    <3>2. HoldsFound(k.th[t], o, x)
      BY DEF HoldsFound
    <3> QED
      BY <3>1, <3>2 DEF PageHeld
  <2>3. a.object[o].page[x] = p
    BY <1>8 DEF OnePage
  <2>4. PageOK(a.object[o].page[x]) /\ ~ Kept(a.object[o].page[x])
    BY <1>8, <2>2, <2>3 DEF PageOK, Kept
  <2>5. \A q \in Objects, y \in Offsets : ~ (q = o /\ y = x)
            => SameHeld(k.object[q].page[y], a.object[q].page[y])
    BY <1>8 DEF OnePage, PagesBut, SameHeld
  <2>6. SameChains(k.object, a.object) /\ SamePaging(k.object, a.object)
    BY <1>8 DEF OnePage
  <2> QED
    BY <1>19, <2>1, <2>4, <2>5, <2>6 DEF TurnsPage
<1>21. Good(a.object, k.map, S, d, Nil)
  BY <1>1, <1>20, TurnsPageKeeps
<1>22. OthersSame(S, k2.th, t)
  <2>1. OthersSame(S, a.th, t)
    BY <1>17, <1>18 DEF OthersSame, SameFault
  <2>2. OthersSame(a.th, b.th, t)
    BY <1>11, OthersAgain DEF WakesAnd
  <2>3. OthersSame(b.th, k2.th, t)
    BY <1>15, <2>2 DEF OthersSame, SameFault
  <2> QED
    BY <2>1, <2>2, <2>3, OthersAgain
<1>23. Good(c.object, k.map, k2.th, d, Nil)
  <2>1. b.object \in [Objects -> ObjectRecord] /\ c.object \in [Objects -> ObjectRecord]
    BY <1>12, <1>15, KernelWith
  <2>2. Unlocked(a.object, b.object, S[t].cur, S[t].first, S[t].off)
            /\ DropsRef(b.object, c.object, S[t].first)
    BY <1>11, <1>13, <1>16, <1>18
  <2>3. S[t].at \in {"search", "wait"} /\ k2.th[t].at \in {"run", "lookup"} /\ FaultOK(k2.th[t])
    BY <1>6, <1>15, <1>16, <1>18
  <2> QED
    BY <1>21, <1>22, <2>1, <2>2, <2>3, GivesUp
<1> QED
  BY <1>6, <1>15, <1>23 DEF Done, VInv

-----------------------------------------------------------------------------
(* The steps of a fault.                                                   *)

\* The variables and the kernel state.
LEMMA StateIs ==
  ASSUME IInv
  PROVE  /\ State \in Kernels /\ VInv(State, daemon, Nil)
         /\ State.object = object /\ State.map = map /\ State.pmap = pmap /\ State.th = th
         /\ Good(object, map, th, daemon, Nil)
         /\ \A t \in Threads : th[t].at # "alone"
         /\ daemon.at # "alone"
<1>1. State.object = object /\ State.map = map /\ State.pmap = pmap /\ State.th = th
  BY DEF State
<1> QED
  BY <1>1 DEF IInv, VInv

\* The invariant of a next state.
LEMMA InvAfter ==
  ASSUME NEW k, VInv(k, daemon', Nil), Becomes(k),
         \A t \in Threads : k.th[t].at # "alone", daemon'.at # "alone"
  PROVE  IInv'
<1>1. object' = k.object /\ map' = k.map /\ pmap' = k.pmap /\ th' = k.th
  BY DEF Becomes
<1>2. k \in [object: [Objects -> ObjectRecord], map: [Tasks -> EntryRecord],
             pmap: [Tasks -> [Offsets -> Mapped]], th: [Threads -> FaultRecord]]
  BY DEF VInv, Kernels
<1>3. State' = [object |-> k.object, map |-> k.map, pmap |-> k.pmap, th |-> k.th]
  BY <1>1 DEF State
<1>4. State' = k
  BY <1>2, <1>3
<1>5. VInv(State', daemon', Nil)
  BY <1>4
<1>6. \A t \in Threads : th'[t].at # "alone"
  BY <1>1
<1> QED
  BY <1>5, <1>6 DEF IInv

\* A step of one thread, that keeps the invariant of the kernel state, keeps IInv.
LEMMA ThreadKeeps ==
  ASSUME IInv, NEW t \in Threads, NEW k, VInv(k, daemon, Nil), Becomes(k), UNCHANGED daemon,
         OthersSame(th, k.th, t), k.th[t].at # "alone"
  PROVE  IInv'
<1>1. \A u \in Threads : k.th[u].at # "alone"
  BY StateIs DEF OthersSame, SameFault
<1>2. daemon.at # "alone" /\ daemon' = daemon
  BY StateIs
<1> QED
  BY <1>1, <1>2, InvAfter

\* A search that goes on after a wait or a request (vm_fault_page).
LEMMA SearchAgainKeeps ==
  ASSUME IInv, NEW t \in Threads, SearchAgain(t)
  PROVE  IInv'
<1> DEFINE k == Searched(State, t)
<1>1. th[t].at = "search" /\ Becomes(k) /\ UNCHANGED daemon
  BY DEF SearchAgain
<1> HIDE DEF k
<1>2. VInv(State, daemon, Nil) /\ State.th = th
  BY StateIs
<1>3. Ended(State, k, daemon, Nil, t)
  BY <1>1, <1>2, SearchedIs DEF k
<1>4. VInv(k, daemon, Nil) /\ OthersSame(th, k.th, t) /\ k.th[t].at # "alone"
  BY <1>2, <1>3 DEF Ended
<1> QED
  BY <1>1, <1>4, ThreadKeeps

\* The page is entered in the physical map and released (vm_fault).
LEMMA PmapEnterKeeps ==
  ASSUME IInv, NEW t \in Threads, PmapEnter(t)
  PROVE  IInv'
<1> DEFINE r == th[t]
           a == TaskOf[t]
           m == [object |-> r.cur, write |-> r.prot]
           g == [pmap[a] EXCEPT ![r.off] = m]
           P == [pmap EXCEPT ![a] = g]
           k == [State EXCEPT !.pmap[TaskOf[t]][r.off] = [object |-> r.cur, write |-> r.prot]]
           k2 == Release(k, t, "run")
<1>1. r.at = "verify" /\ Becomes(k2) /\ UNCHANGED daemon
  BY DEF PmapEnter
<1>2. /\ State \in Kernels /\ State.object = object /\ State.map = map /\ State.pmap = pmap /\ State.th = th
      /\ Good(object, map, th, daemon, Nil)
  BY StateIs
<1>3. Pages(r)
  BY <1>1 DEF Pages
<1>4. r.cur \in Objects /\ r.off \in Offsets
  BY <1>2, <1>3, SearchIs
<1>5. k = [State EXCEPT !.pmap = P]
  BY <1>2
<1>6. P \in [Tasks -> [Offsets -> Mapped]]
  <2>1. r \in FaultRecord
    BY <1>2, GoodParts
  <2>2. m \in Mapped
    BY <1>4, <2>1 DEF FaultRecord, Mapped
  <2> HIDE DEF m
  <2>3. a \in Tasks /\ pmap \in [Tasks -> [Offsets -> Mapped]]
    BY <1>2, VmConstants, KernelWith
  <2>4. g \in [Offsets -> Mapped]
    BY <2>2, <2>3
  <2> HIDE DEF g
  <2> QED
    BY <2>3, <2>4
<1> HIDE DEF P
<1>7. k \in Kernels /\ k.object = object /\ k.map = map /\ k.th = th
  BY <1>2, <1>5, <1>6, KernelWith
<1> HIDE DEF k
<1>8. VInv(k, daemon, Nil) /\ k.th[t].at = "verify"
  BY <1>1, <1>2, <1>7 DEF VInv
<1>9. Done(k, k2, daemon, t)
  <2> DEFINE at == "run"
  <2>1. at \in {"run", "lookup"} /\ k2 = Release(k, t, at)
    OBVIOUS
  <2> HIDE DEF at, k2
  <2> QED
    BY <1>8, <2>1, ReleaseIs
<1> HIDE DEF k2
<1>10. VInv(k2, daemon, Nil) /\ OthersSame(th, k2.th, t) /\ k2.th[t].at # "alone"
  BY <1>7, <1>9 DEF Done
<1> QED
  BY <1>1, <1>10, ThreadKeeps

\* An aborted wait (VM_FAULT_INTERRUPTED): what the fault had is given back.
LEMMA InterruptKeeps ==
  ASSUME IInv, NEW t \in Threads, Interrupt(t)
  PROVE  IInv'
<1> DEFINE r == th[t]
           o == r.cur
           x == r.off
           f == r.first
           a == IF r.at = "wait" THEN UnlockThings(State, t) ELSE State
           b == vm_object_deallocate(a, f)
           k == [b EXCEPT !.th[t] = Running]
<1>1. r.at \in {"wait", "sleep"} /\ Becomes(k) /\ UNCHANGED daemon
  BY DEF Interrupt
<1>2. /\ State \in Kernels /\ State.object = object /\ State.map = map /\ State.pmap = pmap /\ State.th = th
      /\ Good(object, map, th, daemon, Nil)
  BY StateIs
<1>3. Uses(r) /\ FaultOK(r) /\ r \in FaultRecord
  BY <1>1, <1>2, GoodParts DEF Uses
<1>4. f \in Objects /\ x \in Offsets /\ object[f].ref_count > 0
  <2>1. f \in Objects /\ x \in Offsets
    BY <1>1, <1>3 DEF FaultOK
  <2>2. Refers(th[t], f)
    BY <1>3 DEF Refers
  <2> QED
    BY <1>2, <2>1, <2>2, GoodFacts
<1>5. Running \in FaultRecord /\ Running.at = "run" /\ FaultOK(Running)
  BY DEF Running, FaultRecord, AnyOffset, FaultOK, Uses, Pages
<1> HIDE DEF Running
<1>6. /\ WakesAnd(State, a)
      /\ r.at = "wait" => Unlocked(object, a.object, o, f, x)
      /\ r.at = "sleep" => a = State
      /\ a.object[f].ref_count > 0
  <2>1. CASE r.at = "wait"
    <3>1. Pages(r)
      BY <2>1 DEF Pages
    <3>2. o \in Objects /\ object[o].paging_in_progress > 0 /\ object[f].paging_in_progress > 0
      BY <1>2, <3>1, SearchIs
    <3> DEFINE u == UnlockThings(State, t)
    <3>3. WakesAnd(State, u) /\ Unlocked(State.object, u.object, o, f, x)
      BY <1>2, <1>4, <3>2, UnlockIs
    <3>4. a = u
      BY <2>1
    <3> HIDE DEF a, u
    <3>5. a.object[f].ref_count > 0
      BY <1>2, <1>4, <3>3, <3>4 DEF Unlocked, SameChains
    <3> QED
      BY <1>2, <2>1, <3>3, <3>4, <3>5
  <2>2. CASE r.at = "sleep"
    <3>1. a = State
      BY <2>2
    <3>2. WakesAnd(State, State)
      BY <1>2, AllSameAgain DEF WakesAnd
    <3> QED
      BY <1>2, <1>4, <2>2, <3>1, <3>2
  <2> QED
    BY <1>1, <2>1, <2>2
<1> HIDE DEF a
<1>7. a \in Kernels /\ a.map = map /\ a.pmap = pmap /\ OthersSame(th, a.th, t)
  BY <1>2, <1>6, OthersAgain DEF WakesAnd
<1>8. ObjectsOnly(a, b) /\ DropsRef(a.object, b.object, f)
  BY <1>4, <1>6, <1>7, DeallocateIs
<1> HIDE DEF b
<1>9. b \in Kernels /\ b.map = map /\ b.pmap = pmap /\ b.th = a.th
  BY <1>7, <1>8 DEF ObjectsOnly
<1>10. ThreadOnly(b, k, t, Running)
  BY <1>5, <1>9, SetFault
<1> HIDE DEF k
<1>11. OthersSame(th, k.th, t)
  <2>1. OthersSame(b.th, k.th, t)
    BY <1>9, <1>10, OthersAre
  <2> QED
    BY <1>7, <1>9, <2>1, OthersAgain
<1>12. k \in Kernels /\ k.object = b.object /\ k.map = map /\ k.th[t] = Running
  BY <1>9, <1>10 DEF ThreadOnly
<1>13. object \in [Objects -> ObjectRecord] /\ a.object \in [Objects -> ObjectRecord]
           /\ b.object \in [Objects -> ObjectRecord]
  BY <1>2, <1>7, <1>9, KernelWith
<1>14. Good(b.object, map, k.th, daemon, Nil)
  <2>1. CASE r.at = "wait"
    <3>1. Unlocked(object, a.object, th[t].cur, th[t].first, th[t].off)
              /\ DropsRef(a.object, b.object, th[t].first)
      BY <1>6, <1>8, <2>1
    <3>2. k.th[t].at \in {"run", "lookup"} /\ FaultOK(k.th[t]) /\ th[t].at \in {"search", "wait"}
      BY <1>5, <1>12, <2>1
    <3> QED
      BY <1>2, <1>11, <1>13, <3>1, <3>2, GivesUp
  <2>2. CASE r.at = "sleep"
    <3>1. Leaves(th, k.th, t)
      BY <1>5, <1>11, <1>12, <2>2 DEF Leaves
    <3>2. Good(object, map, k.th, daemon, f)
      BY <1>2, <3>1, GoodLeave
    <3>3. a.object = object
      BY <1>2, <1>6, <2>2
    <3> QED
      BY <1>4, <1>8, <1>13, <3>2, <3>3, GoodDrop
  <2> QED
    BY <1>1, <2>1, <2>2
<1>15. VInv(k, daemon, Nil) /\ k.th[t].at # "alone"
  BY <1>5, <1>12, <1>14 DEF VInv
<1> QED
  BY <1>1, <1>11, <1>15, ThreadKeeps

\* The map has changed meanwhile: the page is released, or the lookup is current again.
LEMMA VerifyAgainKeeps ==
  ASSUME IInv, NEW t \in Threads, VerifyAgain(t)
  PROVE  IInv'
<1> DEFINE r == th[t]
           p == r.prot /\ ~ Entry(t).needs_copy
           v == [r EXCEPT !.prot = p, !.stale = FALSE]
           a == [State EXCEPT !.th[t].prot = @ /\ ~Entry(t).needs_copy, !.th[t].stale = FALSE]
<1>1. r.at = "verify" /\ UNCHANGED daemon
      /\ Becomes(CASE ~Entry(t).in -> Release(State, t, "run")
                   [] Entry(t).in /\ Entry(t).object # r.first -> Release(State, t, "lookup")
                   [] Entry(t).in /\ Entry(t).object = r.first -> a)
  BY DEF VerifyAgain
<1>2. /\ State \in Kernels /\ State.object = object /\ State.map = map /\ State.pmap = pmap /\ State.th = th
      /\ Good(object, map, th, daemon, Nil) /\ VInv(State, daemon, Nil)
  BY StateIs
<1>3. CASE ~Entry(t).in
  <2> DEFINE at == "run"
             k == Release(State, t, at)
  <2>1. Becomes(k)
    BY <1>1, <1>3
  <2>2. at \in {"run", "lookup"}
    OBVIOUS
  <2> HIDE DEF at
  <2>3. Done(State, k, daemon, t)
    BY <1>1, <1>2, <2>2, ReleaseIs
  <2> HIDE DEF k
  <2>4. VInv(k, daemon, Nil) /\ OthersSame(th, k.th, t) /\ k.th[t].at # "alone"
    BY <1>2, <2>3 DEF Done
  <2> QED
    BY <1>1, <2>1, <2>4, ThreadKeeps
<1>4. CASE Entry(t).in /\ Entry(t).object # r.first
  <2> DEFINE at == "lookup"
             k == Release(State, t, at)
  <2>1. Becomes(k)
    BY <1>1, <1>4
  <2>2. at \in {"run", "lookup"}
    OBVIOUS
  <2> HIDE DEF at
  <2>3. Done(State, k, daemon, t)
    BY <1>1, <1>2, <2>2, ReleaseIs
  <2> HIDE DEF k
  <2>4. VInv(k, daemon, Nil) /\ OthersSame(th, k.th, t) /\ k.th[t].at # "alone"
    BY <1>2, <2>3 DEF Done
  <2> QED
    BY <1>1, <2>1, <2>4, ThreadKeeps
<1>5. CASE Entry(t).in /\ Entry(t).object = r.first
  <2>1. Becomes(a)
    BY <1>1, <1>5
  <2>2. r \in FaultRecord /\ p \in BOOLEAN
    BY <1>2, GoodParts
  <2>3. a = [State EXCEPT !.th[t] = v]
    BY <1>2
  <2> HIDE DEF p, a, r
  <2>4. v \in FaultRecord /\ v.at = r.at /\ v.cur = r.cur /\ v.first = r.first /\ v.off = r.off
    BY <2>2 DEF FaultRecord
  <2> HIDE DEF v
  <2>5. ThreadOnly(State, a, t, v)
    BY <1>2, <2>3, <2>4, SetFault
  <2>6. a \in Kernels /\ a.object = object /\ a.map = map /\ OthersSame(th, a.th, t) /\ a.th[t] = v
    BY <1>2, <2>5, OthersAre DEF ThreadOnly
  <2>7. AllSame(th, a.th)
    BY <2>4, <2>6 DEF AllSame, OthersSame, SameFault, r
  <2>8. Alike(object, object) /\ object \in [Objects -> ObjectRecord]
    BY <1>2, GoodParts DEF Alike, SameChains, SamePaging, SameHeld
  <2>9. Good(object, map, a.th, daemon, Nil)
    BY <1>2, <2>7, <2>8, GoodSame
  <2>10. VInv(a, daemon, Nil) /\ a.th[t].at # "alone"
    BY <1>1, <2>4, <2>6, <2>9 DEF VInv, r
  <2> QED
    BY <1>1, <2>1, <2>6, <2>10, ThreadKeeps
<1> QED
  BY <1>3, <1>4, <1>5

-----------------------------------------------------------------------------
(* The beginning of a fault.                                               *)

\* A reference to o more.
TakesRef(O, O2, o) ==
    \A q \in Objects :
        /\ O2[q].shadow = O[q].shadow /\ O2[q].page = O[q].page /\ O2[q].at = O[q].at
        /\ O2[q].paging_in_progress = O[q].paging_in_progress
        /\ O2[q].ref_count = IF q = o THEN O[q].ref_count + 1 ELSE O[q].ref_count

PutsRefMore(k, k2, o) == k2 = [k EXCEPT !.object[o].ref_count = @ + 1]

\* The number of references to an object, and nothing else, is one more.
LEMMA RefMoreIs ==
  ASSUME NEW k \in Kernels, NEW o \in Objects, NEW k2, PutsRefMore(k, k2, o)
  PROVE  ObjectsOnly(k, k2) /\ TakesRef(k.object, k2.object, o)
<1> DEFINE r == k.object[o]
           n == r.ref_count + 1
           v == [r EXCEPT !.ref_count = n]
<1>1. k.object \in [Objects -> ObjectRecord]
  BY KernelWith
<1>2. r \in ObjectRecord
  BY <1>1
<1>3. n \in Nat
  BY <1>2 DEF ObjectRecord
<1>4. PutsObject(k, k2, o, v)
  BY DEF PutsRefMore, PutsObject
<1> HIDE DEF n
<1>5. /\ v \in ObjectRecord /\ v.ref_count = n /\ v.at = r.at
      /\ v.paging_in_progress = r.paging_in_progress /\ v.shadow = r.shadow /\ v.page = r.page
  BY <1>2, <1>3 DEF ObjectRecord
<1> HIDE DEF v
<1>6. /\ ObjectsOnly(k, k2)
      /\ k2.object[o] = v /\ \A q \in Objects \ {o} : k2.object[q] = k.object[q]
  <2>1. v \in ObjectRecord
    BY <1>5
  <2>2. /\ k2 \in Kernels /\ k2.map = k.map /\ k2.pmap = k.pmap /\ k2.th = k.th
        /\ k2.object[o] = v /\ \A q \in Objects \ {o} : k2.object[q] = k.object[q]
    BY ONLY k \in Kernels, o \in Objects, <1>4, <2>1, SetObject
  <2> QED
    BY <2>2 DEF ObjectsOnly
<1>7. ASSUME NEW q \in Objects
      PROVE  /\ k2.object[q].shadow = k.object[q].shadow /\ k2.object[q].page = k.object[q].page
             /\ k2.object[q].at = k.object[q].at
             /\ k2.object[q].paging_in_progress = k.object[q].paging_in_progress
             /\ k2.object[q].ref_count = IF q = o THEN k.object[q].ref_count + 1 ELSE k.object[q].ref_count
  <2>1. CASE q = o
    BY <1>5, <1>6, <2>1 DEF n
  <2>2. CASE q # o
    BY <1>6, <2>2
  <2> QED
    BY <2>1, <2>2
<1> QED
  BY <1>6, <1>7 DEF TakesRef

\* A fault enters the top object.
Enters(O, O1, O2, T, T2, t, o) ==
    /\ T[t].at \in {"run", "lookup"}
    /\ O[o].at = "live"
    /\ O1 \in [Objects -> ObjectRecord] /\ O2 \in [Objects -> ObjectRecord]
    /\ SameChains(O, O1) /\ SamePages(O, O1) /\ PagingBy(O, O1, o, 1)
    /\ TakesRef(O1, O2, o)
    /\ OthersSame(T, T2, t)
    /\ T2[t].at = "search" /\ T2[t].first = o /\ T2[t].cur = o /\ T2[t].off \in Offsets

\* The reference and the paging reference of a fault that begins are counted.
LEMMA EntersKeeps ==
  ASSUME NEW O, NEW O1, NEW O2, NEW M, NEW T, NEW T2, NEW d, NEW t \in Threads, NEW o \in Objects,
         Good(O, M, T, d, Nil), Enters(O, O1, O2, T, T2, t, o)
  PROVE  Good(O2, M, T2, d, Nil)
<1>1. /\ O \in [Objects -> ObjectRecord] /\ M \in [Tasks -> EntryRecord]
      /\ T \in [Threads -> FaultRecord] /\ d \in DaemonRecord
      /\ \A u \in Threads : FaultOK(T[u])
      /\ DaemonOK(d) /\ PagesHeld(O, T, d) /\ Counted(O, M, T, d, Nil) /\ FreeIsClean(O) /\ Chained(O, T)
  BY DEF Good
<1>2. /\ T[t].at \in {"run", "lookup"}
      /\ O[o].at = "live"
      /\ O2 \in [Objects -> ObjectRecord]
      /\ OthersSame(T, T2, t)
      /\ T2[t].at = "search" /\ T2[t].first = o /\ T2[t].cur = o /\ T2[t].off \in Offsets
  BY DEF Enters
<1>3. ASSUME NEW q \in Objects
      PROVE  /\ O2[q].shadow = O[q].shadow /\ O2[q].at = O[q].at
             /\ \A y \in Offsets : O2[q].page[y] = O[q].page[y]
             /\ O2[q].paging_in_progress = O[q].paging_in_progress + IF q = o THEN 1 ELSE 0
             /\ O2[q].ref_count = IF q = o THEN O[q].ref_count + 1 ELSE O[q].ref_count
  BY DEF Enters, SameChains, SamePages, PagingBy, TakesRef
<1>4. ~ Pages(T[t]) /\ Pages(T2[t]) /\ ~ Uses(T[t]) /\ Uses(T2[t])
      /\ \A q, y : ~ HoldsFound(T[t], q, y) /\ ~ HoldsFound(T2[t], q, y)
  BY <1>2 DEF Pages, Uses, HoldsFound
<1>5. T2 \in [Threads -> FaultRecord] /\ \A u \in Threads : FaultOK(T2[u])
  <2>1. FaultOK(T2[t])
    BY <1>2 DEF FaultOK
  <2> QED
    BY <1>1, <1>2, <2>1, FaultsFit DEF OthersSame
<1>6. PagesHeld(O2, T2, d)
  <2>1. \A q \in Objects, y \in Offsets : OtherPage(O, O2, T[t], T2[t], q, y)
    BY <1>2, <1>3, <1>4 DEF OtherPage, HoldsFirst, SameHeld
  <2> QED
    BY <1>1, <1>2, <2>1, PagesStep
<1>7. Chained(O2, T2)
  <2>1. SameShadows(O, O2) /\ \A rank \in [Objects -> Nat] : Below(T2[t], rank)
    BY <1>2, <1>3 DEF SameShadows, Below
  <2> QED
    BY <1>1, <1>2, <2>1, ChainsStay
<1>8. FreeIsClean(O2)
  <2>1. \A q \in Objects : O[q].paging_in_progress \in Nat
    BY <1>1 DEF ObjectRecord
  <2> QED
    BY <1>1, <1>2, <1>3, <2>1 DEF FreeIsClean
<1>9. Counted(O2, M, T2, d, Nil)
  <2> SUFFICES ASSUME NEW q \in Objects
               PROVE  /\ O2[q].ref_count = Refs(O2, M, T2, q) + One(q = Nil)
                      /\ O2[q].at = "live" <=> O2[q].ref_count > 0
                      /\ O2[q].paging_in_progress = FaultPaging(T2, q) + DaemonPaging(d, q)
    BY DEF Counted
  <2>1. /\ O[q].ref_count = Refs(O, M, T, q) + One(q = Nil)
        /\ O[q].at = "live" <=> O[q].ref_count > 0
        /\ O[q].paging_in_progress = FaultPaging(T, q) + DaemonPaging(d, q)
    BY <1>1 DEF Counted
  <2>2. /\ FaultRefs(T, q) \in Nat /\ FaultRefs(T2, q) \in Nat
        /\ FaultPaging(T, q) \in Nat /\ FaultPaging(T2, q) \in Nat
        /\ FaultRefs(T2, q) + One(Refers(T[t], q)) = FaultRefs(T, q) + One(Refers(T2[t], q))
        /\ FaultPaging(T2, q) + One(PagesAt(T[t], q)) = FaultPaging(T, q) + One(PagesAt(T2[t], q))
    BY <1>2, FaultCounts
  <2>3. /\ One(PagesAt(T[t], q)) = 0 /\ One(Refers(T[t], q)) = 0
        /\ One(PagesAt(T2[t], q)) = One(q = o) /\ One(Refers(T2[t], q)) = One(q = o)
    BY <1>2, <1>4 DEF PagesAt, Refers, One
  <2>4. ShadowRefs(O2, q) = ShadowRefs(O, q)
    <3>1. \A p \in Objects : Shadows(O2, p, q) <=> Shadows(O, p, q)
      BY <1>3 DEF Shadows
    <3> QED
      BY <3>1, ShadowsSame
  <2>5. MapRefs(M, q) \in Nat /\ ShadowRefs(O, q) \in Nat /\ DaemonPaging(d, q) \in {0, 1}
    BY Counts DEF DaemonPaging
  <2>6. O[q].ref_count \in Nat /\ O[q].paging_in_progress \in Nat /\ One(q = Nil) = 0
    BY <1>1, VmConstants DEF ObjectRecord, One
  <2>7. One(q = o) = IF q = o THEN 1 ELSE 0
    BY DEF One
  <2>8. O2[q].paging_in_progress = FaultPaging(T2, q) + DaemonPaging(d, q)
    BY <1>3, <2>1, <2>2, <2>3, <2>5, <2>6, <2>7
  <2>9. O2[q].ref_count = Refs(O2, M, T2, q) + One(q = Nil)
    <3>1. FaultRefs(T2, q) = FaultRefs(T, q) + IF q = o THEN 1 ELSE 0
      BY <2>2, <2>3, <2>7
    <3>2. Refs(O2, M, T2, q) = Refs(O, M, T, q) + IF q = o THEN 1 ELSE 0
      BY <2>2, <2>4, <2>5, <3>1 DEF Refs
    <3>3. Refs(O, M, T, q) \in Nat
      BY <2>2, <2>5 DEF Refs
    <3> QED
      BY <1>3, <2>1, <2>6, <3>2, <3>3
  <2>10. O2[q].at = "live" <=> O2[q].ref_count > 0
    BY <1>2, <1>3, <2>1, <2>6
  <2> QED
    BY <2>8, <2>9, <2>10
<1> QED
  BY <1>1, <1>2, <1>5, <1>6, <1>7, <1>8, <1>9 DEF Good

\* A new object for task a's entry, with the old one, if there is one, as its shadow.
Covers(O, O2, M, M2, a, o, s) ==
    /\ O[o].at = "free" /\ M[a].in /\ M[a].object = s
    /\ O2 \in [Objects -> ObjectRecord] /\ M2 \in [Tasks -> EntryRecord]
    /\ \A q \in Objects \ {o} : O2[q] = O[q]
    /\ O2[o].at = "live" /\ O2[o].ref_count = 1 /\ O2[o].shadow = s
    /\ O2[o].paging_in_progress = 0
    /\ \A y \in Offsets : O2[o].page[y] = NoPage
    /\ \A b \in Tasks \ {a} : M2[b] = M[b]
    /\ M2[a].in /\ M2[a].object = o

\* The entry's reference to the old object becomes the new object's shadow reference.
LEMMA CoversKeeps ==
  ASSUME NEW O, NEW O2, NEW M, NEW M2, NEW T, NEW d, NEW a \in Tasks, NEW o \in Objects, NEW s,
         Good(O, M, T, d, Nil), Covers(O, O2, M, M2, a, o, s)
  PROVE  Good(O2, M2, T, d, Nil)
<1>1. /\ O \in [Objects -> ObjectRecord] /\ M \in [Tasks -> EntryRecord]
      /\ T \in [Threads -> FaultRecord] /\ d \in DaemonRecord
      /\ \A u \in Threads : FaultOK(T[u])
      /\ DaemonOK(d) /\ PagesHeld(O, T, d) /\ Counted(O, M, T, d, Nil) /\ FreeIsClean(O) /\ Chained(O, T)
  BY DEF Good
<1>2. /\ O[o].at = "free" /\ M[a].in /\ M[a].object = s
      /\ O2 \in [Objects -> ObjectRecord] /\ M2 \in [Tasks -> EntryRecord]
      /\ \A q \in Objects \ {o} : O2[q] = O[q]
      /\ O2[o].at = "live" /\ O2[o].ref_count = 1 /\ O2[o].shadow = s
      /\ O2[o].paging_in_progress = 0
      /\ \A y \in Offsets : O2[o].page[y] = NoPage
      /\ \A b \in Tasks \ {a} : M2[b] = M[b]
      /\ M2[a].in /\ M2[a].object = o
  BY DEF Covers
<1>3. /\ O[o].shadow = Nil /\ O[o].paging_in_progress = 0
      /\ \A y \in Offsets : O[o].page[y].at = "none"
  BY <1>1, <1>2 DEF FreeIsClean
<1>4. s # o /\ (s # Nil => s \in Objects /\ O[s].at = "live")
  <2>1. s \in Objects \cup {Nil}
    BY <1>1, <1>2 DEF EntryRecord
  <2>2. s # Nil => O[s].at = "live"
    BY <1>2, <2>1, GoodFacts
  <2> QED
    BY <1>2, <2>1, <2>2, VmConstants
<1>5. PagesHeld(O2, T, d)
  <2>1. ASSUME NEW q \in Objects, NEW y \in Offsets
        PROVE  SameHeld(O[q].page[y], O2[q].page[y])
    <3>1. CASE q = o
      <4>1. PageOK(O[q].page[y])
        BY <1>1, HolderIs
      <4>2. ~ O[q].page[y].busy /\ O[q].page[y].busy \in BOOLEAN
        <5>1. O[q] \in ObjectRecord
          BY <1>1
        <5> QED
          BY <1>3, <3>1, <4>1, <5>1 DEF PageOK, ObjectRecord, PageRecord
      <4>3. O2[q].page[y] = NoPage /\ O[q].page[y].at = "none"
        BY <1>2, <1>3, <3>1
      <4>4. NoPage.at = "none" /\ NoPage.busy = FALSE
        BY DEF NoPage
      <4>5. O[q].page[y].busy = FALSE
        BY <4>2
      <4> QED
        BY <4>3, <4>4, <4>5 DEF SameHeld
    <3>2. CASE q # o
      BY <1>2, <3>2 DEF SameHeld
    <3> QED
      BY <3>1, <3>2
  <2>2. AllSame(T, T)
    BY <1>1 DEF AllSame, SameFault
  <2> QED
    BY <1>1, <2>1, <2>2, DaemonPagesStep
<1>6. FreeIsClean(O2)
  BY <1>1, <1>2 DEF FreeIsClean
<1>7. \A p \in Objects : ~ Shadows(O, p, o) /\ O[p].shadow # o
  <2> SUFFICES ASSUME NEW p \in Objects PROVE ~ Shadows(O, p, o) /\ O[p].shadow # o
    OBVIOUS
  <2>1. ~ Shadows(O, p, o)
    BY <1>2, GoodFacts
  <2>2. O[p].at = "free" => O[p].shadow = Nil
    BY <1>1 DEF FreeIsClean
  <2> QED
    BY <2>1, <2>2, VmConstants DEF Shadows
<1>8. Chained(O2, T)
  <2>1. PICK rank \in [Objects -> Nat] : Descends(O, T, rank)
    BY <1>1 DEF Chained
  <2> DEFINE n == IF s = Nil THEN 0 ELSE rank[s] + 1
             rank2 == [rank EXCEPT ![o] = n]
  <2>2. n \in Nat
    BY <1>4
  <2>3. s # Nil => rank[s] < n /\ rank2[s] = rank[s]
    BY <1>4
  <2> HIDE DEF n
  <2>4. rank2 \in [Objects -> Nat] /\ rank2[o] = n /\ \A q \in Objects \ {o} : rank2[q] = rank[q]
    BY <2>1, <2>2
  <2> HIDE DEF rank2
  <2>5. ASSUME NEW q \in Objects, O2[q].shadow # Nil PROVE rank2[O2[q].shadow] < rank2[q]
    <3>1. CASE q = o
      BY <1>2, <2>3, <2>4, <2>5, <3>1
    <3>2. CASE q # o
      <4>1. O2[q].shadow = O[q].shadow /\ O[q].shadow # o
        BY <1>2, <1>7, <3>2
      <4>2. O[q].shadow \in Objects
        <5>1. O[q] \in ObjectRecord
          BY <1>1
        <5> QED
          BY <2>5, <4>1, <5>1 DEF ObjectRecord
      <4>3. rank[O[q].shadow] < rank[q]
        BY <2>1, <2>5, <4>1 DEF Descends
      <4> QED
        BY <2>4, <3>2, <4>1, <4>2, <4>3
    <3> QED
      BY <3>1, <3>2
  <2>6. ASSUME NEW u \in Threads, Pages(T[u]), T[u].cur # T[u].first
        PROVE  rank2[T[u].cur] < rank2[T[u].first]
    <3>1. PagesAt(T[u], T[u].cur) /\ PagesAt(T[u], T[u].first)
      BY <2>6 DEF PagesAt
    <3>2. T[u].cur \in Objects /\ T[u].first \in Objects
      BY <2>6, SearchIs
    <3>3. T[u].cur # o /\ T[u].first # o
      BY <1>2, <3>1, <3>2, GoodFacts
    <3>4. rank[T[u].cur] < rank[T[u].first]
      BY <2>1, <2>6 DEF Descends
    <3> QED
      BY <2>4, <3>2, <3>3, <3>4
  <2>7. Descends(O2, T, rank2)
    BY <2>5, <2>6 DEF Descends
  <2> QED
    BY <2>4, <2>7 DEF Chained
<1>9. Counted(O2, M2, T, d, Nil)
  <2> SUFFICES ASSUME NEW q \in Objects
               PROVE  /\ O2[q].ref_count = Refs(O2, M2, T, q) + One(q = Nil)
                      /\ O2[q].at = "live" <=> O2[q].ref_count > 0
                      /\ O2[q].paging_in_progress = FaultPaging(T, q) + DaemonPaging(d, q)
    BY DEF Counted
  <2>1. /\ O[q].ref_count = Refs(O, M, T, q) + One(q = Nil)
        /\ O[q].at = "live" <=> O[q].ref_count > 0
        /\ O[q].paging_in_progress = FaultPaging(T, q) + DaemonPaging(d, q)
    BY <1>1 DEF Counted
  <2>2. /\ MapRefs(M, q) \in Nat /\ MapRefs(M2, q) \in Nat
        /\ MapRefs(M2, q) + One(Maps(M, a, q)) = MapRefs(M, q) + One(Maps(M2, a, q))
    <3>1. \A b \in Tasks \ {a} : M2[b] = M[b]
      BY <1>2
    <3> QED
      BY ONLY a \in Tasks, <3>1, MapCounts
  <2>3. One(Maps(M, a, q)) = One(q = s) /\ One(Maps(M2, a, q)) = One(q = o)
    BY <1>2 DEF One, Maps
  <2>4. /\ ShadowRefs(O, q) \in Nat /\ ShadowRefs(O2, q) \in Nat
        /\ ShadowRefs(O2, q) + One(Shadows(O, o, q)) = ShadowRefs(O, q) + One(Shadows(O2, o, q))
    <3>1. \A p \in Objects \ {o} : Shadows(O2, p, q) <=> Shadows(O, p, q)
      BY <1>2 DEF Shadows
    <3> QED
      BY <3>1, ShadowCounts
  <2>5. One(Shadows(O, o, q)) = 0 /\ One(Shadows(O2, o, q)) = One(q = s)
    BY <1>2 DEF Shadows, One
  <2>6. FaultRefs(T, q) \in Nat /\ One(q = Nil) = 0
    BY Counts, VmConstants DEF One
  <2>7. One(q = o) = (IF q = o THEN 1 ELSE 0) /\ One(q = s) \in {0, 1}
    BY DEF One
  <2>8. Refs(O2, M2, T, q) = Refs(O, M, T, q) + IF q = o THEN 1 ELSE 0
    <3>1. MapRefs(M2, q) + One(q = s) = MapRefs(M, q) + IF q = o THEN 1 ELSE 0
      BY <2>2, <2>3, <2>7
    <3>2. ShadowRefs(O2, q) = ShadowRefs(O, q) + One(q = s)
      BY <2>4, <2>5, <2>7
    <3> QED
      BY <2>2, <2>4, <2>6, <2>7, <3>1, <3>2 DEF Refs
  <2>9. CASE q = o
    <3>1. Refs(O, M, T, q) = 0
      <4>1. O[q].ref_count = 0 /\ O[q].ref_count \in Nat
        <5>1. O[q] \in ObjectRecord
          BY <1>1
        <5>2. O[q].ref_count \in Nat
          BY <5>1 DEF ObjectRecord
        <5> QED
          BY <1>2, <2>1, <2>9, <5>2
      <4>2. Refs(O, M, T, q) \in Nat
        BY <2>2, <2>4, <2>6 DEF Refs
      <4> QED
        BY <2>1, <2>6, <4>1, <4>2
    <3> QED
      BY <1>2, <1>3, <2>1, <2>6, <2>8, <2>9, <3>1
  <2>10. CASE q # o
    <3>1. O2[q] = O[q] /\ Refs(O, M, T, q) \in Nat
      BY <1>2, <2>2, <2>4, <2>6, <2>10 DEF Refs
    <3> QED
      BY <2>1, <2>6, <2>8, <2>10, <3>1
  <2> QED
    BY <2>9, <2>10
<1> QED
  BY <1>1, <1>2, <1>5, <1>6, <1>8, <1>9 DEF Good

\* What free objects and new ones look like.
LEMMA TemplateIs ==
  ASSUME NEW s \in Objects \cup {Nil}
  PROVE  /\ Template \in ObjectRecord
         /\ Template.at = "free" /\ Template.ref_count = 0 /\ Template.shadow = Nil
         /\ Template.paging_in_progress = 0 /\ \A y \in Offsets : Template.page[y] = NoPage
         /\ LET v == [Template EXCEPT !.at = "live", !.ref_count = 1, !.shadow = s]
            IN  /\ v \in ObjectRecord
                /\ v.at = "live" /\ v.ref_count = 1 /\ v.shadow = s
                /\ v.paging_in_progress = 0 /\ \A y \in Offsets : v.page[y] = NoPage
<1> DEFINE A == {"free", "live", "dying"}
           G == {"none", "created", "ready"}
           S == [Offsets -> Values \cup {Nil}]
           P == [Offsets -> PageRecord]
           p == [x \in Offsets |-> NoPage]
           w == [x \in Offsets |-> Nil]
           B == Objects \cup {Nil}
<1>1. NoPage \in PageRecord
  BY VmConstants DEF NoPage, PageRecord
<1> HIDE DEF NoPage
<1>2. p \in P /\ w \in S /\ Nil \in B /\ s \in B /\ \A y \in Offsets : p[y] = NoPage
  BY <1>1
<1>3. "free" \in A /\ "live" \in A /\ "none" \in G
  OBVIOUS
<1>4. Template = [at |-> "free", ref_count |-> 0, shadow |-> Nil, paging_in_progress |-> 0,
                  absent_count |-> 0, pager |-> "none", saved |-> w, page |-> p]
  BY DEF Template
<1>5. ObjectRecord = [at: A, ref_count: Nat, shadow: B, paging_in_progress: Nat, absent_count: Int,
                      pager: G, saved: S, page: P]
  BY DEF ObjectRecord
<1> HIDE DEF A, G, S, P, p, w, B
<1>6. /\ Template \in ObjectRecord
      /\ Template.at = "free" /\ Template.ref_count = 0 /\ Template.shadow = Nil
      /\ Template.paging_in_progress = 0 /\ Template.page = p
  BY <1>2, <1>3, <1>4, <1>5
<1> DEFINE v == [Template EXCEPT !.at = "live", !.ref_count = 1, !.shadow = s]
<1>8. /\ v \in ObjectRecord
      /\ v.at = "live" /\ v.ref_count = 1 /\ v.shadow = s
      /\ v.paging_in_progress = 0 /\ v.page = p
  BY <1>2, <1>3, <1>5, <1>6
<1> HIDE DEF v
<1> QED
  BY <1>2, <1>6, <1>8 DEF v

\* A new object.
Allocated(O, O2, o, s) ==
    /\ \A q \in Objects \ {o} : O2[q] = O[q]
    /\ O2[o].at = "live" /\ O2[o].ref_count = 1 /\ O2[o].shadow = s
    /\ O2[o].paging_in_progress = 0
    /\ \A y \in Offsets : O2[o].page[y] = NoPage

\* vm_object_allocate, of a free object.
LEMMA AllocateIs ==
  ASSUME NEW k \in Kernels, NEW o \in Objects, NEW s \in Objects \cup {Nil},
         NEW k2, k2 = vm_object_allocate(k, o, s)
  PROVE  ObjectsOnly(k, k2) /\ Allocated(k.object, k2.object, o, s)
<1> DEFINE v == [Template EXCEPT !.at = "live", !.ref_count = 1, !.shadow = s]
<1>1. PutsObject(k, k2, o, v)
  BY DEF PutsObject, vm_object_allocate
<1>2. /\ v \in ObjectRecord
      /\ v.at = "live" /\ v.ref_count = 1 /\ v.shadow = s
      /\ v.paging_in_progress = 0 /\ \A y \in Offsets : v.page[y] = NoPage
  BY TemplateIs
<1> HIDE DEF v
<1>3. /\ k2 \in Kernels /\ k2.map = k.map /\ k2.pmap = k.pmap /\ k2.th = k.th
      /\ k2.object[o] = v /\ \A q \in Objects \ {o} : k2.object[q] = k.object[q]
  <2>1. v \in ObjectRecord
    BY <1>2
  <2> QED
    BY ONLY k \in Kernels, o \in Objects, <1>1, <2>1, SetObject
<1> QED
  BY <1>2, <1>3 DEF ObjectsOnly, Allocated

\* The object that a fault begins with: there is one, or a new one.
Found(k, t) ==
    /\ VInv(k, daemon, Nil)
    /\ OthersSame(th, k.th, t) /\ k.th[t] = th[t]
    /\ k.map[TaskOf[t]].in /\ k.map[TaskOf[t]].object \in Objects

\* vm_map_lookup's object.
LEMMA WithObjectIs ==
  ASSUME IInv, NEW t \in Threads, NEW write, th[t].at \in {"run", "lookup"}, Entry(t).in,
         NeedsObject(t, write) => FreeObjects(State) # {},
         NEW k, k = WithObject(t, write)
  PROVE  Found(k, t)
<1> DEFINE a == TaskOf[t]
           m == map[a]
           s == m.object
           o == CHOOSE q \in FreeObjects(State) : TRUE
           k1 == vm_object_allocate(State, o, s)
           m2 == [k1.map[a] EXCEPT !.object = o, !.needs_copy = FALSE]
           M2 == [k1.map EXCEPT ![a] = m2]
           k2 == [k1 EXCEPT !.map = M2]
<1>1. /\ State \in Kernels /\ State.object = object /\ State.map = map /\ State.pmap = pmap /\ State.th = th
      /\ Good(object, map, th, daemon, Nil) /\ VInv(State, daemon, Nil)
  BY StateIs
<1>2. a \in Tasks /\ m \in EntryRecord /\ map \in [Tasks -> EntryRecord] /\ m.in
  BY <1>1, VmConstants, KernelWith DEF Entry
<1>3. s \in Objects \cup {Nil}
  BY <1>2 DEF EntryRecord
<1>4. CASE ~ NeedsObject(t, write)
  <2>1. k = State
    BY <1>4 DEF WithObject
  <2>2. s # Nil
    BY <1>4 DEF NeedsObject, Entry
  <2>3. OthersSame(th, th, t)
    BY <1>1, AllSameAgain, OthersAgain
  <2> QED
    BY <1>1, <1>2, <1>3, <2>1, <2>2, <2>3 DEF Found
<1>5. CASE NeedsObject(t, write)
  <2>1. o \in Objects /\ object[o].at = "free"
    <3>1. FreeObjects(State) # {}
      BY <1>5
    <3>2. o \in FreeObjects(State)
      BY <3>1
    <3> QED
      BY <1>1, <3>2 DEF FreeObjects
  <2>2. k = IF s = Nil THEN k2 ELSE MapChanged(k2, a)
    <3>1. k2 = [k1 EXCEPT !.map[a] = [@ EXCEPT !.object = o, !.needs_copy = FALSE]]
      OBVIOUS
    <3> QED
      BY <1>5, <3>1 DEF WithObject, Entry
  <2> HIDE DEF o
  <2>3. ObjectsOnly(State, k1) /\ Allocated(object, k1.object, o, s)
    BY <1>1, <1>3, <2>1, AllocateIs
  <2> HIDE DEF k1
  <2>4. k1 \in Kernels /\ k1.map = map /\ k1.pmap = pmap /\ k1.th = th
    BY <1>1, <2>3 DEF ObjectsOnly
  <2>5. m2 \in EntryRecord /\ m2.in /\ m2.object = o
    BY <1>2, <2>1, <2>4 DEF EntryRecord
  <2> HIDE DEF m2
  <2>6. M2 \in [Tasks -> EntryRecord] /\ M2[a] = m2 /\ \A b \in Tasks \ {a} : M2[b] = map[b]
    BY <1>2, <2>4, <2>5
  <2> HIDE DEF M2
  <2>7. k2 \in Kernels /\ k2.object = k1.object /\ k2.map = M2 /\ k2.pmap = pmap /\ k2.th = th
    BY <2>4, <2>6, KernelWith
  <2> HIDE DEF k2
  <2>8. Covers(object, k1.object, map, M2, a, o, s)
    <3>1. k1.object \in [Objects -> ObjectRecord]
      BY <2>4, KernelWith
    <3> QED
      BY <1>2, <2>1, <2>3, <2>5, <2>6, <3>1 DEF Covers, Allocated
  <2>9. Good(k1.object, M2, th, daemon, Nil)
    BY <1>1, <1>2, <2>1, <2>8, CoversKeeps
  <2>10. VInv(k2, daemon, Nil)
    BY <2>7, <2>9 DEF VInv
  <2>11. CASE s = Nil
    <3>1. OthersSame(th, th, t)
      BY <1>1, AllSameAgain, OthersAgain
    <3> QED
      BY <2>1, <2>2, <2>5, <2>6, <2>7, <2>10, <2>11, <3>1 DEF Found
  <2>12. CASE s # Nil
    <3>1. WakesOnly(k2, k) /\ k.th[t] = k2.th[t]
      BY <2>2, <2>7, <2>12, MapChangedIs
    <3>2. k \in Kernels /\ k.object = k2.object /\ k.map = k2.map /\ AllSame(k2.th, k.th)
      BY <3>1 DEF WakesOnly
    <3>3. Good(k.object, k.map, k.th, daemon, Nil)
      <4>1. Good(k2.object, k2.map, k2.th, daemon, Nil)
        BY <2>10 DEF VInv
      <4>2. k2.object \in [Objects -> ObjectRecord] /\ Alike(k2.object, k2.object)
        BY <2>7, KernelWith DEF Alike, SameChains, SamePaging, SameHeld
      <4>3. Good(k2.object, k2.map, k.th, daemon, Nil)
        BY <3>2, <4>1, <4>2, GoodSame
      <4> QED
        BY <3>2, <4>3
    <3>4. OthersSame(th, k.th, t)
      BY <2>7, <3>2, OthersAgain
    <3> QED
      BY <2>1, <2>5, <2>6, <2>7, <3>1, <3>2, <3>3, <3>4 DEF Found, VInv
  <2> QED
    BY <2>11, <2>12
<1> QED
  BY <1>4, <1>5

\* The whole of a lookup, with the search that follows.
LEMMA MapLookupKeeps ==
  ASSUME IInv, NEW t \in Threads, NEW x \in Offsets, NEW write \in BOOLEAN,
         th[t].at \in {"run", "lookup"}, Entry(t).in, vm_map_lookup(t, x, write), UNCHANGED daemon
  PROVE  IInv'
<1> DEFINE k == WithObject(t, write)
           o == k.map[TaskOf[t]].object
           prot == /\ ~k.map[TaskOf[t]].needs_copy
                   /\ VmFaultDirtyHandling => write
           f == [Running EXCEPT !.at = "search", !.off = x, !.write = write, !.prot = prot,
                                !.first = o, !.cur = o]
           a == vm_object_paging_begin(k, o)
           b == [a EXCEPT !.object[o].ref_count = @ + 1]
           c == [b EXCEPT !.th[t] = f]
           k2 == Searched(c, t)
<1>1. Becomes(k2) /\ (NeedsObject(t, write) => FreeObjects(State) # {})
  <2>1. c = [vm_object_paging_begin(k, o) EXCEPT !.object[o].ref_count = @ + 1, !.th[t] = f]
    OBVIOUS
  <2> QED
    BY <2>1 DEF vm_map_lookup
<1>2. Found(k, t)
  BY <1>1, WithObjectIs
<1> HIDE DEF k
<1>3. /\ k \in Kernels /\ Good(k.object, k.map, k.th, daemon, Nil)
      /\ OthersSame(th, k.th, t) /\ k.th[t] = th[t]
      /\ k.map[TaskOf[t]].in /\ o \in Objects
  BY <1>2 DEF Found, VInv
<1>4. prot \in BOOLEAN
  OBVIOUS
<1> HIDE DEF prot, o
<1>5. f \in FaultRecord /\ f.at = "search" /\ f.off = x /\ f.first = o /\ f.cur = o
  <2>1. Running \in FaultRecord
    BY DEF Running, FaultRecord, AnyOffset
  <2> HIDE DEF Running
  <2> QED
    BY <1>3, <1>4, <2>1 DEF FaultRecord, AnyOffset
<1> HIDE DEF f
<1>6. k.object[o].at = "live"
  <2>1. TaskOf[t] \in Tasks /\ k.map[TaskOf[t]].object = o
    BY VmConstants DEF o
  <2> QED
    BY <1>3, <2>1, GoodFacts
<1>7. /\ ObjectsOnly(k, a)
      /\ SameChains(k.object, a.object) /\ SamePages(k.object, a.object)
      /\ PagingBy(k.object, a.object, o, 1)
  BY <1>3, BeginIs
<1> HIDE DEF a
<1>8. ObjectsOnly(a, b) /\ TakesRef(a.object, b.object, o)
  <2>1. PutsRefMore(a, b, o)
    BY DEF PutsRefMore
  <2>2. a \in Kernels
    BY <1>7 DEF ObjectsOnly
  <2> HIDE DEF b
  <2> QED
    BY <1>3, <2>1, <2>2, RefMoreIs
<1> HIDE DEF b
<1>9. /\ a \in Kernels /\ b \in Kernels /\ b.map = k.map /\ b.pmap = k.pmap /\ b.th = k.th
  BY <1>7, <1>8 DEF ObjectsOnly
<1>10. ThreadOnly(b, c, t, f)
  BY <1>5, <1>9, SetFault
<1> HIDE DEF c
<1>11. /\ c \in Kernels /\ c.object = b.object /\ c.map = k.map
       /\ c.th[t] = f /\ OthersSame(k.th, c.th, t)
  <2>1. OthersSame(b.th, c.th, t)
    BY <1>9, <1>10, OthersAre
  <2> QED
    BY <1>9, <1>10, <2>1 DEF ThreadOnly
<1>12. Enters(k.object, a.object, b.object, k.th, c.th, t, o)
  <2>1. a.object \in [Objects -> ObjectRecord] /\ b.object \in [Objects -> ObjectRecord]
    BY <1>9, KernelWith
  <2> QED
    BY <1>3, <1>5, <1>6, <1>7, <1>8, <1>11, <2>1 DEF Enters
<1>13. Good(b.object, k.map, c.th, daemon, Nil)
  BY <1>3, <1>12, EntersKeeps
<1>14. VInv(c, daemon, Nil) /\ c.th[t].at = "search"
  BY <1>5, <1>11, <1>13 DEF VInv
<1>15. Ended(c, k2, daemon, Nil, t)
  BY <1>14, SearchedIs
<1> HIDE DEF k2
<1>16. OthersSame(th, k2.th, t) /\ VInv(k2, daemon, Nil) /\ k2.th[t].at # "alone"
  <2>1. OthersSame(c.th, k2.th, t) /\ VInv(k2, daemon, Nil) /\ k2.th[t].at # "alone"
    BY <1>15 DEF Ended
  <2> QED
    BY <1>3, <1>11, <2>1, OthersAgain
<1> QED
  BY <1>1, <1>16, ThreadKeeps

\* A task uses an address.
LEMMA FaultKeeps ==
  ASSUME IInv, NEW t \in Threads, NEW x \in Offsets, NEW write \in BOOLEAN, Fault(t, x, write)
  PROVE  IInv'
<1>1. th[t].at = "run" /\ Entry(t).in /\ vm_map_lookup(t, x, write) /\ UNCHANGED daemon
  BY DEF Fault
<1> QED
  BY <1>1, MapLookupKeeps

\* The fault begins again.
LEMMA RetryKeeps ==
  ASSUME IInv, NEW t \in Threads, Retry(t)
  PROVE  IInv'
<1>1. /\ State \in Kernels /\ State.object = object /\ State.map = map /\ State.pmap = pmap /\ State.th = th
      /\ Good(object, map, th, daemon, Nil)
  BY StateIs
<1>2. th[t].at = "lookup" /\ th[t] \in FaultRecord /\ FaultOK(th[t]) /\ UNCHANGED daemon
  BY <1>1, GoodParts DEF Retry
<1>3. CASE Entry(t).in
  <2>1. vm_map_lookup(t, th[t].off, th[t].write)
    BY <1>3 DEF Retry
  <2>2. th[t].off \in Offsets /\ th[t].write \in BOOLEAN
    BY <1>2 DEF FaultOK, FaultRecord
  <2> QED
    BY <1>2, <1>3, <2>1, <2>2, MapLookupKeeps
<1>4. CASE ~ Entry(t).in
  <2> DEFINE k == [State EXCEPT !.th[t] = Running]
  <2>1. Becomes(k)
    BY <1>4 DEF Retry
  <2>2. Running \in FaultRecord /\ Running.at = "run" /\ FaultOK(Running)
    BY DEF Running, FaultRecord, AnyOffset, FaultOK, Uses, Pages
  <2> HIDE DEF Running
  <2>3. ThreadOnly(State, k, t, Running)
    BY <1>1, <2>2, SetFault
  <2> HIDE DEF k
  <2>4. k \in Kernels /\ k.object = object /\ k.map = map /\ k.th[t] = Running /\ OthersSame(th, k.th, t)
    <3>1. OthersSame(State.th, k.th, t)
      BY <1>1, <2>3, OthersAre
    <3> QED
      BY <1>1, <2>3, <3>1 DEF ThreadOnly
  <2>5. Good(object, map, k.th, daemon, Nil)
    <3>1. ~ Uses(th[t]) /\ ~ Pages(th[t]) /\ ~ Uses(k.th[t]) /\ ~ Pages(k.th[t])
      BY <1>2, <2>2, <2>4 DEF Uses, Pages
    <3>2. th[t].at \notin {"copy", "collapse", "verify", "alone"}
              /\ k.th[t].at \notin {"copy", "collapse", "verify", "alone"}
      BY <1>2, <2>2, <2>4
    <3>3. \A o \in Objects : /\ Refers(k.th[t], o) <=> Refers(th[t], o)
                             /\ object[o].paging_in_progress + One(PagesAt(th[t], o))
                                  = object[o].paging_in_progress + One(PagesAt(k.th[t], o))
      BY <3>1 DEF Refers, PagesAt, One
    <3>4. \A o \in Objects, x \in Offsets :
            OtherPage(object, object, th[t], k.th[t], o, x)
      BY <3>1, <3>2 DEF OtherPage, SameHeld, HoldsFirst, HoldsFound
    <3>5. \A rank \in [Objects -> Nat] : Descends(object, th, rank) => Below(k.th[t], rank)
      BY <3>1 DEF Below
    <3>6. SameChains(object, object) /\ FaultOK(k.th[t])
      BY <2>2, <2>4 DEF SameChains
    <3>7. object \in [Objects -> ObjectRecord] /\ FreeIsClean(object)
      BY <1>1, GoodParts
    <3>8. Moves(object, object, th, k.th, daemon, t)
      BY <2>4, <3>3, <3>4, <3>5, <3>6, <3>7 DEF Moves
    <3> QED
      BY <1>1, <3>8, GoodStep
  <2>6. VInv(k, daemon, Nil) /\ k.th[t].at # "alone"
    BY <2>2, <2>4, <2>5 DEF VInv
  <2> QED
    BY <1>2, <2>1, <2>4, <2>6, ThreadKeeps
<1> QED
  BY <1>3, <1>4

\* A task writes a page that its physical map lets it write.
LEMMA WriteKeeps ==
  ASSUME IInv, NEW t \in Threads, NEW x \in Offsets, NEW v \in Values, Write(t, x, v)
  PROVE  IInv'
<1> DEFINE o == pmap[TaskOf[t]][x].object
           p == object[o].page[x]
           p1 == [p EXCEPT !.val = v]
           k1 == [State EXCEPT !.object[o].page[x] = p1]
           p2 == [k1.object[o].page[x] EXCEPT !.dirty = TRUE]
           k2 == [k1 EXCEPT !.object[o].page[x] = p2]
<1>1. /\ State \in Kernels /\ State.object = object /\ State.map = map /\ State.pmap = pmap /\ State.th = th
      /\ Good(object, map, th, daemon, Nil)
  BY StateIs
<1>2. /\ object' = [object EXCEPT ![o].page[x].val = v, ![o].page[x].dirty = TRUE]
      /\ UNCHANGED <<map, pmap, th, daemon>>
  BY DEF Write
<1>3. object \in [Objects -> ObjectRecord]
  BY <1>1, KernelWith
<1>4. \E k : k \in Kernels /\ k.object = object' /\ k.map = map /\ k.pmap = pmap /\ k.th = th
                 /\ Alike(object, k.object)
  <2>1. CASE o \in Objects
    <3>1. object' = k2.object
      <4> DEFINE O1 == [object EXCEPT ![o].page[x].val = v]
                 s1 == [State EXCEPT !.object = O1]
      <4>1. k1 = s1
        BY <1>1
      <4> HIDE DEF O1
      <4>2. s1 = [object |-> O1, map |-> map, pmap |-> pmap, th |-> th]
        BY DEF State
      <4> HIDE DEF k1, s1
      <4>3. k1.object = O1 /\ k2.object = [O1 EXCEPT ![o].page[x].dirty = TRUE]
        BY <4>1, <4>2
      <4> HIDE DEF k2
      <4> QED
        BY <1>2, <4>3 DEF O1
    <3>2. p \in PageRecord
      <4>1. object[o] \in ObjectRecord
        BY <1>3, <2>1
      <4> QED
        BY <4>1 DEF ObjectRecord
    <3>3. p1 \in PageRecord /\ p1.at = p.at /\ p1.busy = p.busy
      BY <3>2 DEF PageRecord
    <3>4. PutsPage(State, k1, o, x, p1)
      BY DEF PutsPage
    <3> HIDE DEF p1, k1
    <3>5. ObjectsOnly(State, k1) /\ OnePage(State.object, k1.object, o, x, p1)
      BY <1>1, <2>1, <3>3, <3>4, SetPageIs
    <3>6. k1 \in Kernels /\ k1.map = map /\ k1.pmap = pmap /\ k1.th = th /\ k1.object[o].page[x] = p1
      BY <1>1, <3>5 DEF ObjectsOnly, OnePage
    <3>7. p2 \in PageRecord /\ p2.at = p.at /\ p2.busy = p.busy
      BY <3>3, <3>6 DEF PageRecord
    <3>8. PutsPage(k1, k2, o, x, p2)
      BY DEF PutsPage
    <3> HIDE DEF p2, k2
    <3>9. ObjectsOnly(k1, k2) /\ OnePage(k1.object, k2.object, o, x, p2)
      BY <2>1, <3>6, <3>7, <3>8, SetPageIs
    <3>10. k2 \in Kernels /\ k2.map = map /\ k2.pmap = pmap /\ k2.th = th
      BY <3>6, <3>9 DEF ObjectsOnly
    <3>11. SameChains(object, k2.object) /\ SamePaging(object, k2.object)
      BY <1>1, <3>5, <3>9 DEF OnePage, SameChains, SamePaging
    <3>12. ASSUME NEW q \in Objects, NEW y \in Offsets
           PROVE  SameHeld(object[q].page[y], k2.object[q].page[y])
      BY <1>1, <3>5, <3>7, <3>9 DEF OnePage, PagesBut, SameHeld
    <3>13. Alike(object, k2.object)
      BY <3>11, <3>12 DEF Alike
    <3> QED
      BY <3>1, <3>10, <3>13
  <2>2. CASE o \notin Objects
    <3>1. object' = object
      BY <1>2, <1>3, <2>2
    <3>2. Alike(object, object)
      BY DEF Alike, SameChains, SamePaging, SameHeld
    <3> QED
      BY <1>1, <3>1, <3>2
  <2> QED
    BY <2>1, <2>2
<1>5. PICK k : k \in Kernels /\ k.object = object' /\ k.map = map /\ k.pmap = pmap /\ k.th = th
                   /\ Alike(object, k.object)
  BY <1>4
<1>6. AllSame(th, th) /\ k.object \in [Objects -> ObjectRecord]
  BY <1>1, <1>5, AllSameAgain, KernelWith
<1>7. Good(k.object, map, th, daemon, Nil)
  BY <1>1, <1>5, <1>6, GoodSame
<1>8. VInv(k, daemon', Nil) /\ Becomes(k)
  BY <1>2, <1>5, <1>7 DEF VInv, Becomes
<1>9. (\A u \in Threads : k.th[u].at # "alone") /\ daemon'.at # "alone"
  BY <1>2, <1>5, StateIs
<1> QED
  BY <1>8, <1>9, InvAfter

\* Nothing but mappings.
PmapOnly(k, k2) == k2 \in Kernels /\ k2.object = k.object /\ k2.map = k.map /\ k2.th = k.th

\* No one maps the page.
LEMMA ProtectPageIs ==
  ASSUME NEW k \in Kernels, NEW o, NEW x, NEW k2, k2 = pmap_page_protect(k, o, x)
  PROVE  PmapOnly(k, k2)
<1> DEFINE P == [t \in Tasks |-> [y \in Offsets |->
                   IF y = x /\ k.pmap[t][y].object = o THEN Unmapped ELSE k.pmap[t][y]]]
<1>1. k.pmap \in [Tasks -> [Offsets -> Mapped]]
  BY KernelWith
<1>2. Unmapped \in Mapped
  BY DEF Unmapped, Mapped
<1> HIDE DEF Unmapped
<1>3. P \in [Tasks -> [Offsets -> Mapped]]
  BY <1>1, <1>2
<1>4. k2 = [k EXCEPT !.pmap = P]
  BY DEF pmap_page_protect
<1> HIDE DEF P
<1> QED
  BY <1>3, <1>4, KernelWith DEF PmapOnly

\* The page is copied into the top object's.
Copied(O, O2, T, T2, t, o, f, x) ==
    /\ T[t].at = "copy" /\ T[t].cur = o /\ T[t].first = f /\ T[t].off = x
    /\ O2 \in [Objects -> ObjectRecord]
    /\ SameChains(O, O2) /\ PagingBy(O, O2, o, -1)
    /\ \A q \in Objects, y \in Offsets : ~ (q = o /\ y = x) /\ ~ (q = f /\ y = x)
            => O2[q].page[y] = O[q].page[y]
    /\ O2[o].page[x].at = O[o].page[x].at /\ ~ O2[o].page[x].busy
    /\ O2[f].page[x].at = "filled" /\ O2[f].page[x].busy
    /\ T2[t].at = "collapse" /\ T2[t].cur = f /\ T2[t].first = f /\ T2[t].off = x
    /\ OthersSame(T, T2, t)

\* That keeps the invariant.
LEMMA CopiedKeeps ==
  ASSUME NEW O, NEW O2, NEW M, NEW T, NEW T2, NEW d, NEW e, NEW t \in Threads,
         NEW o, NEW f, NEW x,
         Good(O, M, T, d, e), Copied(O, O2, T, T2, t, o, f, x)
  PROVE  Good(O2, M, T2, d, e)
<1>1. /\ T[t].at = "copy" /\ T[t].cur = o /\ T[t].first = f /\ T[t].off = x
      /\ O2 \in [Objects -> ObjectRecord]
      /\ SameChains(O, O2) /\ PagingBy(O, O2, o, -1)
      /\ \A q \in Objects, y \in Offsets : ~ (q = o /\ y = x) /\ ~ (q = f /\ y = x)
            => O2[q].page[y] = O[q].page[y]
      /\ O2[o].page[x].at = O[o].page[x].at /\ ~ O2[o].page[x].busy
      /\ O2[f].page[x].at = "filled" /\ O2[f].page[x].busy
      /\ T2[t].at = "collapse" /\ T2[t].cur = f /\ T2[t].first = f /\ T2[t].off = x
      /\ OthersSame(T, T2, t)
  BY DEF Copied
<1>2. Pages(T[t]) /\ Pages(T2[t]) /\ Uses(T[t]) /\ Uses(T2[t])
  BY <1>1 DEF Pages, Uses
<1>3. /\ o \in Objects /\ x \in Offsets /\ f \in Objects
      /\ O[o].at # "free" /\ O[f].at = "live"
  BY <1>1, <1>2, SearchIs
<1>4. f # o
  BY <1>1, GoodParts DEF FaultOK
<1>7. O \in [Objects -> ObjectRecord] /\ FreeIsClean(O) /\ PagesHeld(O, T, d)
  BY GoodParts
<1>8. \A q \in Objects : O[q].paging_in_progress \in Nat /\ O2[q].paging_in_progress \in Nat
  BY <1>1, <1>7 DEF ObjectRecord
<1>6. \A q \in Objects : O2[q].paging_in_progress = O[q].paging_in_progress + IF q = o THEN -1 ELSE 0
  BY <1>1 DEF PagingBy
<1>9. FaultOK(T2[t])
  BY <1>1, <1>3 DEF FaultOK
<1>10. ASSUME NEW q \in Objects
       PROVE  /\ Refers(T2[t], q) <=> Refers(T[t], q)
              /\ O2[q].paging_in_progress + One(PagesAt(T[t], q))
                   = O[q].paging_in_progress + One(PagesAt(T2[t], q))
  <2>1. Refers(T2[t], q) <=> Refers(T[t], q)
    BY <1>1, <1>2 DEF Refers
  <2>2. One(PagesAt(T[t], q)) = One(q = f \/ q = o) /\ One(PagesAt(T2[t], q)) = One(q = f)
    BY <1>1, <1>2 DEF PagesAt, One
  <2> QED
    BY <1>4, <1>3, <1>6, <1>8, <2>1, <2>2 DEF One
<1>11. ASSUME NEW q \in Objects, NEW y \in Offsets
       PROVE  OtherPage(O, O2, T[t], T2[t], q, y) \/ OwnPage(O2, T, d, t, T2[t], q, y)
  <2>1. /\ HoldsFound(T[t], q, y) <=> q = o /\ y = x
        /\ HoldsFirst(T[t], q, y) <=> q = f /\ y = x
        /\ HoldsFound(T2[t], q, y) <=> q = f /\ y = x
        /\ ~ HoldsFirst(T2[t], q, y)
    BY <1>1, <1>2, <1>4 DEF HoldsFound, HoldsFirst
  <2>2. CASE (q = o \/ q = f) /\ y = x
    <3>1. Sole(T, d, t, q, y)
      <4>1. Holds(T[t], q, y)
        BY <2>1, <2>2 DEF Holds
      <4> QED
        BY <1>7, <4>1, HolderIs
    <3>2. PageHeld(O, T, d, q, y)
      BY <1>7 DEF PagesHeld
    <3>3. CASE q = o
      <4>1. O[q].page[y].at = "filled"
        BY <2>1, <2>2, <3>2, <3>3 DEF PageHeld
      <4>2. PageOK(O2[q].page[y]) /\ ~ O2[q].page[y].busy
        BY <1>1, <2>2, <3>3, <4>1 DEF PageOK
      <4>3. ~ HoldsFound(T2[t], q, y)
        BY <1>4, <2>1, <3>3
      <4>4. HeldAs(O2[q].page[y], T2[t], q, y)
        BY <2>1, <4>2, <4>3 DEF HeldAs, Kept
      <4> QED
        BY <3>1, <4>4 DEF OwnPage
    <3>4. CASE q = f
      <4>1. O2[q].page[y].at = "filled" /\ O2[q].page[y].busy
        BY <1>1, <2>2, <3>4
      <4>2. HeldAs(O2[q].page[y], T2[t], q, y)
        BY <2>1, <2>2, <3>4, <4>1 DEF HeldAs, PageOK, Kept, Holds
      <4> QED
        BY <3>1, <4>2 DEF OwnPage
    <3> QED
      BY <2>2, <3>3, <3>4
  <2>4. CASE ~ (q = o /\ y = x) /\ ~ (q = f /\ y = x)
    BY <1>1, <2>1, <2>4 DEF OtherPage, SameHeld
  <2> QED
    BY <2>2, <2>4
<1>12. FreeIsClean(O2)
  <2>1. \A q \in Objects : O[q].at = "free" => q # o /\ q # f
    BY <1>3
  <2>2. \A q \in Objects : O[q].at = "free" =>
            /\ O2[q].paging_in_progress = O[q].paging_in_progress
            /\ \A y \in Offsets : O2[q].page[y] = O[q].page[y]
    BY <1>1, <1>6, <1>8, <2>1
  <2> QED
    BY <1>1, <1>7, <2>2, StaysClean
<1>13. \A rank \in [Objects -> Nat] : Descends(O, T, rank) => Below(T2[t], rank)
  BY <1>1, <1>3 DEF Below
<1>14. Moves(O, O2, T, T2, d, t)
  BY <1>1, <1>9, <1>10, <1>11, <1>12, <1>13 DEF Moves
<1> QED
  BY <1>14, GoodStep

\* Copy-on-write.
LEMMA CopyPageKeeps ==
  ASSUME IInv, NEW t \in Threads, CopyPage(t)
  PROVE  IInv'
<1> DEFINE r == th[t]
           o == r.cur
           f == r.first
           x == r.off
           p == Page("filled", PageOf(State, t).val, FALSE)
           k1 == SetPage(State, f, x, p)
           k2 == pmap_page_protect(k1, o, x)
           k3 == PageWakeupDone(k2, o, x)
           k4 == vm_object_paging_end(k3, o)
           w == [[k4.th[t] EXCEPT !.at = "collapse"] EXCEPT !.cur = f]
           k5 == [k4 EXCEPT !.th[t] = w]
<1>1. r.at = "copy" /\ UNCHANGED daemon
      /\ Becomes([k4 EXCEPT !.th[t].at = "collapse", !.th[t].cur = f])
  BY DEF CopyPage
<1>2. /\ State \in Kernels /\ State.object = object /\ State.map = map /\ State.pmap = pmap /\ State.th = th
      /\ Good(object, map, th, daemon, Nil)
  BY StateIs
<1>3. Pages(r) /\ FaultOK(r) /\ r \in FaultRecord
  BY <1>1, <1>2, GoodParts DEF Pages
<1>4. /\ o \in Objects /\ x \in Offsets /\ f \in Objects /\ f # o
      /\ object[o].paging_in_progress > 0
  <2>1. f # o
    BY <1>1, <1>3 DEF FaultOK
  <2> QED
    BY <1>2, <1>3, <2>1, SearchIs
<1>5. p \in PageRecord /\ p.at = "filled" /\ p.busy
  <2>1. object[o] \in ObjectRecord
    BY <1>2, <1>4, GoodParts
  <2>2. object[o].page[x] \in PageRecord
    BY <1>4, <2>1 DEF ObjectRecord
  <2>3. PageOf(State, t).val \in Values
    BY <1>2, <2>2 DEF PageOf, PageRecord
  <2> QED
    BY <2>3 DEF Page, PageRecord
<1> HIDE DEF p
<1>6. ObjectsOnly(State, k1) /\ OnePage(object, k1.object, f, x, p)
  <2>1. PutsPage(State, k1, f, x, p)
    BY DEF PutsPage, SetPage
  <2> QED
    BY <1>2, <1>4, <1>5, <2>1, SetPageIs
<1> HIDE DEF k1
<1>7. k1 \in Kernels /\ k1.map = map /\ k1.th = th
  BY <1>2, <1>6 DEF ObjectsOnly
<1>8. PmapOnly(k1, k2)
  BY <1>7, ProtectPageIs
<1> HIDE DEF k2
<1>9. k2 \in Kernels /\ k2.map = map /\ k2.th = th /\ k2.object = k1.object
  BY <1>7, <1>8 DEF PmapOnly
<1>10. /\ WakesAnd(k2, k3) /\ NotBusy(k2.object, k3.object, o, x)
       /\ \A u \in Threads : k2.th[u].at # "wait" => k3.th[u] = k2.th[u]
  BY <1>4, <1>9, WakeupDoneIs
<1> HIDE DEF k3
<1>11. k3 \in Kernels /\ k3.map = map /\ k3.th[t] = r /\ OthersSame(th, k3.th, t)
  BY <1>1, <1>9, <1>10, OthersAgain DEF WakesAnd
<1>12. PICK p2 \in PageRecord : /\ OnePage(k1.object, k3.object, o, x, p2)
                                /\ p2.at = k1.object[o].page[x].at /\ p2.busy = FALSE
  BY <1>9, <1>10 DEF NotBusy
<1>13. k3.object[o].paging_in_progress > 0
  BY <1>4, <1>6, <1>12 DEF OnePage, SamePaging
<1>14. /\ ObjectsOnly(k3, k4)
       /\ SameChains(k3.object, k4.object) /\ SamePages(k3.object, k4.object)
       /\ PagingBy(k3.object, k4.object, o, -1)
  BY <1>4, <1>11, <1>13, EndIs
<1> HIDE DEF k4
<1>15. k4 \in Kernels /\ k4.map = map /\ k4.th = k3.th
  BY <1>11, <1>14 DEF ObjectsOnly
<1>16. /\ w \in FaultRecord /\ w.at = "collapse" /\ w.cur = f /\ w.first = f /\ w.off = x
  BY <1>3, <1>4, <1>11, <1>15 DEF FaultRecord
<1>17. Becomes(k5)
  <2>1. k5 = [k4 EXCEPT !.th[t].at = "collapse", !.th[t].cur = f]
    <3>1. k4.th \in [Threads -> FaultRecord] /\ k4.th[t] \in FaultRecord
      BY <1>15, KernelWith
    <3> DEFINE w1 == [k4.th[t] EXCEPT !.at = "collapse"]
               T1 == [k4.th EXCEPT ![t] = w1]
               s1 == [k4 EXCEPT !.th = T1]
    <3>2. s1 = [k4 EXCEPT !.th[t].at = "collapse"]
      OBVIOUS
    <3>3. s1.th = T1 /\ T1[t] = w1
      BY <1>15, <3>1 DEF Kernels
    <3>4. [k4 EXCEPT !.th[t].at = "collapse", !.th[t].cur = f] = [s1 EXCEPT !.th[t].cur = f]
      OBVIOUS
    <3>5. [s1 EXCEPT !.th[t].cur = f] = [s1 EXCEPT !.th[t] = w]
      BY <3>3
    <3>6. [s1 EXCEPT !.th[t] = w] = [k4 EXCEPT !.th[t] = w]
      <4>1. [s1 EXCEPT !.th[t] = w] = [s1 EXCEPT !.th = [T1 EXCEPT ![t] = w]]
        BY <3>3
      <4>2. [T1 EXCEPT ![t] = w] = [k4.th EXCEPT ![t] = w]
        BY <3>1
      <4> DEFINE T2 == [k4.th EXCEPT ![t] = w]
      <4>3. [s1 EXCEPT !.th = T2] = [k4 EXCEPT !.th = T2]
        <5> HIDE DEF T1, T2
        <5> QED
          BY <1>15 DEF Kernels
      <4> QED
        BY <4>1, <4>2, <4>3
    <3> QED
      BY <3>4, <3>5, <3>6
  <2> QED
    BY <1>1, <2>1
<1> HIDE DEF w
<1>18. ThreadOnly(k4, k5, t, w)
  BY <1>15, <1>16, SetFault
<1> HIDE DEF k5
<1>19. /\ k5 \in Kernels /\ k5.object = k4.object /\ k5.map = map /\ k5.th[t] = w
       /\ OthersSame(th, k5.th, t)
  <2>1. OthersSame(k4.th, k5.th, t)
    BY <1>15, <1>18, OthersAre
  <2> QED
    BY <1>11, <1>15, <1>18, <2>1, OthersAgain DEF ThreadOnly
<1>20. Copied(object, k5.object, th, k5.th, t, o, f, x)
  <2>1. k5.object \in [Objects -> ObjectRecord]
    BY <1>19, KernelWith
  <2>2. SameChains(object, k5.object)
    BY <1>6, <1>12, <1>14, <1>19 DEF OnePage, SameChains
  <2>3. PagingBy(object, k5.object, o, -1)
    BY <1>6, <1>12, <1>14, <1>19 DEF OnePage, SamePaging, PagingBy
  <2>4. \A q \in Objects, y \in Offsets : ~ (q = o /\ y = x) /\ ~ (q = f /\ y = x)
            => k5.object[q].page[y] = object[q].page[y]
    BY <1>6, <1>12, <1>14, <1>19 DEF OnePage, PagesBut, SamePages
  <2>5. k5.object[o].page[x] = p2 /\ p2.at = object[o].page[x].at /\ ~ p2.busy
    <3>1. k1.object[o].page[x] = object[o].page[x]
      BY <1>4, <1>6 DEF OnePage, PagesBut
    <3>2. k3.object[o].page[x] = p2
      BY <1>12 DEF OnePage
    <3>3. k4.object[o].page[x] = k3.object[o].page[x]
      BY <1>4, <1>14 DEF SamePages
    <3>4. ~ p2.busy
      BY <1>12
    <3> QED
      BY <1>12, <1>19, <3>1, <3>2, <3>3, <3>4
  <2>6. k5.object[f].page[x] = p
    <3>1. k1.object[f].page[x] = p
      BY <1>6 DEF OnePage
    <3>2. k3.object[f].page[x] = k1.object[f].page[x]
      BY <1>4, <1>12 DEF OnePage, PagesBut
    <3>3. k4.object[f].page[x] = k3.object[f].page[x]
      BY <1>4, <1>14 DEF SamePages
    <3> QED
      BY <1>19, <3>1, <3>2, <3>3
  <2> QED
    BY <1>1, <1>5, <1>16, <1>19, <2>1, <2>2, <2>3, <2>4, <2>5, <2>6 DEF Copied
<1>21. Good(k5.object, map, k5.th, daemon, Nil)
  BY <1>2, <1>20, CopiedKeeps
<1>22. VInv(k5, daemon, Nil) /\ k5.th[t].at # "alone"
  BY <1>16, <1>19, <1>21 DEF VInv
<1> QED
  BY <1>1, <1>17, <1>19, <1>22, ThreadKeeps

-----------------------------------------------------------------------------
(* Collapse and bypass.                                                    *)

\* Whoever has given a paging reference up is alone with o.
AloneWith(T, d, o) ==
    /\ \A t \in Threads : T[t].at = "alone" => T[t].cur = o
    /\ d.at = "alone" => d.object = o

\* An object without paging is in nobody else's hands.
LEMMA QuietIs ==
  ASSUME NEW O, NEW M, NEW T, NEW d, NEW e, Good(O, M, T, d, e), NEW o, AloneWith(T, d, o),
         NEW b \in Objects, b # o, O[b].paging_in_progress = 0, NEW x \in Offsets
  PROVE  PageOK(O[b].page[x]) /\ ~ Kept(O[b].page[x]) /\ ~ DaemonHolds(d, b, x)
         /\ \A t \in Threads : ~ Holds(T[t], b, x)
<1>1. PagesHeld(O, T, d)
  BY GoodParts
<1>2. ASSUME NEW t \in Threads PROVE ~ Holds(T[t], b, x)
  <2>1. ~ PagesAt(T[t], b)
    BY GoodFacts
  <2>2. T[t].at = "alone" => T[t].cur # b
    BY DEF AloneWith
  <2>3. T[t].at \in {"copy", "collapse", "verify"} => Pages(T[t])
    BY DEF Pages
  <2> QED
    BY <2>1, <2>2, <2>3 DEF Holds, HoldsFirst, HoldsFound, PagesAt
<1>3. ~ DaemonHolds(d, b, x)
  <2>1. d.at # "alone" => d.object # b
    BY GoodFacts
  <2> QED
    BY <2>1 DEF DaemonHolds, AloneWith
<1>4. PageHeld(O, T, d, b, x)
  BY <1>1 DEF PagesHeld
<1> QED
  BY <1>2, <1>3, <1>4 DEF PageHeld

\* An object and its shadow.
LEMMA ShadowIs ==
  ASSUME NEW O, NEW M, NEW T, NEW d, NEW e, Good(O, M, T, d, e), NEW o \in Objects, NEW b,
         O[o].shadow = b, b # Nil
  PROVE  /\ b \in Objects /\ O[o].at # "free" /\ O[b].at = "live" /\ O[b].ref_count > 0
         /\ b # o /\ O[b].shadow \in Objects \cup {Nil}
         /\ O[b].shadow # b /\ O[b].shadow # o
         /\ Shadows(O, o, b)
         /\ \A rank \in [Objects -> Nat] : Descends(O, T, rank) =>
              rank[b] < rank[o] /\ (O[b].shadow # Nil => rank[O[b].shadow] < rank[b])
<1>1. O[o] \in ObjectRecord /\ O \in [Objects -> ObjectRecord] /\ FreeIsClean(O) /\ Chained(O, T)
  BY GoodParts
<1>2. b \in Objects
  BY <1>1 DEF ObjectRecord
<1>3. O[b] \in ObjectRecord
  BY <1>1, <1>2
<1>4. O[b].shadow \in Objects \cup {Nil}
  BY <1>3 DEF ObjectRecord
<1>5. O[o].at # "free" /\ Shadows(O, o, b)
  BY <1>1 DEF FreeIsClean, Shadows
<1>6. O[b].at = "live" /\ O[b].ref_count > 0
  BY <1>2, <1>5, GoodFacts
<1>7. \A rank \in [Objects -> Nat] : Descends(O, T, rank) =>
              rank[b] < rank[o] /\ (O[b].shadow # Nil => rank[O[b].shadow] < rank[b])
  BY <1>2 DEF Descends
<1>8. PICK rank \in [Objects -> Nat] : Descends(O, T, rank)
  BY <1>1 DEF Chained
<1>9. b # o /\ O[b].shadow # b /\ O[b].shadow # o
  <2>1. rank[b] < rank[o] /\ (O[b].shadow # Nil => rank[O[b].shadow] < rank[b])
    BY <1>7, <1>8
  <2>2. rank[o] \in Nat /\ rank[b] \in Nat
    BY <1>2
  <2> QED
    BY <1>2, <1>4, <2>1, <2>2, VmConstants
<1> QED
  BY <1>2, <1>4, <1>5, <1>6, <1>7, <1>9

\* The pages and the shadow of b, which goes away, come to o.
TakesIn(O, O2, o, b) ==
    /\ O[o].shadow = b /\ b # Nil /\ O[b].ref_count = 1 /\ O[b].paging_in_progress = 0
    /\ O2 \in [Objects -> ObjectRecord]
    /\ O2[b].at = "free" /\ O2[b].ref_count = 0 /\ O2[b].shadow = Nil
    /\ O2[b].paging_in_progress = 0 /\ \A x \in Offsets : O2[b].page[x] = NoPage
    /\ O2[o].at = O[o].at /\ O2[o].ref_count = O[o].ref_count
    /\ O2[o].paging_in_progress = O[o].paging_in_progress
    /\ O2[o].shadow = O[b].shadow
    /\ \A x \in Offsets :
        \/ O2[o].page[x] = O[o].page[x]
        \/ O[o].page[x].at = "none" /\ O2[o].page[x] = O[b].page[x]
    /\ \A q \in Objects \ {o, b} : O2[q] = O[q]

\* The shadows of an object, when o shadows its shadow's.
LEMMA ShadowsMove ==
  ASSUME NEW O, NEW O2, NEW o \in Objects, NEW b \in Objects, b # o, NEW q \in Objects,
         \A p \in Objects \ {o, b} : Shadows(O2, p, q) <=> Shadows(O, p, q)
  PROVE  /\ ShadowRefs(O, q) \in Nat /\ ShadowRefs(O2, q) \in Nat
         /\ ShadowRefs(O2, q) + One(Shadows(O, o, q)) + One(Shadows(O, b, q))
              = ShadowRefs(O, q) + One(Shadows(O2, o, q)) + One(Shadows(O2, b, q))
<1> DEFINE O1 == [p \in Objects |-> IF p = o THEN O2[p] ELSE O[p]]
<1>1. O1[o] = O2[o] /\ \A p \in Objects \ {o} : O1[p] = O[p]
  OBVIOUS
<1> HIDE DEF O1
<1>2. /\ \A p \in Objects \ {o} : Shadows(O1, p, q) <=> Shadows(O, p, q)
      /\ \A p \in Objects \ {b} : Shadows(O2, p, q) <=> Shadows(O1, p, q)
      /\ Shadows(O1, o, q) <=> Shadows(O2, o, q)
      /\ Shadows(O1, b, q) <=> Shadows(O, b, q)
  BY <1>1 DEF Shadows
<1>3. /\ ShadowRefs(O, q) \in Nat /\ ShadowRefs(O1, q) \in Nat
      /\ ShadowRefs(O1, q) + One(Shadows(O, o, q)) = ShadowRefs(O, q) + One(Shadows(O1, o, q))
  BY <1>2, ShadowCounts
<1>4. /\ ShadowRefs(O1, q) \in Nat /\ ShadowRefs(O2, q) \in Nat
      /\ ShadowRefs(O2, q) + One(Shadows(O1, b, q)) = ShadowRefs(O1, q) + One(Shadows(O2, b, q))
  BY <1>2, ShadowCounts
<1>5. One(Shadows(O1, o, q)) = One(Shadows(O2, o, q)) /\ One(Shadows(O1, b, q)) = One(Shadows(O, b, q))
  BY <1>2 DEF One
<1>6. /\ One(Shadows(O, o, q)) \in {0, 1} /\ One(Shadows(O2, o, q)) \in {0, 1}
      /\ One(Shadows(O, b, q)) \in {0, 1} /\ One(Shadows(O2, b, q)) \in {0, 1}
  BY DEF One
<1> QED
  BY <1>3, <1>4, <1>5, <1>6

\* Collapse keeps the invariant.
LEMMA TakesInKeeps ==
  ASSUME NEW O, NEW O2, NEW M, NEW T, NEW d, NEW o \in Objects, NEW b,
         Good(O, M, T, d, Nil), AloneWith(T, d, o), TakesIn(O, O2, o, b)
  PROVE  Good(O2, M, T, d, Nil)
<1>1. /\ O \in [Objects -> ObjectRecord] /\ M \in [Tasks -> EntryRecord]
      /\ T \in [Threads -> FaultRecord] /\ d \in DaemonRecord
      /\ \A t \in Threads : FaultOK(T[t])
      /\ DaemonOK(d) /\ PagesHeld(O, T, d) /\ Counted(O, M, T, d, Nil)
      /\ FreeIsClean(O) /\ Chained(O, T)
  BY GoodParts
<1>2. /\ O[o].shadow = b /\ b # Nil /\ O[b].ref_count = 1 /\ O[b].paging_in_progress = 0
      /\ O2 \in [Objects -> ObjectRecord]
      /\ O2[b].at = "free" /\ O2[b].ref_count = 0 /\ O2[b].shadow = Nil
      /\ O2[b].paging_in_progress = 0 /\ \A x \in Offsets : O2[b].page[x] = NoPage
      /\ O2[o].at = O[o].at /\ O2[o].ref_count = O[o].ref_count
      /\ O2[o].paging_in_progress = O[o].paging_in_progress
      /\ O2[o].shadow = O[b].shadow
      /\ \A x \in Offsets :
          \/ O2[o].page[x] = O[o].page[x]
          \/ O[o].page[x].at = "none" /\ O2[o].page[x] = O[b].page[x]
      /\ \A q \in Objects \ {o, b} : O2[q] = O[q]
  BY DEF TakesIn
<1>3. /\ b \in Objects /\ O[o].at # "free" /\ O[b].at = "live" /\ O[b].ref_count > 0
      /\ b # o /\ O[b].shadow \in Objects \cup {Nil}
      /\ O[b].shadow # b /\ O[b].shadow # o
      /\ Shadows(O, o, b)
      /\ \A rank \in [Objects -> Nat] : Descends(O, T, rank) =>
           rank[b] < rank[o] /\ (O[b].shadow # Nil => rank[O[b].shadow] < rank[b])
  BY <1>2, ShadowIs
<1>4. PagesHeld(O2, T, d)
  <2>1. ASSUME NEW q \in Objects, NEW x \in Offsets
        PROVE  \/ SameHeld(O[q].page[x], O2[q].page[x])
               \/ /\ \A u \in Threads : ~ Holds(T[u], q, x)
                  /\ DaemonPage(O2[q].page[x], d, q, x)
    <3>1. PageOK(O[b].page[x]) /\ ~ Kept(O[b].page[x]) /\ ~ DaemonHolds(d, b, x)
          /\ \A t \in Threads : ~ Holds(T[t], b, x)
      BY <1>2, <1>3, QuietIs
    <3>2. CASE q = b
      <4>1. DaemonPage(NoPage, d, b, x)
        BY <3>1 DEF DaemonPage, NoPage, PageOK, Kept
      <4> QED
        BY <1>2, <3>1, <3>2, <4>1
    <3>3. CASE q = o /\ O2[o].page[x] = O[o].page[x]
      BY <3>3 DEF SameHeld
    <3>4. CASE q = o /\ O[o].page[x].at = "none" /\ O2[o].page[x] = O[b].page[x]
      <4>1. ~ Kept(O[o].page[x])
        <5>1. PageOK(O[o].page[x])
          BY <1>1, HolderIs
        <5> QED
          BY <3>4, <5>1 DEF Kept, PageOK
      <4>2. ~ DaemonHolds(d, o, x) /\ \A u \in Threads : ~ Holds(T[u], o, x)
        BY <1>1, <4>1, HolderIs
      <4>3. DaemonPage(O[b].page[x], d, o, x)
        BY <3>1, <4>2 DEF DaemonPage
      <4> QED
        BY <3>4, <4>2, <4>3
    <3>5. CASE q \notin {o, b}
      BY <1>2, <3>5 DEF SameHeld
    <3> QED
      BY <1>2, <3>2, <3>3, <3>4, <3>5
  <2>2. AllSame(T, T)
    BY <1>1 DEF AllSame, SameFault
  <2> QED
    BY <1>1, <2>1, <2>2, DaemonPagesStep
<1>5. FreeIsClean(O2)
  <2>1. ASSUME NEW q \in Objects, O2[q].at = "free"
        PROVE  /\ O2[q].shadow = Nil /\ O2[q].paging_in_progress = 0
               /\ \A x \in Offsets : O2[q].page[x].at = "none"
    <3>1. q # o
      BY <1>2, <1>3, <2>1
    <3>2. NoPage.at = "none"
      BY DEF NoPage
    <3>3. CASE q = b
      BY <1>2, <3>2, <3>3
    <3>4. CASE q # b
      BY <1>1, <1>2, <2>1, <3>1, <3>4 DEF FreeIsClean
    <3> QED
      BY <3>3, <3>4
  <2> QED
    BY <2>1 DEF FreeIsClean
<1>6. Chained(O2, T)
  <2>1. PICK rank \in [Objects -> Nat] : Descends(O, T, rank)
    BY <1>1 DEF Chained
  <2>2. ASSUME NEW q \in Objects, O2[q].shadow # Nil PROVE rank[O2[q].shadow] < rank[q]
    <3>1. CASE q = o
      <4>1. rank[b] < rank[o] /\ rank[O[b].shadow] < rank[b]
        BY <1>2, <1>3, <2>1, <2>2, <3>1
      <4>2. rank[b] \in Nat /\ rank[o] \in Nat /\ rank[O[b].shadow] \in Nat
        BY <1>2, <1>3, <2>2, <3>1
      <4> QED
        BY <1>2, <3>1, <4>1, <4>2
    <3>2. CASE q = b
      BY <1>2, <2>2, <3>2
    <3>3. CASE q \notin {o, b}
      BY <1>2, <2>1, <2>2, <3>3 DEF Descends
    <3> QED
      BY <3>1, <3>2, <3>3
  <2>3. Descends(O2, T, rank)
    BY <2>1, <2>2 DEF Descends
  <2> QED
    BY <2>3 DEF Chained
<1>7. Counted(O2, M, T, d, Nil)
  <2> SUFFICES ASSUME NEW q \in Objects
               PROVE  /\ O2[q].ref_count = Refs(O2, M, T, q) + One(q = Nil)
                      /\ O2[q].at = "live" <=> O2[q].ref_count > 0
                      /\ O2[q].paging_in_progress = FaultPaging(T, q) + DaemonPaging(d, q)
    BY DEF Counted
  <2>1. /\ O[q].ref_count = Refs(O, M, T, q) + One(q = Nil)
        /\ O[q].at = "live" <=> O[q].ref_count > 0
        /\ O[q].paging_in_progress = FaultPaging(T, q) + DaemonPaging(d, q)
    BY <1>1 DEF Counted
  <2>2. ShadowRefs(O2, q) = ShadowRefs(O, q) + IF q = b THEN -1 ELSE 0
    <3>1. \A p \in Objects \ {o, b} : Shadows(O2, p, q) <=> Shadows(O, p, q)
      BY <1>2 DEF Shadows
    <3>2. /\ ShadowRefs(O, q) \in Nat /\ ShadowRefs(O2, q) \in Nat
          /\ ShadowRefs(O2, q) + One(Shadows(O, o, q)) + One(Shadows(O, b, q))
              = ShadowRefs(O, q) + One(Shadows(O2, o, q)) + One(Shadows(O2, b, q))
      BY <1>3, <3>1, ShadowsMove
    <3>3. Shadows(O, o, q) <=> q = b
      BY <1>2, <1>3 DEF Shadows
    <3>4. Shadows(O2, o, q) <=> Shadows(O, b, q)
      BY <1>2, <1>3 DEF Shadows
    <3>5. ~ Shadows(O2, b, q)
      BY <1>2 DEF Shadows
    <3> QED
      BY <3>2, <3>3, <3>4, <3>5 DEF One
  <2>3. /\ MapRefs(M, q) \in Nat /\ FaultRefs(T, q) \in Nat /\ ShadowRefs(O, q) \in Nat
        /\ One(q = Nil) = 0
    BY Counts, VmConstants DEF One
  <2>4. Refs(O2, M, T, q) = Refs(O, M, T, q) + IF q = b THEN -1 ELSE 0
    BY <2>2, <2>3 DEF Refs
  <2>5. Refs(O, M, T, q) \in Nat
    BY <2>3 DEF Refs
  <2>6. CASE q = b
    <3>1. Refs(O, M, T, q) = 1
      BY <1>2, <2>1, <2>3, <2>5, <2>6
    <3> QED
      BY <1>2, <2>1, <2>3, <2>4, <2>6, <3>1
  <2>7. CASE q = o
    BY <1>2, <1>3, <2>1, <2>3, <2>4, <2>5, <2>7
  <2>8. CASE q \notin {o, b}
    BY <1>2, <2>1, <2>3, <2>4, <2>5, <2>8
  <2> QED
    BY <2>6, <2>7, <2>8
<1> QED
  BY <1>1, <1>2, <1>4, <1>5, <1>6, <1>7 DEF Good

\* The object b is left out of o's chain.
LeavesOut(O, O2, o, b) ==
    /\ O[o].shadow = b /\ b # Nil /\ O[b].ref_count # 1
    /\ O2 \in [Objects -> ObjectRecord]
    /\ \A q \in Objects :
        /\ O2[q].at = O[q].at /\ O2[q].page = O[q].page
        /\ O2[q].paging_in_progress = O[q].paging_in_progress
        /\ O2[q].shadow = IF q = o THEN O[b].shadow ELSE O[q].shadow
        /\ O2[q].ref_count = CASE q = b -> O[q].ref_count - 1
                               [] q # b /\ q = O[b].shadow -> O[q].ref_count + 1
                               [] q # b /\ q # O[b].shadow -> O[q].ref_count

\* Bypass keeps the invariant.
LEMMA LeavesOutKeeps ==
  ASSUME NEW O, NEW O2, NEW M, NEW T, NEW d, NEW o \in Objects, NEW b,
         Good(O, M, T, d, Nil), LeavesOut(O, O2, o, b)
  PROVE  Good(O2, M, T, d, Nil)
<1> DEFINE s == O[b].shadow
<1>1. /\ O \in [Objects -> ObjectRecord] /\ M \in [Tasks -> EntryRecord]
      /\ T \in [Threads -> FaultRecord] /\ d \in DaemonRecord
      /\ \A t \in Threads : FaultOK(T[t])
      /\ DaemonOK(d) /\ PagesHeld(O, T, d) /\ Counted(O, M, T, d, Nil)
      /\ FreeIsClean(O) /\ Chained(O, T)
  BY GoodParts
<1>2. /\ O[o].shadow = b /\ b # Nil /\ O[b].ref_count # 1
      /\ O2 \in [Objects -> ObjectRecord]
      /\ \A q \in Objects :
          /\ O2[q].at = O[q].at /\ O2[q].page = O[q].page
          /\ O2[q].paging_in_progress = O[q].paging_in_progress
          /\ O2[q].shadow = IF q = o THEN s ELSE O[q].shadow
          /\ O2[q].ref_count = CASE q = b -> O[q].ref_count - 1
                                 [] q # b /\ q = s -> O[q].ref_count + 1
                                 [] q # b /\ q # s -> O[q].ref_count
  BY DEF LeavesOut
<1>3. /\ b \in Objects /\ O[o].at # "free" /\ O[b].at = "live" /\ O[b].ref_count > 0
      /\ b # o /\ s \in Objects \cup {Nil}
      /\ s # b /\ s # o
      /\ Shadows(O, o, b)
      /\ \A rank \in [Objects -> Nat] : Descends(O, T, rank) =>
           rank[b] < rank[o] /\ (s # Nil => rank[s] < rank[b])
  BY <1>2, ShadowIs
<1>4. s # Nil => O[s].at = "live"
  BY <1>3, ShadowIs
<1> HIDE DEF s
<1>5. PagesHeld(O2, T, d)
  <2>1. \A q \in Objects, x \in Offsets : SameHeld(O[q].page[x], O2[q].page[x])
    BY <1>2 DEF SameHeld
  <2>2. AllSame(T, T)
    BY <1>1 DEF AllSame, SameFault
  <2> QED
    BY <1>1, <2>1, <2>2, DaemonPagesStep
<1>6. FreeIsClean(O2)
  BY <1>1, <1>2, <1>3 DEF FreeIsClean
<1>7. Chained(O2, T)
  <2>1. PICK rank \in [Objects -> Nat] : Descends(O, T, rank)
    BY <1>1 DEF Chained
  <2>2. ASSUME NEW q \in Objects, O2[q].shadow # Nil PROVE rank[O2[q].shadow] < rank[q]
    <3>1. CASE q = o
      <4>1. O2[q].shadow = s /\ s # Nil
        BY <1>2, <2>2, <3>1
      <4>2. rank[b] < rank[o] /\ rank[s] < rank[b]
        BY <1>3, <2>1, <4>1
      <4>3. rank[b] \in Nat /\ rank[o] \in Nat /\ rank[s] \in Nat
        BY <1>3, <4>1
      <4> QED
        BY <3>1, <4>1, <4>2, <4>3
    <3>2. CASE q # o
      <4>1. O2[q].shadow = O[q].shadow
        BY <1>2, <3>2
      <4> QED
        BY <2>1, <2>2, <4>1 DEF Descends
    <3> QED
      BY <3>1, <3>2
  <2>3. Descends(O2, T, rank)
    BY <2>1, <2>2 DEF Descends
  <2> QED
    BY <2>3 DEF Chained
<1>8. Counted(O2, M, T, d, Nil)
  <2> SUFFICES ASSUME NEW q \in Objects
               PROVE  /\ O2[q].ref_count = Refs(O2, M, T, q) + One(q = Nil)
                      /\ O2[q].at = "live" <=> O2[q].ref_count > 0
                      /\ O2[q].paging_in_progress = FaultPaging(T, q) + DaemonPaging(d, q)
    BY DEF Counted
  <2>1. /\ O[q].ref_count = Refs(O, M, T, q) + One(q = Nil)
        /\ O[q].at = "live" <=> O[q].ref_count > 0
        /\ O[q].paging_in_progress = FaultPaging(T, q) + DaemonPaging(d, q)
    BY <1>1 DEF Counted
  <2>2. /\ ShadowRefs(O, q) \in Nat /\ ShadowRefs(O2, q) \in Nat
        /\ ShadowRefs(O2, q) + One(Shadows(O, o, q)) = ShadowRefs(O, q) + One(Shadows(O2, o, q))
    <3>1. \A p \in Objects \ {o} : Shadows(O2, p, q) <=> Shadows(O, p, q)
      BY <1>2 DEF Shadows
    <3> QED
      BY <3>1, ShadowCounts
  <2>3. One(Shadows(O, o, q)) = (IF q = b THEN 1 ELSE 0) /\ One(Shadows(O2, o, q)) = IF q = s THEN 1 ELSE 0
    <3>1. (Shadows(O, o, q) <=> q = b) /\ (Shadows(O2, o, q) <=> q = s)
      BY <1>2, <1>3 DEF Shadows
    <3> QED
      BY <3>1 DEF One
  <2>4. MapRefs(M, q) \in Nat /\ FaultRefs(T, q) \in Nat /\ One(q = Nil) = 0
    BY Counts, VmConstants DEF One
  <2>5. Refs(O2, M, T, q) + (IF q = b THEN 1 ELSE 0) = Refs(O, M, T, q) + IF q = s THEN 1 ELSE 0
    BY <2>2, <2>3, <2>4 DEF Refs
  <2>6. Refs(O, M, T, q) \in Nat /\ Refs(O2, M, T, q) \in Nat
    BY <2>2, <2>4 DEF Refs
  <2>7. CASE q = b
    <3>1. O2[q].ref_count = O[q].ref_count - 1
      BY <1>2, <2>7
    <3> QED
      BY <1>2, <1>3, <2>1, <2>4, <2>5, <2>6, <2>7, <3>1
  <2>8. CASE q # b /\ q = s
    <3>1. O2[q].ref_count = O[q].ref_count + 1
      BY <1>2, <2>8
    <3>2. O[q].at = "live"
      BY <1>4, <2>8, VmConstants
    <3> QED
      BY <1>2, <1>3, <2>1, <2>4, <2>5, <2>6, <2>8, <3>1, <3>2
  <2>9. CASE q # b /\ q # s
    <3>1. O2[q].ref_count = O[q].ref_count
      BY <1>2, <2>9
    <3> QED
      BY <1>2, <1>3, <2>1, <2>4, <2>5, <2>6, <2>9, <3>1
  <2> QED
    BY <2>7, <2>8, <2>9
<1> QED
  BY <1>1, <1>2, <1>5, <1>6, <1>7, <1>8 DEF Good

\* Collapse, in a kernel state.
LEMMA CollapseIntoIs ==
  ASSUME NEW k \in Kernels, NEW o \in Objects, NEW b \in Objects, b # o, k.object[o].shadow = b,
         k.object[b].ref_count = 1, k.object[b].paging_in_progress = 0,
         NEW k2, k2 = CollapseInto(k, o)
  PROVE  k2 \in Kernels /\ k2.map = k.map /\ k2.th = k.th /\ TakesIn(k.object, k2.object, o, b)
<1> DEFINE Mv(x) == k.object[b].page[x].at # "none" /\ k.object[o].page[x].at = "none"
           g == [x \in Offsets |-> k.object[IF Mv(x) THEN b ELSE o].page[x]]
           c == k.object[b]
           v == [k.object[o] EXCEPT !.page = g, !.pager = c.pager, !.saved = c.saved, !.shadow = c.shadow]
           P == [t \in Tasks |-> [x \in Offsets |->
                  IF k.pmap[t][x].object = b /\ Mv(x)
                  THEN [k.pmap[t][x] EXCEPT !.object = o] ELSE k.pmap[t][x]]]
           k3 == [k EXCEPT !.object[o] = v]
           k4 == [k3 EXCEPT !.object[b] = Template]
           k5 == [k4 EXCEPT !.pmap = P]
<1>1. k2 = k5
  BY DEF CollapseInto
<1>2. k.object \in [Objects -> ObjectRecord] /\ k.pmap \in [Tasks -> [Offsets -> Mapped]]
  BY KernelWith
<1>3. k.object[o] \in ObjectRecord /\ c \in ObjectRecord
  BY <1>2
<1>4. /\ g \in [Offsets -> PageRecord]
      /\ \A x \in Offsets : \/ g[x] = k.object[o].page[x]
                            \/ k.object[o].page[x].at = "none" /\ g[x] = c.page[x]
  <2>1. ASSUME NEW x \in Offsets
        PROVE  g[x] = k.object[o].page[x] \/ (k.object[o].page[x].at = "none" /\ g[x] = c.page[x])
    BY <2>1
  <2>2. k.object[o].page \in [Offsets -> PageRecord] /\ c.page \in [Offsets -> PageRecord]
    BY <1>3 DEF ObjectRecord
  <2>3. ASSUME NEW x \in Offsets PROVE g[x] \in PageRecord
    BY <2>1, <2>2
  <2>4. g \in [Offsets -> PageRecord]
    BY <2>3
  <2> QED
    BY <2>1, <2>4
<1>5. P \in [Tasks -> [Offsets -> Mapped]]
  <2>1. ASSUME NEW t \in Tasks, NEW x \in Offsets
        PROVE  (IF k.pmap[t][x].object = b /\ Mv(x)
                  THEN [k.pmap[t][x] EXCEPT !.object = o] ELSE k.pmap[t][x]) \in Mapped
    <3>1. k.pmap[t][x] \in Mapped
      BY <1>2
    <3>2. [k.pmap[t][x] EXCEPT !.object = o] \in Mapped
      BY <3>1 DEF Mapped
    <3> QED
      BY <3>1, <3>2
  <2> HIDE DEF Mv
  <2> QED
    BY <2>1
<1> HIDE DEF g, P
<1>6. PutsObject(k, k3, o, v)
  BY DEF PutsObject
<1>7. /\ v \in ObjectRecord /\ v.page = g /\ v.shadow = c.shadow
      /\ v.at = k.object[o].at /\ v.ref_count = k.object[o].ref_count
      /\ v.paging_in_progress = k.object[o].paging_in_progress
  <2>1. c.pager \in {"none", "created", "ready"} /\ c.saved \in [Offsets -> Values \cup {Nil}]
        /\ c.shadow \in Objects \cup {Nil}
    BY <1>3 DEF ObjectRecord
  <2> DEFINE pg == c.pager  sv == c.saved  sh == c.shadow
             G == {"none", "created", "ready"}
             S == [Offsets -> Values \cup {Nil}]
             Q == [Offsets -> PageRecord]
  <2>2. pg \in G /\ sv \in S /\ sh \in Objects \cup {Nil} /\ g \in Q
    BY <1>4, <2>1
  <2>3. v = [k.object[o] EXCEPT !.page = g, !.pager = pg, !.saved = sv, !.shadow = sh]
    OBVIOUS
  <2>4. ObjectRecord = [at: {"free", "live", "dying"}, ref_count: Nat, shadow: Objects \cup {Nil},
             paging_in_progress: Nat, absent_count: Int, pager: G, saved: S, page: Q]
    BY DEF ObjectRecord
  <2> HIDE DEF pg, sv, sh, G, S, Q, v
  <2> QED
    BY <1>3, <2>2, <2>3, <2>4 DEF sh
<1> HIDE DEF v, k3
<1>8. /\ k3 \in Kernels /\ k3.map = k.map /\ k3.pmap = k.pmap /\ k3.th = k.th
      /\ k3.object[o] = v /\ \A q \in Objects \ {o} : k3.object[q] = k.object[q]
  <2>1. v \in ObjectRecord
    BY <1>7
  <2> QED
    BY ONLY k \in Kernels, o \in Objects, <1>6, <2>1, SetObject
<1>9. PutsObject(k3, k4, b, Template)
  BY DEF PutsObject
<1>10. /\ Template \in ObjectRecord
       /\ Template.at = "free" /\ Template.ref_count = 0 /\ Template.shadow = Nil
       /\ Template.paging_in_progress = 0 /\ \A y \in Offsets : Template.page[y] = NoPage
  BY TemplateIs
<1> HIDE DEF k4
<1>11. /\ k4 \in Kernels /\ k4.map = k3.map /\ k4.pmap = k3.pmap /\ k4.th = k3.th
       /\ k4.object[b] = Template /\ \A q \in Objects \ {b} : k4.object[q] = k3.object[q]
  <2>1. Template \in ObjectRecord /\ k3 \in Kernels
    BY <1>8, <1>10
  <2> QED
    BY ONLY <2>1, b \in Objects, <1>9, SetObject
<1>12. k5 \in Kernels /\ k5.object = k4.object /\ k5.map = k4.map /\ k5.th = k4.th
  BY <1>5, <1>11, KernelWith
<1> HIDE DEF k5
<1>13. k2.object[o] = v /\ k2.object[b] = Template /\ \A q \in Objects \ {o, b} : k2.object[q] = k.object[q]
  BY <1>1, <1>8, <1>11, <1>12
<1>14. k2.object \in [Objects -> ObjectRecord] /\ b # Nil
  BY <1>1, <1>12, KernelWith, VmConstants
<1>15. TakesIn(k.object, k2.object, o, b)
  BY <1>4, <1>7, <1>10, <1>13, <1>14 DEF TakesIn
<1> QED
  BY <1>1, <1>8, <1>11, <1>12, <1>15

\* One reference or another, in an object.
PutsRef(k, k2, o, n) == k2 = [k EXCEPT !.object[o].ref_count = n]
PutsShadow(k, k2, o, s) == k2 = [k EXCEPT !.object[o].shadow = s]

\* A number of references is put.
LEMMA PutsRefIs ==
  ASSUME NEW k \in Kernels, NEW o \in Objects, NEW n \in Nat, NEW k2, PutsRef(k, k2, o, n)
  PROVE  /\ ObjectsOnly(k, k2)
         /\ k2.object[o] = [k.object[o] EXCEPT !.ref_count = n]
         /\ \A q \in Objects \ {o} : k2.object[q] = k.object[q]
<1> DEFINE v == [k.object[o] EXCEPT !.ref_count = n]
<1>1. k.object[o] \in ObjectRecord
  BY KernelWith
<1>2. v \in ObjectRecord
  BY <1>1 DEF ObjectRecord
<1>3. PutsObject(k, k2, o, v)
  BY DEF PutsRef, PutsObject
<1> HIDE DEF v
<1>4. /\ k2 \in Kernels /\ k2.map = k.map /\ k2.pmap = k.pmap /\ k2.th = k.th
      /\ k2.object[o] = v /\ \A q \in Objects \ {o} : k2.object[q] = k.object[q]
  BY ONLY k \in Kernels, o \in Objects, <1>2, <1>3, SetObject
<1> QED
  BY <1>4 DEF ObjectsOnly, v

\* A shadow is put.
LEMMA PutsShadowIs ==
  ASSUME NEW k \in Kernels, NEW o \in Objects, NEW s \in Objects \cup {Nil}, NEW k2, PutsShadow(k, k2, o, s)
  PROVE  /\ ObjectsOnly(k, k2)
         /\ k2.object[o] = [k.object[o] EXCEPT !.shadow = s]
         /\ \A q \in Objects \ {o} : k2.object[q] = k.object[q]
<1> DEFINE v == [k.object[o] EXCEPT !.shadow = s]
<1>1. k.object[o] \in ObjectRecord
  BY KernelWith
<1>2. v \in ObjectRecord
  BY <1>1 DEF ObjectRecord
<1>3. PutsObject(k, k2, o, v)
  BY DEF PutsShadow, PutsObject
<1> HIDE DEF v
<1>4. /\ k2 \in Kernels /\ k2.map = k.map /\ k2.pmap = k.pmap /\ k2.th = k.th
      /\ k2.object[o] = v /\ \A q \in Objects \ {o} : k2.object[q] = k.object[q]
  BY ONLY k \in Kernels, o \in Objects, <1>2, <1>3, SetObject
<1> QED
  BY <1>4 DEF ObjectsOnly, v

\* Bypass, in a kernel state.
LEMMA BypassIs ==
  ASSUME NEW k \in Kernels, NEW o \in Objects, NEW b \in Objects, b # o, k.object[o].shadow = b,
         k.object[b].shadow # b, k.object[b].ref_count > 1,
         NEW k2, k2 = Bypass(k, o)
  PROVE  k2 \in Kernels /\ k2.map = k.map /\ k2.th = k.th /\ LeavesOut(k.object, k2.object, o, b)
<1> DEFINE s == k.object[b].shadow
           k3 == [k EXCEPT !.object[o].shadow = s]
           n == k3.object[b].ref_count - 1
           k4 == [k3 EXCEPT !.object[b].ref_count = n]
           m == k4.object[s].ref_count + 1
           k5 == IF s = Nil THEN k4 ELSE [k4 EXCEPT !.object[s].ref_count = m]
<1>1. k2 = k5
  <2> DEFINE moved == [k EXCEPT !.object[o].shadow = s, !.object[b].ref_count = @ - 1]
  <2>1. k2 = IF s = Nil THEN moved ELSE [moved EXCEPT !.object[s].ref_count = @ + 1]
    BY DEF Bypass
  <2>2. moved = k4
    OBVIOUS
  <2>3. [k4 EXCEPT !.object[s].ref_count = @ + 1] = [k4 EXCEPT !.object[s].ref_count = m]
    OBVIOUS
  <2> HIDE DEF moved, k4, s, m
  <2> QED
    BY <2>1, <2>2, <2>3
<1>2. k.object \in [Objects -> ObjectRecord] /\ k.object[o] \in ObjectRecord /\ k.object[b] \in ObjectRecord
  BY KernelWith
<1>3. s \in Objects \cup {Nil} /\ k.object[b].ref_count \in Nat
  BY <1>2 DEF ObjectRecord
<1>4. PutsShadow(k, k3, o, s)
  BY DEF PutsShadow
<1> HIDE DEF s, k3
<1>5. /\ ObjectsOnly(k, k3)
      /\ k3.object[o] = [k.object[o] EXCEPT !.shadow = s]
      /\ \A q \in Objects \ {o} : k3.object[q] = k.object[q]
  BY ONLY k \in Kernels, o \in Objects, <1>3, <1>4, PutsShadowIs
<1>6. k3 \in Kernels /\ k3.map = k.map /\ k3.pmap = k.pmap /\ k3.th = k.th
  BY <1>5 DEF ObjectsOnly
<1>7. n \in Nat /\ n = k.object[b].ref_count - 1
  BY <1>3, <1>5
<1>8. PutsRef(k3, k4, b, n)
  BY DEF PutsRef
<1> HIDE DEF n, k4
<1>9. /\ ObjectsOnly(k3, k4)
      /\ k4.object[b] = [k3.object[b] EXCEPT !.ref_count = n]
      /\ \A q \in Objects \ {b} : k4.object[q] = k3.object[q]
  BY ONLY b \in Objects, <1>6, <1>7, <1>8, PutsRefIs
<1>10. k4 \in Kernels /\ k4.map = k.map /\ k4.pmap = k.pmap /\ k4.th = k.th
  BY <1>6, <1>9 DEF ObjectsOnly
<1>11. \A q \in Objects :
          /\ k4.object[q].at = k.object[q].at /\ k4.object[q].page = k.object[q].page
          /\ k4.object[q].paging_in_progress = k.object[q].paging_in_progress
          /\ k4.object[q].shadow = IF q = o THEN s ELSE k.object[q].shadow
          /\ k4.object[q].ref_count = IF q = b THEN k.object[q].ref_count - 1 ELSE k.object[q].ref_count
  <2> SUFFICES ASSUME NEW q \in Objects
               PROVE  /\ k4.object[q].at = k.object[q].at /\ k4.object[q].page = k.object[q].page
                      /\ k4.object[q].paging_in_progress = k.object[q].paging_in_progress
                      /\ k4.object[q].shadow = IF q = o THEN s ELSE k.object[q].shadow
                      /\ k4.object[q].ref_count = IF q = b THEN k.object[q].ref_count - 1
                             ELSE k.object[q].ref_count
    OBVIOUS
  <2>1. CASE q = b
    <3>1. k4.object[q] = [k.object[q] EXCEPT !.ref_count = n]
      BY <1>5, <1>9, <2>1
    <3> QED
      BY <1>2, <1>7, <2>1, <3>1 DEF ObjectRecord
  <2>2. CASE q = o
    <3>1. k4.object[q] = [k.object[q] EXCEPT !.shadow = s]
      BY <1>5, <1>9, <2>2
    <3> QED
      BY <1>2, <2>2, <3>1 DEF ObjectRecord
  <2>3. CASE q \notin {o, b}
    BY <1>5, <1>9, <2>3
  <2> QED
    BY <2>1, <2>2, <2>3
<1>12. CASE s = Nil
  <2>1. k2 = k4
    BY <1>1, <1>12
  <2>2. \A q \in Objects : q # s
    BY <1>12, VmConstants
  <2>3. k4.object \in [Objects -> ObjectRecord] /\ b # Nil /\ k.object[b].ref_count # 1
    BY <1>3, <1>10, KernelWith, VmConstants
  <2>4. LeavesOut(k.object, k2.object, o, b)
    BY <1>11, <2>1, <2>2, <2>3 DEF LeavesOut, s
  <2> QED
    BY <1>10, <2>1, <2>4
<1>13. CASE s # Nil
  <2>1. s \in Objects
    BY <1>3, <1>13
  <2>2. PutsRefMore(k4, k2, s)
    BY <1>1, <1>13 DEF PutsRefMore
  <2>3. ObjectsOnly(k4, k2) /\ TakesRef(k4.object, k2.object, s)
    BY <1>10, <2>1, <2>2, RefMoreIs
  <2>4. k2 \in Kernels /\ k2.map = k.map /\ k2.th = k.th
    BY <1>10, <2>3 DEF ObjectsOnly
  <2>5. s # b /\ k2.object \in [Objects -> ObjectRecord] /\ b # Nil /\ k.object[b].ref_count # 1
    BY <1>3, <2>4, KernelWith, VmConstants DEF s
  <2>6. \A q \in Objects :
          /\ k2.object[q].at = k.object[q].at /\ k2.object[q].page = k.object[q].page
          /\ k2.object[q].paging_in_progress = k.object[q].paging_in_progress
          /\ k2.object[q].shadow = IF q = o THEN s ELSE k.object[q].shadow
          /\ k2.object[q].ref_count = CASE q = b -> k.object[q].ref_count - 1
                                        [] q # b /\ q = s -> k.object[q].ref_count + 1
                                        [] q # b /\ q # s -> k.object[q].ref_count
    BY <1>11, <2>3, <2>5 DEF TakesRef
  <2>7. LeavesOut(k.object, k2.object, o, b)
    BY <2>5, <2>6 DEF LeavesOut, s
  <2> QED
    BY <2>4, <2>7
<1> QED
  BY <1>12, <1>13

\* What a collapse leaves: the map and the threads as they were.  Who collapses
\* is alone with the object in T and d.
CollapsedAs(k, k2, T, d) ==
    k2 \in Kernels /\ Good(k2.object, k2.map, T, d, Nil) /\ k2.map = k.map /\ k2.th = k.th

\* One round.
LEMMA CollapseOnceIs ==
  ASSUME NEW k \in Kernels, NEW T, NEW d, Good(k.object, k.map, T, d, Nil),
         NEW o \in Objects, AloneWith(T, d, o), NEW got \in BOOLEAN,
         NEW k2, k2 = CollapseOnce(k, o, got)
  PROVE  CollapsedAs(k, k2, T, d)
<1> DEFINE b == k.object[o].shadow
<1>1. k \in Kernels /\ Good(k.object, k.map, T, d, Nil)
  OBVIOUS
<1>2. CASE ~ Quiet(k, o) \/ k2 = k
  <2>1. k2 = k
    BY <1>2 DEF CollapseOnce
  <2> QED
    BY <2>1 DEF CollapsedAs
<1>3. CASE Quiet(k, o) /\ k2 # k
  <2>1. b # Nil /\ k.object[b].paging_in_progress = 0
    BY <1>3 DEF Quiet
  <2>2. /\ b \in Objects /\ b # o /\ k.object[b].ref_count > 0 /\ k.object[b].shadow # b
        /\ k.object[b] \in ObjectRecord
    <3>1. b \in Objects /\ b # o /\ k.object[b].ref_count > 0 /\ k.object[b].shadow # b
      BY <1>1, <2>1, ShadowIs
    <3> QED
      BY <1>1, <3>1, GoodFacts
  <2>3. CASE k.object[b].ref_count = 1
    <3>1. k2 = CollapseInto(k, o)
      BY <1>3, <2>3 DEF CollapseOnce
    <3>2. k2 \in Kernels /\ k2.map = k.map /\ k2.th = k.th /\ TakesIn(k.object, k2.object, o, b)
      <4> HIDE DEF b
      <4>1. k.object[o].shadow = b
        BY DEF b
      <4> QED
        BY <1>1, <2>1, <2>2, <2>3, <3>1, <4>1, CollapseIntoIs
    <3>3. Good(k2.object, k.map, T, d, Nil)
      BY <1>1, <3>2, TakesInKeeps
    <3> QED
      BY <3>2, <3>3 DEF CollapsedAs
  <2>4. CASE k.object[b].ref_count # 1
    <3>1. k2 = Bypass(k, o)
      BY <1>3, <2>4 DEF CollapseOnce
    <3>2. k.object[b].ref_count > 1
      BY <2>2, <2>4 DEF ObjectRecord
    <3>3. k2 \in Kernels /\ k2.map = k.map /\ k2.th = k.th /\ LeavesOut(k.object, k2.object, o, b)
      <4> HIDE DEF b
      <4>1. k.object[o].shadow = b
        BY DEF b
      <4> QED
        BY <1>1, <2>1, <2>2, <3>1, <3>2, <4>1, BypassIs
    <3>4. Good(k2.object, k.map, T, d, Nil)
      BY <1>1, <3>3, LeavesOutKeeps
    <3> QED
      BY <3>3, <3>4 DEF CollapsedAs
  <2> QED
    BY <2>3, <2>4
<1> QED
  BY <1>2, <1>3

\* All the rounds.
LEMMA CollapseIs ==
  ASSUME NEW k \in Kernels, NEW T, NEW d, Good(k.object, k.map, T, d, Nil),
         NEW o \in Objects, AloneWith(T, d, o), NEW got \in BOOLEAN
  PROVE  CollapsedAs(k, vm_object_collapse(k, o, got), T, d)
<1> DEFINE N == Cardinality(Objects)
           V == {j \in Kernels : CollapsedAs(k, j, T, d)}
           Step(f, n) == IF n = 0 THEN k ELSE CollapseOnce(f[n - 1], o, got)
           IsRound(f) == f = [n \in 0 .. N |-> Step(f, n)]
           round[n \in 0 .. N] == IF n = 0 THEN k ELSE CollapseOnce(round[n - 1], o, got)
<1>1. N \in Nat
  BY VmFinite, FS_CardinalityType
<1>2. vm_object_collapse(k, o, got) = round[N]
  BY DEF vm_object_collapse
<1>3. round = CHOOSE f : IsRound(f)
  OBVIOUS
<1>4. k \in V
  BY DEF CollapsedAs
<1>5. ASSUME NEW j \in V PROVE CollapseOnce(j, o, got) \in V
  <2> DEFINE j2 == CollapseOnce(j, o, got)
  <2>1. j \in Kernels /\ Good(j.object, j.map, T, d, Nil) /\ j.map = k.map /\ j.th = k.th
    BY DEF CollapsedAs
  <2>3. CollapsedAs(j, j2, T, d)
    BY <2>1, CollapseOnceIs
  <2> HIDE DEF j2
  <2>4. CollapsedAs(k, j2, T, d) /\ j2 \in Kernels
    BY <2>1, <2>3 DEF CollapsedAs
  <2> QED
    BY <2>4 DEF j2
<1> HIDE DEF round, N
<1>6. \E f : IsRound(f)
  <2> DEFINE H == [j \in V |-> CollapseOnce(j, o, got)]
  <2>1. H \in [V -> V] /\ \A j \in V : H[j] = CollapseOnce(j, o, got)
    BY <1>5
  <2> HIDE DEF H, V
  <2>0. PICK r : Rounds(r, N, V, k, H)
    BY <1>1, <1>4, <2>1, RoundsAre
  <2>2. r \in [0 .. N -> V] /\ r[0] = k /\ \A n \in 1 .. N : r[n] = H[r[n - 1]]
    BY <2>0 DEF Rounds
  <2>3. ASSUME NEW n \in 0 .. N PROVE r[n] = Step(r, n)
    <3>1. CASE n = 0
      BY <2>2, <3>1
    <3>2. CASE n # 0
      <4>1. n \in 1 .. N /\ n - 1 \in 0 .. N
        BY <1>1, <3>2
      <4>2. r[n] = H[r[n - 1]] /\ r[n - 1] \in V
        BY <2>2, <4>1
      <4> QED
        BY <2>1, <3>2, <4>1, <4>2
    <3> QED
      BY <3>1, <3>2
  <2> HIDE DEF Step
  <2>4. r = [n \in 0 .. N |-> Step(r, n)]
    BY <2>2, <2>3
  <2> QED
    BY <2>4
<1>7. IsRound(round)
  <2> HIDE DEF IsRound
  <2> QED
    BY <1>3, <1>6, Zenon
<1>8. \A n \in 0 .. N : round[n] = Step(round, n)
  BY <1>7
<1> HIDE DEF V
<1>9. round[0] \in V
  BY <1>1, <1>4, <1>8
<1>10. ASSUME NEW n \in 1 .. N, round[n - 1] \in V PROVE round[n] \in V
  <2>1. n \in 0 .. N /\ n # 0
    BY <1>1
  <2>2. round[n] = CollapseOnce(round[n - 1], o, got)
    BY <1>8, <2>1
  <2> QED
    BY <1>5, <1>10, <2>2
<1>11. round[N] \in V
  BY <1>1, <1>9, <1>10, RoundsIn
<1> QED
  BY <1>2, <1>11 DEF V

\* A thread gives its paging reference to the object up, or takes it back.
StepsAside(O, O2, T, T2, t, o, n, at, at2) ==
    /\ T[t].at = at /\ T2[t].at = at2 /\ T[t].first = o /\ T[t].cur = o
    /\ T2[t].first = o /\ T2[t].cur = o /\ T2[t].off = T[t].off
    /\ OthersSame(T, T2, t)
    /\ O2 \in [Objects -> ObjectRecord]
    /\ SameChains(O, O2) /\ SamePages(O, O2) /\ PagingBy(O, O2, o, n)
    /\ \/ at = "collapse" /\ at2 = "alone" /\ n = -1
       \/ at = "alone" /\ at2 = "verify" /\ n = 1

\* It keeps the reference and the page.
LEMMA StepsAsideKeeps ==
  ASSUME NEW O, NEW O2, NEW M, NEW T, NEW T2, NEW d, NEW e, NEW t \in Threads, NEW o \in Objects,
         NEW n, NEW at, NEW at2,
         Good(O, M, T, d, e), StepsAside(O, O2, T, T2, t, o, n, at, at2)
  PROVE  Good(O2, M, T2, d, e)
<1>1. /\ T[t].at = at /\ T2[t].at = at2 /\ T[t].first = o /\ T[t].cur = o
      /\ T2[t].first = o /\ T2[t].cur = o /\ T2[t].off = T[t].off
      /\ OthersSame(T, T2, t)
      /\ O2 \in [Objects -> ObjectRecord]
      /\ SameChains(O, O2) /\ SamePages(O, O2) /\ PagingBy(O, O2, o, n)
      /\ \/ at = "collapse" /\ at2 = "alone" /\ n = -1
         \/ at = "alone" /\ at2 = "verify" /\ n = 1
  BY DEF StepsAside
<1>2. /\ O \in [Objects -> ObjectRecord] /\ FaultOK(T[t]) /\ FreeIsClean(O)
  BY GoodParts
<1>3. Uses(T[t]) /\ Uses(T2[t])
  BY <1>1 DEF Uses
<1>4. O[o].at = "live"
  <2>1. Refers(T[t], o)
    BY <1>1, <1>3 DEF Refers
  <2> QED
    BY <2>1, GoodFacts
<1>5. FaultOK(T2[t])
  BY <1>1, <1>2 DEF FaultOK
<1>6. ASSUME NEW q \in Objects
      PROVE  /\ Refers(T2[t], q) <=> Refers(T[t], q)
             /\ O2[q].paging_in_progress + One(PagesAt(T[t], q))
                  = O[q].paging_in_progress + One(PagesAt(T2[t], q))
  <2>1. Refers(T2[t], q) <=> Refers(T[t], q)
    BY <1>1, <1>3 DEF Refers
  <2>2. O2[q].paging_in_progress = O[q].paging_in_progress + IF q = o THEN n ELSE 0
    BY <1>1 DEF PagingBy
  <2>3. O[q].paging_in_progress \in Nat /\ O2[q].paging_in_progress \in Nat
    BY <1>1, <1>2 DEF ObjectRecord
  <2>4. CASE at = "collapse"
    <3>1. (PagesAt(T[t], q) <=> q = o) /\ ~ PagesAt(T2[t], q)
      BY <1>1, <2>4 DEF PagesAt, Pages
    <3> QED
      BY <1>1, <2>1, <2>2, <2>3, <2>4, <3>1 DEF One
  <2>5. CASE at = "alone"
    <3>1. (PagesAt(T2[t], q) <=> q = o) /\ ~ PagesAt(T[t], q)
      BY <1>1, <2>5 DEF PagesAt, Pages
    <3> QED
      BY <1>1, <2>1, <2>2, <2>3, <2>5, <3>1 DEF One
  <2> QED
    BY <1>1, <2>4, <2>5
<1>7. ASSUME NEW q \in Objects, NEW y \in Offsets
      PROVE  OtherPage(O, O2, T[t], T2[t], q, y)
  BY <1>1 DEF OtherPage, SameHeld, SamePages, HoldsFirst, HoldsFound
<1>8. FreeIsClean(O2)
  <2>1. \A q \in Objects : O[q].at = "free" =>
            /\ O2[q].paging_in_progress = O[q].paging_in_progress
            /\ \A y \in Offsets : O2[q].page[y] = O[q].page[y]
    <3> SUFFICES ASSUME NEW q \in Objects, O[q].at = "free"
                 PROVE  /\ O2[q].paging_in_progress = O[q].paging_in_progress
                        /\ \A y \in Offsets : O2[q].page[y] = O[q].page[y]
      OBVIOUS
    <3>1. O[q].paging_in_progress \in Nat /\ q # o
      BY <1>2, <1>4 DEF ObjectRecord
    <3> QED
      BY <1>1, <3>1 DEF PagingBy, SamePages
  <2> QED
    BY <1>1, <1>2, <2>1, StaysClean
<1>9. \A rank \in [Objects -> Nat] : Descends(O, T, rank) => Below(T2[t], rank)
  BY <1>1 DEF Below
<1>10. Moves(O, O2, T, T2, d, t)
  BY <1>1, <1>5, <1>6, <1>7, <1>8, <1>9 DEF Moves
<1> QED
  BY <1>10, GoodStep

\* "ugly games with paging_in_progress".
LEMMA CollapseTopKeeps ==
  ASSUME IInv, NEW t \in Threads, CollapseTop(t)
  PROVE  IInv'
<1> DEFINE r == th[t]
           o == r.first
           w == [r EXCEPT !.at = "alone"]
           T1 == [th EXCEPT ![t] = w]
           k1 == vm_object_paging_end(State, o)
           K2(got) == vm_object_collapse(k1, o, got)
           K3(got) == vm_object_paging_begin(K2(got), o)
           K4(got) == Returns(K3(got), t)
           m == -1
           n == 1
           collapse == "collapse"
           alone == "alone"
           verify == "verify"
<1>1. r.at = "collapse" /\ UNCHANGED daemon /\ \E got \in BOOLEAN : Becomes(K4(got))
  BY DEF CollapseTop
<1>2. PICK got \in BOOLEAN : Becomes(K4(got))
  BY <1>1
<1> DEFINE k2 == K2(got)
           k3 == vm_object_paging_begin(k2, o)
           k4 == Returns(k3, t)
<1>3. Becomes(k4)
  BY <1>2
<1>4. /\ State \in Kernels /\ State.object = object /\ State.map = map /\ State.pmap = pmap /\ State.th = th
      /\ Good(object, map, th, daemon, Nil)
      /\ \A u \in Threads : th[u].at # "alone"
      /\ daemon.at # "alone"
  BY StateIs
<1>5. Pages(r) /\ FaultOK(r) /\ r \in FaultRecord /\ th \in [Threads -> FaultRecord]
  BY <1>1, <1>4, GoodParts DEF Pages
<1>6. o \in Objects /\ r.off \in Offsets /\ r.cur = o /\ object[o].paging_in_progress > 0
  <2>1. r.cur = o
    BY <1>1, <1>5 DEF FaultOK
  <2> QED
    BY <1>4, <1>5, <2>1, SearchIs
<1>7. w \in FaultRecord /\ w.at = "alone" /\ w.first = o /\ w.cur = o /\ w.off = r.off
  BY <1>5, <1>6 DEF FaultRecord
<1> HIDE DEF w
<1>8. T1 \in [Threads -> FaultRecord] /\ T1[t] = w /\ \A u \in Threads \ {t} : T1[u] = th[u]
  BY <1>5, <1>7
<1> HIDE DEF T1
<1>9. OthersSame(th, T1, t)
  BY <1>8 DEF OthersSame, SameFault
<1>10. /\ ObjectsOnly(State, k1)
       /\ SameChains(object, k1.object) /\ SamePages(object, k1.object)
       /\ PagingBy(object, k1.object, o, -1)
  BY <1>4, <1>6, EndIs
<1> HIDE DEF k1
<1>11. k1 \in Kernels /\ k1.map = map /\ k1.pmap = pmap /\ k1.th = th
  BY <1>4, <1>10 DEF ObjectsOnly
<1>12. Good(k1.object, map, T1, daemon, Nil)
  <2>1. StepsAside(object, k1.object, th, T1, t, o, m, collapse, alone)
    <3>1. k1.object \in [Objects -> ObjectRecord]
      BY <1>11, KernelWith
    <3> QED
      BY <1>1, <1>6, <1>7, <1>8, <1>9, <1>10, <3>1 DEF StepsAside
  <2> HIDE DEF m, collapse, alone
  <2> QED
    BY <1>4, <1>6, <2>1, StepsAsideKeeps
<1>13. AloneWith(T1, daemon, o)
  BY <1>4, <1>7, <1>8 DEF AloneWith
<1>14. CollapsedAs(k1, k2, T1, daemon)
  BY <1>6, <1>11, <1>12, <1>13, CollapseIs
<1> HIDE DEF k2
<1>15. k2 \in Kernels /\ Good(k2.object, map, T1, daemon, Nil) /\ k2.map = map /\ k2.th = th
  BY <1>11, <1>14 DEF CollapsedAs
<1>16. /\ ObjectsOnly(k2, k3)
       /\ SameChains(k2.object, k3.object) /\ SamePages(k2.object, k3.object)
       /\ PagingBy(k2.object, k3.object, o, 1)
  BY <1>6, <1>15, BeginIs
<1> HIDE DEF k3
<1>17. k3 \in Kernels /\ k3.map = map /\ k3.th = th
  BY <1>15, <1>16 DEF ObjectsOnly
<1>18. AtPageOnly(k3, k4, t, "verify") /\ Alike(k3.object, k4.object)
  <2>1. k3.th[t].cur \in Objects /\ k3.th[t].off \in Offsets
    BY <1>6, <1>17
  <2> QED
    BY <1>17, <2>1, ReturnsIs
<1> HIDE DEF k4
<1>19. /\ k4 \in Kernels /\ k4.map = map /\ k4.th[t].at = "verify" /\ k4.th[t].cur = o
       /\ k4.th[t].first = o /\ k4.th[t].off = r.off /\ OthersSame(th, k4.th, t)
  BY <1>6, <1>17, <1>18 DEF AtPageOnly, StaysAt
<1>20. OthersSame(T1, k4.th, t)
  BY <1>8, <1>19 DEF OthersSame, SameFault
<1>21. Good(k3.object, map, k4.th, daemon, Nil)
  <2>1. StepsAside(k2.object, k3.object, T1, k4.th, t, o, n, alone, verify)
    <3>1. k3.object \in [Objects -> ObjectRecord]
      BY <1>17, KernelWith
    <3> QED
      BY <1>7, <1>8, <1>16, <1>19, <1>20, <3>1 DEF StepsAside
  <2> HIDE DEF n, alone, verify
  <2> QED
    BY <1>6, <1>15, <2>1, StepsAsideKeeps
<1>22. Good(k4.object, map, k4.th, daemon, Nil)
  <2>1. k4.object \in [Objects -> ObjectRecord] /\ AllSame(k4.th, k4.th)
    BY <1>19, KernelWith, AllSameAgain
  <2> QED
    BY <1>18, <1>21, <2>1, GoodSame
<1>23. VInv(k4, daemon, Nil) /\ k4.th[t].at # "alone"
  BY <1>19, <1>22 DEF VInv
<1> QED
  BY <1>1, <1>3, <1>19, <1>23, ThreadKeeps

-----------------------------------------------------------------------------
(* Entries and objects come and go.                                        *)

\* Other entries, and the references counted accordingly.
Recounted(O, O2, M2, T, e2) ==
    /\ O2 \in [Objects -> ObjectRecord] /\ M2 \in [Tasks -> EntryRecord]
    /\ \A q \in Objects :
        /\ O2[q].shadow = O[q].shadow /\ O2[q].page = O[q].page /\ O2[q].at = O[q].at
        /\ O2[q].paging_in_progress = O[q].paging_in_progress
        /\ O2[q].ref_count = Refs(O, M2, T, q) + One(q = e2)
        /\ O2[q].ref_count > 0 <=> O[q].ref_count > 0

\* That keeps the rest.
LEMMA RecountedKeeps ==
  ASSUME NEW O, NEW O2, NEW M, NEW M2, NEW T, NEW d, NEW e, NEW e2,
         Good(O, M, T, d, e), Recounted(O, O2, M2, T, e2)
  PROVE  Good(O2, M2, T, d, e2)
<1>1. /\ O \in [Objects -> ObjectRecord] /\ M \in [Tasks -> EntryRecord]
      /\ T \in [Threads -> FaultRecord] /\ d \in DaemonRecord
      /\ \A t \in Threads : FaultOK(T[t])
      /\ DaemonOK(d) /\ PagesHeld(O, T, d) /\ Counted(O, M, T, d, e)
      /\ FreeIsClean(O) /\ Chained(O, T)
  BY GoodParts
<1>2. /\ O2 \in [Objects -> ObjectRecord] /\ M2 \in [Tasks -> EntryRecord]
      /\ \A q \in Objects :
          /\ O2[q].shadow = O[q].shadow /\ O2[q].page = O[q].page /\ O2[q].at = O[q].at
          /\ O2[q].paging_in_progress = O[q].paging_in_progress
          /\ O2[q].ref_count = Refs(O, M2, T, q) + One(q = e2)
          /\ O2[q].ref_count > 0 <=> O[q].ref_count > 0
  BY DEF Recounted
<1>3. PagesHeld(O2, T, d)
  <2>1. \A q \in Objects, x \in Offsets : SameHeld(O[q].page[x], O2[q].page[x])
    BY <1>2 DEF SameHeld
  <2>2. AllSame(T, T)
    BY <1>1 DEF AllSame, SameFault
  <2> QED
    BY <1>1, <2>1, <2>2, DaemonPagesStep
<1>4. FreeIsClean(O2)
  BY <1>1, <1>2 DEF FreeIsClean
<1>5. Chained(O2, T)
  <2>1. PICK rank \in [Objects -> Nat] : Descends(O, T, rank)
    BY <1>1 DEF Chained
  <2>2. Descends(O2, T, rank)
    BY <1>2, <2>1 DEF Descends
  <2> QED
    BY <2>2 DEF Chained
<1>6. Counted(O2, M2, T, d, e2)
  <2> SUFFICES ASSUME NEW q \in Objects
               PROVE  /\ O2[q].ref_count = Refs(O2, M2, T, q) + One(q = e2)
                      /\ O2[q].at = "live" <=> O2[q].ref_count > 0
                      /\ O2[q].paging_in_progress = FaultPaging(T, q) + DaemonPaging(d, q)
    BY DEF Counted
  <2>1. /\ O[q].at = "live" <=> O[q].ref_count > 0
        /\ O[q].paging_in_progress = FaultPaging(T, q) + DaemonPaging(d, q)
    BY <1>1 DEF Counted
  <2>2. ShadowRefs(O2, q) = ShadowRefs(O, q)
    <3>1. \A p \in Objects : Shadows(O2, p, q) <=> Shadows(O, p, q)
      BY <1>2 DEF Shadows
    <3> QED
      BY <3>1, ShadowsSame
  <2>3. Refs(O2, M2, T, q) = Refs(O, M2, T, q)
    BY <2>2 DEF Refs
  <2> QED
    BY <1>2, <2>1, <2>3
<1> QED
  BY <1>1, <1>2, <1>3, <1>4, <1>5, <1>6 DEF Good

\* A reference is given up, if there is an object.
LEMMA DropKeeps ==
  ASSUME NEW k \in Kernels, NEW d, NEW s \in Objects \cup {Nil}, Good(k.object, k.map, k.th, d, s),
         NEW k2, k2 = vm_object_deallocate(k, s)
  PROVE  VInv(k2, d, Nil) /\ k2.map = k.map /\ k2.pmap = k.pmap /\ k2.th = k.th
<1>1. CASE s = Nil
  <2>1. k2 = k
    BY <1>1 DEF vm_object_deallocate
  <2> QED
    BY <1>1, <2>1 DEF VInv
<1>2. CASE s # Nil
  <2>1. s \in Objects /\ k.object[s].ref_count > 0
    BY <1>2, GoodFacts
  <2>2. ObjectsOnly(k, k2) /\ DropsRef(k.object, k2.object, s)
    BY <2>1, DeallocateIs
  <2>3. k2 \in Kernels /\ k2.map = k.map /\ k2.pmap = k.pmap /\ k2.th = k.th
    BY <2>2 DEF ObjectsOnly
  <2>4. k2.object \in [Objects -> ObjectRecord]
    BY <2>3, KernelWith
  <2>5. Good(k2.object, k.map, k.th, d, Nil)
    BY <2>1, <2>2, <2>4, GoodDrop
  <2> QED
    BY <2>3, <2>5 DEF VInv
<1> QED
  BY <1>1, <1>2

\* An object without references and without paging goes away.
Ends(O, O2, o) ==
    /\ O[o].at = "dying" /\ O[o].paging_in_progress = 0
    /\ O2 \in [Objects -> ObjectRecord]
    /\ O2[o].at = "free" /\ O2[o].ref_count = 0 /\ O2[o].shadow = Nil
    /\ O2[o].paging_in_progress = 0 /\ \A x \in Offsets : O2[o].page[x] = NoPage
    /\ \A q \in Objects \ {o} : O2[q] = O[q]

\* The reference to its shadow is still to be given up.
LEMMA EndsKeeps ==
  ASSUME NEW O, NEW O2, NEW M, NEW T, NEW d, NEW o \in Objects,
         Good(O, M, T, d, Nil), AloneWith(T, d, Nil), Ends(O, O2, o)
  PROVE  Good(O2, M, T, d, O[o].shadow)
<1> DEFINE s == O[o].shadow
<1>1. /\ O \in [Objects -> ObjectRecord] /\ M \in [Tasks -> EntryRecord]
      /\ T \in [Threads -> FaultRecord] /\ d \in DaemonRecord
      /\ \A t \in Threads : FaultOK(T[t])
      /\ DaemonOK(d) /\ PagesHeld(O, T, d) /\ Counted(O, M, T, d, Nil)
      /\ FreeIsClean(O) /\ Chained(O, T)
  BY GoodParts
<1>2. /\ O[o].at = "dying" /\ O[o].paging_in_progress = 0
      /\ O2 \in [Objects -> ObjectRecord]
      /\ O2[o].at = "free" /\ O2[o].ref_count = 0 /\ O2[o].shadow = Nil
      /\ O2[o].paging_in_progress = 0 /\ \A x \in Offsets : O2[o].page[x] = NoPage
      /\ \A q \in Objects \ {o} : O2[q] = O[q]
  BY DEF Ends
<1>3. o # Nil /\ O[o] \in ObjectRecord
  BY <1>1, VmConstants
<1>4. PagesHeld(O2, T, d)
  <2>1. ASSUME NEW q \in Objects, NEW x \in Offsets
        PROVE  \/ SameHeld(O[q].page[x], O2[q].page[x])
               \/ /\ \A u \in Threads : ~ Holds(T[u], q, x)
                  /\ DaemonPage(O2[q].page[x], d, q, x)
    <3>1. CASE q = o
      <4>1. ~ DaemonHolds(d, o, x) /\ \A t \in Threads : ~ Holds(T[t], o, x)
        BY <1>2, <1>3, QuietIs
      <4>2. DaemonPage(NoPage, d, o, x)
        BY <4>1 DEF DaemonPage, NoPage, PageOK, Kept
      <4> QED
        BY <1>2, <3>1, <4>1, <4>2
    <3>2. CASE q # o
      BY <1>2, <3>2 DEF SameHeld
    <3> QED
      BY <3>1, <3>2
  <2>2. AllSame(T, T)
    BY <1>1 DEF AllSame, SameFault
  <2> QED
    BY <1>1, <2>1, <2>2, DaemonPagesStep
<1>5. FreeIsClean(O2)
  <2>1. NoPage.at = "none"
    BY DEF NoPage
  <2> QED
    BY <1>1, <1>2, <2>1 DEF FreeIsClean
<1>6. Chained(O2, T)
  <2>1. PICK rank \in [Objects -> Nat] : Descends(O, T, rank)
    BY <1>1 DEF Chained
  <2>2. Descends(O2, T, rank)
    BY <1>2, <2>1 DEF Descends
  <2> QED
    BY <2>2 DEF Chained
<1>7. Counted(O2, M, T, d, s)
  <2> SUFFICES ASSUME NEW q \in Objects
               PROVE  /\ O2[q].ref_count = Refs(O2, M, T, q) + One(q = s)
                      /\ O2[q].at = "live" <=> O2[q].ref_count > 0
                      /\ O2[q].paging_in_progress = FaultPaging(T, q) + DaemonPaging(d, q)
    BY DEF Counted
  <2>1. /\ O[q].ref_count = Refs(O, M, T, q) + One(q = Nil)
        /\ O[q].at = "live" <=> O[q].ref_count > 0
        /\ O[q].paging_in_progress = FaultPaging(T, q) + DaemonPaging(d, q)
    BY <1>1 DEF Counted
  <2>2. /\ ShadowRefs(O, q) \in Nat /\ ShadowRefs(O2, q) \in Nat
        /\ ShadowRefs(O2, q) + One(Shadows(O, o, q)) = ShadowRefs(O, q) + One(Shadows(O2, o, q))
    <3>1. \A p \in Objects \ {o} : Shadows(O2, p, q) <=> Shadows(O, p, q)
      BY <1>2 DEF Shadows
    <3> QED
      BY <3>1, ShadowCounts
  <2>3. One(Shadows(O, o, q)) = One(q = s) /\ One(Shadows(O2, o, q)) = 0 /\ One(q = s) \in {0, 1}
    BY <1>2 DEF Shadows, One
  <2>4. MapRefs(M, q) \in Nat /\ FaultRefs(T, q) \in Nat /\ One(q = Nil) = 0
    BY Counts, VmConstants DEF One
  <2>5. Refs(O2, M, T, q) + One(q = s) = Refs(O, M, T, q)
    BY <2>2, <2>3, <2>4 DEF Refs
  <2>6. Refs(O2, M, T, q) \in Nat /\ Refs(O, M, T, q) \in Nat
    BY <2>2, <2>4 DEF Refs
  <2>7. CASE q = o
    <3>1. O[o].ref_count = 0
      BY <1>2, <1>3, <2>1, <2>7 DEF ObjectRecord
    <3> QED
      BY <1>2, <2>1, <2>3, <2>4, <2>5, <2>6, <2>7, <3>1
  <2>8. CASE q # o
    BY <1>2, <2>1, <2>3, <2>4, <2>5, <2>6, <2>8
  <2> QED
    BY <2>7, <2>8
<1> QED
  BY <1>1, <1>2, <1>4, <1>5, <1>6, <1>7 DEF Good

\* Termination.
LEMMA TerminateKeeps ==
  ASSUME IInv, NEW o \in Objects, vm_object_terminate(o)
  PROVE  IInv'
<1> DEFINE s == object[o].shadow
           k1 == [State EXCEPT !.object[o] = Template]
           k2 == vm_object_deallocate(k1, s)
<1>1. object[o].at = "dying" /\ object[o].paging_in_progress = 0 /\ Becomes(k2) /\ UNCHANGED daemon
  BY DEF vm_object_terminate
<1>2. /\ State \in Kernels /\ State.object = object /\ State.map = map /\ State.pmap = pmap /\ State.th = th
      /\ Good(object, map, th, daemon, Nil)
      /\ \A u \in Threads : th[u].at # "alone"
      /\ daemon.at # "alone"
  BY StateIs
<1>3. s \in Objects \cup {Nil}
  <2>1. object[o] \in ObjectRecord
    BY <1>2, GoodParts
  <2> QED
    BY <2>1 DEF ObjectRecord
<1> HIDE DEF s
<1>4. /\ Template \in ObjectRecord
      /\ Template.at = "free" /\ Template.ref_count = 0 /\ Template.shadow = Nil
      /\ Template.paging_in_progress = 0 /\ \A y \in Offsets : Template.page[y] = NoPage
  BY TemplateIs
<1>5. PutsObject(State, k1, o, Template)
  BY DEF PutsObject
<1> HIDE DEF k1
<1>6. /\ k1 \in Kernels /\ k1.map = map /\ k1.pmap = pmap /\ k1.th = th
      /\ k1.object[o] = Template /\ \A q \in Objects \ {o} : k1.object[q] = object[q]
  BY <1>2, <1>4, <1>5, SetObject
<1>7. Ends(object, k1.object, o)
  <2>1. k1.object \in [Objects -> ObjectRecord]
    BY <1>6, KernelWith
  <2> QED
    BY <1>1, <1>4, <1>6, <2>1 DEF Ends
<1>8. AloneWith(th, daemon, Nil)
  BY <1>2 DEF AloneWith
<1>9. Good(k1.object, map, th, daemon, s)
  BY <1>2, <1>7, <1>8, EndsKeeps DEF s
<1>10. VInv(k2, daemon, Nil) /\ k2.th = th
  BY <1>3, <1>6, <1>9, DropKeeps
<1> HIDE DEF k2
<1>11. VInv(k2, daemon', Nil) /\ (\A u \in Threads : k2.th[u].at # "alone") /\ daemon'.at # "alone"
  BY <1>1, <1>2, <1>10
<1> QED
  BY <1>1, <1>11, InvAfter

\* The lock of a map is taken.
LEMMA MapLockKeeps ==
  ASSUME IInv, NEW a, NEW k, k = MapChanged(State, a)
  PROVE  /\ k \in Kernels /\ k.object = object /\ k.map = map /\ k.pmap = pmap
         /\ Good(object, map, k.th, daemon, Nil)
         /\ \A t \in Threads : k.th[t].at # "alone"
<1>1. /\ State \in Kernels /\ State.object = object /\ State.map = map /\ State.pmap = pmap /\ State.th = th
      /\ Good(object, map, th, daemon, Nil)
      /\ \A u \in Threads : th[u].at # "alone"
  BY StateIs
<1>2. WakesOnly(State, k)
  BY <1>1, MapChangedIs
<1>3. k \in Kernels /\ k.object = object /\ k.map = map /\ k.pmap = pmap /\ AllSame(th, k.th)
  BY <1>1, <1>2 DEF WakesOnly
<1>4. object \in [Objects -> ObjectRecord] /\ Alike(object, object)
  BY <1>1, KernelWith DEF Alike, SameChains, SamePaging, SameHeld
<1>5. Good(object, map, k.th, daemon, Nil)
  BY <1>1, <1>3, <1>4, GoodSame
<1> QED
  BY <1>1, <1>3, <1>5 DEF AllSame, SameFault

\* The references of entries, when one entry is another.
PutsEntry(M, M2, a, m) == M2 = [M EXCEPT ![a] = m]

\* The counts of the entries follow.
LEMMA EntryCounts ==
  ASSUME NEW M \in [Tasks -> EntryRecord], NEW a \in Tasks, NEW m \in EntryRecord,
         NEW M2, PutsEntry(M, M2, a, m), NEW q
  PROVE  /\ M2 \in [Tasks -> EntryRecord] /\ M2[a] = m /\ \A b \in Tasks \ {a} : M2[b] = M[b]
         /\ MapRefs(M, q) \in Nat /\ MapRefs(M2, q) \in Nat
         /\ MapRefs(M2, q) + One(Maps(M, a, q)) = MapRefs(M, q) + One(Maps(M2, a, q))
<1>1. M2 \in [Tasks -> EntryRecord] /\ M2[a] = m /\ \A b \in Tasks \ {a} : M2[b] = M[b]
  BY DEF PutsEntry
<1>2. /\ MapRefs(M, q) \in Nat /\ MapRefs(M2, q) \in Nat
      /\ MapRefs(M2, q) + One(Maps(M, a, q)) = MapRefs(M, q) + One(Maps(M2, a, q))
  <2>1. \A b \in Tasks \ {a} : M2[b] = M[b]
    BY <1>1
  <2> QED
    BY ONLY a \in Tasks, <2>1, MapCounts
<1> QED
  BY <1>1, <1>2

\* An entry goes: its reference is still to be given up.
LEMMA UnmapsKeeps ==
  ASSUME NEW O, NEW M, NEW M2, NEW T, NEW d, NEW a \in Tasks, Good(O, M, T, d, Nil), M[a].in,
         M2 = [M EXCEPT ![a] = NoEntry]
  PROVE  Good(O, M2, T, d, M[a].object)
<1> DEFINE s == M[a].object
<1>1. O \in [Objects -> ObjectRecord] /\ M \in [Tasks -> EntryRecord] /\ Counted(O, M, T, d, Nil)
  BY GoodParts
<1>2. NoEntry \in EntryRecord /\ ~ NoEntry.in
  BY DEF NoEntry, EntryRecord
<1>3. ASSUME NEW q \in Objects
      PROVE  O[q].ref_count = Refs(O, M2, T, q) + One(q = s)
  <2>1. O[q].ref_count = Refs(O, M, T, q) + One(q = Nil)
    BY <1>1 DEF Counted
  <2>2. /\ MapRefs(M, q) \in Nat /\ MapRefs(M2, q) \in Nat
        /\ MapRefs(M2, q) + (IF s = q THEN 1 ELSE 0) = MapRefs(M, q)
    <3> DEFINE m == NoEntry
    <3>1. m \in EntryRecord /\ M \in [Tasks -> EntryRecord] /\ PutsEntry(M, M2, a, m)
      BY <1>1, <1>2 DEF PutsEntry
    <3>2. ~ m.in
      BY <1>2
    <3> HIDE DEF m
    <3>3. /\ M2[a] = m
          /\ MapRefs(M, q) \in Nat /\ MapRefs(M2, q) \in Nat
          /\ MapRefs(M2, q) + One(Maps(M, a, q)) = MapRefs(M, q) + One(Maps(M2, a, q))
      BY ONLY a \in Tasks, <3>1, EntryCounts
    <3>4. One(Maps(M, a, q)) = (IF s = q THEN 1 ELSE 0) /\ One(Maps(M2, a, q)) = 0
      BY <3>2, <3>3 DEF One, Maps
    <3> QED
      BY <3>3, <3>4
  <2>3. One(q = Nil) = 0 /\ One(q = s) = IF s = q THEN 1 ELSE 0
    BY VmConstants DEF One
  <2>4. ShadowRefs(O, q) \in Nat /\ FaultRefs(T, q) \in Nat
    BY Counts
  <2> QED
    BY <2>1, <2>2, <2>3, <2>4 DEF Refs
<1>4. M2 \in [Tasks -> EntryRecord]
  BY <1>1, <1>2
<1>5. Recounted(O, O, M2, T, s)
  BY <1>1, <1>3, <1>4 DEF Recounted
<1> QED
  BY <1>5, RecountedKeeps

\* vm_map_delete.
LEMMA MapDeleteKeeps ==
  ASSUME IInv, NEW a \in Tasks, vm_map_delete(a)
  PROVE  IInv'
<1> DEFINE s == map[a].object
           k1 == MapChanged(State, a)
           M2 == [k1.map EXCEPT ![a] = NoEntry]
           k2 == [k1 EXCEPT !.map = M2]
           g == [x \in Offsets |-> Unmapped]
           P == [k2.pmap EXCEPT ![a] = g]
           k3 == [k2 EXCEPT !.pmap = P]
           k4 == vm_object_deallocate(k3, s)
<1>1. map[a].in /\ Becomes(k4) /\ UNCHANGED daemon
  <2>1. k3 = [MapChanged(State, a) EXCEPT !.map[a] = NoEntry, !.pmap[a] = [x \in Offsets |-> Unmapped]]
    OBVIOUS
  <2> QED
    BY <2>1 DEF vm_map_delete
<1>2. /\ k1 \in Kernels /\ k1.object = object /\ k1.map = map /\ k1.pmap = pmap
      /\ Good(object, map, k1.th, daemon, Nil)
      /\ \A t \in Threads : k1.th[t].at # "alone"
  BY MapLockKeeps
<1> HIDE DEF k1
<1>3. map \in [Tasks -> EntryRecord] /\ pmap \in [Tasks -> [Offsets -> Mapped]]
  BY <1>2, KernelWith
<1>4. s \in Objects \cup {Nil}
  BY <1>3 DEF EntryRecord
<1>5. M2 = [map EXCEPT ![a] = NoEntry]
  BY <1>2
<1>6. NoEntry \in EntryRecord
  BY DEF NoEntry, EntryRecord
<1>7. M2 \in [Tasks -> EntryRecord]
  BY <1>3, <1>5, <1>6
<1>8. Good(object, M2, k1.th, daemon, s)
  BY <1>1, <1>2, <1>5, UnmapsKeeps
<1> HIDE DEF M2, s
<1>9. k2 \in Kernels /\ k2.object = object /\ k2.map = M2 /\ k2.pmap = pmap /\ k2.th = k1.th
  BY <1>2, <1>7, KernelWith
<1> HIDE DEF k2
<1>10. P \in [Tasks -> [Offsets -> Mapped]]
  <2>1. Unmapped \in Mapped
    BY DEF Unmapped, Mapped
  <2>2. g \in [Offsets -> Mapped]
    BY <2>1
  <2> HIDE DEF g
  <2> QED
    BY <1>3, <1>9, <2>2
<1> HIDE DEF P
<1>11. k3 \in Kernels /\ k3.object = object /\ k3.map = M2 /\ k3.th = k1.th
  BY <1>9, <1>10, KernelWith
<1> HIDE DEF k3
<1>12. VInv(k4, daemon, Nil) /\ k4.th = k1.th
  BY <1>4, <1>8, <1>11, DropKeeps
<1> HIDE DEF k4
<1>13. VInv(k4, daemon', Nil) /\ (\A u \in Threads : k4.th[u].at # "alone") /\ daemon'.at # "alone"
  BY <1>1, <1>2, <1>12, StateIs
<1> QED
  BY <1>1, <1>13, InvAfter

\* Mappings are made read-only.
LEMMA ProtectIs ==
  ASSUME NEW k \in Kernels, NEW a \in Tasks, NEW k2, k2 = Protect(k, a)
  PROVE  PmapOnly(k, k2)
<1> DEFINE o == k.map[a].object
           resident == {x \in Offsets : k.object[o].page[x].at # "none"}
           all == Cardinality(resident) > Cardinality(Offsets) \div 2
           g == [x \in Offsets |-> IF all \/ x \in resident THEN [k.pmap[a][x] EXCEPT !.write = FALSE] ELSE k.pmap[a][x]]
           P == [k.pmap EXCEPT ![a] = g]
<1>1. k.pmap \in [Tasks -> [Offsets -> Mapped]]
  BY KernelWith
<1>2. ASSUME NEW x \in Offsets
      PROVE  k.pmap[a][x] \in Mapped /\ [k.pmap[a][x] EXCEPT !.write = FALSE] \in Mapped
  <2>1. k.pmap[a][x] \in Mapped
    BY <1>1
  <2> QED
    BY <2>1 DEF Mapped
<1>3. k2 = [k EXCEPT !.pmap = P]
  BY DEF Protect
<1> HIDE DEF all, resident
<1>4. g \in [Offsets -> Mapped]
  BY <1>2
<1> HIDE DEF g
<1>5. P \in [Tasks -> [Offsets -> Mapped]]
  BY <1>1, <1>4
<1> HIDE DEF P
<1> QED
  BY <1>3, <1>5, KernelWith DEF PmapOnly

\* Two entries of one object.
LEMMA ShareKeeps ==
  ASSUME NEW O, NEW O2, NEW M, NEW M1, NEW M2, NEW T, NEW d, NEW a \in Tasks, NEW b \in Tasks,
         NEW o \in Objects, NEW m \in EntryRecord,
         Good(O, M, T, d, Nil), M[a].in, M[a].object = o, ~ M[b].in,
         O2 \in [Objects -> ObjectRecord], TakesRef(O, O2, o),
         PutsEntry(M, M1, a, m), m.in, m.object = o, PutsEntry(M1, M2, b, m)
  PROVE  Good(O2, M2, T, d, Nil)
<1>1. /\ O \in [Objects -> ObjectRecord] /\ M \in [Tasks -> EntryRecord]
      /\ Counted(O, M, T, d, Nil)
  BY GoodParts
<1>2. M1 \in [Tasks -> EntryRecord] /\ M1[a] = m /\ \A c \in Tasks \ {a} : M1[c] = M[c]
  BY <1>1 DEF PutsEntry
<1>3. M2 \in [Tasks -> EntryRecord] /\ M2[b] = m /\ \A c \in Tasks \ {b} : M2[c] = M1[c]
  BY <1>2 DEF PutsEntry
<1>4. ASSUME NEW q \in Objects
      PROVE  O2[q].ref_count = Refs(O, M2, T, q) + One(q = Nil)
                 /\ (O2[q].ref_count > 0 <=> O[q].ref_count > 0)
  <2>1. O[q].ref_count = Refs(O, M, T, q) + One(q = Nil) /\ O[q].ref_count \in Nat
    <3>1. O[q] \in ObjectRecord
      BY <1>1
    <3>2. O[q].ref_count \in Nat
      BY <3>1 DEF ObjectRecord
    <3> QED
      BY <1>1, <3>2 DEF Counted
  <2>2. /\ MapRefs(M, q) \in Nat /\ MapRefs(M1, q) \in Nat
        /\ MapRefs(M1, q) + One(Maps(M, a, q)) = MapRefs(M, q) + One(Maps(M1, a, q))
    BY <1>1, EntryCounts
  <2>3. /\ MapRefs(M2, q) \in Nat
        /\ MapRefs(M2, q) + One(Maps(M1, b, q)) = MapRefs(M1, q) + One(Maps(M2, b, q))
    BY <1>2, EntryCounts
  <2>4. /\ One(Maps(M, a, q)) = IF q = o THEN 1 ELSE 0
        /\ One(Maps(M1, a, q)) = IF q = o THEN 1 ELSE 0
        /\ One(Maps(M2, b, q)) = IF q = o THEN 1 ELSE 0
    BY <1>2, <1>3 DEF One, Maps
  <2>5. One(Maps(M1, b, q)) = 0
    BY <1>2 DEF One, Maps
  <2>6. MapRefs(M2, q) = MapRefs(M, q) + IF q = o THEN 1 ELSE 0
    BY <2>2, <2>3, <2>4, <2>5
  <2>7. One(q = Nil) = 0 /\ ShadowRefs(O, q) \in Nat /\ FaultRefs(T, q) \in Nat
    BY Counts, VmConstants DEF One
  <2>8. O2[q].ref_count = O[q].ref_count + IF q = o THEN 1 ELSE 0
    BY <2>1 DEF TakesRef
  <2>9. q = o => O[q].ref_count > 0
    BY <1>1, GoodFacts
  <2> QED
    BY <2>1, <2>2, <2>6, <2>7, <2>8, <2>9 DEF Refs
<1>5. Recounted(O, O2, M2, T, Nil)
  BY <1>3, <1>4 DEF Recounted, TakesRef
<1> QED
  BY <1>5, RecountedKeeps

\* An entry without an object.
LEMMA EmptyShareKeeps ==
  ASSUME NEW O, NEW M, NEW M2, NEW T, NEW d, NEW b \in Tasks, NEW m \in EntryRecord,
         Good(O, M, T, d, Nil), ~ M[b].in, m.object = Nil, PutsEntry(M, M2, b, m)
  PROVE  Good(O, M2, T, d, Nil)
<1>1. /\ O \in [Objects -> ObjectRecord] /\ M \in [Tasks -> EntryRecord]
      /\ Counted(O, M, T, d, Nil)
  BY GoodParts
<1>2. M2 \in [Tasks -> EntryRecord] /\ M2[b] = m
  BY <1>1, EntryCounts
<1>3. ASSUME NEW q \in Objects
      PROVE  O[q].ref_count = Refs(O, M2, T, q) + One(q = Nil)
  <2>1. O[q].ref_count = Refs(O, M, T, q) + One(q = Nil)
    BY <1>1 DEF Counted
  <2>2. /\ MapRefs(M, q) \in Nat /\ MapRefs(M2, q) \in Nat
        /\ MapRefs(M2, q) + One(Maps(M, b, q)) = MapRefs(M, q) + One(Maps(M2, b, q))
    BY <1>1, EntryCounts
  <2>3. One(Maps(M, b, q)) = 0 /\ One(Maps(M2, b, q)) = 0
    BY <1>2, VmConstants DEF One, Maps
  <2> QED
    BY <2>1, <2>2, <2>3 DEF Refs
<1>4. Recounted(O, O, M2, T, Nil)
  BY <1>1, <1>2, <1>3 DEF Recounted
<1> QED
  BY <1>4, RecountedKeeps

\* vm_map_fork.
LEMMA MapForkKeeps ==
  ASSUME IInv, NEW a \in Tasks, NEW b \in Tasks, vm_map_fork(a, b)
  PROVE  IInv'
<1> DEFINE o == map[a].object
           k == MapChanged(State, a)
           k1 == IF map[a].needs_copy THEN k ELSE Protect(k, a)
           k2 == [k1 EXCEPT !.object[o].ref_count = @ + 1]
           m1 == [k2.map[a] EXCEPT !.needs_copy = TRUE]
           M1 == [k2.map EXCEPT ![a] = m1]
           k3 == [k2 EXCEPT !.map = M1]
           m2 == k3.map[a]
           M2 == [k3.map EXCEPT ![b] = m2]
           k4 == [k3 EXCEPT !.map = M2]
           M5 == [k.map EXCEPT ![b] = map[a]]
           k5 == [k EXCEPT !.map = M5]
<1>1. map[a].in /\ ~ map[b].in /\ UNCHANGED daemon /\ Becomes(IF o = Nil THEN k5 ELSE k4)
  <2>1. k3 = [k1 EXCEPT !.object[o].ref_count = @ + 1, !.map[a].needs_copy = TRUE]
    OBVIOUS
  <2>2. k4 = [k3 EXCEPT !.map[b] = k3.map[a]]
    OBVIOUS
  <2>3. k5 = [k EXCEPT !.map[b] = map[a]]
    OBVIOUS
  <2>4. /\ map[a].in /\ ~ map[b].in /\ UNCHANGED daemon
        /\ IF o = Nil THEN Becomes([k EXCEPT !.map[b] = map[a]])
           ELSE Becomes([k3 EXCEPT !.map[b] = k3.map[a]])
    BY <2>1 DEF vm_map_fork
  <2> HIDE DEF k3, k4, k5
  <2> QED
    BY <2>2, <2>3, <2>4
<1>2. /\ k \in Kernels /\ k.object = object /\ k.map = map /\ k.pmap = pmap
      /\ Good(object, map, k.th, daemon, Nil)
      /\ \A t \in Threads : k.th[t].at # "alone"
  BY MapLockKeeps
<1> HIDE DEF k
<1>3. map \in [Tasks -> EntryRecord] /\ map[a] \in EntryRecord
  BY <1>2, KernelWith
<1>4. daemon'.at # "alone" /\ daemon' = daemon
  BY <1>1, StateIs
<1>5. CASE o = Nil
  <2>1. M5 \in [Tasks -> EntryRecord] /\ PutsEntry(map, M5, b, map[a])
    BY <1>2, <1>3 DEF PutsEntry
  <2>2. Becomes(k5)
    BY <1>1, <1>5
  <2> HIDE DEF M5
  <2>3. k5 \in Kernels /\ k5.object = object /\ k5.map = M5 /\ k5.th = k.th
    BY <1>2, <2>1, KernelWith
  <2> HIDE DEF k5
  <2>4. Good(object, M5, k.th, daemon, Nil)
    <3> DEFINE m == map[a]
    <3>1. m \in EntryRecord /\ m.object = Nil /\ PutsEntry(map, M5, b, m)
      BY <1>3, <1>5, <2>1
    <3> HIDE DEF m
    <3> QED
      BY <1>1, <1>2, <3>1, EmptyShareKeeps
  <2>5. VInv(k5, daemon', Nil) /\ \A t \in Threads : k5.th[t].at # "alone"
    BY <1>2, <1>4, <2>3, <2>4 DEF VInv
  <2> QED
    BY <1>4, <2>2, <2>5, InvAfter
<1>6. CASE o # Nil
  <2>1. o \in Objects
    BY <1>3, <1>6 DEF EntryRecord
  <2>2. Becomes(k4)
    BY <1>1, <1>6
  <2>3. PmapOnly(k, k1)
    <3>1. CASE map[a].needs_copy
      BY <1>2, <3>1 DEF PmapOnly
    <3>2. CASE ~ map[a].needs_copy
      <4> DEFINE p == Protect(k, a)
      <4>1. k1 = p
        BY <3>2
      <4>2. PmapOnly(k, p)
        BY <1>2, ProtectIs
      <4> HIDE DEF p, k1
      <4> QED
        BY <4>1, <4>2
    <3> QED
      BY <3>1, <3>2
  <2> HIDE DEF k1
  <2>4. k1 \in Kernels /\ k1.object = object /\ k1.map = map /\ k1.th = k.th
    BY <1>2, <2>3 DEF PmapOnly
  <2>5. PutsRefMore(k1, k2, o)
    BY DEF PutsRefMore
  <2> HIDE DEF k2
  <2>6. ObjectsOnly(k1, k2) /\ TakesRef(object, k2.object, o)
    BY <2>1, <2>4, <2>5, RefMoreIs
  <2>7. k2 \in Kernels /\ k2.map = map /\ k2.th = k.th
    BY <2>4, <2>6 DEF ObjectsOnly
  <2>8. m1 \in EntryRecord /\ m1.in /\ m1.object = o
    BY <1>1, <1>3, <2>7 DEF EntryRecord
  <2> HIDE DEF m1
  <2>9. M1 \in [Tasks -> EntryRecord] /\ M1[a] = m1 /\ PutsEntry(map, M1, a, m1)
    BY <1>3, <2>7, <2>8 DEF PutsEntry
  <2> HIDE DEF M1
  <2>10. k3 \in Kernels /\ k3.object = k2.object /\ k3.map = M1 /\ k3.th = k.th
    BY <2>7, <2>9, KernelWith
  <2> HIDE DEF k3
  <2>11. M2 \in [Tasks -> EntryRecord] /\ PutsEntry(M1, M2, b, m1)
    BY <2>8, <2>9, <2>10 DEF PutsEntry
  <2> HIDE DEF M2
  <2>12. k4 \in Kernels /\ k4.object = k2.object /\ k4.map = M2 /\ k4.th = k.th
    BY <2>10, <2>11, KernelWith
  <2> HIDE DEF k4
  <2>13. Good(k2.object, M2, k.th, daemon, Nil)
    <3> DEFINE s == o
    <3>1. /\ s \in Objects /\ map[a].object = s /\ m1.object = s /\ TakesRef(object, k2.object, s)
          /\ k2.object \in [Objects -> ObjectRecord]
      BY <2>1, <2>6, <2>7, <2>8, KernelWith
    <3>2. m1 \in EntryRecord /\ m1.in /\ PutsEntry(map, M1, a, m1) /\ PutsEntry(M1, M2, b, m1)
      BY <2>8, <2>9, <2>11
    <3> HIDE DEF s
    <3> QED
      BY <1>1, <1>2, <3>1, <3>2, ShareKeeps
  <2>14. VInv(k4, daemon', Nil) /\ \A t \in Threads : k4.th[t].at # "alone"
    BY <1>2, <1>4, <2>12, <2>13 DEF VInv
  <2> QED
    BY <1>4, <2>2, <2>14, InvAfter
<1> QED
  BY <1>5, <1>6

-----------------------------------------------------------------------------
(* The default memory manager and the daemon.                              *)

\* A page that stays as it is, or that no thread holds and that is as the daemon
\* holds it, or nobody.
DaemonsPage(O, O2, T, d, d2, o, x) ==
    \/ /\ SameHeld(O[o].page[x], O2[o].page[x])
       /\ DaemonHolds(d2, o, x) <=> DaemonHolds(d, o, x)
       /\ DaemonHolds(d, o, x) => (d2.at = "end" <=> d.at = "end")
    \/ /\ \A u \in Threads : ~ Holds(T[u], o, x)
       /\ DaemonPage(O2[o].page[x], d2, o, x)

\* A step of the daemon's, or of the manager's, that wakes threads at most.
DaemonMoves(O, O2, T, T2, d, d2) ==
    /\ O2 \in [Objects -> ObjectRecord] /\ SameChains(O, O2) /\ AllSame(T, T2)
    /\ d2 \in DaemonRecord /\ DaemonOK(d2)
    /\ \A q \in Objects : O2[q].paging_in_progress + DaemonPaging(d, q)
                            = O[q].paging_in_progress + DaemonPaging(d2, q)
    /\ \A q \in Objects, y \in Offsets : DaemonsPage(O, O2, T, d, d2, q, y)
    /\ FreeIsClean(O2)

\* That keeps the invariant.
LEMMA DaemonMovesKeeps ==
  ASSUME NEW O, NEW O2, NEW M, NEW T, NEW T2, NEW d, NEW d2, NEW e,
         Good(O, M, T, d, e), DaemonMoves(O, O2, T, T2, d, d2)
  PROVE  Good(O2, M, T2, d2, e)
<1>1. /\ O \in [Objects -> ObjectRecord] /\ M \in [Tasks -> EntryRecord]
      /\ T \in [Threads -> FaultRecord] /\ d \in DaemonRecord
      /\ \A u \in Threads : FaultOK(T[u])
      /\ DaemonOK(d) /\ PagesHeld(O, T, d) /\ Counted(O, M, T, d, e) /\ FreeIsClean(O) /\ Chained(O, T)
  BY DEF Good
<1>2. /\ O2 \in [Objects -> ObjectRecord] /\ SameChains(O, O2) /\ AllSame(T, T2)
      /\ d2 \in DaemonRecord /\ DaemonOK(d2)
      /\ \A q \in Objects : O2[q].paging_in_progress + DaemonPaging(d, q)
                              = O[q].paging_in_progress + DaemonPaging(d2, q)
      /\ \A q \in Objects, y \in Offsets : DaemonsPage(O, O2, T, d, d2, q, y)
      /\ FreeIsClean(O2)
  BY DEF DaemonMoves
<1>3. T2 \in [Threads -> FaultRecord] /\ \A u \in Threads : SameFault(T[u], T2[u])
  BY <1>2 DEF AllSame
<1>4. PagesHeld(O2, T2, d2)
  <2>1. \A o \in Objects, x \in Offsets :
            \/ /\ SameHeld(O[o].page[x], O2[o].page[x])
               /\ DaemonHolds(d2, o, x) <=> DaemonHolds(d, o, x)
               /\ DaemonHolds(d, o, x) => (d2.at = "end" <=> d.at = "end")
            \/ /\ \A u \in Threads : ~ Holds(T[u], o, x)
               /\ DaemonPage(O2[o].page[x], d2, o, x)
    BY <1>2 DEF DaemonsPage
  <2> QED
    BY <1>1, <1>2, <2>1, DaemonPagesStep
<1>5. \A u \in Threads : /\ FaultOK(T2[u])
                         /\ Pages(T2[u]) <=> Pages(T[u])
                         /\ T2[u].first = T[u].first /\ T2[u].cur = T[u].cur
  BY <1>1, <1>3, SameFaultIs DEF SameFault
<1>6. Chained(O2, T2)
  <2>1. PICK rank \in [Objects -> Nat] : Descends(O, T, rank)
    BY <1>1 DEF Chained
  <2>2. Descends(O2, T2, rank)
    BY <1>2, <1>5, <2>1 DEF Descends, SameChains
  <2> QED
    BY <2>2 DEF Chained
<1>8. Counted(O2, M, T2, d2, e)
  <2> SUFFICES ASSUME NEW o \in Objects
               PROVE  /\ O2[o].ref_count = Refs(O2, M, T2, o) + One(o = e)
                      /\ O2[o].at = "live" <=> O2[o].ref_count > 0
                      /\ O2[o].paging_in_progress = FaultPaging(T2, o) + DaemonPaging(d2, o)
    BY DEF Counted
  <2>1. /\ O[o].ref_count = Refs(O, M, T, o) + One(o = e)
        /\ O[o].at = "live" <=> O[o].ref_count > 0
        /\ O[o].paging_in_progress = FaultPaging(T, o) + DaemonPaging(d, o)
    BY <1>1 DEF Counted
  <2>2. O2[o].ref_count = O[o].ref_count /\ O2[o].at = O[o].at
    BY <1>2 DEF SameChains
  <2>3. ShadowRefs(O2, o) = ShadowRefs(O, o)
    <3>1. \A q \in Objects : Shadows(O2, q, o) <=> Shadows(O, q, o)
      BY <1>2 DEF SameChains, Shadows
    <3> QED
      BY <3>1, ShadowsSame
  <2>4. FaultRefs(T2, o) = FaultRefs(T, o) /\ FaultPaging(T2, o) = FaultPaging(T, o)
    BY <1>2, FaultsSame
  <2>5. O2[o].paging_in_progress = FaultPaging(T2, o) + DaemonPaging(d2, o)
    <3>1. O2[o].paging_in_progress + DaemonPaging(d, o) = O[o].paging_in_progress + DaemonPaging(d2, o)
      BY <1>2
    <3>2. O2[o] \in ObjectRecord /\ FaultPaging(T, o) \in Nat
      BY <1>2, Counts
    <3>3. O2[o].paging_in_progress \in Nat
      BY <3>2 DEF ObjectRecord
    <3>4. DaemonPaging(d, o) \in Nat /\ DaemonPaging(d2, o) \in Nat
      BY DEF DaemonPaging
    <3> QED
      BY <2>1, <2>4, <3>1, <3>2, <3>3, <3>4
  <2> QED
    BY <2>1, <2>2, <2>3, <2>4, <2>5 DEF Refs
<1> QED
  BY <1>1, <1>2, <1>3, <1>4, <1>5, <1>6, <1>8 DEF Good

\* One page changes, that no thread has, and the daemon has or has not.
OnePageFree(O, O2, T, T2, d, d2, o, x, p) ==
    /\ O2 \in [Objects -> ObjectRecord] /\ SameChains(O, O2) /\ AllSame(T, T2)
    /\ d2 \in DaemonRecord /\ DaemonOK(d2)
    /\ \A q \in Objects : O2[q].paging_in_progress + DaemonPaging(d, q)
                            = O[q].paging_in_progress + DaemonPaging(d2, q)
    /\ PagesBut(O, O2, o, x) /\ O2[o].page[x] = p
    /\ \A q \in Objects \ {o} : DaemonPaging(d2, q) = DaemonPaging(d, q)
    /\ \A u \in Threads : ~ Holds(T[u], o, x)
    /\ DaemonPage(p, d2, o, x)
    /\ \A q \in Objects, y \in Offsets : q # o \/ y # x =>
            /\ DaemonHolds(d2, q, y) <=> DaemonHolds(d, q, y)
            /\ DaemonHolds(d, q, y) => (d2.at = "end" <=> d.at = "end")
    /\ O[o].at # "free"

\* Such a step keeps the invariant.
LEMMA OnePageFreeKeeps ==
  ASSUME NEW O, NEW O2, NEW M, NEW T, NEW T2, NEW d, NEW d2, NEW e, NEW o \in Objects,
         NEW x \in Offsets, NEW p,
         Good(O, M, T, d, e), OnePageFree(O, O2, T, T2, d, d2, o, x, p)
  PROVE  Good(O2, M, T2, d2, e)
<1>1. /\ O2 \in [Objects -> ObjectRecord] /\ SameChains(O, O2) /\ AllSame(T, T2)
      /\ d2 \in DaemonRecord /\ DaemonOK(d2)
      /\ \A q \in Objects : O2[q].paging_in_progress + DaemonPaging(d, q)
                            = O[q].paging_in_progress + DaemonPaging(d2, q)
      /\ PagesBut(O, O2, o, x) /\ O2[o].page[x] = p
      /\ \A q \in Objects \ {o} : DaemonPaging(d2, q) = DaemonPaging(d, q)
      /\ \A u \in Threads : ~ Holds(T[u], o, x)
      /\ DaemonPage(p, d2, o, x)
      /\ \A q \in Objects, y \in Offsets : q # o \/ y # x =>
            /\ DaemonHolds(d2, q, y) <=> DaemonHolds(d, q, y)
            /\ DaemonHolds(d, q, y) => (d2.at = "end" <=> d.at = "end")
      /\ O[o].at # "free"
  BY DEF OnePageFree
<1>2. O \in [Objects -> ObjectRecord] /\ FreeIsClean(O) /\ Counted(O, M, T, d, e)
  BY GoodParts
<1>3. ASSUME NEW q \in Objects, NEW y \in Offsets
      PROVE  DaemonsPage(O, O2, T, d, d2, q, y)
  <2>1. CASE q = o /\ y = x
    BY <1>1, <2>1 DEF DaemonsPage
  <2>2. CASE ~ (q = o /\ y = x)
    <3>1. O2[q].page[y] = O[q].page[y]
      BY <1>1, <2>2 DEF PagesBut
    <3> QED
      BY <1>1, <2>2, <3>1 DEF DaemonsPage, SameHeld
  <2> QED
    BY <2>1, <2>2
<1>4. FreeIsClean(O2)
  <2>1. ASSUME NEW q \in Objects, O2[q].at = "free"
        PROVE  O2[q].shadow = Nil /\ O2[q].paging_in_progress = 0
                   /\ \A y \in Offsets : O2[q].page[y].at = "none"
    <3>1. O[q].at = "free" /\ q # o /\ O2[q].shadow = O[q].shadow
      BY <1>1, <2>1 DEF SameChains
    <3>2. O[q].shadow = Nil /\ O[q].paging_in_progress = 0 /\ \A y \in Offsets : O[q].page[y].at = "none"
      BY <1>2, <3>1 DEF FreeIsClean
    <3>3. \A y \in Offsets : O2[q].page[y] = O[q].page[y]
      BY <1>1, <3>1 DEF PagesBut
    <3>4. O2[q].paging_in_progress = 0
      <4>1. O2[q].paging_in_progress + DaemonPaging(d, q) = DaemonPaging(d2, q)
        BY <1>1, <3>2 DEF DaemonPaging
      <4>2. DaemonPaging(d2, q) = DaemonPaging(d, q)
        BY <1>1, <3>1
      <4>3. O2[q].paging_in_progress \in Nat
        BY <1>1 DEF ObjectRecord
      <4> QED
        BY <4>1, <4>2, <4>3 DEF DaemonPaging
    <3> QED
      BY <3>1, <3>2, <3>3, <3>4
  <2> QED
    BY <2>1 DEF FreeIsClean
<1>5. DaemonMoves(O, O2, T, T2, d, d2)
  BY <1>1, <1>3, <1>4 DEF DaemonMoves
<1> QED
  BY <1>5, DaemonMovesKeeps

\* A step that wakes threads at most.
LEMMA WakingKeeps ==
  ASSUME IInv, NEW k \in Kernels, Becomes(k), AllSame(th, k.th),
         Good(k.object, k.map, k.th, daemon', Nil), daemon'.at # "alone"
  PROVE  IInv'
<1>1. \A u \in Threads : k.th[u].at # "alone"
  BY StateIs DEF AllSame, SameFault
<1>2. VInv(k, daemon', Nil)
  BY DEF VInv
<1> QED
  BY <1>1, <1>2, InvAfter

\* The daemon as it is, and a page that is nobody's.
LEMMA AnswerFits ==
  ASSUME IInv, NEW o \in Objects, NEW x \in Offsets, object[o].at # "free",
         NEW O2, NEW T2, NEW p,
         O2 \in [Objects -> ObjectRecord], OnePage(object, O2, o, x, p), AllSame(th, T2),
         ~ Kept(object[o].page[x]), PageOK(p), ~ Kept(p)
  PROVE  OnePageFree(object, O2, th, T2, daemon, daemon, o, x, p)
<1>1. Good(object, map, th, daemon, Nil)
  BY StateIs
<1>2. daemon \in DaemonRecord /\ DaemonOK(daemon) /\ PagesHeld(object, th, daemon)
  BY <1>1, GoodParts
<1>3. ~ DaemonHolds(daemon, o, x) /\ \A u \in Threads : ~ Holds(th[u], o, x)
  BY <1>2, HolderIs
<1>4. DaemonPage(p, daemon, o, x)
  BY <1>3 DEF DaemonPage
<1>5. \A q \in Objects : O2[q].paging_in_progress + DaemonPaging(daemon, q)
                           = object[q].paging_in_progress + DaemonPaging(daemon, q)
  BY DEF OnePage, SamePaging
<1> QED
  BY <1>2, <1>3, <1>4, <1>5 DEF OnePageFree, OnePage

\* The manager's data arrives.
LEMMA ProvidedKeeps ==
  ASSUME IInv, NEW o \in Objects, NEW x \in Offsets, memory_object_data_provided(o, x)
  PROVE  IInv'
<1> DEFINE p == [Page("filled", object[o].saved[x], FALSE) EXCEPT !.busy = FALSE]
           k1 == SetPage(State, o, x, p)
           k2 == AbsentRelease(k1, o)
           k3 == PageWakeup(k2, o, x)
<1>1. /\ object[o].page[x].at = "absent" /\ object[o].at = "live" /\ object[o].saved[x] # Nil
      /\ Becomes(k3) /\ UNCHANGED daemon
  BY DEF memory_object_data_provided, Requested
<1>2. /\ State \in Kernels /\ State.object = object /\ State.map = map /\ State.pmap = pmap /\ State.th = th
      /\ Good(object, map, th, daemon, Nil) /\ daemon.at # "alone"
  BY StateIs
<1>3. p \in PageRecord /\ p.at = "filled" /\ p.busy = FALSE
  <2>1. object[o] \in ObjectRecord
    BY <1>2, GoodParts
  <2>2. object[o].saved[x] \in Values
    BY <1>1, <2>1 DEF ObjectRecord
  <2> QED
    BY <2>2 DEF Page, PageRecord
<1> HIDE DEF p
<1>4. ObjectsOnly(State, k1) /\ OnePage(object, k1.object, o, x, p)
  <2>1. PutsPage(State, k1, o, x, p)
    BY DEF PutsPage, SetPage
  <2> QED
    BY <1>2, <1>3, <2>1, SetPageIs
<1> HIDE DEF k1
<1>5. k1 \in Kernels
  BY <1>4 DEF ObjectsOnly
<1>6. /\ ObjectsOnly(k1, k2)
      /\ SameChains(k1.object, k2.object) /\ SamePaging(k1.object, k2.object)
      /\ SamePages(k1.object, k2.object)
      /\ \A q \in Objects : k2.object[q].pager = k1.object[q].pager
  BY <1>5, AbsentReleaseIs
<1> HIDE DEF k2
<1>7. k2 \in Kernels /\ k2.th = th /\ k2.map = map
  BY <1>2, <1>4, <1>6 DEF ObjectsOnly
<1>8. WakesOnly(k2, k3)
  BY <1>7, PageWakeupIs
<1> HIDE DEF k3
<1>9. k3 \in Kernels /\ k3.map = map /\ k3.object = k2.object /\ AllSame(th, k3.th)
  BY <1>7, <1>8 DEF WakesOnly
<1>10. OnePage(object, k3.object, o, x, p)
  BY <1>4, <1>6, <1>9 DEF OnePage, SameChains, SamePaging, SamePages, PagesBut
<1>11. OnePageFree(object, k3.object, th, k3.th, daemon, daemon, o, x, p)
  <2>1. k3.object \in [Objects -> ObjectRecord]
    BY <1>9, KernelWith
  <2>2. ~ Kept(object[o].page[x]) /\ PageOK(p) /\ ~ Kept(p)
    BY <1>1, <1>3 DEF Kept, PageOK
  <2> QED
    BY <1>1, <1>9, <1>10, <2>1, <2>2, AnswerFits
<1>12. Good(k3.object, k3.map, k3.th, daemon, Nil)
  BY <1>2, <1>9, <1>11, OnePageFreeKeeps
<1>13. daemon' = daemon
  BY <1>1
<1> QED
  BY <1>1, <1>2, <1>9, <1>12, <1>13, WakingKeeps

\* The manager has no data.
LEMMA UnavailableKeeps ==
  ASSUME IInv, NEW o \in Objects, NEW x \in Offsets, memory_object_data_unavailable(o, x)
  PROVE  IInv'
<1> DEFINE k == PageWakeupDone(State, o, x)
<1>1. /\ object[o].page[x].at = "absent" /\ object[o].at = "live"
      /\ Becomes(k) /\ UNCHANGED daemon
  BY DEF memory_object_data_unavailable, Requested
<1>2. /\ State \in Kernels /\ State.object = object /\ State.map = map /\ State.pmap = pmap /\ State.th = th
      /\ Good(object, map, th, daemon, Nil) /\ daemon.at # "alone"
  BY StateIs
<1>3. WakesAnd(State, k) /\ NotBusy(object, k.object, o, x)
  BY <1>2, WakeupDoneIs
<1> HIDE DEF k
<1>4. PICK p \in PageRecord : /\ OnePage(object, k.object, o, x, p)
                              /\ p.at = object[o].page[x].at /\ p.busy = FALSE
  BY <1>3 DEF NotBusy
<1>5. k \in Kernels /\ k.map = map /\ AllSame(th, k.th)
  BY <1>2, <1>3 DEF WakesAnd
<1>6. OnePageFree(object, k.object, th, k.th, daemon, daemon, o, x, p)
  <2>1. k.object \in [Objects -> ObjectRecord]
    BY <1>5, KernelWith
  <2>2. ~ Kept(object[o].page[x]) /\ PageOK(p) /\ ~ Kept(p)
    BY <1>1, <1>4 DEF Kept, PageOK
  <2> QED
    BY <1>1, <1>4, <1>5, <2>1, <2>2, AnswerFits
<1>7. Good(k.object, k.map, k.th, daemon, Nil)
  BY <1>2, <1>5, <1>6, OnePageFreeKeeps
<1>8. daemon' = daemon
  BY <1>1
<1> QED
  BY <1>1, <1>2, <1>5, <1>7, <1>8, WakingKeeps

-----------------------------------------------------------------------------
(* The daemon.                                                             *)

\* What the daemon has in hand.
LEMMA DaemonIs ==
  ASSUME IInv, daemon.at # "idle"
  PROVE  LET o == daemon.object  x == daemon.off
         IN  /\ o \in Objects /\ x \in Offsets /\ daemon \in DaemonRecord
             /\ DaemonHolds(daemon, o, x)
             /\ \A u \in Threads : ~ Holds(th[u], o, x)
             /\ object[o].paging_in_progress > 0 /\ object[o].at # "free"
             /\ object[o].page[x].at = IF daemon.at = "end" THEN "holding" ELSE "filled"
<1> DEFINE o == daemon.object
           x == daemon.off
<1>1. Good(object, map, th, daemon, Nil) /\ daemon.at # "alone"
  BY StateIs
<1>2. daemon \in DaemonRecord /\ DaemonOK(daemon) /\ PagesHeld(object, th, daemon)
  BY <1>1, GoodParts
<1>3. o \in Objects /\ x \in Offsets
  BY <1>2 DEF DaemonOK
<1>4. DaemonHolds(daemon, o, x)
  BY DEF DaemonHolds
<1>5. \A u \in Threads : ~ Holds(th[u], o, x)
  BY <1>2, <1>3, <1>4, HolderIs
<1>6. object[o].page[x].at = IF daemon.at = "end" THEN "holding" ELSE "filled"
  BY <1>2, <1>3, <1>4 DEF PagesHeld, PageHeld
<1>7. object[o].paging_in_progress > 0 /\ object[o].at # "free"
  BY <1>1, <1>3, GoodFacts
<1> QED
  BY <1>2, <1>3, <1>4, <1>5, <1>6, <1>7

\* The pager is there.
LEMMA PagerCreatedKeeps ==
  ASSUME IInv, PagerCreated
  PROVE  IInv'
<1> DEFINE o == daemon.object
           v == [object[o] EXCEPT !.pager = "ready"]
           O2 == [object EXCEPT ![o] = v]
           d2 == [daemon EXCEPT !.at = "write"]
           k == [State EXCEPT !.object = O2]
<1>1. /\ daemon.at = "create" /\ object' = O2 /\ daemon' = d2
      /\ map' = map /\ pmap' = pmap /\ th' = th
  BY DEF PagerCreated
<1>2. /\ State \in Kernels /\ State.object = object /\ State.map = map /\ State.pmap = pmap /\ State.th = th
      /\ Good(object, map, th, daemon, Nil)
  BY StateIs
<1>3. /\ o \in Objects /\ daemon \in DaemonRecord /\ daemon.off \in Offsets
  BY <1>1, DaemonIs
<1>4. object \in [Objects -> ObjectRecord] /\ FreeIsClean(object)
  BY <1>2, GoodParts
<1>5. /\ v \in ObjectRecord /\ v.at = object[o].at /\ v.ref_count = object[o].ref_count
      /\ v.shadow = object[o].shadow /\ v.paging_in_progress = object[o].paging_in_progress
      /\ v.page = object[o].page
  BY <1>3, <1>4 DEF ObjectRecord
<1> HIDE DEF v
<1>6. O2 \in [Objects -> ObjectRecord] /\ O2[o] = v /\ \A q \in Objects \ {o} : O2[q] = object[q]
  BY <1>3, <1>4, <1>5
<1> HIDE DEF O2
<1>7. \A q \in Objects : /\ O2[q].at = object[q].at /\ O2[q].ref_count = object[q].ref_count
                         /\ O2[q].shadow = object[q].shadow
                         /\ O2[q].paging_in_progress = object[q].paging_in_progress
                         /\ O2[q].page = object[q].page
  BY <1>5, <1>6
<1>8. d2 \in DaemonRecord /\ d2.at = "write" /\ d2.object = o /\ d2.off = daemon.off
  BY <1>3 DEF DaemonRecord
<1> HIDE DEF d2
<1>9. DaemonMoves(object, O2, th, th, daemon, d2)
  <2>1. SameChains(object, O2)
    BY <1>7 DEF SameChains
  <2>2. AllSame(th, th)
    BY <1>2, AllSameAgain
  <2>3. DaemonOK(d2)
    BY <1>3, <1>8 DEF DaemonOK
  <2>4. \A q \in Objects : O2[q].paging_in_progress + DaemonPaging(daemon, q)
                              = object[q].paging_in_progress + DaemonPaging(d2, q)
    <3>1. \A q \in Objects : DaemonPaging(daemon, q) = DaemonPaging(d2, q)
      BY <1>1, <1>8 DEF DaemonPaging
    <3> QED
      BY <1>7, <3>1
  <2>5. \A q \in Objects, y \in Offsets : DaemonsPage(object, O2, th, daemon, d2, q, y)
    BY <1>1, <1>7, <1>8 DEF DaemonsPage, DaemonHolds, SameHeld
  <2>6. FreeIsClean(O2)
    BY <1>4, <1>7 DEF FreeIsClean
  <2> QED
    BY <1>6, <1>8, <2>1, <2>2, <2>3, <2>4, <2>5, <2>6 DEF DaemonMoves
<1>10. Good(O2, map, th, d2, Nil)
  BY <1>2, <1>9, DaemonMovesKeeps
<1>11. k \in Kernels /\ k.object = O2 /\ k.map = map /\ k.pmap = pmap /\ k.th = th
  BY <1>2, <1>6, KernelWith
<1> HIDE DEF k
<1>12. Becomes(k)
  BY <1>1, <1>11 DEF Becomes
<1>13. AllSame(th, k.th)
  BY <1>2, <1>11, AllSameAgain
<1>14. Good(k.object, k.map, k.th, daemon', Nil) /\ daemon'.at # "alone"
  BY <1>1, <1>8, <1>10, <1>11
<1> QED
  BY <1>11, <1>12, <1>13, <1>14, WakingKeeps

\* The data is on its way: a place-holder is left.
LEMMA PageoutWriteKeeps ==
  ASSUME IInv, PageoutWrite
  PROVE  IInv'
<1> DEFINE o == daemon.object
           x == daemon.off
           p == Page("holding", Zero, FALSE)
           k1 == SetPage(State, o, x, p)
           k2 == PageWakeup(k1, o, x)
           s == object[o].page[x].val
           v == [k2.object[o] EXCEPT !.saved[x] = s]
           k3 == [k2 EXCEPT !.object[o].saved[x] = s]
           d2 == [daemon EXCEPT !.at = "end"]
<1>1. daemon.at = "write" /\ Becomes(k3) /\ daemon' = d2
  BY DEF PageoutWrite
<1>2. /\ State \in Kernels /\ State.object = object /\ State.map = map /\ State.pmap = pmap /\ State.th = th
      /\ Good(object, map, th, daemon, Nil)
  BY StateIs
<1>3. /\ o \in Objects /\ x \in Offsets /\ daemon \in DaemonRecord
      /\ DaemonHolds(daemon, o, x)
      /\ \A u \in Threads : ~ Holds(th[u], o, x)
      /\ object[o].paging_in_progress > 0 /\ object[o].at # "free"
  BY <1>1, DaemonIs
<1>4. p \in PageRecord /\ p.at = "holding" /\ p.busy
  BY VmConstants DEF Page, PageRecord
<1> HIDE DEF p
<1>5. ObjectsOnly(State, k1) /\ OnePage(object, k1.object, o, x, p)
  <2>1. PutsPage(State, k1, o, x, p)
    BY DEF PutsPage, SetPage
  <2> QED
    BY <1>2, <1>3, <1>4, <2>1, SetPageIs
<1> HIDE DEF k1
<1>6. k1 \in Kernels /\ k1.th = th /\ k1.map = map
  BY <1>2, <1>5 DEF ObjectsOnly
<1>7. WakesOnly(k1, k2)
  BY <1>6, PageWakeupIs
<1> HIDE DEF k2
<1>8. k2 \in Kernels /\ k2.map = map /\ k2.object = k1.object /\ AllSame(th, k2.th)
  BY <1>6, <1>7 DEF WakesOnly
<1>9. k2.object[o] \in ObjectRecord /\ s \in Values
  <2>1. object[o] \in ObjectRecord
    BY <1>2, <1>3, GoodParts
  <2>2. object[o].page[x] \in PageRecord
    BY <1>3, <2>1 DEF ObjectRecord
  <2>3. s \in Values
    BY <2>2 DEF PageRecord
  <2>4. k2.object \in [Objects -> ObjectRecord]
    BY <1>8, KernelWith
  <2> QED
    BY <1>3, <2>3, <2>4
<1>10. PutsObject(k2, k3, o, v)
  BY DEF PutsObject
<1> HIDE DEF k3, s
<1>11. /\ v \in ObjectRecord /\ v.at = k2.object[o].at /\ v.ref_count = k2.object[o].ref_count
       /\ v.shadow = k2.object[o].shadow /\ v.paging_in_progress = k2.object[o].paging_in_progress
       /\ v.page = k2.object[o].page /\ v.pager = k2.object[o].pager
  BY <1>3, <1>9 DEF ObjectRecord
<1> HIDE DEF v
<1>12. /\ k3 \in Kernels /\ k3.map = map /\ k3.th = k2.th
       /\ k3.object[o] = v /\ \A q \in Objects \ {o} : k3.object[q] = k2.object[q]
  BY <1>3, <1>8, <1>10, <1>11, SetObject
<1>13. OnePage(object, k3.object, o, x, p)
  <2>1. \A q \in Objects : /\ k3.object[q].at = k1.object[q].at
                           /\ k3.object[q].ref_count = k1.object[q].ref_count
                           /\ k3.object[q].shadow = k1.object[q].shadow
                           /\ k3.object[q].paging_in_progress = k1.object[q].paging_in_progress
                           /\ k3.object[q].page = k1.object[q].page
                           /\ k3.object[q].pager = k1.object[q].pager
    BY <1>8, <1>11, <1>12
  <2>2. SameChains(object, k3.object) /\ SamePaging(object, k3.object)
    BY <1>5, <2>1 DEF OnePage, SameChains, SamePaging
  <2>3. PagesBut(object, k3.object, o, x)
    BY <1>5, <2>1 DEF OnePage, PagesBut
  <2>4. k3.object[o].page[x] = p
    BY <1>3, <1>5, <2>1 DEF OnePage
  <2>5. \A q \in Objects : k3.object[q].pager = object[q].pager
    BY <1>5, <2>1 DEF OnePage
  <2> QED
    BY <2>2, <2>3, <2>4, <2>5 DEF OnePage
<1>14. d2 \in DaemonRecord /\ d2.at = "end" /\ d2.object = o /\ d2.off = x
  BY <1>3 DEF DaemonRecord
<1> HIDE DEF d2
<1>15. OnePageFree(object, k3.object, th, k3.th, daemon, d2, o, x, p)
  <2>1. k3.object \in [Objects -> ObjectRecord]
    BY <1>12, KernelWith
  <2>2. DaemonOK(d2)
    BY <1>3, <1>14 DEF DaemonOK
  <2>3. \A q \in Objects : DaemonPaging(d2, q) = DaemonPaging(daemon, q)
    BY <1>1, <1>14 DEF DaemonPaging
  <2>4. \A q \in Objects : k3.object[q].paging_in_progress + DaemonPaging(daemon, q)
                             = object[q].paging_in_progress + DaemonPaging(d2, q)
    BY <1>13, <2>3 DEF OnePage, SamePaging
  <2>5. DaemonPage(p, d2, o, x)
    BY <1>4, <1>14 DEF DaemonPage, DaemonHolds, PageOK
  <2>6. \A q \in Objects, y \in Offsets : q # o \/ y # x =>
            /\ DaemonHolds(d2, q, y) <=> DaemonHolds(daemon, q, y)
            /\ DaemonHolds(daemon, q, y) => (d2.at = "end" <=> daemon.at = "end")
    BY <1>1, <1>14 DEF DaemonHolds
  <2>7. AllSame(th, k3.th)
    BY <1>8, <1>12
  <2> QED
    BY <1>3, <1>13, <1>14, <2>1, <2>2, <2>3, <2>4, <2>5, <2>6, <2>7 DEF OnePageFree, OnePage
<1>16. Good(k3.object, k3.map, k3.th, d2, Nil)
  BY <1>2, <1>3, <1>12, <1>15, OnePageFreeKeeps
<1>17. AllSame(th, k3.th) /\ d2.at # "alone"
  BY <1>8, <1>12, <1>14
<1> QED
  BY <1>1, <1>12, <1>16, <1>17, WakingKeeps

\* The data has gone.
LEMMA PageoutEndKeeps ==
  ASSUME IInv, PageoutEnd
  PROVE  IInv'
<1> DEFINE o == daemon.object
           x == daemon.off
           k1 == vm_page_free(State, o, x)
           k2 == vm_object_paging_end(k1, o)
           d2 == Idle
           p == NoPage
<1>1. daemon.at = "end" /\ Becomes(k2) /\ daemon' = d2
  BY DEF PageoutEnd
<1>2. /\ State \in Kernels /\ State.object = object /\ State.map = map /\ State.pmap = pmap /\ State.th = th
      /\ Good(object, map, th, daemon, Nil)
  BY StateIs
<1>3. /\ o \in Objects /\ x \in Offsets /\ daemon \in DaemonRecord
      /\ \A u \in Threads : ~ Holds(th[u], o, x)
      /\ object[o].paging_in_progress > 0 /\ object[o].at # "free"
  BY <1>1, DaemonIs
<1>4. WakesAnd(State, k1) /\ OnePage(object, k1.object, o, x, p)
  BY <1>2, <1>3, FreePageIs
<1> HIDE DEF k1
<1>5. k1 \in Kernels /\ k1.map = map /\ AllSame(th, k1.th)
  BY <1>2, <1>4 DEF WakesAnd
<1>6. k1.object[o].paging_in_progress > 0
  BY <1>3, <1>4 DEF OnePage, SamePaging
<1>7. /\ ObjectsOnly(k1, k2)
      /\ SameChains(k1.object, k2.object) /\ SamePages(k1.object, k2.object)
      /\ PagingBy(k1.object, k2.object, o, -1)
  BY <1>3, <1>5, <1>6, EndIs
<1> HIDE DEF k2
<1>8. k2 \in Kernels /\ k2.map = map /\ k2.th = k1.th
  BY <1>5, <1>7 DEF ObjectsOnly
<1>9. d2 \in DaemonRecord /\ d2.at = "idle" /\ d2.object = Nil
  BY DEF Idle, DaemonRecord, AnyOffset
<1>10. ~ p.busy /\ p.at = "none"
  BY DEF NoPage
<1> HIDE DEF d2, p
<1>11. OnePageFree(object, k2.object, th, k2.th, daemon, d2, o, x, p)
  <2>1. k2.object \in [Objects -> ObjectRecord] /\ k1.object \in [Objects -> ObjectRecord]
    BY <1>5, <1>8, KernelWith
  <2>2. DaemonOK(d2)
    BY <1>9 DEF DaemonOK
  <2>3. \A q \in Objects : DaemonPaging(d2, q) = 0 /\ DaemonPaging(daemon, q) = IF q = o THEN 1 ELSE 0
    BY <1>1, <1>9, VmConstants DEF DaemonPaging
  <2>4. \A q \in Objects : k2.object[q].paging_in_progress + DaemonPaging(daemon, q)
                             = object[q].paging_in_progress + DaemonPaging(d2, q)
    <3> TAKE q \in Objects
    <3>1. k2.object[q].paging_in_progress = k1.object[q].paging_in_progress + IF q = o THEN -1 ELSE 0
      BY <1>7 DEF PagingBy
    <3>2. k1.object[q].paging_in_progress = object[q].paging_in_progress
      BY <1>4 DEF OnePage, SamePaging
    <3>3. k1.object[q].paging_in_progress \in Nat
      BY <2>1 DEF ObjectRecord
    <3> QED
      BY <2>3, <3>1, <3>2, <3>3
  <2>5. DaemonPage(p, d2, o, x)
    BY <1>9, <1>10 DEF DaemonPage, DaemonHolds, PageOK, Kept
  <2>6. \A q \in Objects, y \in Offsets : q # o \/ y # x =>
            /\ DaemonHolds(d2, q, y) <=> DaemonHolds(daemon, q, y)
            /\ DaemonHolds(daemon, q, y) => (d2.at = "end" <=> daemon.at = "end")
    BY <1>9 DEF DaemonHolds
  <2>7. AllSame(th, k2.th)
    BY <1>5, <1>8
  <2>8. SameChains(object, k2.object)
    BY <1>4, <1>7 DEF OnePage, SameChains
  <2>9. PagesBut(object, k2.object, o, x) /\ k2.object[o].page[x] = p
    BY <1>3, <1>4, <1>7 DEF OnePage, PagesBut, SamePages
  <2>10. \A q \in Objects \ {o} : DaemonPaging(d2, q) = DaemonPaging(daemon, q)
    BY <2>3
  <2> QED
    BY <1>3, <1>9, <2>1, <2>2, <2>4, <2>5, <2>6, <2>7, <2>8, <2>9, <2>10 DEF OnePageFree
<1>12. Good(k2.object, k2.map, k2.th, d2, Nil)
  BY <1>2, <1>3, <1>8, <1>11, OnePageFreeKeeps
<1>13. AllSame(th, k2.th) /\ d2.at # "alone"
  BY <1>5, <1>8, <1>9
<1> QED
  BY <1>1, <1>8, <1>12, <1>13, WakingKeeps

\* A page that the daemon may take.
LEMMA TakesIs ==
  ASSUME IInv, NEW o \in Objects, NEW x \in Offsets, daemon.at = "idle",
         object[o].page[x].at = "filled", ~ object[o].page[x].busy
  PROVE  /\ object[o].at # "free" /\ ~ Kept(object[o].page[x])
         /\ daemon.object = Nil
         /\ \A u \in Threads : ~ Holds(th[u], o, x)
<1>1. Good(object, map, th, daemon, Nil)
  BY StateIs
<1>2. DaemonOK(daemon) /\ PagesHeld(object, th, daemon) /\ FreeIsClean(object)
  BY <1>1, GoodParts
<1>3. object[o].at # "free"
  BY <1>2 DEF FreeIsClean
<1>4. ~ Kept(object[o].page[x])
  BY DEF Kept
<1>5. \A u \in Threads : ~ Holds(th[u], o, x)
  BY <1>2, <1>4, HolderIs
<1> QED
  BY <1>2, <1>3, <1>4, <1>5 DEF DaemonOK

\* A clean page is freed.
LEMMA CleanKeeps ==
  ASSUME IInv, NEW o \in Objects, NEW x \in Offsets, daemon.at = "idle",
         object[o].page[x].at = "filled", ~ object[o].page[x].busy, UNCHANGED daemon,
         Becomes(vm_page_free(pmap_page_protect(State, o, x), o, x))
  PROVE  IInv'
<1> DEFINE k1 == pmap_page_protect(State, o, x)
           k == vm_page_free(k1, o, x)
<1>1. Becomes(k)
  OBVIOUS
<1>2. /\ State \in Kernels /\ State.object = object /\ State.map = map /\ State.pmap = pmap /\ State.th = th
      /\ Good(object, map, th, daemon, Nil) /\ daemon.at # "alone"
  BY StateIs
<1>3. PmapOnly(State, k1)
  BY <1>2, ProtectPageIs
<1> HIDE DEF k1
<1>4. k1 \in Kernels /\ k1.object = object /\ k1.map = map /\ k1.th = th
  BY <1>2, <1>3 DEF PmapOnly
<1>5. WakesAnd(k1, k) /\ OnePage(object, k.object, o, x, NoPage)
  BY <1>4, FreePageIs
<1> HIDE DEF k
<1>6. k \in Kernels /\ k.map = map /\ AllSame(th, k.th)
  BY <1>4, <1>5 DEF WakesAnd
<1>7. OnePageFree(object, k.object, th, k.th, daemon, daemon, o, x, NoPage)
  <2> DEFINE p == NoPage
  <2>1. k.object \in [Objects -> ObjectRecord]
    BY <1>6, KernelWith
  <2>2. PageOK(p) /\ ~ Kept(p) /\ OnePage(object, k.object, o, x, p)
    BY <1>5 DEF Kept, PageOK, NoPage
  <2>3. object[o].at # "free" /\ ~ Kept(object[o].page[x])
    BY TakesIs
  <2> HIDE DEF p
  <2>4. OnePageFree(object, k.object, th, k.th, daemon, daemon, o, x, p)
    BY <1>6, <2>1, <2>2, <2>3, AnswerFits
  <2> QED
    BY <2>4 DEF p
<1>8. Good(k.object, k.map, k.th, daemon, Nil)
  <2> DEFINE p == NoPage
  <2>1. OnePageFree(object, k.object, th, k.th, daemon, daemon, o, x, p)
    BY <1>7
  <2> HIDE DEF p
  <2> QED
    BY <1>2, <1>6, <2>1, OnePageFreeKeeps
<1>9. daemon' = daemon
  OBVIOUS
<1> QED
  BY <1>1, <1>2, <1>6, <1>8, <1>9, WakingKeeps

\* A dirty page is made busy, while the daemon is alone with the object.
LEMMA TakenIs ==
  ASSUME IInv, NEW o \in Objects, NEW x \in Offsets, daemon.at = "idle",
         object[o].page[x].at = "filled", ~ object[o].page[x].busy,
         NEW d, d = [at |-> "alone", object |-> o, off |-> x],
         NEW k, k = [pmap_page_protect(State, o, x) EXCEPT !.object[o].page[x].busy = TRUE]
  PROVE  k \in Kernels /\ k.map = map /\ k.th = th /\ Good(k.object, map, th, d, Nil)
<1> DEFINE k1 == pmap_page_protect(State, o, x)
           b == TRUE
<1>1. k = [k1 EXCEPT !.object[o].page[x].busy = TRUE]
  OBVIOUS
<1>2. /\ State \in Kernels /\ State.object = object /\ State.map = map /\ State.pmap = pmap /\ State.th = th
      /\ Good(object, map, th, daemon, Nil)
  BY StateIs
<1>3. PmapOnly(State, k1)
  BY <1>2, ProtectPageIs
<1>4. PutsBusy(k1, k, o, x, b)
  BY <1>1 DEF PutsBusy
<1> HIDE DEF k1
<1>5. k1 \in Kernels /\ k1.object = object /\ k1.map = map /\ k1.th = th
  BY <1>2, <1>3 DEF PmapOnly
<1>6. b \in BOOLEAN
  OBVIOUS
<1> HIDE DEF b
<1>7. /\ ObjectsOnly(k1, k)
      /\ \E p \in PageRecord : /\ OnePage(k1.object, k.object, o, x, p)
                               /\ p.at = k1.object[o].page[x].at /\ p.busy = b
                               /\ p.val = k1.object[o].page[x].val
  <2>1. k1 \in Kernels /\ o \in Objects /\ x \in Offsets
    BY <1>5
  <2> QED
    BY ONLY <1>4, <1>6, <2>1, SetBusyIs
<1>8. PICK p \in PageRecord : /\ OnePage(object, k.object, o, x, p)
                              /\ p.at = object[o].page[x].at /\ p.busy
  BY <1>5, <1>7 DEF b
<1>9. k \in Kernels /\ k.map = map /\ k.th = th
  BY <1>5, <1>7 DEF ObjectsOnly
<1>10. /\ object[o].at # "free" /\ daemon.object = Nil
       /\ \A u \in Threads : ~ Holds(th[u], o, x)
  BY TakesIs
<1>11. d.at = "alone" /\ d.object = o /\ d.off = x /\ d \in DaemonRecord
  BY DEF DaemonRecord, AnyOffset
<1>12. OnePageFree(object, k.object, th, th, daemon, d, o, x, p)
  <2>1. k.object \in [Objects -> ObjectRecord]
    BY <1>9, KernelWith
  <2>2. DaemonOK(d)
    BY <1>11 DEF DaemonOK
  <2>3. \A q \in Objects : DaemonPaging(d, q) = 0 /\ DaemonPaging(daemon, q) = 0
    BY <1>10, <1>11, VmConstants DEF DaemonPaging
  <2>4. \A q \in Objects : k.object[q].paging_in_progress + DaemonPaging(daemon, q)
                             = object[q].paging_in_progress + DaemonPaging(d, q)
    BY <1>8, <2>3 DEF OnePage, SamePaging
  <2>5. DaemonPage(p, d, o, x)
    BY <1>8, <1>11 DEF DaemonPage, DaemonHolds, PageOK
  <2>6. \A q \in Objects, y \in Offsets : q # o \/ y # x =>
            /\ DaemonHolds(d, q, y) <=> DaemonHolds(daemon, q, y)
            /\ DaemonHolds(daemon, q, y) => (d.at = "end" <=> daemon.at = "end")
    BY <1>11 DEF DaemonHolds
  <2>7. AllSame(th, th)
    BY <1>2, AllSameAgain
  <2> QED
    BY <1>8, <1>10, <1>11, <2>1, <2>2, <2>3, <2>4, <2>5, <2>6, <2>7 DEF OnePageFree, OnePage
<1>13. Good(k.object, map, th, d, Nil)
  BY <1>2, <1>12, OnePageFreeKeeps
<1> QED
  BY <1>9, <1>13

\* The daemon takes its paging reference, with the pager there or to be created.
TakesOut(k, k2, o) ==
    k2 = vm_object_paging_begin(IF k.object[o].pager = "none"
                                THEN [k EXCEPT !.object[o].pager = "created"] ELSE k, o)

\* Its paging reference is counted again, and the page is still its own.
LEMMA TakesOutKeeps ==
  ASSUME NEW k \in Kernels, NEW T, NEW d, NEW d2, NEW o \in Objects, NEW x \in Offsets,
         k.th = T, Good(k.object, k.map, T, d, Nil),
         d.at = "alone", d.object = o, d.off = x,
         d2 \in DaemonRecord, d2.at \in {"create", "write"}, d2.object = o, d2.off = x,
         NEW k2, TakesOut(k, k2, o)
  PROVE  k2 \in Kernels /\ k2.map = k.map /\ k2.th = T /\ Good(k2.object, k.map, T, d2, Nil)
<1> DEFINE v == [k.object[o] EXCEPT !.pager = "created"]
           kc == [k EXCEPT !.object[o].pager = "created"]
           k1 == IF k.object[o].pager = "none" THEN kc ELSE k
<1>1. k2 = vm_object_paging_begin(k1, o)
  BY DEF TakesOut
<1>2. k.object \in [Objects -> ObjectRecord] /\ k.object[o] \in ObjectRecord
  BY KernelWith
<1>3. /\ v \in ObjectRecord /\ v.at = k.object[o].at /\ v.ref_count = k.object[o].ref_count
      /\ v.shadow = k.object[o].shadow /\ v.paging_in_progress = k.object[o].paging_in_progress
      /\ v.page = k.object[o].page
  BY <1>2 DEF ObjectRecord
<1>4. PutsObject(k, kc, o, v)
  BY DEF PutsObject
<1> HIDE DEF v, kc
<1>5. /\ kc \in Kernels /\ kc.map = k.map /\ kc.th = k.th
      /\ kc.object[o] = v /\ \A q \in Objects \ {o} : kc.object[q] = k.object[q]
  BY <1>3, <1>4, SetObject
<1>6. /\ k1 \in Kernels /\ k1.map = k.map /\ k1.th = k.th
      /\ \A q \in Objects : /\ k1.object[q].at = k.object[q].at
                            /\ k1.object[q].ref_count = k.object[q].ref_count
                            /\ k1.object[q].shadow = k.object[q].shadow
                            /\ k1.object[q].paging_in_progress = k.object[q].paging_in_progress
                            /\ k1.object[q].page = k.object[q].page
  BY <1>3, <1>5
<1> HIDE DEF k1
<1>7. /\ ObjectsOnly(k1, k2)
      /\ SameChains(k1.object, k2.object) /\ SamePages(k1.object, k2.object)
      /\ PagingBy(k1.object, k2.object, o, 1)
  BY <1>1, <1>6, BeginIs
<1>8. k2 \in Kernels /\ k2.map = k.map /\ k2.th = T
  BY <1>6, <1>7 DEF ObjectsOnly
<1>9. PagesHeld(k.object, T, d) /\ FreeIsClean(k.object)
  BY GoodParts
<1>10. k.object[o].at # "free"
  <2>1. k.object[o].page[x].at = "filled"
    BY <1>9 DEF PagesHeld, PageHeld, DaemonHolds
  <2> QED
    BY <1>9, <2>1 DEF FreeIsClean
<1>11. \A q \in Objects : k2.object[q].paging_in_progress = k.object[q].paging_in_progress + IF q = o THEN 1 ELSE 0
  BY <1>6, <1>7 DEF PagingBy
<1>12. SameChains(k.object, k2.object)
  BY <1>6, <1>7 DEF SameChains
<1>13. \A q \in Objects, y \in Offsets : k2.object[q].page[y] = k.object[q].page[y]
  BY <1>6, <1>7 DEF SamePages
<1>14. \A q \in Objects : k.object[q].paging_in_progress \in Nat
  BY <1>2 DEF ObjectRecord
<1>15. DaemonMoves(k.object, k2.object, T, T, d, d2)
  <2>1. k2.object \in [Objects -> ObjectRecord]
    BY <1>8, KernelWith
  <2>2. DaemonOK(d2)
    BY DEF DaemonOK
  <2>3. \A q \in Objects : DaemonPaging(d, q) = 0 /\ DaemonPaging(d2, q) = IF q = o THEN 1 ELSE 0
    BY DEF DaemonPaging
  <2>4. \A q \in Objects : k2.object[q].paging_in_progress + DaemonPaging(d, q)
                             = k.object[q].paging_in_progress + DaemonPaging(d2, q)
    BY <1>11, <1>14, <2>3
  <2>5. \A q \in Objects, y \in Offsets : DaemonsPage(k.object, k2.object, T, d, d2, q, y)
    BY <1>13 DEF DaemonsPage, DaemonHolds, SameHeld
  <2>6. FreeIsClean(k2.object)
    <3>1. \A q \in Objects : k.object[q].at = "free" =>
            /\ k2.object[q].paging_in_progress = k.object[q].paging_in_progress
            /\ \A y \in Offsets : k2.object[q].page[y] = k.object[q].page[y]
      BY <1>10, <1>11, <1>13, <1>14
    <3> QED
      BY <1>9, <1>12, <3>1, StaysClean
  <2>7. AllSame(T, T)
    BY AllSameAgain
  <2> QED
    BY <1>12, <2>1, <2>2, <2>4, <2>5, <2>6, <2>7 DEF DaemonMoves
<1> QED
  BY <1>8, <1>15, DaemonMovesKeeps

\* The daemon takes a page.
LEMMA PageoutStartKeeps ==
  ASSUME IInv, NEW o \in Objects, NEW x \in Offsets, PageoutStart(o, x)
  PROVE  IInv'
<1> DEFINE busy == [pmap_page_protect(State, o, x) EXCEPT !.object[o].page[x].busy = TRUE]
           K(got) == vm_object_collapse(busy, o, got)
           d1 == [at |-> "alone", object |-> o, off |-> x]
           Out(k) == vm_object_paging_begin(IF k.object[o].pager = "none"
                                THEN [k EXCEPT !.object[o].pager = "created"] ELSE k, o)
           D(k) == [at |-> IF k.object[o].pager = "none" THEN "create" ELSE "write",
                    object |-> o, off |-> x]
<1>1. daemon.at = "idle" /\ object[o].page[x].at = "filled" /\ ~ object[o].page[x].busy
  BY DEF PageoutStart
<1>2. CASE ~ object[o].page[x].dirty
  <2>1. Becomes(vm_page_free(pmap_page_protect(State, o, x), o, x)) /\ UNCHANGED daemon
    BY <1>2 DEF PageoutStart
  <2> QED
    BY <1>1, <2>1, CleanKeeps
<1>3. CASE object[o].page[x].dirty
  <2>1. \E got \in BOOLEAN : Becomes(Out(K(got))) /\ daemon' = D(K(got))
    BY <1>3 DEF PageoutStart
  <2>2. PICK got \in BOOLEAN : Becomes(Out(K(got))) /\ daemon' = D(K(got))
    BY <2>1
  <2> DEFINE k3 == K(got)
             k5 == Out(k3)
             d2 == D(k3)
  <2>3. Becomes(k5) /\ daemon' = d2
    BY <2>2
  <2>4. State.th = th /\ State.map = map /\ \A u \in Threads : th[u].at # "alone"
    BY StateIs
  <2>5. d1.at = "alone" /\ d1.object = o /\ d1.off = x
    OBVIOUS
  <2>6. busy \in Kernels /\ busy.map = map /\ busy.th = th /\ Good(busy.object, map, th, d1, Nil)
    BY <1>1, TakenIs
  <2> HIDE DEF d1, busy
  <2>7. AloneWith(th, d1, o)
    BY <2>4, <2>5 DEF AloneWith
  <2>8. CollapsedAs(busy, k3, th, d1)
    BY <2>6, <2>7, CollapseIs
  <2>9. TakesOut(k3, k5, o)
    BY DEF TakesOut
  <2>10. d2 \in DaemonRecord /\ d2.at \in {"create", "write"} /\ d2.object = o /\ d2.off = x
    BY DEF DaemonRecord, AnyOffset
  <2> HIDE DEF k3, k5, d2
  <2>11. k3 \in Kernels /\ k3.map = map /\ k3.th = th /\ Good(k3.object, k3.map, th, d1, Nil)
    BY <2>6, <2>8 DEF CollapsedAs
  <2>12. k5 \in Kernels /\ k5.map = map /\ k5.th = th /\ Good(k5.object, k3.map, th, d2, Nil)
    BY <2>5, <2>9, <2>10, <2>11, TakesOutKeeps
  <2>13. AllSame(th, k5.th)
    BY <2>6, <2>12, AllSameAgain
  <2>14. Good(k5.object, k5.map, k5.th, daemon', Nil) /\ daemon'.at # "alone"
    BY <2>3, <2>10, <2>11, <2>12
  <2> QED
    BY <2>3, <2>12, <2>13, <2>14, WakingKeeps
<1> QED
  BY <1>2, <1>3

-----------------------------------------------------------------------------
(* The theorems.                                                           *)

\* The counts of no one.
LEMMA NobodyCounts ==
  ASSUME NEW O, NEW M, NEW T, NEW o,
         \A a \in Tasks : M[a].object # o, \A p \in Objects : O[p].at = "free",
         \A t \in Threads : T[t].at = "run"
  PROVE  MapRefs(M, o) = 0 /\ ShadowRefs(O, o) = 0 /\ FaultRefs(T, o) = 0 /\ FaultPaging(T, o) = 0
<1>1. {a \in Tasks : M[a].in /\ M[a].object = o} = {}
  OBVIOUS
<1>2. {p \in Objects : O[p].at # "free" /\ O[p].shadow = o} = {}
  OBVIOUS
<1>3. {t \in Threads : Uses(T[t]) /\ T[t].first = o} = {}
  BY DEF Uses
<1>4. {t \in Threads : Pages(T[t]) /\ (T[t].first = o \/ T[t].cur = o)} = {}
  BY DEF Pages
<1> QED
  BY <1>1, <1>2, <1>3, <1>4, FS_EmptySet DEF MapRefs, ShadowRefs, FaultRefs, FaultPaging

\* Initially there is one entry, without an object.
LEMMA InitHolds == ASSUME Init PROVE IInv
<1>1. /\ object = [o \in Objects |-> Template]
      /\ map = [t \in Tasks |-> [NoEntry EXCEPT !.in = (t = First)]]
      /\ pmap = [t \in Tasks |-> [x \in Offsets |-> Unmapped]]
      /\ th = [t \in Threads |-> Running] /\ daemon = Idle
  BY DEF Init
<1>2. \A s \in Objects \cup {Nil} : /\ Template \in ObjectRecord
         /\ Template.at = "free" /\ Template.ref_count = 0 /\ Template.shadow = Nil
         /\ Template.paging_in_progress = 0 /\ \A y \in Offsets : Template.page[y] = NoPage
  BY TemplateIs
<1>3. /\ object \in [Objects -> ObjectRecord]
      /\ \A o \in Objects : /\ object[o].at = "free" /\ object[o].ref_count = 0
                            /\ object[o].shadow = Nil /\ object[o].paging_in_progress = 0
                            /\ \A y \in Offsets : object[o].page[y] = NoPage
  <2> HIDE DEF Template
  <2> QED
    BY <1>1, <1>2
<1>4. map \in [Tasks -> EntryRecord] /\ \A a \in Tasks : map[a].object = Nil
  <2> DEFINE m(a) == [NoEntry EXCEPT !.in = (a = First)]
  <2>1. \A a \in Tasks : m(a) \in EntryRecord /\ m(a).object = Nil
    BY DEF NoEntry, EntryRecord
  <2>2. map = [a \in Tasks |-> m(a)]
    BY <1>1
  <2> HIDE DEF m
  <2> QED
    BY <2>1, <2>2
<1>5. pmap \in [Tasks -> [Offsets -> Mapped]]
  <2>1. Unmapped \in Mapped
    BY DEF Unmapped, Mapped
  <2> HIDE DEF Unmapped
  <2> QED
    BY <1>1, <2>1
<1>6. th \in [Threads -> FaultRecord] /\ \A t \in Threads : th[t].at = "run"
  <2>1. Running \in FaultRecord /\ Running.at = "run"
    BY DEF Running, FaultRecord, AnyOffset
  <2> HIDE DEF Running
  <2> QED
    BY <1>1, <2>1
<1>7. daemon \in DaemonRecord /\ daemon.at = "idle" /\ daemon.object = Nil
  BY <1>1 DEF Idle, DaemonRecord, AnyOffset
<1>8. DaemonOK(daemon) /\ \A t \in Threads : FaultOK(th[t])
  BY <1>6, <1>7 DEF DaemonOK, FaultOK, Uses, Pages
<1>9. PagesHeld(object, th, daemon)
  <2> SUFFICES ASSUME NEW o \in Objects, NEW x \in Offsets PROVE PageHeld(object, th, daemon, o, x)
    BY DEF PagesHeld
  <2>1. object[o].page[x] = NoPage
    BY <1>3
  <2>2. PageOK(object[o].page[x]) /\ ~ Kept(object[o].page[x])
    BY <2>1 DEF PageOK, Kept, NoPage
  <2>3. \A t \in Threads : ~ Holds(th[t], o, x) /\ ~ HoldsFirst(th[t], o, x) /\ ~ HoldsFound(th[t], o, x)
    BY <1>6 DEF Holds, HoldsFirst, HoldsFound, Pages
  <2>4. ~ DaemonHolds(daemon, o, x)
    BY <1>7 DEF DaemonHolds
  <2> QED
    BY <2>2, <2>3, <2>4 DEF PageHeld
<1>10. Counted(object, map, th, daemon, Nil)
  <2> SUFFICES ASSUME NEW o \in Objects
               PROVE  /\ object[o].ref_count = Refs(object, map, th, o) + One(o = Nil)
                      /\ object[o].at = "live" <=> object[o].ref_count > 0
                      /\ object[o].paging_in_progress = FaultPaging(th, o) + DaemonPaging(daemon, o)
    BY DEF Counted
  <2>1. o # Nil
    BY VmConstants
  <2>2. MapRefs(map, o) = 0 /\ ShadowRefs(object, o) = 0 /\ FaultRefs(th, o) = 0 /\ FaultPaging(th, o) = 0
    <3>1. \A a \in Tasks : map[a].object # o
      BY <1>4, <2>1
    <3>2. \A p \in Objects : object[p].at = "free"
      BY <1>3
    <3>3. \A t \in Threads : th[t].at = "run"
      BY <1>6
    <3> QED
      BY ONLY <3>1, <3>2, <3>3, NobodyCounts
  <2>3. One(o = Nil) = 0 /\ DaemonPaging(daemon, o) = 0
    BY <1>7, <2>1 DEF One, DaemonPaging
  <2> QED
    BY <1>3, <2>2, <2>3 DEF Refs
<1>11. FreeIsClean(object)
  BY <1>3 DEF FreeIsClean, NoPage
<1>12. Chained(object, th)
  <2> DEFINE rank == [o \in Objects |-> 0]
  <2>1. rank \in [Objects -> Nat]
    OBVIOUS
  <2>2. Descends(object, th, rank)
    BY <1>3, <1>6 DEF Descends, Pages
  <2> HIDE DEF rank
  <2> QED
    BY <2>1, <2>2 DEF Chained
<1>13. Good(object, map, th, daemon, Nil)
  BY <1>3, <1>4, <1>6, <1>7, <1>8, <1>9, <1>10, <1>11, <1>12 DEF Good
<1>14. State \in Kernels /\ State.object = object /\ State.map = map /\ State.th = th
  BY <1>3, <1>4, <1>5, <1>6 DEF State, Kernels
<1>15. \A t \in Threads : th[t].at # "alone"
  BY <1>6
<1>16. daemon.at # "alone"
  BY <1>7
<1> QED
  BY <1>13, <1>14, <1>15, <1>16 DEF IInv, VInv

\* Every step keeps the invariant.
LEMMA NextKeeps == ASSUME IInv, Next PROVE IInv'
<1>1. ASSUME NEW t \in Threads, NEW x \in Offsets, NEW v \in Values, Write(t, x, v) PROVE IInv'
  BY <1>1, WriteKeeps
<1>2. ASSUME NEW t \in Threads, NEW x \in Offsets, NEW write \in BOOLEAN, Fault(t, x, write) PROVE IInv'
  BY <1>2, FaultKeeps
<1>3. ASSUME NEW t \in Threads, FaultStep(t) PROVE IInv'
  BY <1>3, RetryKeeps, SearchAgainKeeps, CopyPageKeeps, CollapseTopKeeps, VerifyAgainKeeps,
     PmapEnterKeeps DEF FaultStep
<1>4. ASSUME NEW t \in Threads, Interrupt(t) PROVE IInv'
  BY <1>4, InterruptKeeps
<1>5. ASSUME NEW a \in Tasks, vm_map_delete(a) PROVE IInv'
  BY <1>5, MapDeleteKeeps
<1>6. ASSUME NEW a \in Tasks, NEW b \in Tasks, vm_map_fork(a, b) PROVE IInv'
  BY <1>6, MapForkKeeps
<1>7. ASSUME NEW o \in Objects, vm_object_terminate(o) PROVE IInv'
  BY <1>7, TerminateKeeps
<1>8. ASSUME NEW o \in Objects, NEW x \in Offsets, Answer(o, x) PROVE IInv'
  BY <1>8, ProvidedKeeps, UnavailableKeeps DEF Answer
<1>9. ASSUME NEW o \in Objects, NEW x \in Offsets, PageoutStart(o, x) PROVE IInv'
  BY <1>9, PageoutStartKeeps
<1>10. ASSUME Pageout PROVE IInv'
  BY <1>10, PagerCreatedKeeps, PageoutWriteKeeps, PageoutEndKeeps DEF Pageout
<1> QED
  BY <1>1, <1>2, <1>3, <1>4, <1>5, <1>6, <1>7, <1>8, <1>9, <1>10 DEF Next

\* So does a step that changes nothing.
LEMMA StutterKeeps == ASSUME IInv, UNCHANGED vars PROVE IInv'
<1>1. object' = object /\ map' = map /\ th' = th /\ pmap' = pmap /\ daemon' = daemon
  BY DEF vars
<1>2. State' = State
  BY <1>1 DEF State
<1> QED
  BY <1>1, <1>2 DEF IInv

\* What threads and the daemon hold, and what is counted, in every state between
\* the steps of vm_fault.c, vm_object.c, vm_map.c and vm_pageout.c.
THEOREM Invariance == Spec => []IInv
<1>1. Init => IInv
  BY InitHolds
<1>2. IInv /\ [Next]_vars => IInv'
  BY NextKeeps, StutterKeeps
<1> QED
  BY <1>1, <1>2, PTL DEF Spec

\* Objects, pages, entries, mappings and faults keep their types (struct
\* vm_object, struct vm_page).
THEOREM TypeCorrect == Spec => []TypeOK
<1>1. ASSUME IInv PROVE TypeOK
  <2>1. /\ object \in [Objects -> ObjectRecord] /\ map \in [Tasks -> EntryRecord]
        /\ pmap \in [Tasks -> [Offsets -> Mapped]] /\ th \in [Threads -> FaultRecord]
        /\ \A t \in Threads : th[t].at # "alone"
    BY <1>1, StateIs, KernelWith
  <2>2. \A o \in Objects :
        /\ object[o].at \in {"free", "live", "dying"}
        /\ object[o].shadow \in Objects \cup {Nil}
        /\ object[o].pager \in {"none", "created", "ready"}
        /\ object[o].ref_count \in Nat /\ object[o].paging_in_progress \in Nat
        /\ \A x \in Offsets : object[o].page[x] \in PageRecord
    BY <2>1 DEF ObjectRecord
  <2>3. \A t \in Threads : th[t].at \in {"run", "lookup", "search", "wait", "sleep", "copy",
                                         "collapse", "verify"}
    BY <2>1 DEF FaultRecord
  <2> QED
    BY <2>1, <2>2, <2>3 DEF TypeOK, PageRecord, EntryRecord, Mapped
<1> QED
  BY <1>1, Invariance, PTL

\* Who holds a page.
LEMMA HoldersAre ==
  ASSUME IInv, NEW o \in Objects, NEW x
  PROVE  /\ Holders(o, x) = {t \in Threads : Holds(th[t], o, x)}
         /\ daemon.object = o /\ daemon.off = x <=> DaemonHolds(daemon, o, x)
<1>1. /\ \A t \in Threads : th[t].at # "alone"
      /\ Good(object, map, th, daemon, Nil)
  BY StateIs
<1>2. ASSUME NEW t \in Threads
      PROVE  t \in Holders(o, x) <=> Holds(th[t], o, x)
  BY <1>1 DEF Holders, Holds, HoldsFirst, HoldsFound, AtPage, Pages
<1>3. daemon.object = o /\ daemon.off = x <=> DaemonHolds(daemon, o, x)
  <2>1. DaemonOK(daemon)
    BY <1>1, GoodParts
  <2>2. daemon.at = "idle" => daemon.object # o
    BY <2>1, VmConstants DEF DaemonOK
  <2> QED
    BY <2>2 DEF DaemonHolds
<1>4. Holders(o, x) \subseteq Threads
  BY DEF Holders
<1> QED
  BY <1>2, <1>3, <1>4

\* The paging references, each counted once.
LEMMA PagingIs ==
  ASSUME IInv, NEW o \in Objects
  PROVE  Paging(o) = FaultPaging(th, o) + DaemonPaging(daemon, o)
<1> DEFINE A == {t \in Threads : AtPage(t) /\ th[t].first = o}
           B == {t \in Threads : AtPage(t) /\ th[t].cur = o /\ th[t].first # o}
           C == {t \in Threads : Pages(th[t]) /\ (th[t].first = o \/ th[t].cur = o)}
<1>1. A \cup B = C /\ A \cap B = {}
  BY DEF AtPage, Pages
<1>2. IsFiniteSet(A) /\ IsFiniteSet(B)
  BY VmFinite, FS_Subset
<1>3. Cardinality(A) \in Nat /\ Cardinality(B) \in Nat
  BY <1>2, FS_CardinalityType
<1>4. Paging(o) = Cardinality(A) + Cardinality(B) + (IF daemon.object = o THEN 1 ELSE 0)
  BY DEF Paging
<1>5. FaultPaging(th, o) = Cardinality(C)
  BY DEF FaultPaging
<1>6. DaemonPaging(daemon, o) = IF daemon.object = o THEN 1 ELSE 0
  BY StateIs DEF DaemonPaging
<1> HIDE DEF A, B, C
<1>7. Cardinality(A \cup B) = Cardinality(A) + Cardinality(B) - Cardinality(A \cap B)
  BY <1>2, FS_Union
<1>8. Cardinality(A \cap B) = 0
  BY <1>1, FS_EmptySet
<1>9. Cardinality(C) = Cardinality(A) + Cardinality(B)
  <2>1. Cardinality(A \cup B) = Cardinality(C)
    BY <1>1
  <2>2. Cardinality(A \cup B) = Cardinality(A) + Cardinality(B) - 0
    BY <1>7, <1>8
  <2> QED
    BY <1>3, <2>1, <2>2
<1> QED
  BY <1>4, <1>5, <1>6, <1>9

\* A page is held by one or by none.
LEMMA HeldByOne ==
  ASSUME IInv, NEW o \in Objects, NEW x \in Offsets
  PROVE  Cardinality(Holders(o, x)) + (IF daemon.object = o /\ daemon.off = x THEN 1 ELSE 0)
           = IF Kept(object[o].page[x]) THEN 1 ELSE 0
<1> DEFINE H == Holders(o, x)
<1>1. Good(object, map, th, daemon, Nil)
  BY StateIs
<1>2. PagesHeld(object, th, daemon)
  BY <1>1, GoodParts
<1>3. PageHeld(object, th, daemon, o, x)
  BY <1>2 DEF PagesHeld
<1>4. /\ H = {t \in Threads : Holds(th[t], o, x)}
      /\ daemon.object = o /\ daemon.off = x <=> DaemonHolds(daemon, o, x)
  BY HoldersAre
<1> HIDE DEF H
<1>5. CASE ~ Kept(object[o].page[x])
  <2>1. ~ DaemonHolds(daemon, o, x) /\ \A u \in Threads : ~ Holds(th[u], o, x)
    BY <1>2, <1>5, HolderIs
  <2>2. H = {}
    BY <1>4, <2>1
  <2> QED
    BY <1>4, <1>5, <2>1, <2>2, FS_EmptySet DEF H
<1>6. CASE Kept(object[o].page[x]) /\ DaemonHolds(daemon, o, x)
  <2>1. \A u \in Threads : ~ Holds(th[u], o, x)
    BY <1>2, <1>6, HolderIs
  <2>2. H = {}
    BY <1>4, <2>1
  <2> QED
    BY <1>4, <1>6, <2>2, FS_EmptySet DEF H
<1>7. CASE Kept(object[o].page[x]) /\ ~ DaemonHolds(daemon, o, x)
  <2>1. PICK t \in Threads : Holds(th[t], o, x)
    BY <1>3, <1>7 DEF PageHeld
  <2>2. \A u \in Threads : Holds(th[u], o, x) => u = t
    BY <1>3, <2>1 DEF PageHeld
  <2>3. H = {t}
    BY <1>4, <2>1, <2>2
  <2>4. Cardinality(H) = 1
    BY <2>3, FS_Singleton
  <2> QED
    BY <1>4, <1>7, <2>4 DEF H
<1> QED
  BY <1>5, <1>6, <1>7

\* A busy page that was not asked for has one holder, a page that is held is there
\* and busy, and references and paging references are those of entries, shadows,
\* faults and the daemon (vm_fault_page, vm_object_collapse, vm_object_terminate,
\* vm_pageout_page): no object goes away under them or stays without them.
THEOREM HeldExactlyHolds == Spec => []HeldExactly
<1>1. ASSUME IInv PROVE HeldExactly
  <2>1. Good(object, map, th, daemon, Nil)
    BY <1>1, StateIs
  <2>2. Counted(object, map, th, daemon, Nil)
    BY <2>1, GoodParts
  <2>3. ASSUME NEW o \in Objects
        PROVE  /\ object[o].paging_in_progress = Paging(o)
               /\ object[o].ref_count = References(o)
               /\ object[o].at = "live" <=> References(o) > 0
    <3>1. /\ object[o].ref_count = Refs(object, map, th, o) + One(o = Nil)
          /\ object[o].at = "live" <=> object[o].ref_count > 0
          /\ object[o].paging_in_progress = FaultPaging(th, o) + DaemonPaging(daemon, o)
      BY <2>2 DEF Counted
    <3>2. Refs(object, map, th, o) = References(o)
      BY DEF Refs, References, MapRefs, ShadowRefs, FaultRefs, Uses
    <3>3. One(o = Nil) = 0
      BY VmConstants DEF One
    <3>4. Refs(object, map, th, o) \in Nat
      BY Counts DEF Refs
    <3>5. Paging(o) = FaultPaging(th, o) + DaemonPaging(daemon, o)
      BY <1>1, PagingIs
    <3> HIDE DEF Refs
    <3>6. object[o].ref_count = References(o)
      BY <3>1, <3>2, <3>3, <3>4
    <3> QED
      BY <3>1, <3>5, <3>6
  <2>4. ASSUME NEW o \in Objects, NEW x \in Offsets
        PROVE  LET held == Cardinality(Holders(o, x))
                           + IF daemon.object = o /\ daemon.off = x THEN 1 ELSE 0
               IN  IF object[o].page[x].busy /\ object[o].page[x].at # "absent"
                   THEN held = 1 ELSE held = 0
    BY <1>1, HeldByOne DEF Kept
  <2> QED
    BY <2>3, <2>4 DEF HeldExactly
<1> QED
  BY <1>1, Invariance, PTL

=============================================================================
