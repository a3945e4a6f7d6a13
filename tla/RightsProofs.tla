---------------------------- MODULE RightsProofs ----------------------------
(***************************************************************************)
(* Proofs that the rights of a port are exact, that its references are     *)
(* counted, and that nothing is left of a dead port or task, for any tasks,*)
(* ports and number of messages.                                           *)
(***************************************************************************)
EXTENDS Rights, FiniteSetTheorems, TLAPS

-----------------------------------------------------------------------------
(* What the routines of Rights do to a state of the ports: which fields    *)
(* they change, and by how much they change the number of references that  *)
(* nothing accounts for, which is 0 between the steps of the program.      *)

Holders == Tasks \cup {Nil, Soft}

KPort == [at: {"new", "live", "freed"}, in_use: BOOLEAN, references: Int,
          receiver: Holders, named: BOOLEAN, owner: Holders, backup: Ports \cup {Nil}]

KSlot == [at: {"free", "live", "doomed", "used"}, obj: Ports \cup {Nil},
          rights: Rights, to: Tasks \cup {Nil}]

KCall == [at: {"no", "dealloc", "release"}, port: Ports \cup {Nil}, ref: BOOLEAN]

KEntry == [Tasks -> [Ports -> Entries]]
KDying == {"no", "rights", "done"} \cup Tasks

\* The values of State: references may be too few, which no step leaves.
KState == [port: [Ports -> KPort], entry: KEntry, slot: [Slots -> KSlot],
           dying: [Ports -> KDying], surplus: [Ports -> Nat]]

\* The fields of a port that the invariant reads.
Reads(r, at, in_use, references, receiver, owner, backup) ==
    /\ r \in KPort
    /\ r.at = at
    /\ r.in_use = in_use
    /\ r.references = references
    /\ r.receiver = receiver
    /\ r.owner = owner
    /\ r.backup = backup

\* k2 is k but for port p.
OnlyPort(k, k2, p) ==
    /\ k2 \in KState
    /\ \A q \in Ports \ {p} : k2.port[q] = k.port[q]
    /\ k2.entry = k.entry
    /\ k2.slot = k.slot
    /\ k2.dying = k.dying
    /\ k2.surplus = k.surplus

-----------------------------------------------------------------------------
(* What accounts for the references of a port.                             *)

Bit(b) == IF b THEN 1 ELSE 0

Filled(v, p) == v.at # "free" /\ v.obj = p
Marked(d) == d \notin {"no", "done"}

Translated(e, p) == {t \in Tasks : e[t][p] \in Types}
Carriers(s, p) == {i \in Slots : Filled(s[i], p)}
BackedUp(po, p) == {q \in Ports : po[q].backup = p}
Working(c, p) == {t \in Tasks : c[t].ref /\ c[t].port = p}

Counted(k, c, p) ==
      Cardinality(Translated(k.entry, p)) + Cardinality(Carriers(k.slot, p))
    + Cardinality(BackedUp(k.port, p)) + Cardinality(Working(c, p))
    + k.surplus[p] + Bit(Marked(k.dying[p]))

Spare(k, c, p) == k.port[p].references - Counted(k, c, p)

Calls == [Tasks -> KCall]

\* The references of p that nothing accounts for are d more in k2 than in k.
Shift(k, k2, p, d) ==
    \A c \in Calls, q \in Ports :
        Spare(k2, c, q) = Spare(k, c, q) + (IF q = p THEN d ELSE 0)

\* A set that differs from another in x at most.
LEMMA CardChange ==
  ASSUME NEW D, IsFiniteSet(D), NEW A \in SUBSET D, NEW B \in SUBSET D, NEW x \in D,
         \A y \in D \ {x} : y \in A <=> y \in B
  PROVE  /\ Cardinality(A) \in Nat
         /\ Cardinality(B) \in Nat
         /\ Cardinality(B) = Cardinality(A) + Bit(x \in B) - Bit(x \in A)
<1>1. IsFiniteSet(A) /\ IsFiniteSet(B)
  BY FS_Subset
<1>2. Cardinality(A) \in Nat /\ Cardinality(B) \in Nat
  BY <1>1, FS_CardinalityType
<1>3. CASE x \in A <=> x \in B
  <2>1. A = B
    BY <1>3
  <2> QED
    BY <1>2, <1>3, <2>1 DEF Bit
<1>4. CASE x \in A /\ x \notin B
  <2>1. B = A \ {x}
    BY <1>4
  <2> QED
    BY <1>1, <1>2, <1>4, <2>1, FS_RemoveElement DEF Bit
<1>5. CASE x \notin A /\ x \in B
  <2>1. B = A \cup {x}
    BY <1>5
  <2> QED
    BY <1>1, <1>2, <1>5, <2>1, FS_AddElement DEF Bit
<1> QED
  BY <1>2, <1>3, <1>4, <1>5

LEMMA CardType ==
  ASSUME NEW D, IsFiniteSet(D), NEW A \in SUBSET D
  PROVE  IsFiniteSet(A) /\ Cardinality(A) \in Nat
<1>1. IsFiniteSet(A)
  BY FS_Subset
<1> QED
  BY <1>1, FS_CardinalityType

LEMMA CountsType ==
  ASSUME NEW k \in KState, NEW c \in Calls, NEW p \in Ports
  PROVE  /\ IsFiniteSet(Translated(k.entry, p)) /\ Cardinality(Translated(k.entry, p)) \in Nat
         /\ IsFiniteSet(Carriers(k.slot, p)) /\ Cardinality(Carriers(k.slot, p)) \in Nat
         /\ IsFiniteSet(BackedUp(k.port, p)) /\ Cardinality(BackedUp(k.port, p)) \in Nat
         /\ IsFiniteSet(Working(c, p)) /\ Cardinality(Working(c, p)) \in Nat
         /\ k.surplus[p] \in Nat
         /\ Bit(Marked(k.dying[p])) \in {0, 1}
         /\ k.port[p].references \in Int
<1>1. /\ IsFiniteSet(Translated(k.entry, p)) /\ Cardinality(Translated(k.entry, p)) \in Nat
  BY Finite, CardType, Translated(k.entry, p) \in SUBSET Tasks DEF Translated
<1>2. /\ IsFiniteSet(Carriers(k.slot, p)) /\ Cardinality(Carriers(k.slot, p)) \in Nat
  BY Finite, CardType, Carriers(k.slot, p) \in SUBSET Slots DEF Carriers
<1>3. /\ IsFiniteSet(BackedUp(k.port, p)) /\ Cardinality(BackedUp(k.port, p)) \in Nat
  BY Finite, CardType, BackedUp(k.port, p) \in SUBSET Ports DEF BackedUp
<1>4. /\ IsFiniteSet(Working(c, p)) /\ Cardinality(Working(c, p)) \in Nat
  BY Finite, CardType, Working(c, p) \in SUBSET Tasks DEF Working
<1>5. k.surplus[p] \in Nat /\ k.port[p].references \in Int
  BY DEF KState, KPort
<1>6. Bit(Marked(k.dying[p])) \in {0, 1}
  BY DEF Bit
<1> QED
  BY <1>1, <1>2, <1>3, <1>4, <1>5, <1>6

LEMMA SpareType ==
  ASSUME NEW k \in KState, NEW c \in Calls, NEW p \in Ports
  PROVE  Spare(k, c, p) \in Int
BY CountsType DEF Spare, Counted

-----------------------------------------------------------------------------
(* One lemma per part of the state that a routine writes.                  *)

LEMMA PortOf ==
  ASSUME NEW k \in KState, NEW p \in Ports
  PROVE  k.port[p] \in KPort
BY DEF KState

LEMMA SetPort ==
  ASSUME NEW k \in KState, NEW p \in Ports, NEW r \in KPort
  PROVE  LET k2 == [k EXCEPT !.port[p] = r]
         IN  /\ OnlyPort(k, k2, p)
             /\ k2.port[p] = r
             /\ r.backup = k.port[p].backup =>
                   Shift(k, k2, p, r.references - k.port[p].references)
<1> DEFINE k2 == [k EXCEPT !.port[p] = r]
<1>1. OnlyPort(k, k2, p) /\ k2.port[p] = r
  BY DEF KState, OnlyPort
<1>2. ASSUME r.backup = k.port[p].backup, NEW c \in Calls, NEW q \in Ports
      PROVE  Spare(k2, c, q) = Spare(k, c, q) +
                (IF q = p THEN r.references - k.port[p].references ELSE 0)
  <2>1. BackedUp(k2.port, q) = BackedUp(k.port, q)
    BY <1>1, <1>2 DEF BackedUp, OnlyPort
  <2>2. Counted(k2, c, q) = Counted(k, c, q)
    BY <1>1, <2>1 DEF Counted, OnlyPort
  <2>3. Counted(k, c, q) \in Int /\ k.port[q].references \in Int /\ k.port[p].references \in Int
    BY CountsType DEF Counted
  <2>4. k2 \in KState
    BY <1>1 DEF OnlyPort
  <2>5. k2.port[q].references \in Int
    BY <2>4, CountsType
  <2> QED
    BY <1>1, <2>2, <2>3, <2>5 DEF Spare, OnlyPort
<1> QED
  BY <1>1, <1>2 DEF Shift

LEMMA SetReferences ==
  ASSUME NEW k \in KState, NEW p \in Ports, NEW x \in Int
  PROVE  LET k2 == [k EXCEPT !.port[p].references = x]
             r == k.port[p]
         IN  /\ OnlyPort(k, k2, p)
             /\ Reads(k2.port[p], r.at, r.in_use, x, r.receiver, r.owner, r.backup)
             /\ Shift(k, k2, p, x - r.references)
<1> DEFINE r == k.port[p]
           r2 == [r EXCEPT !.references = x]
<1>1. r \in KPort
  BY PortOf
<1>2. r2 \in KPort /\ Reads(r2, r.at, r.in_use, x, r.receiver, r.owner, r.backup)
  BY <1>1 DEF KPort, Reads
<1>3. [k EXCEPT !.port[p].references = x] = [k EXCEPT !.port[p] = r2]
  OBVIOUS
<1>4. r2.references - r.references = x - r.references
  BY <1>1, <1>2 DEF KPort, Reads
<1> QED
  BY <1>2, <1>3, <1>4, SetPort DEF Reads

LEMMA SetReceiver ==
  ASSUME NEW k \in KState, NEW p \in Ports, NEW x \in Holders
  PROVE  LET k2 == [k EXCEPT !.port[p].receiver = x]
             r == k.port[p]
         IN  /\ OnlyPort(k, k2, p)
             /\ Reads(k2.port[p], r.at, r.in_use, r.references, x, r.owner, r.backup)
             /\ Shift(k, k2, p, 0)
<1> DEFINE r == k.port[p]
           r2 == [r EXCEPT !.receiver = x]
<1>1. r \in KPort
  BY PortOf
<1>2. r2 \in KPort /\ Reads(r2, r.at, r.in_use, r.references, x, r.owner, r.backup)
  BY <1>1 DEF KPort, Reads
<1>3. [k EXCEPT !.port[p].receiver = x] = [k EXCEPT !.port[p] = r2]
  OBVIOUS
<1>4. r2.references - r.references = 0
  BY <1>1, <1>2 DEF KPort, Reads
<1> QED
  BY <1>2, <1>3, <1>4, SetPort DEF Reads

LEMMA SetOwner ==
  ASSUME NEW k \in KState, NEW p \in Ports, NEW x \in Holders
  PROVE  LET k2 == [k EXCEPT !.port[p].owner = x]
             r == k.port[p]
         IN  /\ OnlyPort(k, k2, p)
             /\ Reads(k2.port[p], r.at, r.in_use, r.references, r.receiver, x, r.backup)
             /\ Shift(k, k2, p, 0)
<1> DEFINE r == k.port[p]
           r2 == [r EXCEPT !.owner = x]
<1>1. r \in KPort
  BY PortOf
<1>2. r2 \in KPort /\ Reads(r2, r.at, r.in_use, r.references, r.receiver, x, r.backup)
  BY <1>1 DEF KPort, Reads
<1>3. [k EXCEPT !.port[p].owner = x] = [k EXCEPT !.port[p] = r2]
  OBVIOUS
<1>4. r2.references - r.references = 0
  BY <1>1, <1>2 DEF KPort, Reads
<1> QED
  BY <1>2, <1>3, <1>4, SetPort DEF Reads

LEMMA SetInUse ==
  ASSUME NEW k \in KState, NEW p \in Ports, NEW x \in BOOLEAN
  PROVE  LET k2 == [k EXCEPT !.port[p].in_use = x]
             r == k.port[p]
         IN  /\ OnlyPort(k, k2, p)
             /\ Reads(k2.port[p], r.at, x, r.references, r.receiver, r.owner, r.backup)
             /\ Shift(k, k2, p, 0)
<1> DEFINE r == k.port[p]
           r2 == [r EXCEPT !.in_use = x]
<1>1. r \in KPort
  BY PortOf
<1>2. r2 \in KPort /\ Reads(r2, r.at, x, r.references, r.receiver, r.owner, r.backup)
  BY <1>1 DEF KPort, Reads
<1>3. [k EXCEPT !.port[p].in_use = x] = [k EXCEPT !.port[p] = r2]
  OBVIOUS
<1>4. r2.references - r.references = 0
  BY <1>1, <1>2 DEF KPort, Reads
<1> QED
  BY <1>2, <1>3, <1>4, SetPort DEF Reads

LEMMA SetNamed ==
  ASSUME NEW k \in KState, NEW p \in Ports, NEW x \in BOOLEAN
  PROVE  LET k2 == [k EXCEPT !.port[p].named = x]
             r == k.port[p]
         IN  /\ OnlyPort(k, k2, p)
             /\ Reads(k2.port[p], r.at, r.in_use, r.references, r.receiver, r.owner, r.backup)
             /\ Shift(k, k2, p, 0)
<1> DEFINE r == k.port[p]
           r2 == [r EXCEPT !.named = x]
<1>1. r \in KPort
  BY PortOf
<1>2. r2 \in KPort /\ Reads(r2, r.at, r.in_use, r.references, r.receiver, r.owner, r.backup)
  BY <1>1 DEF KPort, Reads
<1>3. [k EXCEPT !.port[p].named = x] = [k EXCEPT !.port[p] = r2]
  OBVIOUS
<1>4. r2.references - r.references = 0
  BY <1>1, <1>2 DEF KPort, Reads
<1> QED
  BY <1>2, <1>3, <1>4, SetPort DEF Reads

LEMMA SetAt ==
  ASSUME NEW k \in KState, NEW p \in Ports, NEW x \in {"new", "live", "freed"}
  PROVE  LET k2 == [k EXCEPT !.port[p].at = x]
             r == k.port[p]
         IN  /\ OnlyPort(k, k2, p)
             /\ Reads(k2.port[p], x, r.in_use, r.references, r.receiver, r.owner, r.backup)
             /\ Shift(k, k2, p, 0)
<1> DEFINE r == k.port[p]
           r2 == [r EXCEPT !.at = x]
<1>1. r \in KPort
  BY PortOf
<1>2. r2 \in KPort /\ Reads(r2, x, r.in_use, r.references, r.receiver, r.owner, r.backup)
  BY <1>1 DEF KPort, Reads
<1>3. [k EXCEPT !.port[p].at = x] = [k EXCEPT !.port[p] = r2]
  OBVIOUS
<1>4. r2.references - r.references = 0
  BY <1>1, <1>2 DEF KPort, Reads
<1> QED
  BY <1>2, <1>3, <1>4, SetPort DEF Reads

LEMMA SetBackup ==
  ASSUME NEW k \in KState, NEW p \in Ports, NEW x \in Ports \cup {Nil}
  PROVE  LET k2 == [k EXCEPT !.port[p].backup = x]
             r == k.port[p]
         IN  /\ OnlyPort(k, k2, p)
             /\ Reads(k2.port[p], r.at, r.in_use, r.references, r.receiver, r.owner, x)
             /\ \A c \in Calls, q \in Ports :
                   Spare(k2, c, q) = Spare(k, c, q) + Bit(r.backup = q) - Bit(x = q)
<1> DEFINE r == k.port[p]
           r2 == [r EXCEPT !.backup = x]
           k2 == [k EXCEPT !.port[p].backup = x]
<1>1. r \in KPort
  BY PortOf
<1>2. r2 \in KPort /\ Reads(r2, r.at, r.in_use, r.references, r.receiver, r.owner, x)
  BY <1>1 DEF KPort, Reads
<1>3. k2 = [k EXCEPT !.port[p] = r2]
  OBVIOUS
<1>4. OnlyPort(k, k2, p) /\ k2.port[p] = r2
  BY <1>2, <1>3, SetPort
<1>5. ASSUME NEW c \in Calls, NEW q \in Ports
      PROVE  Spare(k2, c, q) = Spare(k, c, q) + Bit(r.backup = q) - Bit(x = q)
  <2>1. Cardinality(BackedUp(k2.port, q)) =
          Cardinality(BackedUp(k.port, q)) + Bit(p \in BackedUp(k2.port, q))
                                           - Bit(p \in BackedUp(k.port, q))
    <3>1. BackedUp(k2.port, q) \in SUBSET Ports /\ BackedUp(k.port, q) \in SUBSET Ports
      BY DEF BackedUp
    <3>2. \A y \in Ports \ {p} : y \in BackedUp(k.port, q) <=> y \in BackedUp(k2.port, q)
      BY <1>4 DEF BackedUp, OnlyPort
    <3> QED
      BY <3>1, <3>2, Finite, CardChange
  <2>2. /\ p \in BackedUp(k2.port, q) <=> x = q
        /\ p \in BackedUp(k.port, q) <=> r.backup = q
    BY <1>2, <1>4 DEF BackedUp, Reads
  <2>3. Cardinality(BackedUp(k2.port, q)) =
          Cardinality(BackedUp(k.port, q)) + Bit(x = q) - Bit(r.backup = q)
    BY <2>1, <2>2 DEF Bit
  <2>4. k2.port[q].references = k.port[q].references
    BY <1>2, <1>4 DEF OnlyPort, Reads
  <2> HIDE DEF k2, r
  <2>5. Bit(x = q) \in Int /\ Bit(r.backup = q) \in Int
    BY DEF Bit
  <2> QED
    BY <1>4, <2>3, <2>4, <2>5, CountsType DEF Spare, Counted, OnlyPort
<1> QED
  BY <1>2, <1>4, <1>5 DEF Reads

LEMMA SetEntry ==
  ASSUME NEW k \in KState, NEW t \in Tasks, NEW p \in Ports, NEW x \in Entries
  PROVE  LET k2 == [k EXCEPT !.entry[t][p] = x]
         IN  /\ k2 \in KState
             /\ k2.port = k.port /\ k2.slot = k.slot
             /\ k2.dying = k.dying /\ k2.surplus = k.surplus
             /\ k2.entry = [k.entry EXCEPT ![t][p] = x]
             /\ Shift(k, k2, p, Bit(k.entry[t][p] \in Types) - Bit(x \in Types))
<1> DEFINE k2 == [k EXCEPT !.entry[t][p] = x]
<1>1. k.entry \in KEntry /\ [k.entry EXCEPT ![t][p] = x] \in KEntry
  <2>1. k.entry \in KEntry
    BY DEF KState
  <2> QED
    BY <2>1 DEF KEntry
<1>2. /\ k2 \in KState
      /\ k2.port = k.port /\ k2.slot = k.slot
      /\ k2.dying = k.dying /\ k2.surplus = k.surplus
      /\ k2.entry = [k.entry EXCEPT ![t][p] = x]
  BY <1>1 DEF KState
<1>3. ASSUME NEW c \in Calls, NEW q \in Ports
      PROVE  Spare(k2, c, q) = Spare(k, c, q) +
                (IF q = p THEN Bit(k.entry[t][p] \in Types) - Bit(x \in Types) ELSE 0)
  <2>1. Cardinality(Translated(k2.entry, q)) =
          Cardinality(Translated(k.entry, q)) + Bit(t \in Translated(k2.entry, q))
                                              - Bit(t \in Translated(k.entry, q))
    <3>1. Translated(k2.entry, q) \in SUBSET Tasks /\ Translated(k.entry, q) \in SUBSET Tasks
      BY DEF Translated
    <3>2. \A u \in Tasks \ {t} : u \in Translated(k.entry, q) <=> u \in Translated(k2.entry, q)
      BY <1>1, <1>2 DEF Translated, KEntry
    <3> QED
      BY <3>1, <3>2, Finite, CardChange
  <2>2. /\ t \in Translated(k2.entry, q) <=> (IF q = p THEN x ELSE k.entry[t][q]) \in Types
        /\ t \in Translated(k.entry, q) <=> k.entry[t][q] \in Types
    BY <1>1, <1>2 DEF Translated, KEntry
  <2>3. Cardinality(Translated(k2.entry, q)) = Cardinality(Translated(k.entry, q)) +
          (IF q = p THEN Bit(x \in Types) - Bit(k.entry[t][p] \in Types) ELSE 0)
    BY <2>1, <2>2, <1>2, CountsType DEF Bit
  <2> HIDE DEF k2
  <2>4. Bit(x \in Types) \in Int /\ Bit(k.entry[t][p] \in Types) \in Int
    BY DEF Bit
  <2> QED
    BY <1>2, <2>3, <2>4, CountsType DEF Spare, Counted
<1> QED
  BY <1>2, <1>3 DEF Shift

LEMMA SetSlot ==
  ASSUME NEW k \in KState, NEW s \in Slots, NEW x \in KSlot
  PROVE  LET k2 == [k EXCEPT !.slot[s] = x]
         IN  /\ k2 \in KState
             /\ k2.port = k.port /\ k2.entry = k.entry
             /\ k2.dying = k.dying /\ k2.surplus = k.surplus
             /\ k2.slot = [k.slot EXCEPT ![s] = x]
             /\ \A c \in Calls, q \in Ports :
                   Spare(k2, c, q) = Spare(k, c, q) + Bit(Filled(k.slot[s], q))
                                                    - Bit(Filled(x, q))
<1> DEFINE k2 == [k EXCEPT !.slot[s] = x]
<1>1. /\ k2 \in KState
      /\ k2.port = k.port /\ k2.entry = k.entry
      /\ k2.dying = k.dying /\ k2.surplus = k.surplus
      /\ k2.slot = [k.slot EXCEPT ![s] = x]
  BY DEF KState
<1>2. k.slot \in [Slots -> KSlot]
  BY DEF KState
<1>3. ASSUME NEW c \in Calls, NEW q \in Ports
      PROVE  Spare(k2, c, q) = Spare(k, c, q) + Bit(Filled(k.slot[s], q)) - Bit(Filled(x, q))
  <2>1. Cardinality(Carriers(k2.slot, q)) =
          Cardinality(Carriers(k.slot, q)) + Bit(s \in Carriers(k2.slot, q))
                                           - Bit(s \in Carriers(k.slot, q))
    <3>1. Carriers(k2.slot, q) \in SUBSET Slots /\ Carriers(k.slot, q) \in SUBSET Slots
      BY DEF Carriers
    <3>2. \A u \in Slots \ {s} : u \in Carriers(k.slot, q) <=> u \in Carriers(k2.slot, q)
      BY <1>1, <1>2 DEF Carriers
    <3> QED
      BY <3>1, <3>2, Finite, CardChange
  <2>2. /\ s \in Carriers(k2.slot, q) <=> Filled(x, q)
        /\ s \in Carriers(k.slot, q) <=> Filled(k.slot[s], q)
    BY <1>1, <1>2 DEF Carriers
  <2>3. Cardinality(Carriers(k2.slot, q)) = Cardinality(Carriers(k.slot, q))
          + Bit(Filled(x, q)) - Bit(Filled(k.slot[s], q))
    BY <2>1, <2>2 DEF Bit
  <2> HIDE DEF k2
  <2>4. Bit(Filled(x, q)) \in Int /\ Bit(Filled(k.slot[s], q)) \in Int
    BY DEF Bit
  <2>5. Counted(k2, c, q) = Counted(k, c, q) + Bit(Filled(x, q)) - Bit(Filled(k.slot[s], q))
    BY <1>1, <2>3, <2>4, CountsType DEF Counted
  <2>6. Counted(k, c, q) \in Int /\ k.port[q].references \in Int
    BY CountsType DEF Counted
  <2> QED
    BY <1>1, <2>4, <2>5, <2>6 DEF Spare
<1> QED
  BY <1>1, <1>3

LEMMA SetDying ==
  ASSUME NEW k \in KState, NEW p \in Ports, NEW x \in KDying
  PROVE  LET k2 == [k EXCEPT !.dying[p] = x]
         IN  /\ k2 \in KState
             /\ k2.port = k.port /\ k2.entry = k.entry
             /\ k2.slot = k.slot /\ k2.surplus = k.surplus
             /\ k2.dying = [k.dying EXCEPT ![p] = x]
             /\ Shift(k, k2, p, Bit(Marked(k.dying[p])) - Bit(Marked(x)))
<1> DEFINE k2 == [k EXCEPT !.dying[p] = x]
<1>1. /\ k2 \in KState
      /\ k2.port = k.port /\ k2.entry = k.entry
      /\ k2.slot = k.slot /\ k2.surplus = k.surplus
      /\ k2.dying = [k.dying EXCEPT ![p] = x]
  BY DEF KState
<1>2. k.dying \in [Ports -> KDying]
  BY DEF KState
<1>3. ASSUME NEW c \in Calls, NEW q \in Ports
      PROVE  Spare(k2, c, q) = Spare(k, c, q) +
                (IF q = p THEN Bit(Marked(k.dying[p])) - Bit(Marked(x)) ELSE 0)
  <2>1. k2.dying[q] = IF q = p THEN x ELSE k.dying[q]
    BY <1>1, <1>2
  <2> HIDE DEF k2
  <2>2. Bit(Marked(x)) \in Int /\ Bit(Marked(k.dying[p])) \in Int
    BY DEF Bit
  <2>3. Counted(k2, c, q) = Counted(k, c, q) +
          (IF q = p THEN Bit(Marked(x)) - Bit(Marked(k.dying[p])) ELSE 0)
    BY <1>1, <2>1, <2>2, CountsType DEF Counted
  <2>4. Counted(k, c, q) \in Int /\ k.port[q].references \in Int
    BY CountsType DEF Counted
  <2> QED
    BY <1>1, <2>2, <2>3, <2>4 DEF Spare
<1> QED
  BY <1>1, <1>3 DEF Shift

LEMMA SetSurplus ==
  ASSUME NEW k \in KState, NEW p \in Ports, NEW x \in Nat
  PROVE  LET k2 == [k EXCEPT !.surplus[p] = x]
         IN  /\ k2 \in KState
             /\ k2.port = k.port /\ k2.entry = k.entry
             /\ k2.slot = k.slot /\ k2.dying = k.dying
             /\ k2.surplus = [k.surplus EXCEPT ![p] = x]
             /\ Shift(k, k2, p, k.surplus[p] - x)
<1> DEFINE k2 == [k EXCEPT !.surplus[p] = x]
<1>1. /\ k2 \in KState
      /\ k2.port = k.port /\ k2.entry = k.entry
      /\ k2.slot = k.slot /\ k2.dying = k.dying
      /\ k2.surplus = [k.surplus EXCEPT ![p] = x]
  BY DEF KState
<1>2. k.surplus \in [Ports -> Nat]
  BY DEF KState
<1>3. ASSUME NEW c \in Calls, NEW q \in Ports
      PROVE  Spare(k2, c, q) = Spare(k, c, q) + (IF q = p THEN k.surplus[p] - x ELSE 0)
  <2>1. k2.surplus[q] = IF q = p THEN x ELSE k.surplus[q]
    BY <1>1, <1>2
  <2> HIDE DEF k2
  <2> QED
    BY <1>1, <1>2, <2>1, CountsType DEF Spare, Counted
<1> QED
  BY <1>1, <1>3 DEF Shift

Works(v, p) == v.ref /\ v.port = p

WithCall(c, t, x) == [c EXCEPT ![t] = x]

\* port_dealloc starts or ends for a task.
LEMMA SetCall ==
  ASSUME NEW k \in KState, NEW c \in Calls, NEW t \in Tasks, NEW x \in KCall
  PROVE  LET c2 == WithCall(c, t, x)
         IN  /\ c2 \in Calls
             /\ \A q \in Ports : Spare(k, c2, q) =
                    Spare(k, c, q) + Bit(Works(c[t], q)) - Bit(Works(x, q))
<1> DEFINE c2 == WithCall(c, t, x)
<1>0. c2 = [c EXCEPT ![t] = x]
  BY DEF WithCall
<1> HIDE DEF c2
<1>1. c2 \in Calls
  BY <1>0 DEF Calls
<1>2. ASSUME NEW q \in Ports
      PROVE  Spare(k, c2, q) = Spare(k, c, q) + Bit(Works(c[t], q)) - Bit(Works(x, q))
  <2>1. Cardinality(Working(c2, q)) =
          Cardinality(Working(c, q)) + Bit(t \in Working(c2, q)) - Bit(t \in Working(c, q))
    <3>1. Working(c2, q) \in SUBSET Tasks /\ Working(c, q) \in SUBSET Tasks
      BY DEF Working
    <3>2. \A u \in Tasks \ {t} : u \in Working(c, q) <=> u \in Working(c2, q)
      BY <1>0 DEF Working, Calls
    <3> QED
      BY <3>1, <3>2, Finite, CardChange
  <2>2. /\ t \in Working(c2, q) <=> Works(x, q)
        /\ t \in Working(c, q) <=> Works(c[t], q)
    BY <1>0 DEF Working, Works, Calls
  <2>3. Cardinality(Working(c2, q)) = Cardinality(Working(c, q))
          + Bit(Works(x, q)) - Bit(Works(c[t], q))
    BY <2>1, <2>2 DEF Bit
  <2>4. Bit(Works(x, q)) \in Int /\ Bit(Works(c[t], q)) \in Int
    BY DEF Bit
  <2>5. Counted(k, c2, q) = Counted(k, c, q) + Bit(Works(x, q)) - Bit(Works(c[t], q))
    BY <2>3, <2>4, CountsType DEF Counted
  <2>6. Counted(k, c, q) \in Int /\ k.port[q].references \in Int
    BY CountsType DEF Counted
  <2> QED
    BY <2>4, <2>5, <2>6 DEF Spare
<1> QED
  BY <1>1, <1>2 DEF c2

-----------------------------------------------------------------------------
(* The routines.                                                           *)

LEMMA ReferencedIs ==
  ASSUME NEW k \in KState, NEW p \in Ports
  PROVE  LET k2 == Referenced(k, p)
             r == k.port[p]
         IN  /\ OnlyPort(k, k2, p)
             /\ Reads(k2.port[p], r.at, r.in_use, r.references + 1, r.receiver, r.owner,
                      r.backup)
             /\ Shift(k, k2, p, 1)
<1> DEFINE n == k.port[p].references + 1
<1>1. k.port[p].references \in Int /\ n \in Int /\ n - k.port[p].references = 1
  BY PortOf DEF KPort
<1>2. Referenced(k, p) = [k EXCEPT !.port[p].references = n]
  BY DEF Referenced
<1> HIDE DEF n
<1>3. Shift(k, Referenced(k, p), p, 1)
  BY <1>1, <1>2, SetReferences
<1>4. /\ OnlyPort(k, Referenced(k, p), p)
      /\ LET r == k.port[p]
         IN  Reads(Referenced(k, p).port[p], r.at, r.in_use, n, r.receiver, r.owner, r.backup)
  BY <1>1, <1>2, SetReferences
<1> QED
  BY <1>3, <1>4 DEF n

LEMMA DroppedIs ==
  ASSUME NEW k \in KState, NEW p \in Ports
  PROVE  LET k2 == Dropped(k, p)
             r == k.port[p]
         IN  /\ OnlyPort(k, k2, p)
             /\ Reads(k2.port[p], r.at, r.in_use, r.references - 1, r.receiver, r.owner,
                      r.backup)
             /\ Shift(k, k2, p, -1)
<1> DEFINE n == k.port[p].references - 1
<1>1. k.port[p].references \in Int /\ n \in Int /\ n - k.port[p].references = -1
  BY PortOf DEF KPort
<1>2. Dropped(k, p) = [k EXCEPT !.port[p].references = n]
  BY DEF Dropped
<1> HIDE DEF n
<1>3. Shift(k, Dropped(k, p), p, -1)
  BY <1>1, <1>2, SetReferences
<1>4. /\ OnlyPort(k, Dropped(k, p), p)
      /\ LET r == k.port[p]
         IN  Reads(Dropped(k, p).port[p], r.at, r.in_use, n, r.receiver, r.owner, r.backup)
  BY <1>1, <1>2, SetReferences
<1> QED
  BY <1>3, <1>4 DEF n

LEMMA ClearedIs ==
  ASSUME NEW k \in KState, NEW p \in Ports, NEW x \in Holders
  PROVE  LET k2 == port_clear_receiver(k, p, x)
             r == k.port[p]
         IN  /\ OnlyPort(k, k2, p)
             /\ Reads(k2.port[p], r.at, r.in_use, r.references, x, r.owner, r.backup)
             /\ Shift(k, k2, p, 0)
<1> DEFINE r == k.port[p]
           r2 == [r EXCEPT !.receiver = x, !.named = FALSE]
<1>1. r \in KPort
  BY PortOf
<1>2. r2 \in KPort /\ Reads(r2, r.at, r.in_use, r.references, x, r.owner, r.backup)
  BY <1>1 DEF KPort, Reads
<1>3. port_clear_receiver(k, p, x) = [k EXCEPT !.port[p] = r2]
  BY DEF port_clear_receiver
<1>4. r2.references - r.references = 0 /\ r2.backup = r.backup
  BY <1>1, <1>2 DEF KPort, Reads
<1> HIDE DEF r2
<1>5. /\ OnlyPort(k, port_clear_receiver(k, p, x), p)
      /\ port_clear_receiver(k, p, x).port[p] = r2
      /\ Shift(k, port_clear_receiver(k, p, x), p, 0)
  BY <1>2, <1>3, <1>4, SetPort
<1> QED
  BY <1>2, <1>5

\* The storage is freed or not; nothing else changes.
LEMMA CheckUnlockIs ==
  ASSUME NEW k \in KState, NEW p \in Ports
  PROVE  LET k2 == CheckUnlock(k, p)
             r == k.port[p]
         IN  /\ OnlyPort(k, k2, p)
             /\ Reads(k2.port[p], IF r.references <= 0 THEN "freed" ELSE r.at, r.in_use,
                      r.references, r.receiver, r.owner, r.backup)
             /\ Shift(k, k2, p, 0)
<1>1. CASE k.port[p].references <= 0
  <2>1. CheckUnlock(k, p) = [k EXCEPT !.port[p].at = "freed"]
    BY <1>1 DEF CheckUnlock
  <2> QED
    BY <1>1, <2>1, SetAt
<1>2. CASE ~(k.port[p].references <= 0)
  <2>1. CheckUnlock(k, p) = k
    BY <1>2 DEF CheckUnlock
  <2>2. k.port[p] \in KPort
    BY PortOf
  <2>3. Shift(k, k, p, 0)
    BY SpareType DEF Shift
  <2> QED
    BY <1>2, <2>1, <2>2, <2>3 DEF OnlyPort, Reads
<1> QED
  BY <1>1, <1>2

-----------------------------------------------------------------------------
(* Rights in messages.                                                     *)

\* The right of p is in a message, and nowhere else, if the entry is x.
Carried(x, p, right) ==
    x.at \in {"live", "doomed"} /\ x.obj = p /\ right \in Carries(x.rights)

\* A request that has inserted p into a task, and is yet to be destroyed.
Kept(x, p) == x.at = "used" /\ x.obj = p /\ x.rights # "PORT"

Carrying(k, p, right) == {s \in Slots : Carried(k.slot[s], p, right)}
Used(k, p) == {s \in Slots : Kept(k.slot[s], p)}

LEMMA SlotSets ==
  ASSUME NEW k \in KState, NEW s \in Slots, NEW x \in KSlot, NEW k2,
         k2.slot = [k.slot EXCEPT ![s] = x], NEW q \in Ports
  PROVE  /\ \A right \in {"receive", "own"} :
                Carrying(k2, q, right) = IF Carried(x, q, right)
                                         THEN Carrying(k, q, right) \cup {s}
                                         ELSE Carrying(k, q, right) \ {s}
         /\ Used(k2, q) = IF Kept(x, q) THEN Used(k, q) \cup {s} ELSE Used(k, q) \ {s}
<1>1. k2.slot[s] = x /\ \A i \in Slots \ {s} : k2.slot[i] = k.slot[i]
  BY DEF KState
<1> QED
  BY <1>1 DEF Carrying, Used

\* A right of p, with a reference of the caller's, is put in a free message.
Posted(k, k2, p, rights, to) ==
    /\ k2 \in KState
    /\ k2.port = k.port
    /\ k2.entry = k.entry
    /\ k2.dying = k.dying
    /\ k2.surplus = k.surplus
    /\ Shift(k, k2, p, -1)
    /\ \E s \in Slots :
         /\ k.slot[s].at = "free"
         /\ k2.slot = [k.slot EXCEPT ![s] =
                         [at |-> "live", obj |-> p, rights |-> rights, to |-> to]]
         /\ \A q \in Ports :
              /\ \A right \in {"receive", "own"} :
                   Carrying(k2, q, right) =
                      IF q = p /\ right \in Carries(rights)
                      THEN Carrying(k, q, right) \cup {s} ELSE Carrying(k, q, right)
              /\ Used(k2, q) = Used(k, q)

LEMMA PutInMessageIs ==
  ASSUME NEW k \in KState, NEW p \in Ports, NEW rights \in Rights,
         NEW to \in Tasks \cup {Nil}, FreeSlots(k) # {}
  PROVE  Posted(k, PutInMessage(k, p, rights, to), p, rights, to)
<1> DEFINE s == CHOOSE i \in FreeSlots(k) : TRUE
           x == [at |-> "live", obj |-> p, rights |-> rights, to |-> to]
           k2 == PutInMessage(k, p, rights, to)
<1>1. s \in Slots /\ k.slot[s].at = "free"
  BY DEF FreeSlots
<1>2. x \in KSlot
  BY DEF KSlot
<1>3. k2 = [k EXCEPT !.slot[s] = x]
  BY DEF PutInMessage
<1> HIDE DEF s, k2
<1>4. /\ k2 \in KState
      /\ k2.port = k.port /\ k2.entry = k.entry
      /\ k2.dying = k.dying /\ k2.surplus = k.surplus
      /\ k2.slot = [k.slot EXCEPT ![s] = x]
      /\ \A c \in Calls, q \in Ports :
            Spare(k2, c, q) = Spare(k, c, q) + Bit(Filled(k.slot[s], q)) - Bit(Filled(x, q))
  BY <1>1, <1>2, <1>3, SetSlot
<1>5. Shift(k, k2, p, -1)
  <2>1. \A q \in Ports : Bit(Filled(k.slot[s], q)) = 0 /\ Bit(Filled(x, q)) = IF q = p THEN 1 ELSE 0
    BY <1>1 DEF Bit, Filled
  <2> QED
    BY <1>4, <2>1, SpareType DEF Shift
<1>6. ASSUME NEW q \in Ports
      PROVE  /\ \A right \in {"receive", "own"} :
                   Carrying(k2, q, right) =
                       IF q = p /\ right \in Carries(rights)
                       THEN Carrying(k, q, right) \cup {s} ELSE Carrying(k, q, right)
             /\ Used(k2, q) = Used(k, q)
  <2>1. \A right : Carried(x, q, right) <=> q = p /\ right \in Carries(rights)
    BY DEF Carried
  <2>2. ~Kept(x, q) /\ s \notin Used(k, q) /\ \A right : s \notin Carrying(k, q, right)
    BY <1>1 DEF Kept, Used, Carrying, Carried
  <2>3. /\ \A right \in {"receive", "own"} :
               Carrying(k2, q, right) = IF Carried(x, q, right)
                                        THEN Carrying(k, q, right) \cup {s}
                                        ELSE Carrying(k, q, right) \ {s}
        /\ Used(k2, q) = IF Kept(x, q) THEN Used(k, q) \cup {s} ELSE Used(k, q) \ {s}
    BY <1>1, <1>2, <1>4, SlotSets
  <2> HIDE DEF x
  <2> QED
    BY <2>1, <2>2, <2>3
<1> QED
  BY <1>1, <1>4, <1>5, <1>6 DEF k2, Posted

\* obj_entry_create: the entry is worth a reference.
LEMMA EntryCreatedIs ==
  ASSUME NEW k \in KState, NEW t \in Tasks, NEW p \in Ports, NEW x \in Entries
  PROVE  LET k2 == EntryCreated(k, t, p, x)
             r == k.port[p]
         IN  /\ k2 \in KState
             /\ \A q \in Ports \ {p} : k2.port[q] = k.port[q]
             /\ Reads(k2.port[p], r.at, r.in_use, r.references + 1, r.receiver, r.owner,
                      r.backup)
             /\ k2.slot = k.slot /\ k2.dying = k.dying /\ k2.surplus = k.surplus
             /\ k2.entry = [k.entry EXCEPT ![t][p] = x]
             /\ Shift(k, k2, p, 1 + Bit(k.entry[t][p] \in Types) - Bit(x \in Types))
<1> DEFINE k1 == [k EXCEPT !.entry[t][p] = x]
           k2 == Referenced(k1, p)
           d == Bit(k.entry[t][p] \in Types) - Bit(x \in Types)
<1>1. /\ k1 \in KState
      /\ k1.port = k.port /\ k1.slot = k.slot
      /\ k1.dying = k.dying /\ k1.surplus = k.surplus
      /\ k1.entry = [k.entry EXCEPT ![t][p] = x]
      /\ Shift(k, k1, p, d)
  BY SetEntry
<1> HIDE DEF k1
<1>2. /\ OnlyPort(k1, k2, p)
      /\ LET r == k1.port[p]
         IN  Reads(k2.port[p], r.at, r.in_use, r.references + 1, r.receiver, r.owner, r.backup)
      /\ Shift(k1, k2, p, 1)
  BY <1>1, ReferencedIs
<1> HIDE DEF k2
<1>3. d \in Int
  BY DEF Bit
<1>4. Shift(k, k2, p, 1 + d)
  <2> HIDE DEF d
  <2> SUFFICES ASSUME NEW c \in Calls, NEW q \in Ports
               PROVE  Spare(k2, c, q) = Spare(k, c, q) + (IF q = p THEN 1 + d ELSE 0)
    BY DEF Shift
  <2>1. Spare(k1, c, q) = Spare(k, c, q) + (IF q = p THEN d ELSE 0)
    BY <1>1 DEF Shift
  <2>2. Spare(k2, c, q) = Spare(k1, c, q) + (IF q = p THEN 1 ELSE 0)
    BY <1>2 DEF Shift
  <2>3. Spare(k, c, q) \in Int
    BY SpareType
  <2> QED
    BY <1>3, <2>1, <2>2, <2>3
<1>5. k2 = EntryCreated(k, t, p, x)
  BY DEF k1, k2, EntryCreated
<1>6. 1 + d = 1 + Bit(k.entry[t][p] \in Types) - Bit(x \in Types)
  <2>1. Bit(k.entry[t][p] \in Types) \in Int /\ Bit(x \in Types) \in Int
    BY DEF Bit
  <2> QED
    BY <2>1
<1> QED
  BY <1>1, <1>2, <1>4, <1>5, <1>6 DEF OnlyPort

\* obj_entry_destroy gives the reference of a translation back.
LEMMA EntryDestroyedIs ==
  ASSUME NEW k \in KState, NEW t \in Tasks, NEW p \in Ports, k.entry[t][p] \in Types
  PROVE  LET k2 == obj_entry_destroy(k, t, p)
             r == k.port[p]
         IN  /\ k2 \in KState
             /\ \A q \in Ports \ {p} : k2.port[q] = k.port[q]
             /\ Reads(k2.port[p], r.at, r.in_use, r.references - 1, r.receiver, r.owner,
                      r.backup)
             /\ k2.slot = k.slot /\ k2.dying = k.dying /\ k2.surplus = k.surplus
             /\ k2.entry = [k.entry EXCEPT ![t][p] = IF r.in_use THEN "none" ELSE "half"]
             /\ Shift(k, k2, p, 0)
<1> DEFINE x == IF k.port[p].in_use THEN "none" ELSE "half"
           k1 == [k EXCEPT !.entry[t][p] = x]
           k2 == Dropped(k1, p)
<1>1. x \in Entries /\ Bit(k.entry[t][p] \in Types) - Bit(x \in Types) = 1
  BY DEF Entries, Bit, Types
<1>2. k2 = obj_entry_destroy(k, t, p)
  BY DEF obj_entry_destroy
<1> HIDE DEF x
<1>3. /\ k1 \in KState
      /\ k1.port = k.port /\ k1.slot = k.slot
      /\ k1.dying = k.dying /\ k1.surplus = k.surplus
      /\ k1.entry = [k.entry EXCEPT ![t][p] = x]
      /\ Shift(k, k1, p, 1)
  BY <1>1, SetEntry
<1> HIDE DEF k1
<1>4. /\ OnlyPort(k1, k2, p)
      /\ LET r == k1.port[p]
         IN  Reads(k2.port[p], r.at, r.in_use, r.references - 1, r.receiver, r.owner, r.backup)
      /\ Shift(k1, k2, p, -1)
  BY <1>3, DroppedIs
<1> HIDE DEF k2
<1>5. Shift(k, k2, p, 0)
  <2> SUFFICES ASSUME NEW c \in Calls, NEW q \in Ports
               PROVE  Spare(k2, c, q) = Spare(k, c, q) + (IF q = p THEN 0 ELSE 0)
    BY DEF Shift
  <2>1. Spare(k1, c, q) = Spare(k, c, q) + (IF q = p THEN 1 ELSE 0)
    BY <1>3 DEF Shift
  <2>2. Spare(k2, c, q) = Spare(k1, c, q) + (IF q = p THEN -1 ELSE 0)
    BY <1>4 DEF Shift
  <2>3. Spare(k, c, q) \in Int
    BY SpareType
  <2> QED
    BY <2>1, <2>2, <2>3
<1> QED
  BY <1>2, <1>3, <1>4, <1>5 DEF OnlyPort, x

-----------------------------------------------------------------------------
(* The inductive invariant.                                                *)

\* A right is in the one message that its holder says, or in none.
InOneMessage(k, p, right, holder) ==
    /\ holder = Soft => \E s \in Slots : Carrying(k, p, right) = {s}
    /\ holder # Soft => Carrying(k, p, right) = {}

\* The translation of t is what the port's receiver and owner say.
Agrees(receiver, owner, t, type) ==
    /\ receiver = t /\ owner = t => type = "RECEIVE_OWN"
    /\ receiver = t /\ owner # t => type = "RECEIVE"
    /\ receiver # t /\ owner = t => type = "OWN"
    /\ receiver # t /\ owner # t => type \in {"none", "SEND"}

InUse(k, p) ==
    /\ k.port[p].at = "live"
    /\ k.dying[p] = "no"
    /\ \A t \in Tasks : Agrees(k.port[p].receiver, k.port[p].owner, t, k.entry[t][p])
    /\ InOneMessage(k, p, "receive", k.port[p].receiver)
    /\ InOneMessage(k, p, "own", k.port[p].owner)
    /\ ~(k.port[p].receiver = Nil /\ k.port[p].owner = Nil)

\* Before its creation and from port_destroy on, a port has neither rights nor
\* a backup; obj_destroy_rights leaves no entry.
NotInUse(k, p) ==
    /\ k.port[p].receiver = Nil
    /\ k.port[p].owner = Nil
    /\ k.port[p].backup = Nil
    /\ \A t \in Tasks : k.entry[t][p] \in {"none", "SEND", "half"}
    /\ k.port[p].at = "new" <=> k.dying[p] = "no"
    /\ k.dying[p] \in {"no", "done"} => \A t \in Tasks : k.entry[t][p] = "none"
    /\ k.dying[p] \in Tasks => k.entry[k.dying[p]][p] # "none"

\* A right that was inserted into a task is still there when the request that
\* brought it is destroyed.
Settled(k, p) ==
    Used(k, p) # {} => k.port[p].receiver \in MayInsert /\ k.port[p].owner \in MayInsert

Local(k, p) ==
    /\ k.port[p].in_use => InUse(k, p)
    /\ ~k.port[p].in_use => NotInUse(k, p)
    /\ Settled(k, p)

LiveOK(k, p) == (k.port[p].at = "live") <=> (k.port[p].references > 0)

SlotsOK(k) == \A s \in Slots : k.slot[s].at # "free" => k.slot[s].obj \in Ports

KInv(k, c) ==
    /\ k \in KState
    /\ SlotsOK(k)
    /\ \A p \in Ports : Local(k, p) /\ Spare(k, c, p) = 0 /\ LiveOK(k, p)

\* Tasks that rights may be inserted into never deallocate a port.
CallOK(t, c, state) ==
    /\ c.at # "no" => c.port \in Ports
    /\ c.at = "no" => ~c.ref
    /\ c.at = "dealloc" => state = "ending" \/ c.ref
    /\ c.at = "release" => c.ref
    /\ c.at # "no" \/ state # "active" => t \notin MayInsert

TasksOK(k, c, ta) ==
    /\ c \in Calls
    /\ ta \in [Tasks -> {"active", "ending", "ended"}]
    /\ \A t \in Tasks :
         /\ CallOK(t, c[t], ta[t])
         /\ ta[t] = "ended" => \A p \in Ports : k.entry[t][p] \notin Types

IInv == KInv(State, call) /\ TasksOK(State, call, task)

-----------------------------------------------------------------------------
(* What the invariant gives, and how a step keeps it.                      *)

LEMMA Landing ==
  ASSUME NEW k \in KState, Becomes(k)
  PROVE  State' = k
BY DEF KState, Becomes, State

LEMMA StateFields ==
  /\ State.port = port /\ State.entry = entry /\ State.slot = slot
  /\ State.dying = dying /\ State.surplus = surplus
BY DEF State

LEMMA CardPositive ==
  ASSUME NEW S, IsFiniteSet(S), NEW x \in S
  PROVE  Cardinality(S) > 0
<1>1. Cardinality(S) \in Nat /\ Cardinality(S) # 0
  BY FS_CardinalityType, FS_EmptySet
<1> QED
  BY <1>1

\* A port is not freed while it has a right, or while its translations are
\* being destroyed.
LEMMA Alive ==
  ASSUME NEW k \in KState, NEW c \in Calls, NEW p \in Ports,
         Local(k, p), Spare(k, c, p) = 0,
         k.port[p].in_use \/ Marked(k.dying[p])
  PROVE  k.port[p].references > 0
<1>1. k.port[p].references = Counted(k, c, p)
  BY CountsType DEF Spare, Counted
<1>2. CASE Marked(k.dying[p])
  <2>1. Bit(Marked(k.dying[p])) = 1
    BY <1>2 DEF Bit
  <2> QED
    BY <1>1, <2>1, CountsType DEF Counted
<1>3. CASE k.port[p].in_use
  <2>1. InUse(k, p)
    BY <1>3 DEF Local
  <2>2. k.port[p].receiver \in Holders /\ k.port[p].owner \in Holders
    BY PortOf DEF KPort
  <2>3. CASE \E t \in Tasks : k.port[p].receiver = t \/ k.port[p].owner = t
    <3>1. PICK t \in Tasks : k.port[p].receiver = t \/ k.port[p].owner = t
      BY <2>3
    <3>2. t \in Translated(k.entry, p)
      BY <2>1, <3>1 DEF InUse, Agrees, Translated, Types
    <3>3. Cardinality(Translated(k.entry, p)) > 0
      BY <3>2, CountsType, CardPositive
    <3> QED
      BY <1>1, <3>3, CountsType DEF Counted
  <2>4. CASE k.port[p].receiver = Soft \/ k.port[p].owner = Soft
    <3>1. PICK s \in Slots : Carried(k.slot[s], p, "receive") \/ Carried(k.slot[s], p, "own")
      BY <2>1, <2>4 DEF InUse, InOneMessage, Carrying
    <3>2. s \in Carriers(k.slot, p)
      BY <3>1 DEF Carriers, Filled, Carried
    <3>3. Cardinality(Carriers(k.slot, p)) > 0
      BY <3>2, CountsType, CardPositive
    <3> QED
      BY <1>1, <3>3, CountsType DEF Counted
  <2> QED
    BY <2>1, <2>2, <2>3, <2>4 DEF InUse, Holders
<1> QED
  BY <1>2, <1>3

\* What Local reads of a port is as before.
Alike(k, k2, p) ==
    /\ k2.port[p].in_use = k.port[p].in_use
    /\ k2.port[p].receiver = k.port[p].receiver
    /\ k2.port[p].owner = k.port[p].owner
    /\ k2.port[p].backup = k.port[p].backup \/ k.port[p].in_use
    /\ k2.port[p].at = k.port[p].at \/ (~k.port[p].in_use /\ "new" \notin {k.port[p].at, k2.port[p].at})
    /\ k2.dying[p] = k.dying[p]
    /\ \A t \in Tasks : k2.entry[t][p] = k.entry[t][p]
    /\ k.port[p].in_use =>
          \A right \in {"receive", "own"} : Carrying(k2, p, right) = Carrying(k, p, right)
    /\ Used(k2, p) \subseteq Used(k, p)

LEMMA Frame ==
  ASSUME NEW k, NEW k2, NEW p \in Ports, Local(k, p), Alike(k, k2, p)
  PROVE  Local(k2, p)
<1>1. CASE k.port[p].in_use
  <2>1. InUse(k, p)
    BY <1>1 DEF Local
  <2>2. k2.port[p].at = "live" /\ k2.dying[p] = "no"
    BY <1>1, <2>1 DEF InUse, Alike
  <2>3. /\ Carrying(k2, p, "receive") = Carrying(k, p, "receive")
        /\ Carrying(k2, p, "own") = Carrying(k, p, "own")
    BY <1>1 DEF Alike
  <2>4. InUse(k2, p)
    BY <2>1, <2>2, <2>3 DEF InUse, Alike, InOneMessage
  <2> QED
    BY <1>1, <2>4 DEF Local, Settled, Alike
<1>2. CASE ~k.port[p].in_use
  <2>1. NotInUse(k, p)
    BY <1>2 DEF Local
  <2>2. NotInUse(k2, p)
    BY <1>2, <2>1 DEF NotInUse, Alike
  <2> QED
    BY <1>2, <2>2 DEF Local, Settled, Alike
<1> QED
  BY <1>1, <1>2

\* A step whose changes leave each port alike keeps what it says of storage.
LEMMA Lives ==
  ASSUME NEW k \in KState, NEW c \in Calls, NEW p \in Ports,
         Local(k, p), Spare(k, c, p) = 0,
         k.port[p].at = "live", k.port[p].in_use \/ Marked(k.dying[p])
  PROVE  LiveOK(k, p)
BY Alive DEF LiveOK

LEMMA Step ==
  ASSUME NEW k, Becomes(k), KInv(k, call'), TasksOK(k, call', task')
  PROVE  IInv'
<1>1. State' = k
  BY Landing DEF KInv
<1> QED
  BY <1>1 DEF IInv

\* A task that has ended gets no entry.
LEMMA TasksFrame ==
  ASSUME IInv, NEW k, UNCHANGED <<call, task>>,
         \A t \in Tasks, p \in Ports :
            k.entry[t][p] \in Types => entry[t][p] \in Types \/ task[t] # "ended"
  PROVE  TasksOK(k, call', task')
BY StateFields DEF IInv, TasksOK

LEMMA InvFacts ==
  ASSUME IInv
  PROVE  /\ State \in KState
         /\ SlotsOK(State)
         /\ call \in Calls
         /\ \A p \in Ports : Local(State, p) /\ Spare(State, call, p) = 0 /\ LiveOK(State, p)
         /\ \A t \in Tasks : CallOK(t, call[t], task[t]) /\ call[t] \in KCall
BY DEF IInv, KInv, TasksOK, Calls

-----------------------------------------------------------------------------
(* ipc_task_terminate and port_dealloc's caller.                           *)

LEMMA TerminateKeeps ==
  ASSUME IInv, NEW t \in Tasks,
         ipc_task_terminate(t) \/ TerminateNext(t) \/ TerminateEnds(t)
  PROVE  IInv'
<1>1. State \in KState /\ call \in Calls /\ CallOK(t, call[t], task[t]) /\ call[t] \in KCall
  BY InvFacts
<1>2. Becomes(State)
  BY DEF Becomes, State, ipc_task_terminate, TerminateNext, TerminateEnds
<1>3. CASE ipc_task_terminate(t)
  <2>1. call' = call /\ task' = [task EXCEPT ![t] = "ending"] /\ call[t].at = "no"
    BY <1>3 DEF ipc_task_terminate
  <2>2. t \notin MayInsert
    BY <1>3, InsertedStay DEF ipc_task_terminate
  <2>3. TasksOK(State, call', task')
    BY <2>1, <2>2 DEF IInv, TasksOK, CallOK
  <2> QED
    BY <1>2, <2>1, <2>3, Step DEF IInv
<1>4. CASE TerminateNext(t)
  <2>1. PICK p \in Ports :
           call' = [call EXCEPT ![t] = [at |-> "dealloc", port |-> p, ref |-> FALSE]]
    BY <1>4 DEF TerminateNext
  <2>2. task' = task /\ task[t] = "ending" /\ call[t].at = "no"
    BY <1>4 DEF TerminateNext
  <2> DEFINE x == [at |-> "dealloc", port |-> p, ref |-> FALSE]
  <2>3. x \in KCall
    BY DEF KCall
  <2>4. ~call[t].ref /\ t \notin MayInsert
    BY <1>1, <2>2 DEF CallOK
  <2>5. \A q \in Ports : Bit(Works(call[t], q)) = 0 /\ Bit(Works(x, q)) = 0
    BY <2>4 DEF Bit, Works
  <2>6. CallOK(t, x, task[t])
    BY <2>2, <2>4 DEF CallOK
  <2> HIDE DEF x
  <2>7. call' = WithCall(call, t, x)
    BY <2>1 DEF x, WithCall
  <2>8. call' \in Calls /\ \A q \in Ports : Spare(State, call', q) = Spare(State, call, q)
    <3>1. call' \in Calls /\ \A q \in Ports : Spare(State, call', q) =
             Spare(State, call, q) + Bit(Works(call[t], q)) - Bit(Works(x, q))
      BY <1>1, <2>3, <2>7, SetCall
    <3>2. \A q \in Ports : Spare(State, call, q) \in Int
      BY <1>1, SpareType
    <3>3. ASSUME NEW q \in Ports PROVE Spare(State, call', q) = Spare(State, call, q)
      BY <2>5, <3>1, <3>2
    <3> QED
      BY <3>1, <3>3
  <2>9. TasksOK(State, call', task')
    BY <2>2, <2>6, <2>7, <2>8 DEF IInv, TasksOK, Calls, WithCall
  <2>10. KInv(State, call')
    BY <2>8 DEF IInv, KInv
  <2> QED
    BY <1>2, <2>9, <2>10, Step
<1>5. CASE TerminateEnds(t)
  <2>1. /\ call' = call /\ task' = [task EXCEPT ![t] = "ended"] /\ call[t].at = "no"
        /\ task[t] = "ending" /\ \A p \in Ports : entry[t][p] \notin Types
    BY <1>5 DEF TerminateEnds
  <2>2. CallOK(t, call[t], "ended")
    BY <1>1, <2>1 DEF CallOK
  <2>3. TasksOK(State, call', task')
    BY <2>1, <2>2, StateFields DEF IInv, TasksOK
  <2> QED
    BY <1>2, <2>1, <2>3, Step DEF IInv
<1> QED
  BY <1>3, <1>4, <1>5

\* A port that only its number of references changes of.
LEMMA Recount ==
  ASSUME NEW k \in KState, NEW k2, NEW p \in Ports, OnlyPort(k, k2, p),
         LET r == k.port[p]
         IN  Reads(k2.port[p], r.at, r.in_use, k2.port[p].references, r.receiver, r.owner,
                   r.backup)
  PROVE  \A q \in Ports : Alike(k, k2, q)
BY DEF OnlyPort, Reads, Alike, Carrying, Used

LEMMA DeallocateKeeps ==
  ASSUME IInv, NEW t \in Tasks, NEW p \in Ports, port_deallocate(t, p)
  PROVE  IInv'
<1> DEFINE k == Referenced(State, p)
           x == [at |-> "dealloc", port |-> p, ref |-> TRUE]
<1>1. /\ State \in KState /\ call \in Calls /\ CallOK(t, call[t], task[t]) /\ call[t] \in KCall
      /\ SlotsOK(State)
      /\ \A q \in Ports : Local(State, q) /\ Spare(State, call, q) = 0 /\ LiveOK(State, q)
  BY InvFacts
<1>2. /\ Becomes(k) /\ call' = WithCall(call, t, x) /\ task' = task
      /\ call[t].at = "no" /\ port[p].in_use
      /\ t \notin MayInsert /\ task[t] = "active"
  BY InsertedStay DEF port_deallocate, WithCall
<1>3. x \in KCall
  BY DEF KCall
<1>4. /\ OnlyPort(State, k, p)
      /\ LET r == port[p]
         IN  Reads(k.port[p], r.at, r.in_use, r.references + 1, r.receiver, r.owner, r.backup)
      /\ Shift(State, k, p, 1)
  BY <1>1, ReferencedIs, StateFields
<1>5. \A q \in Ports : /\ Bit(Works(call[t], q)) = 0
                       /\ Bit(Works(x, q)) = IF q = p THEN 1 ELSE 0
  BY <1>1, <1>2 DEF Bit, Works, CallOK
<1>6. CallOK(t, x, task[t])
  BY <1>2 DEF CallOK
<1> HIDE DEF k, x
<1>7. k \in KState
  BY <1>4 DEF OnlyPort
<1>8. /\ call' \in Calls
      /\ \A q \in Ports : Spare(k, call', q) = Spare(k, call, q) - (IF q = p THEN 1 ELSE 0)
  <2>1. call' \in Calls /\ \A q \in Ports :
           Spare(k, call', q) = Spare(k, call, q) + Bit(Works(call[t], q)) - Bit(Works(x, q))
    BY <1>1, <1>2, <1>3, <1>7, SetCall
  <2>2. \A q \in Ports : Spare(k, call, q) \in Int
    BY <1>1, <1>7, SpareType
  <2>3. ASSUME NEW q \in Ports
        PROVE  Spare(k, call', q) = Spare(k, call, q) - (IF q = p THEN 1 ELSE 0)
    BY <1>5, <2>1, <2>2
  <2> QED
    BY <2>1, <2>3
<1>9. ASSUME NEW q \in Ports PROVE Spare(k, call', q) = 0
  <2>1. Spare(k, call, q) = Spare(State, call, q) + (IF q = p THEN 1 ELSE 0)
    BY <1>1, <1>4 DEF Shift
  <2> QED
    BY <1>1, <1>8, <2>1
<1>10. \A q \in Ports : Local(k, q)
  BY <1>1, <1>4, Recount, Frame, StateFields DEF Reads
<1>11. \A q \in Ports : LiveOK(k, q)
  <2>1. k.port[p].at = "live" /\ k.port[p].in_use
    BY <1>1, <1>2, <1>4, StateFields DEF Reads, Local, InUse
  <2>2. LiveOK(k, p)
    BY <1>7, <1>8, <1>9, <1>10, <2>1, Lives
  <2> QED
    BY <1>1, <1>4, <2>2 DEF OnlyPort, LiveOK
<1>12. SlotsOK(k)
  BY <1>1, <1>4 DEF SlotsOK, OnlyPort
<1>13. TasksOK(k, call', task')
  <2>1. k.entry = entry
    BY <1>4, StateFields DEF OnlyPort
  <2> QED
    BY <1>2, <1>6, <1>8, <2>1, StateFields DEF IInv, TasksOK, Calls, WithCall
<1> QED
  BY <1>2, <1>7, <1>9, <1>10, <1>11, <1>12, <1>13, Step DEF KInv

-----------------------------------------------------------------------------
(* References are dropped, and the storage freed with the last.            *)

\* port_check_unlock after the last change of a step to a port that had been
\* there.
LEMMA Unlocked ==
  ASSUME NEW k \in KState, NEW c \in Calls, NEW p \in Ports, k.port[p].at = "live",
         SlotsOK(k),
         \A q \in Ports : Local(k, q) /\ Spare(k, c, q) = 0,
         \A q \in Ports \ {p} : LiveOK(k, q)
  PROVE  KInv(CheckUnlock(k, p), c) /\ CheckUnlock(k, p).entry = k.entry
<1> DEFINE k2 == CheckUnlock(k, p)
<1>1. /\ OnlyPort(k, k2, p)
      /\ LET r == k.port[p]
         IN  Reads(k2.port[p], IF r.references <= 0 THEN "freed" ELSE r.at, r.in_use,
                   r.references, r.receiver, r.owner, r.backup)
      /\ Shift(k, k2, p, 0)
  BY CheckUnlockIs
<1> HIDE DEF k2
<1>2. k2 \in KState /\ k.port[p].references \in Int
  BY <1>1, PortOf DEF OnlyPort, KPort
<1>3. k.port[p].references <= 0 => ~k.port[p].in_use
  BY <1>2, Alive
<1>4. \A q \in Ports : Alike(k, k2, q)
  BY <1>1, <1>3 DEF OnlyPort, Reads, Alike, Carrying, Used
<1>5. \A q \in Ports : Local(k2, q)
  BY <1>4, Frame
<1>6. \A q \in Ports : Spare(k2, c, q) = 0
  BY <1>1 DEF Shift
<1>7. LiveOK(k2, p)
  BY <1>1, <1>2 DEF Reads, LiveOK
<1>8. \A q \in Ports \ {p} : LiveOK(k2, q)
  BY <1>1 DEF OnlyPort, LiveOK
<1> QED
  BY <1>1, <1>2, <1>5, <1>6, <1>7, <1>8 DEF KInv, SlotsOK, OnlyPort, k2

LEMMA ReleaseKeeps ==
  ASSUME IInv, NEW t \in Tasks, Release(t)
  PROVE  IInv'
<1> DEFINE p == call[t].port
           k == Dropped(State, p)
<1>1. /\ State \in KState /\ call \in Calls /\ CallOK(t, call[t], task[t]) /\ call[t] \in KCall
      /\ SlotsOK(State)
      /\ \A q \in Ports : Local(State, q) /\ Spare(State, call, q) = 0 /\ LiveOK(State, q)
  BY InvFacts
<1>2. /\ Becomes(CheckUnlock(k, p)) /\ call' = WithCall(call, t, NoCall) /\ task' = task
      /\ call[t].at = "release"
  BY DEF Release, WithCall, port_release
<1>3. p \in Ports /\ call[t].ref /\ t \notin MayInsert
  BY <1>1, <1>2 DEF CallOK
<1>4. NoCall \in KCall /\ CallOK(t, NoCall, task[t])
  <2>1. task[t] # "active" => t \notin MayInsert
    BY <1>3
  <2> QED
    BY <2>1 DEF KCall, NoCall, CallOK
<1> HIDE DEF p
<1>5. /\ OnlyPort(State, k, p)
      /\ LET r == State.port[p]
         IN  Reads(k.port[p], r.at, r.in_use, r.references - 1, r.receiver, r.owner, r.backup)
      /\ Shift(State, k, p, -1)
  BY <1>1, <1>3, DroppedIs
<1>6. \A q \in Ports : /\ Bit(Works(call[t], q)) = IF q = p THEN 1 ELSE 0
                       /\ Bit(Works(NoCall, q)) = 0
  BY <1>3 DEF Bit, Works, NoCall, p
<1> HIDE DEF k
<1>7. k \in KState
  BY <1>5 DEF OnlyPort
<1>8. call' \in Calls
  BY <1>1, <1>2, <1>4, SetCall
<1>9. ASSUME NEW q \in Ports PROVE Spare(k, call', q) = 0
  <2>1. Spare(k, call, q) = Spare(State, call, q) + (IF q = p THEN -1 ELSE 0)
    BY <1>1, <1>5 DEF Shift
  <2>2. Spare(k, call', q) = Spare(k, call, q) + Bit(Works(call[t], q)) - Bit(Works(NoCall, q))
    BY <1>1, <1>2, <1>4, <1>7, SetCall
  <2> QED
    BY <1>1, <1>6, <2>1, <2>2
<1>10. \A q \in Ports : Local(k, q)
  BY <1>1, <1>3, <1>5, Recount, Frame DEF Reads
<1>11. k.port[p].at = "live"
  <2>1. t \in Working(call, p)
    BY <1>3 DEF Working, p
  <2>2. Cardinality(Working(call, p)) > 0
    BY <1>1, <1>3, <2>1, CountsType, CardPositive
  <2>3. State.port[p].references > 0
    BY <1>1, <1>3, <2>2, CountsType DEF Spare, Counted
  <2> QED
    BY <1>1, <1>3, <1>5, <2>3 DEF LiveOK, Reads
<1>12. \A q \in Ports \ {p} : LiveOK(k, q)
  BY <1>1, <1>5 DEF OnlyPort, LiveOK
<1>13. SlotsOK(k)
  BY <1>1, <1>5 DEF SlotsOK, OnlyPort
<1>14. KInv(CheckUnlock(k, p), call') /\ CheckUnlock(k, p).entry = k.entry
  BY <1>3, <1>7, <1>8, <1>9, <1>10, <1>11, <1>12, <1>13, Unlocked
<1>15. TasksOK(CheckUnlock(k, p), call', task')
  <2>1. CheckUnlock(k, p).entry = State.entry
    BY <1>5, <1>14 DEF OnlyPort
  <2> QED
    BY <1>2, <1>4, <1>8, <2>1 DEF IInv, TasksOK, Calls, WithCall
<1> QED
  BY <1>2, <1>14, <1>15, Step

\* port_check_unlock does not read what port_destroy and obj_destroy_rights
\* write after it.
LEMMA CheckUnlockSurplus ==
  ASSUME NEW k \in KState, NEW p \in Ports
  PROVE  [CheckUnlock(k, p) EXCEPT !.surplus[p] = @ - 1] =
         CheckUnlock([k EXCEPT !.surplus[p] = @ - 1], p)
<1>1. CASE k.port[p].references <= 0
  BY <1>1 DEF CheckUnlock, KState
<1>2. CASE ~(k.port[p].references <= 0)
  BY <1>2 DEF CheckUnlock, KState
<1> QED
  BY <1>1, <1>2

LEMMA CheckUnlockDying ==
  ASSUME NEW k \in KState, NEW p \in Ports
  PROVE  [CheckUnlock(k, p) EXCEPT !.dying[p] = "done"] =
         CheckUnlock([k EXCEPT !.dying[p] = "done"], p)
<1>1. CASE k.port[p].references <= 0
  BY <1>1 DEF CheckUnlock, KState
<1>2. CASE ~(k.port[p].references <= 0)
  BY <1>2 DEF CheckUnlock, KState
<1> QED
  BY <1>1, <1>2

LEMMA ReleaseBackupKeeps ==
  ASSUME IInv, NEW b \in Ports, ReleaseBackup(b)
  PROVE  IInv'
<1> DEFINE k == Dropped(State, b)
           n == k.surplus[b] - 1
           k2 == [k EXCEPT !.surplus[b] = n]
<1>1. /\ State \in KState /\ call \in Calls
      /\ SlotsOK(State)
      /\ \A q \in Ports : Local(State, q) /\ Spare(State, call, q) = 0 /\ LiveOK(State, q)
  BY InvFacts
<1>2. /\ OnlyPort(State, k, b)
      /\ LET r == State.port[b]
         IN  Reads(k.port[b], r.at, r.in_use, r.references - 1, r.receiver, r.owner, r.backup)
      /\ Shift(State, k, b, -1)
  BY <1>1, DroppedIs
<1>3. UNCHANGED <<call, task>> /\ surplus[b] > 0
  BY DEF ReleaseBackup
<1>4. Becomes(CheckUnlock(k2, b))
  BY <1>2, CheckUnlockSurplus DEF ReleaseBackup, port_release, OnlyPort
<1> HIDE DEF k
<1>5. n \in Nat /\ k.surplus[b] - n = 1 /\ k \in KState
  <2>1. k \in KState /\ k.surplus = surplus
    BY <1>2, StateFields DEF OnlyPort
  <2> QED
    BY <1>3, <2>1 DEF KState
<1> HIDE DEF n
<1>6. /\ k2 \in KState /\ k2.port = k.port /\ k2.entry = k.entry
      /\ k2.slot = k.slot /\ k2.dying = k.dying
      /\ Shift(k, k2, b, 1)
  BY <1>5, SetSurplus
<1> HIDE DEF k2
<1>7. ASSUME NEW q \in Ports PROVE Spare(k2, call, q) = 0
  <2>1. Spare(k, call, q) = Spare(State, call, q) + (IF q = b THEN -1 ELSE 0)
    BY <1>1, <1>2 DEF Shift
  <2>2. Spare(k2, call, q) = Spare(k, call, q) + (IF q = b THEN 1 ELSE 0)
    BY <1>1, <1>6 DEF Shift
  <2> QED
    BY <1>1, <2>1, <2>2
<1>8. \A q \in Ports : Local(k2, q)
  <2>1. \A q \in Ports : Alike(State, k2, q)
    BY <1>1, <1>2, <1>6 DEF OnlyPort, Reads, Alike, Carrying, Used
  <2> QED
    BY <1>1, <2>1, Frame
<1>9. k2.port[b].at = "live"
  <2>1. State.port[b].references > 0
    BY <1>1, <1>3, CountsType, StateFields DEF Spare, Counted
  <2> QED
    BY <1>1, <1>2, <1>6, <2>1 DEF LiveOK, Reads
<1>10. (\A q \in Ports \ {b} : LiveOK(k2, q)) /\ SlotsOK(k2)
  BY <1>1, <1>2, <1>6 DEF OnlyPort, LiveOK, SlotsOK
<1>11. KInv(CheckUnlock(k2, b), call) /\ CheckUnlock(k2, b).entry = k2.entry
  BY <1>1, <1>6, <1>7, <1>8, <1>9, <1>10, Unlocked
<1>12. CheckUnlock(k2, b).entry = entry
  BY <1>2, <1>6, <1>11, StateFields DEF OnlyPort
<1>13. TasksOK(CheckUnlock(k2, b), call', task')
  BY <1>3, <1>12, TasksFrame
<1> QED
  BY <1>3, <1>4, <1>11, <1>13, Step

-----------------------------------------------------------------------------
(* obj_destroy_rights.                                                     *)

\* A port that is being destroyed is not in use, and is still there.
LEMMA Dying ==
  ASSUME IInv, NEW p \in Ports, Marked(dying[p])
  PROVE  ~port[p].in_use /\ NotInUse(State, p) /\ port[p].at = "live"
<1>1. /\ State \in KState /\ call \in Calls
      /\ Local(State, p) /\ Spare(State, call, p) = 0 /\ LiveOK(State, p)
  BY InvFacts
<1>2. ~port[p].in_use
  BY <1>1, StateFields DEF Local, InUse, Marked
<1>3. State.port[p].references > 0
  BY <1>1, Alive, StateFields
<1> QED
  BY <1>1, <1>2, <1>3, StateFields DEF Local, LiveOK

LEMMA DestroyChoosesKeeps ==
  ASSUME IInv, NEW p \in Ports, NEW t \in Tasks, DestroyChooses(p, t)
  PROVE  IInv'
<1>1. /\ State \in KState /\ call \in Calls
      /\ SlotsOK(State)
      /\ \A q \in Ports : Local(State, q) /\ Spare(State, call, q) = 0 /\ LiveOK(State, q)
  BY InvFacts
<1>2. /\ dying[p] = "rights" /\ entry[t][p] # "none"
      /\ UNCHANGED <<call, task>>
  BY DEF DestroyChooses
<1>3. ~port[p].in_use /\ NotInUse(State, p)
  BY <1>2, Dying DEF Marked
<1>4. CASE entry[t][p] = "half"
  <2> DEFINE k == [State EXCEPT !.entry[t][p] = "none"]
  <2>1. Becomes(k)
    BY <1>1, <1>4, StateFields DEF DestroyChooses, Becomes, KState
  <2>2. "none" \in Entries /\ Bit(State.entry[t][p] \in Types) - Bit("none" \in Types) = 0
    BY <1>4, StateFields DEF Entries, Bit, Types
  <2>3. /\ k \in KState
        /\ k.port = State.port /\ k.slot = State.slot
        /\ k.dying = State.dying /\ k.surplus = State.surplus
        /\ k.entry = [State.entry EXCEPT ![t][p] = "none"]
        /\ Shift(State, k, p, 0)
    BY <1>1, <2>2, SetEntry
  <2> HIDE DEF k
  <2>4. \A u \in Tasks, q \in Ports :
           k.entry[u][q] = IF u = t /\ q = p THEN "none" ELSE entry[u][q]
    BY <1>1, <2>3, StateFields DEF KState, KEntry
  <2>5. \A q \in Ports \ {p} : Alike(State, k, q)
    BY <2>3, <2>4, StateFields DEF Alike, Carrying, Used
  <2>6. Local(k, p)
    <3>1. NotInUse(k, p)
      BY <1>2, <1>3, <2>3, <2>4, MarksAreNoTasks, StateFields DEF NotInUse
    <3> QED
      BY <1>1, <1>3, <2>3, <3>1, StateFields DEF Local, Settled, Used
  <2>7. \A q \in Ports : Local(k, q)
    BY <1>1, <2>5, <2>6, Frame
  <2>8. KInv(k, call')
    BY <1>1, <1>2, <2>3, <2>7 DEF KInv, SlotsOK, LiveOK, Shift
  <2>9. TasksOK(k, call', task')
    BY <1>2, <2>4, TasksFrame DEF Types
  <2> QED
    BY <2>1, <2>8, <2>9, Step
<1>5. CASE entry[t][p] # "half"
  <2> DEFINE k == [State EXCEPT !.dying[p] = t]
  <2>1. Becomes(k)
    BY <1>1, <1>5, StateFields DEF DestroyChooses, Becomes, KState
  <2>2. t \in KDying /\ Bit(Marked(State.dying[p])) - Bit(Marked(t)) = 0
    BY <1>2, MarksAreNoTasks, StateFields DEF KDying, Bit, Marked
  <2>3. /\ k \in KState
        /\ k.port = State.port /\ k.slot = State.slot
        /\ k.entry = State.entry /\ k.surplus = State.surplus
        /\ k.dying = [State.dying EXCEPT ![p] = t]
        /\ Shift(State, k, p, 0)
    BY <1>1, <2>2, SetDying
  <2> HIDE DEF k
  <2>4. \A q \in Ports : k.dying[q] = IF q = p THEN t ELSE dying[q]
    BY <1>1, <2>3, StateFields DEF KState
  <2>5. \A q \in Ports \ {p} : Alike(State, k, q)
    BY <2>3, <2>4, StateFields DEF Alike, Carrying, Used
  <2>6. Local(k, p)
    <3>1. NotInUse(k, p)
      BY <1>2, <1>3, <2>3, <2>4, MarksAreNoTasks, StateFields DEF NotInUse
    <3> QED
      BY <1>1, <1>3, <2>3, <3>1, StateFields DEF Local, Settled, Used
  <2>7. \A q \in Ports : Local(k, q)
    BY <1>1, <2>5, <2>6, Frame
  <2>8. KInv(k, call')
    BY <1>1, <1>2, <2>3, <2>7 DEF KInv, SlotsOK, LiveOK, Shift
  <2>9. TasksOK(k, call', task')
    BY <1>2, <2>3, TasksFrame, StateFields
  <2> QED
    BY <2>1, <2>8, <2>9, Step
<1> QED
  BY <1>4, <1>5

LEMMA DestroyRemovesKeeps ==
  ASSUME IInv, NEW p \in Ports, NEW t \in Tasks, DestroyRemoves(p, t)
  PROVE  IInv'
<1> DEFINE half == entry[t][p] = "half"
           k1 == IF half THEN State ELSE Dropped(State, p)
           k2 == [k1 EXCEPT !.entry[t][p] = "none"]
           k == [k2 EXCEPT !.dying[p] = "rights"]
<1>1. /\ State \in KState /\ call \in Calls
      /\ SlotsOK(State)
      /\ \A q \in Ports : Local(State, q) /\ Spare(State, call, q) = 0 /\ LiveOK(State, q)
  BY InvFacts
<1>2. dying[p] = t /\ Becomes(k) /\ UNCHANGED <<call, task>>
  BY DEF DestroyRemoves
<1>3. Marked(dying[p]) /\ ~port[p].in_use /\ NotInUse(State, p) /\ port[p].at = "live"
  BY <1>2, Dying, MarksAreNoTasks DEF Marked
<1>4. entry[t][p] \in {"SEND", "half"}
  BY <1>2, <1>3, StateFields DEF NotInUse
<1>5. /\ OnlyPort(State, k1, p)
      /\ LET r == State.port[p]
         IN  Reads(k1.port[p], r.at, r.in_use, k1.port[p].references, r.receiver, r.owner,
                   r.backup)
      /\ Shift(State, k1, p, IF half THEN 0 ELSE -1)
  <2>1. CASE half
    BY <1>1, <2>1, PortOf, SpareType DEF OnlyPort, Reads, Shift
  <2>2. CASE ~half
    BY <1>1, <2>2, DroppedIs DEF Reads
  <2> QED
    BY <2>1, <2>2
<1> HIDE DEF k1
<1>6. Bit(k1.entry[t][p] \in Types) - Bit("none" \in Types) = IF half THEN 0 ELSE 1
  BY <1>4, <1>5, StateFields DEF Bit, Types, OnlyPort
<1> HIDE DEF half
<1>7. /\ k2 \in KState
      /\ k2.port = k1.port /\ k2.slot = k1.slot
      /\ k2.dying = k1.dying /\ k2.surplus = k1.surplus
      /\ k2.entry = [k1.entry EXCEPT ![t][p] = "none"]
      /\ Shift(k1, k2, p, IF half THEN 0 ELSE 1)
  <2>1. k1 \in KState /\ "none" \in Entries
    BY <1>5 DEF OnlyPort, Entries
  <2> QED
    BY <1>6, <2>1, SetEntry
<1> HIDE DEF k2
<1>8. /\ k \in KState
      /\ k.port = k2.port /\ k.slot = k2.slot
      /\ k.entry = k2.entry /\ k.surplus = k2.surplus
      /\ k.dying = [k2.dying EXCEPT ![p] = "rights"]
      /\ Shift(k2, k, p, 0)
  <2>1. "rights" \in KDying /\ Bit(Marked(k2.dying[p])) - Bit(Marked("rights")) = 0
    BY <1>3, <1>5, <1>7, StateFields DEF KDying, Bit, Marked, OnlyPort
  <2> QED
    BY <1>7, <2>1, SetDying
<1> HIDE DEF k
<1>9. ASSUME NEW q \in Ports PROVE Spare(k, call, q) = 0
  <2>1. Spare(k1, call, q) = Spare(State, call, q) + (IF q = p THEN (IF half THEN 0 ELSE -1) ELSE 0)
    BY <1>1, <1>5 DEF Shift
  <2>2. Spare(k2, call, q) = Spare(k1, call, q) + (IF q = p THEN (IF half THEN 0 ELSE 1) ELSE 0)
    BY <1>1, <1>7 DEF Shift
  <2>3. Spare(k, call, q) = Spare(k2, call, q) + (IF q = p THEN 0 ELSE 0)
    BY <1>1, <1>8 DEF Shift
  <2> QED
    BY <1>1, <2>1, <2>2, <2>3
<1>10. /\ \A u \in Tasks, q \in Ports :
             k.entry[u][q] = IF u = t /\ q = p THEN "none" ELSE entry[u][q]
       /\ \A q \in Ports : k.dying[q] = IF q = p THEN "rights" ELSE dying[q]
  BY <1>1, <1>5, <1>7, <1>8, StateFields DEF KState, KEntry, OnlyPort
<1>11. \A q \in Ports \ {p} : Alike(State, k, q)
  BY <1>5, <1>7, <1>8, <1>10, StateFields DEF Alike, Carrying, Used, OnlyPort
<1>12. Local(k, p)
  <2>1. NotInUse(k, p)
    BY <1>3, <1>5, <1>7, <1>8, <1>10, MarksAreNoTasks, StateFields DEF NotInUse, Reads
  <2>2. Used(k, p) = Used(State, p)
    BY <1>5, <1>7, <1>8 DEF Used, OnlyPort
  <2> QED
    BY <1>1, <1>3, <1>5, <1>7, <1>8, <2>1, <2>2, StateFields DEF Local, Settled, Reads
<1>13. \A q \in Ports : Local(k, q)
  BY <1>1, <1>11, <1>12, Frame
<1>14. \A q \in Ports : LiveOK(k, q)
  <2>1. k.port[p].at = "live" /\ Marked(k.dying[p])
    BY <1>3, <1>5, <1>7, <1>8, <1>10, StateFields DEF Reads, Marked
  <2>2. LiveOK(k, p)
    BY <1>1, <1>8, <1>9, <1>13, <2>1, Lives
  <2> QED
    BY <1>1, <1>5, <1>7, <1>8, <2>2 DEF LiveOK, OnlyPort
<1>15. KInv(k, call')
  BY <1>1, <1>2, <1>5, <1>7, <1>8, <1>9, <1>13, <1>14 DEF KInv, SlotsOK, OnlyPort
<1>16. TasksOK(k, call', task')
  BY <1>2, <1>10, TasksFrame DEF Types
<1> QED
  BY <1>2, <1>15, <1>16, Step

LEMMA DestroyEndsKeeps ==
  ASSUME IInv, NEW p \in Ports, DestroyEnds(p)
  PROVE  IInv'
<1> DEFINE k1 == Dropped(State, p)
           k == [k1 EXCEPT !.dying[p] = "done"]
<1>1. /\ State \in KState /\ call \in Calls
      /\ SlotsOK(State)
      /\ \A q \in Ports : Local(State, q) /\ Spare(State, call, q) = 0 /\ LiveOK(State, q)
  BY InvFacts
<1>2. /\ dying[p] = "rights" /\ UNCHANGED <<call, task>>
      /\ \A t \in Tasks : entry[t][p] = "none"
  BY DEF DestroyEnds
<1>3. ~port[p].in_use /\ NotInUse(State, p) /\ port[p].at = "live"
  BY <1>2, Dying DEF Marked
<1>4. /\ OnlyPort(State, k1, p)
      /\ LET r == State.port[p]
         IN  Reads(k1.port[p], r.at, r.in_use, r.references - 1, r.receiver, r.owner, r.backup)
      /\ Shift(State, k1, p, -1)
  BY <1>1, DroppedIs
<1>5. Becomes(CheckUnlock(k, p))
  BY <1>4, CheckUnlockDying DEF DestroyEnds, port_release, OnlyPort
<1> HIDE DEF k1
<1>6. /\ k \in KState
      /\ k.port = k1.port /\ k.slot = k1.slot
      /\ k.entry = k1.entry /\ k.surplus = k1.surplus
      /\ k.dying = [k1.dying EXCEPT ![p] = "done"]
      /\ Shift(k1, k, p, 1)
  <2>1. "done" \in KDying /\ Bit(Marked(k1.dying[p])) - Bit(Marked("done")) = 1
    BY <1>2, <1>4, StateFields DEF KDying, Bit, Marked, OnlyPort
  <2>2. k1 \in KState
    BY <1>4 DEF OnlyPort
  <2> QED
    BY <2>1, <2>2, SetDying
<1> HIDE DEF k
<1>7. ASSUME NEW q \in Ports PROVE Spare(k, call, q) = 0
  <2>1. Spare(k1, call, q) = Spare(State, call, q) + (IF q = p THEN -1 ELSE 0)
    BY <1>1, <1>4 DEF Shift
  <2>2. Spare(k, call, q) = Spare(k1, call, q) + (IF q = p THEN 1 ELSE 0)
    BY <1>1, <1>6 DEF Shift
  <2> QED
    BY <1>1, <2>1, <2>2
<1>8. \A q \in Ports : k.dying[q] = IF q = p THEN "done" ELSE dying[q]
  BY <1>1, <1>4, <1>6, StateFields DEF KState, OnlyPort
<1>9. \A q \in Ports \ {p} : Alike(State, k, q)
  BY <1>4, <1>6, <1>8, StateFields DEF Alike, Carrying, Used, OnlyPort
<1>10. Local(k, p)
  <2>1. NotInUse(k, p)
    BY <1>2, <1>3, <1>4, <1>6, <1>8, MarksAreNoTasks, StateFields DEF NotInUse, Reads, OnlyPort
  <2>2. Used(k, p) = Used(State, p)
    BY <1>4, <1>6 DEF Used, OnlyPort
  <2> QED
    BY <1>1, <1>3, <1>4, <1>6, <2>1, <2>2, StateFields DEF Local, Settled, Reads
<1>11. \A q \in Ports : Local(k, q)
  BY <1>1, <1>9, <1>10, Frame
<1>12. /\ k.port[p].at = "live"
       /\ \A q \in Ports \ {p} : LiveOK(k, q)
       /\ SlotsOK(k)
  BY <1>1, <1>3, <1>4, <1>6, StateFields DEF Reads, OnlyPort, LiveOK, SlotsOK
<1>13. KInv(CheckUnlock(k, p), call) /\ CheckUnlock(k, p).entry = k.entry
  BY <1>1, <1>6, <1>7, <1>11, <1>12, Unlocked
<1>14. TasksOK(CheckUnlock(k, p), call', task')
  BY <1>2, <1>4, <1>6, <1>13, TasksFrame, StateFields DEF OnlyPort
<1> QED
  BY <1>2, <1>5, <1>13, <1>14, Step

-----------------------------------------------------------------------------
(* Ports are created and get a backup.                                     *)

\* No message and no backup names a port that is yet to be created.
LEMMA NewPort ==
  ASSUME IInv, NEW p \in Ports, port[p].at = "new"
  PROVE  /\ ~port[p].in_use /\ NotInUse(State, p)
         /\ dying[p] = "no"
         /\ \A right : Carrying(State, p, right) = {}
         /\ Used(State, p) = {}
<1>1. /\ State \in KState /\ call \in Calls
      /\ Local(State, p) /\ Spare(State, call, p) = 0 /\ LiveOK(State, p)
  BY InvFacts
<1>2. ~port[p].in_use /\ NotInUse(State, p)
  BY <1>1, StateFields DEF Local, InUse
<1>3. dying[p] = "no"
  BY <1>2, StateFields DEF NotInUse
<1>4. ~(State.port[p].references > 0)
  BY <1>1, StateFields DEF LiveOK
<1>5. Cardinality(Carriers(State.slot, p)) = 0
  <2>1. State.port[p].references = Counted(State, call, p)
    BY <1>1, CountsType DEF Spare, Counted
  <2> QED
    BY <1>1, <1>4, <2>1, CountsType DEF Counted
<1>6. Carriers(State.slot, p) = {}
  BY <1>1, <1>5, CountsType, FS_EmptySet
<1>7. (\A right : Carrying(State, p, right) = {}) /\ Used(State, p) = {}
  BY <1>6 DEF Carriers, Filled, Carrying, Carried, Used, Kept
<1> QED
  BY <1>2, <1>3, <1>7

LEMMA AllocateKeeps ==
  ASSUME IInv, NEW t \in Tasks, NEW p \in Ports, port_allocate(t, p)
  PROVE  IInv'
<1> DEFINE r == State.port[p]
           r1 == [r EXCEPT !.at = "live", !.in_use = TRUE, !.receiver = t,
                           !.named = TRUE, !.owner = t]
           k1 == [State EXCEPT !.port[p] = r1]
           k == EntryCreated(k1, t, p, "RECEIVE_OWN")
<1>1. /\ State \in KState /\ call \in Calls
      /\ SlotsOK(State)
      /\ \A q \in Ports : Local(State, q) /\ Spare(State, call, q) = 0 /\ LiveOK(State, q)
  BY InvFacts
<1>2. /\ port[p].at = "new" /\ task[t] = "active" /\ UNCHANGED <<call, task>>
      /\ Becomes(k)
  BY DEF port_allocate
<1>3. /\ ~port[p].in_use /\ NotInUse(State, p)
      /\ dying[p] = "no"
      /\ \A right : Carrying(State, p, right) = {}
      /\ Used(State, p) = {}
  BY <1>2, NewPort
<1>4. r1 \in KPort /\ Reads(r1, "live", TRUE, r.references, t, t, Nil)
  <2>1. r \in KPort /\ r.backup = Nil
    BY <1>1, <1>3, PortOf DEF NotInUse
  <2>2. t \in Holders
    BY DEF Holders
  <2> QED
    BY <2>1, <2>2 DEF KPort, Reads
<1>5. r1.backup = r.backup /\ r1.references - r.references = 0
  BY <1>1, <1>3, <1>4, PortOf DEF NotInUse, Reads, KPort
<1> HIDE DEF r1
<1>6. OnlyPort(State, k1, p) /\ k1.port[p] = r1 /\ Shift(State, k1, p, 0)
  BY <1>1, <1>4, <1>5, SetPort
<1> HIDE DEF k1
<1>7. /\ k \in KState
      /\ \A q \in Ports \ {p} : k.port[q] = State.port[q]
      /\ Reads(k.port[p], "live", TRUE, r.references + 1, t, t, Nil)
      /\ k.slot = State.slot /\ k.dying = State.dying /\ k.surplus = State.surplus
      /\ k.entry = [State.entry EXCEPT ![t][p] = "RECEIVE_OWN"]
      /\ Shift(k1, k, p, 0)
  <2>1. k1 \in KState /\ k1.entry = State.entry /\ "RECEIVE_OWN" \in Entries
    BY <1>6 DEF OnlyPort, Entries, Types
  <2>2. k1.entry[t][p] = "none"
    BY <1>3, <2>1, StateFields DEF NotInUse
  <2>3. 1 + Bit(k1.entry[t][p] \in Types) - Bit("RECEIVE_OWN" \in Types) = 0
    BY <2>2 DEF Bit, Types
  <2> QED
    BY <1>4, <1>6, <2>1, <2>3, EntryCreatedIs DEF OnlyPort, Reads
<1> HIDE DEF k
<1>8. ASSUME NEW q \in Ports PROVE Spare(k, call, q) = 0
  <2>1. Spare(k1, call, q) = Spare(State, call, q) + (IF q = p THEN 0 ELSE 0)
    BY <1>1, <1>6 DEF Shift
  <2>2. Spare(k, call, q) = Spare(k1, call, q) + (IF q = p THEN 0 ELSE 0)
    BY <1>1, <1>7 DEF Shift
  <2> QED
    BY <1>1, <2>1, <2>2
<1>9. \A u \in Tasks, q \in Ports :
         k.entry[u][q] = IF u = t /\ q = p THEN "RECEIVE_OWN" ELSE entry[u][q]
  BY <1>1, <1>7, StateFields DEF KState, KEntry
<1>10. \A q \in Ports \ {p} : Alike(State, k, q)
  BY <1>7, <1>9, StateFields DEF Alike, Carrying, Used
<1>11. Local(k, p)
  <2>1. (\A right : Carrying(k, p, right) = {}) /\ Used(k, p) = {}
    BY <1>3, <1>7 DEF Carrying, Used
  <2>2. \A u \in Tasks : Agrees(k.port[p].receiver, k.port[p].owner, u, k.entry[u][p])
    BY <1>3, <1>7, <1>9, StateFields DEF Agrees, Reads, NotInUse
  <2>3. t # Soft /\ t # Nil
    BY SoftIsNoTask
  <2>4. InUse(k, p)
    BY <1>3, <1>7, <2>1, <2>2, <2>3, StateFields DEF InUse, InOneMessage, Reads
  <2> QED
    BY <1>7, <2>1, <2>4 DEF Local, Settled, Reads
<1>12. \A q \in Ports : Local(k, q)
  BY <1>1, <1>10, <1>11, Frame
<1>13. \A q \in Ports : LiveOK(k, q)
  <2>1. LiveOK(k, p)
    BY <1>1, <1>7, <1>8, <1>12, Lives DEF Reads
  <2> QED
    BY <1>1, <1>7, <2>1 DEF LiveOK
<1>14. KInv(k, call')
  BY <1>1, <1>2, <1>7, <1>8, <1>12, <1>13 DEF KInv, SlotsOK
<1>15. TasksOK(k, call', task')
  BY <1>2, <1>9, TasksFrame
<1> QED
  BY <1>2, <1>14, <1>15, Step

LEMMA SetBackupKeeps ==
  ASSUME IInv, NEW t \in Tasks, NEW p \in Ports, NEW b \in Ports, port_set_backup(t, p, b)
  PROVE  IInv'
<1> DEFINE old == port[p].backup
           k1 == Referenced(State, b)
           k2 == [k1 EXCEPT !.port[p].backup = b]
<1>1. /\ State \in KState /\ call \in Calls
      /\ SlotsOK(State)
      /\ \A q \in Ports : Local(State, q) /\ Spare(State, call, q) = 0 /\ LiveOK(State, q)
  BY InvFacts
<1>2. /\ port[p].receiver = t /\ entry[t][b] \in Types /\ UNCHANGED <<call, task>>
      /\ IF old = Nil THEN Becomes(k2)
         ELSE FreeSlots(State) # {} /\ Becomes(PutInMessage(k2, old, "PORT", Nil))
  BY DEF port_set_backup
<1>3. port[p].in_use /\ old \in Ports \cup {Nil}
  <2>1. t # Nil
    BY SoftIsNoTask
  <2> QED
    BY <1>1, <1>2, <2>1, PortOf, StateFields DEF Local, NotInUse, KPort
<1>4. State.port[b].references > 0 /\ port[b].at = "live"
  <2>1. t \in Translated(State.entry, b)
    BY <1>2, StateFields DEF Translated
  <2>2. Cardinality(Translated(State.entry, b)) > 0
    BY <1>1, <2>1, CountsType, CardPositive
  <2>3. State.port[b].references > 0
    BY <1>1, <2>2, CountsType DEF Spare, Counted
  <2> QED
    BY <1>1, <2>3, StateFields DEF LiveOK
<1>5. /\ OnlyPort(State, k1, b)
      /\ LET r == State.port[b]
         IN  Reads(k1.port[b], r.at, r.in_use, r.references + 1, r.receiver, r.owner, r.backup)
      /\ Shift(State, k1, b, 1)
  BY <1>1, ReferencedIs
<1> HIDE DEF k1
<1>6. k1 \in KState /\ k1.port[p].backup = old
  BY <1>5, StateFields DEF OnlyPort, Reads
<1>7. /\ OnlyPort(k1, k2, p)
      /\ LET r == k1.port[p]
         IN  Reads(k2.port[p], r.at, r.in_use, r.references, r.receiver, r.owner, b)
      /\ \A c \in Calls, q \in Ports :
            Spare(k2, c, q) = Spare(k1, c, q) + Bit(old = q) - Bit(b = q)
  <2>1. b \in Ports \cup {Nil}
    OBVIOUS
  <2> QED
    BY <1>6, <2>1, SetBackup
<1> HIDE DEF k2
<1>8. k2 \in KState
  BY <1>7 DEF OnlyPort
<1>9. ASSUME NEW q \in Ports PROVE Spare(k2, call, q) = Bit(old = q)
  <2>1. Spare(k1, call, q) = Spare(State, call, q) + (IF q = b THEN 1 ELSE 0)
    BY <1>1, <1>5 DEF Shift
  <2>2. Spare(k2, call, q) = Spare(k1, call, q) + Bit(old = q) - Bit(b = q)
    BY <1>1, <1>7
  <2>3. Bit(b = q) = IF q = b THEN 1 ELSE 0
    BY DEF Bit
  <2>4. Bit(old = q) \in Int
    BY DEF Bit
  <2> HIDE DEF old
  <2> QED
    BY <1>1, <2>1, <2>2, <2>3, <2>4
<1>10. ASSUME NEW k \in KState, k.port = k2.port, k.entry = k2.entry, k.dying = k2.dying,
              \A q \in Ports :
                 /\ \A right \in {"receive", "own"} : Carrying(k, q, right) = Carrying(k2, q, right)
                 /\ Used(k, q) = Used(k2, q),
              \A q \in Ports : Spare(k, call, q) = 0,
              SlotsOK(k), Becomes(k)
       PROVE  IInv'
  <2>1. \A q \in Ports : Alike(State, k, q)
    <3>1. ASSUME NEW q \in Ports PROVE Alike(State, k1, q)
      BY <1>5, <1>1, Recount DEF Reads
    <3>2. ASSUME NEW q \in Ports PROVE Alike(State, k2, q)
      <4>1. CASE q = p
        BY <1>3, <1>5, <1>7, <3>1, <4>1, StateFields DEF OnlyPort, Reads, Alike, Carrying, Used
      <4>2. CASE q # p
        BY <1>7, <3>1, <4>2 DEF OnlyPort, Reads, Alike, Carrying, Used
      <4> QED
        BY <4>1, <4>2
    <3> QED
      BY <1>10, <3>2 DEF Alike
  <2>2. \A q \in Ports : Local(k, q)
    BY <1>1, <2>1, Frame
  <2>3. \A q \in Ports : LiveOK(k, q)
    <3>1. k2.port[b].at = "live" /\ k2.port[b].references = State.port[b].references + 1
      BY <1>4, <1>5, <1>7, StateFields DEF OnlyPort, Reads
    <3>2. State.port[b].references \in Int
      BY <1>1, PortOf DEF KPort
    <3>3. LiveOK(k, b)
      BY <1>4, <1>10, <3>1, <3>2 DEF LiveOK
    <3>4. ASSUME NEW q \in Ports \ {b} PROVE LiveOK(k, q)
      BY <1>1, <1>5, <1>7, <1>10 DEF OnlyPort, Reads, LiveOK
    <3> QED
      BY <3>3, <3>4
  <2>4. k.entry = entry
    BY <1>5, <1>7, <1>10, StateFields DEF OnlyPort
  <2>5. TasksOK(k, call', task')
    BY <1>2, <2>4, TasksFrame
  <2> QED
    BY <1>2, <1>10, <2>2, <2>3, <2>5, Step DEF KInv
<1>11. SlotsOK(k2) /\ FreeSlots(k2) = FreeSlots(State)
  BY <1>1, <1>5, <1>7 DEF OnlyPort, SlotsOK, FreeSlots
<1>12. CASE old = Nil
  <2>1. \A q \in Ports : Bit(old = q) = 0
    BY <1>12, SoftIsNoTask DEF Bit
  <2> QED
    BY <1>2, <1>8, <1>9, <1>10, <1>11, <1>12, <2>1
<1>13. CASE old # Nil
  <2> DEFINE k == PutInMessage(k2, old, "PORT", Nil)
  <2>1. old \in Ports /\ FreeSlots(k2) # {} /\ "PORT" \in Rights /\ Nil \in Tasks \cup {Nil}
    BY <1>2, <1>3, <1>11, <1>13 DEF Rights
  <2> HIDE DEF old
  <2>2. Posted(k2, k, old, "PORT", Nil)
    BY <1>8, <2>1, PutInMessageIs
  <2>3. SlotsOK(k)
    <3>1. k2.slot \in [Slots -> KSlot]
      BY <1>8 DEF KState
    <3> QED
      BY <1>11, <2>1, <2>2, <3>1 DEF SlotsOK, Posted
  <2>4. ASSUME NEW q \in Ports PROVE Spare(k, call, q) = 0
    <3>1. Spare(k, call, q) = Spare(k2, call, q) + (IF q = old THEN -1 ELSE 0)
      BY <1>1, <2>2 DEF Shift, Posted
    <3>2. Bit(old = q) = IF q = old THEN 1 ELSE 0
      BY DEF Bit
    <3> QED
      BY <1>9, <3>1, <3>2
  <2>5. \A q \in Ports :
           /\ \A right \in {"receive", "own"} : Carrying(k, q, right) = Carrying(k2, q, right)
           /\ Used(k, q) = Used(k2, q)
    BY <2>2 DEF Carries, Posted
  <2>6. Becomes(k)
    BY <1>2, <1>13 DEF old
  <2> HIDE DEF k
  <2> QED
    BY <1>10, <2>2, <2>3, <2>4, <2>5, <2>6 DEF Posted
<1> QED
  BY <1>12, <1>13

-----------------------------------------------------------------------------
(* Rights are sent.                                                        *)

LEMMA PostedSlots ==
  ASSUME NEW k \in KState, NEW k2, NEW p \in Ports, NEW rights, NEW to,
         SlotsOK(k), Posted(k, k2, p, rights, to)
  PROVE  SlotsOK(k2)
<1>1. k.slot \in [Slots -> KSlot]
  BY DEF KState
<1> QED
  BY <1>1 DEF SlotsOK, Posted

\* The translation is left with what the sender keeps.
LEMMA CopyinTable ==
  ASSUME NEW rights \in Rights, NEW old \in Entries, old \in DOMAIN CopyinResult[rights],
         NEW t \in Tasks, NEW receiver, NEW owner, Agrees(receiver, owner, t, old)
  PROVE  /\ old \in Types
         /\ CopyinResult[rights][old] \in Types
         /\ "receive" \in Carries(rights) => receiver = t
         /\ "own" \in Carries(rights) => owner = t
         /\ Agrees(IF "receive" \in Carries(rights) THEN Soft ELSE receiver,
                   IF "own" \in Carries(rights) THEN Soft ELSE owner,
                   t, CopyinResult[rights][old])
<1>0. t # Soft
  BY SoftIsNoTask
<1>1. CASE rights = "PORT"
  <2>1. Carries(rights) = {}
    BY <1>1 DEF Carries
  <2>2. old \in Types /\ CopyinResult[rights][old] = old
    BY <1>1 DEF CopyinResult, Types
  <2> QED
    BY <2>1, <2>2 DEF Agrees
<1>2. CASE rights = "RECEIVE"
  <2>1. Carries(rights) = {"receive"}
    BY <1>2 DEF Carries
  <2>2. \/ old = "RECEIVE" /\ CopyinResult[rights][old] = "SEND"
        \/ old = "RECEIVE_OWN" /\ CopyinResult[rights][old] = "OWN"
    BY <1>2 DEF CopyinResult
  <2> QED
    BY <1>0, <2>1, <2>2 DEF Agrees, Types
<1>3. CASE rights = "OWNERSHIP"
  <2>1. Carries(rights) = {"own"}
    BY <1>3 DEF Carries
  <2>2. \/ old = "OWN" /\ CopyinResult[rights][old] = "SEND"
        \/ old = "RECEIVE_OWN" /\ CopyinResult[rights][old] = "RECEIVE"
    BY <1>3 DEF CopyinResult
  <2> QED
    BY <1>0, <2>1, <2>2 DEF Agrees, Types
<1>4. CASE rights = "ALL"
  <2>1. Carries(rights) = {"receive", "own"}
    BY <1>4 DEF Carries
  <2>2. old = "RECEIVE_OWN" /\ CopyinResult[rights][old] = "SEND"
    BY <1>4 DEF CopyinResult
  <2> QED
    BY <1>0, <2>1, <2>2 DEF Agrees, Types
<1> QED
  BY <1>1, <1>2, <1>3, <1>4 DEF Rights

LEMMA CopyinKeeps ==
  ASSUME IInv, NEW t \in Tasks, NEW p \in Ports, NEW rights \in Rights,
         NEW deallocate \in BOOLEAN, object_copyin(t, p, rights, deallocate)
  PROVE  IInv'
<1> DEFINE r == State.port[p]
           type == CopyinResult[rights][entry[t][p]]
           rec == "receive" \in Carries(rights)
           own == "own" \in Carries(rights)
           receiver == IF rec THEN Soft ELSE r.receiver
           owner == IF own THEN Soft ELSE r.owner
           k1 == [State EXCEPT !.entry[t][p] = type]
           sent == [k1 EXCEPT !.port[p].owner = IF own THEN Soft ELSE @]
           left == IF rec THEN port_clear_receiver(sent, p, Soft) ELSE sent
           k3 == IF deallocate THEN obj_entry_destroy(left, t, p) ELSE left
           k4 == Referenced(k3, p)
           k == PutInMessage(k4, p, rights, Nil)
           final == IF deallocate THEN "none" ELSE type
<1>1. /\ State \in KState /\ call \in Calls
      /\ SlotsOK(State)
      /\ \A q \in Ports : Local(State, q) /\ Spare(State, call, q) = 0 /\ LiveOK(State, q)
  BY InvFacts
<1>2. /\ <<t, p>> \in MaySend /\ FreeSlots(State) # {}
      /\ entry[t][p] \in DOMAIN CopyinResult[rights]
      /\ deallocate => type = "SEND"
      /\ port[p].in_use /\ UNCHANGED <<call, task>>
  BY DEF object_copyin
<1>3. Becomes(k)
  BY DEF object_copyin
<1>4. InUse(State, p) /\ r \in KPort /\ entry[t][p] \in Entries
  BY <1>1, <1>2, PortOf, StateFields DEF Local, KState, KEntry
<1>5. t # Soft /\ t # Nil /\ Soft # Nil /\ Soft \in Holders /\ t \notin MayInsert
  BY <1>2, SoftIsNoTask, InsertedStay DEF Holders
<1>6. /\ entry[t][p] \in Types /\ type \in Types
      /\ rec => r.receiver = t
      /\ own => r.owner = t
      /\ Agrees(receiver, owner, t, type)
  <2>1. Agrees(r.receiver, r.owner, t, entry[t][p])
    BY <1>4, StateFields DEF InUse
  <2> QED
    BY <1>2, <1>4, <2>1, CopyinTable
<1> HIDE DEF type, rec, own
<1>7. /\ k1 \in KState
      /\ k1.port = State.port /\ k1.slot = State.slot
      /\ k1.dying = State.dying /\ k1.surplus = State.surplus
      /\ k1.entry = [State.entry EXCEPT ![t][p] = type]
      /\ Shift(State, k1, p, 0)
  <2>1. Bit(State.entry[t][p] \in Types) - Bit(type \in Types) = 0
    BY <1>6, StateFields DEF Bit
  <2>2. type \in Entries
    BY <1>6 DEF Entries
  <2> QED
    BY <1>1, <2>1, <2>2, SetEntry
<1> HIDE DEF k1
<1>8. /\ OnlyPort(k1, sent, p)
      /\ Reads(sent.port[p], r.at, r.in_use, r.references, r.receiver, owner, r.backup)
      /\ Shift(k1, sent, p, 0)
  <2>1. sent = [k1 EXCEPT !.port[p].owner = owner] /\ owner \in Holders
    BY <1>4, <1>5, <1>7 DEF KPort
  <2> QED
    BY <1>7, <2>1, SetOwner
<1> HIDE DEF sent
<1>9. sent \in KState
  BY <1>8 DEF OnlyPort
<1>10. /\ OnlyPort(sent, left, p)
       /\ Reads(left.port[p], r.at, r.in_use, r.references, receiver, owner, r.backup)
       /\ Shift(sent, left, p, 0)
  <2>1. CASE rec
    BY <1>5, <1>8, <1>9, <2>1, ClearedIs DEF Reads
  <2>2. CASE ~rec
    BY <1>8, <1>9, <2>2, SpareType DEF OnlyPort, Shift
  <2> QED
    BY <2>1, <2>2
<1> HIDE DEF left
<1>11. left \in KState /\ left.entry = k1.entry /\ left.slot = State.slot /\ left.dying = State.dying
  BY <1>7, <1>8, <1>10 DEF OnlyPort
<1>12. left.entry[t][p] = type
  BY <1>1, <1>7, <1>11 DEF KState, KEntry
<1>13. /\ k3 \in KState
       /\ \A q \in Ports \ {p} : k3.port[q] = left.port[q]
       /\ Reads(k3.port[p], r.at, r.in_use, k3.port[p].references, receiver, owner, r.backup)
       /\ k3.slot = left.slot /\ k3.dying = left.dying
       /\ k3.entry = [left.entry EXCEPT ![t][p] = final]
       /\ Shift(left, k3, p, 0)
  <2>1. CASE deallocate
    <3>1. left.port[p].in_use
      BY <1>2, <1>10, StateFields DEF Reads
    <3>2. left.entry[t][p] \in Types
      BY <1>6, <1>12
    <3>3. LET k2 == obj_entry_destroy(left, t, p)
              l == left.port[p]
          IN  /\ k2 \in KState
              /\ \A q \in Ports \ {p} : k2.port[q] = left.port[q]
              /\ Reads(k2.port[p], l.at, l.in_use, l.references - 1, l.receiver, l.owner,
                       l.backup)
              /\ k2.slot = left.slot /\ k2.dying = left.dying /\ k2.surplus = left.surplus
              /\ k2.entry = [left.entry EXCEPT ![t][p] = IF l.in_use THEN "none" ELSE "half"]
              /\ Shift(left, k2, p, 0)
      BY <1>11, <3>2, EntryDestroyedIs
    <3> QED
      BY <1>10, <2>1, <3>1, <3>3 DEF Reads
  <2>2. CASE ~deallocate
    <3>1. left.entry = [left.entry EXCEPT ![t][p] = final]
      BY <1>11, <1>12, <2>2 DEF KState, KEntry
    <3> QED
      BY <1>10, <1>11, <2>2, <3>1, SpareType DEF Reads, Shift
  <2> QED
    BY <2>1, <2>2
<1> HIDE DEF k3
<1>14. /\ OnlyPort(k3, k4, p)
       /\ Reads(k4.port[p], r.at, r.in_use, k4.port[p].references, receiver, owner, r.backup)
       /\ Shift(k3, k4, p, 1)
  BY <1>13, ReferencedIs DEF Reads
<1> HIDE DEF k4
<1>15. k4 \in KState /\ k4.slot = State.slot
  BY <1>11, <1>13, <1>14 DEF OnlyPort
<1>16. Posted(k4, k, p, rights, Nil)
  <2>1. FreeSlots(k4) # {}
    BY <1>2, <1>15 DEF FreeSlots
  <2> QED
    BY <1>15, <2>1, PutInMessageIs
<1> HIDE DEF k
<1>17. ASSUME NEW q \in Ports PROVE Spare(k, call, q) = 0
  <2>1. Spare(k1, call, q) = Spare(State, call, q) + (IF q = p THEN 0 ELSE 0)
    BY <1>1, <1>7 DEF Shift
  <2>2. Spare(sent, call, q) = Spare(k1, call, q) + (IF q = p THEN 0 ELSE 0)
    BY <1>1, <1>8 DEF Shift
  <2>3. Spare(left, call, q) = Spare(sent, call, q) + (IF q = p THEN 0 ELSE 0)
    BY <1>1, <1>10 DEF Shift
  <2>4. Spare(k3, call, q) = Spare(left, call, q) + (IF q = p THEN 0 ELSE 0)
    BY <1>1, <1>13 DEF Shift
  <2>5. Spare(k4, call, q) = Spare(k3, call, q) + (IF q = p THEN 1 ELSE 0)
    BY <1>1, <1>14 DEF Shift
  <2>6. Spare(k, call, q) = Spare(k4, call, q) + (IF q = p THEN -1 ELSE 0)
    BY <1>1, <1>16 DEF Shift, Posted
  <2> QED
    BY <1>1, <2>1, <2>2, <2>3, <2>4, <2>5, <2>6
<1>18. \A u \in Tasks, q \in Ports :
          k.entry[u][q] = IF u = t /\ q = p THEN final ELSE entry[u][q]
  BY <1>1, <1>7, <1>11, <1>13, <1>14, <1>16, StateFields DEF KState, KEntry, OnlyPort, Posted
<1>19. /\ \A q \in Ports \ {p} : k.port[q] = State.port[q]
       /\ Reads(k.port[p], r.at, r.in_use, k.port[p].references, receiver, owner, r.backup)
       /\ k.dying = State.dying
  BY <1>7, <1>8, <1>10, <1>11, <1>13, <1>14, <1>16 DEF OnlyPort, Posted, Reads
<1>20. PICK s \in Slots : \A q \in Ports :
          /\ \A right \in {"receive", "own"} :
               Carrying(k, q, right) =
                  IF q = p /\ right \in Carries(rights)
                  THEN Carrying(State, q, right) \cup {s} ELSE Carrying(State, q, right)
          /\ Used(k, q) = Used(State, q)
  BY <1>15, <1>16 DEF Posted, Carrying, Used
<1>21. \A q \in Ports \ {p} : Alike(State, k, q)
  BY <1>18, <1>19, <1>20, StateFields DEF Alike
<1>22. Local(k, p)
  <2>1. \A u \in Tasks : Agrees(k.port[p].receiver, k.port[p].owner, u, k.entry[u][p])
    <3>1. Agrees(k.port[p].receiver, k.port[p].owner, t, final)
      <4>1. Agrees(k.port[p].receiver, k.port[p].owner, t, type)
        BY <1>6, <1>19 DEF Reads
      <4> QED
        BY <1>2, <4>1 DEF Agrees
    <3>2. ASSUME NEW u \in Tasks \ {t} PROVE Agrees(k.port[p].receiver, k.port[p].owner, u, entry[u][p])
      <4>1. u # Soft /\ Agrees(r.receiver, r.owner, u, entry[u][p])
        BY <1>4, SoftIsNoTask, StateFields DEF InUse
      <4> QED
        BY <1>6, <1>19, <4>1 DEF Agrees, Reads
    <3> QED
      BY <1>18, <3>1, <3>2
  <2>2. InOneMessage(k, p, "receive", receiver)
    <3>1. rec => Carrying(State, p, "receive") = {}
      BY <1>4, <1>5, <1>6 DEF InUse, InOneMessage
    <3> QED
      BY <1>4, <1>20, <3>1 DEF InUse, InOneMessage, rec
  <2>3. InOneMessage(k, p, "own", owner)
    <3>1. own => Carrying(State, p, "own") = {}
      BY <1>4, <1>5, <1>6 DEF InUse, InOneMessage
    <3> QED
      BY <1>4, <1>20, <3>1 DEF InUse, InOneMessage, own
  <2>4. InUse(k, p)
    BY <1>4, <1>5, <1>19, <2>1, <2>2, <2>3 DEF InUse, Reads
  <2>5. Settled(k, p)
    BY <1>1, <1>5, <1>6, <1>19, <1>20 DEF Local, Settled, Reads
  <2> QED
    BY <1>2, <1>19, <2>4, <2>5, StateFields DEF Local, Reads
<1>23. \A q \in Ports : Local(k, q)
  BY <1>1, <1>21, <1>22, Frame
<1>24. k \in KState /\ SlotsOK(k)
  <2>1. SlotsOK(k4)
    BY <1>1, <1>15 DEF SlotsOK
  <2>2. SlotsOK(k)
    BY <1>15, <1>16, <2>1, PostedSlots
  <2> QED
    BY <1>16, <2>2 DEF Posted
<1>25. \A q \in Ports : LiveOK(k, q)
  <2>1. k.port[p].at = "live" /\ k.port[p].in_use
    BY <1>2, <1>4, <1>19, StateFields DEF Reads, InUse
  <2>2. LiveOK(k, p)
    BY <1>1, <1>17, <1>23, <1>24, <2>1, Lives
  <2> QED
    BY <1>1, <1>19, <2>2 DEF LiveOK
<1>26. KInv(k, call')
  BY <1>2, <1>17, <1>23, <1>24, <1>25 DEF KInv
<1>27. TasksOK(k, call', task')
  <2>1. \A u \in Tasks, q \in Ports : k.entry[u][q] \in Types => entry[u][q] \in Types
    BY <1>6, <1>18
  <2> QED
    BY <1>2, <2>1, TasksFrame
<1> QED
  BY <1>3, <1>26, <1>27, Step

-----------------------------------------------------------------------------
(* A port dies.                                                            *)

\* What port_destroy is called with: both rights dead, no translation but send
\* rights, and a reference to dispose of.
Doomed(k, c, p) ==
    /\ k \in KState
    /\ SlotsOK(k)
    /\ FreeSlots(k) # {}
    /\ k.port[p].at = "live"
    /\ k.port[p].in_use
    /\ k.port[p].receiver = Nil
    /\ k.port[p].owner = Nil
    /\ k.dying[p] = "no"
    /\ \A u \in Tasks : k.entry[u][p] \in {"none", "SEND"}
    /\ Carrying(k, p, "receive") = {}
    /\ Carrying(k, p, "own") = {}
    /\ Used(k, p) = {}
    /\ \A q \in Ports : Spare(k, c, q) = IF q = p THEN 1 ELSE 0
    /\ \A q \in Ports \ {p} : Local(k, q) /\ LiveOK(k, q)

LEMMA PortDestroyKeeps ==
  ASSUME NEW k \in KState, NEW c \in Calls, NEW p \in Ports, Doomed(k, c, p)
  PROVE  KInv(port_destroy(k, p), c) /\ port_destroy(k, p).entry = k.entry
<1> DEFINE r == k.port[p]
           b == k.port[p].backup
<1>1. b \in Ports \cup {Nil} /\ r \in KPort
  BY PortOf DEF KPort
<1>2. Soft # Nil /\ Soft \in Holders /\ Nil \in Holders
      /\ \A u \in Tasks : u # Soft /\ u # Nil
  BY SoftIsNoTask DEF Holders
<1>3. CASE b # Nil
  <2> DEFINE k1 == [k EXCEPT !.port[p].backup = Nil]
             k2 == [k1 EXCEPT !.port[p].receiver = Soft]
             k3 == [k2 EXCEPT !.port[p].owner = Soft]
             n == k3.surplus[b] + 1
             k4 == [k3 EXCEPT !.surplus[b] = n]
             k5 == PutInMessage(k4, p, "ALL", Nil)
  <2>1. /\ OnlyPort(k, k1, p)
        /\ Reads(k1.port[p], r.at, r.in_use, r.references, r.receiver, r.owner, Nil)
        /\ \A q \in Ports : Spare(k1, c, q) = Spare(k, c, q) + Bit(b = q) - Bit(Nil = q)
    BY SetBackup, SMTT(20)
  <2>2. port_destroy(k, p) = k5
    BY <1>3 DEF port_destroy
  <2> HIDE DEF k1
  <2>3. /\ OnlyPort(k1, k2, p)
        /\ Reads(k2.port[p], r.at, r.in_use, r.references, Soft, r.owner, Nil)
        /\ Shift(k1, k2, p, 0)
    BY <1>2, <2>1, SetReceiver DEF OnlyPort, Reads
  <2> HIDE DEF k2
  <2>4. /\ OnlyPort(k2, k3, p)
        /\ Reads(k3.port[p], r.at, r.in_use, r.references, Soft, Soft, Nil)
        /\ Shift(k2, k3, p, 0)
    BY <1>2, <2>3, SetOwner, SMTT(20) DEF OnlyPort, Reads
  <2> HIDE DEF k3
  <2>5. k3 \in KState /\ b \in Ports /\ n \in Nat /\ k3.surplus[b] - n = -1
    <3>1. k3 \in KState /\ b \in Ports
      BY <1>1, <1>3, <2>4 DEF OnlyPort
    <3>2. k3.surplus[b] \in Nat
      BY <3>1 DEF KState
    <3> QED
      BY <3>1, <3>2
  <2> HIDE DEF n, b
  <2>6. /\ k4 \in KState
        /\ k4.port = k3.port /\ k4.entry = k3.entry
        /\ k4.slot = k3.slot /\ k4.dying = k3.dying
        /\ Shift(k3, k4, b, -1)
    BY <2>5, SetSurplus
  <2> HIDE DEF k4
  <2>7. k4.entry = k.entry /\ k4.slot = k.slot /\ k4.dying = k.dying
    BY <2>1, <2>3, <2>4, <2>6 DEF OnlyPort
  <2>8. Posted(k4, k5, p, "ALL", Nil)
    <3>1. FreeSlots(k4) # {} /\ "ALL" \in Rights
      BY <2>7 DEF FreeSlots, Doomed, Rights
    <3> QED
      BY <2>6, <3>1, PutInMessageIs
  <2> HIDE DEF k5
  <2>9. ASSUME NEW q \in Ports PROVE Spare(k5, c, q) = 0
    <3>1. Bit(b = q) = (IF q = b THEN 1 ELSE 0) /\ Bit(Nil = q) = 0
      BY SoftIsNoTask DEF Bit
    <3>2. Spare(k, c, q) = IF q = p THEN 1 ELSE 0
      BY DEF Doomed
    <3>3. Spare(k1, c, q) = Spare(k, c, q) + (IF q = b THEN 1 ELSE 0)
      BY <2>1, <3>1, <3>2
    <3>4. Spare(k2, c, q) = Spare(k1, c, q) + (IF q = p THEN 0 ELSE 0)
      BY <2>3 DEF Shift
    <3>5. Spare(k3, c, q) = Spare(k2, c, q) + (IF q = p THEN 0 ELSE 0)
      BY <2>4 DEF Shift
    <3>6. Spare(k4, c, q) = Spare(k3, c, q) + (IF q = b THEN -1 ELSE 0)
      BY <2>6 DEF Shift
    <3>7. Spare(k5, c, q) = Spare(k4, c, q) + (IF q = p THEN -1 ELSE 0)
      BY <2>8 DEF Posted, Shift
    <3> QED
      BY <3>2, <3>3, <3>4, <3>5, <3>6, <3>7
  <2>10. PICK s \in Slots : \A q \in Ports :
            /\ \A right \in {"receive", "own"} :
                 Carrying(k5, q, right) =
                    IF q = p /\ right \in Carries("ALL")
                    THEN Carrying(k, q, right) \cup {s} ELSE Carrying(k, q, right)
            /\ Used(k5, q) = Used(k, q)
    BY <2>7, <2>8 DEF Posted, Carrying, Used
  <2>11. /\ k5 \in KState /\ k5.entry = k.entry /\ k5.dying = k.dying
         /\ \A q \in Ports \ {p} : k5.port[q] = k.port[q]
         /\ Reads(k5.port[p], r.at, r.in_use, r.references, Soft, Soft, Nil)
    BY <2>1, <2>3, <2>4, <2>6, <2>7, <2>8 DEF OnlyPort, Posted
  <2>12. \A q \in Ports \ {p} : Alike(k, k5, q)
    BY <2>10, <2>11 DEF Alike
  <2>13. Local(k5, p)
    <3>1. Carrying(k5, p, "receive") = {s} /\ Carrying(k5, p, "own") = {s} /\ Used(k5, p) = {}
      BY <2>10 DEF Doomed, Carries
    <3>2. \A u \in Tasks : Agrees(Soft, Soft, u, k5.entry[u][p])
      BY <1>2, <2>11 DEF Doomed, Agrees
    <3>3. InUse(k5, p)
      BY <1>2, <2>11, <3>1, <3>2 DEF Doomed, InUse, InOneMessage, Reads
    <3> QED
      BY <2>11, <3>1, <3>3 DEF Doomed, Local, Settled, Reads
  <2>14. \A q \in Ports : Local(k5, q)
    BY <2>12, <2>13, Frame DEF Doomed
  <2>15. \A q \in Ports : LiveOK(k5, q)
    <3>1. LiveOK(k5, p)
      BY <2>9, <2>11, <2>14, Lives, ZenonT(30) DEF Reads, Doomed
    <3> QED
      BY <2>11, <3>1 DEF LiveOK, Doomed
  <2>16. SlotsOK(k5)
    <3>1. SlotsOK(k4)
      BY <2>7 DEF Doomed, SlotsOK
    <3> QED
      BY <2>6, <2>8, <3>1, PostedSlots
  <2> QED
    BY <2>2, <2>9, <2>11, <2>14, <2>15, <2>16 DEF KInv
<1>4. CASE b = Nil
  <2> DEFINE k1 == [k EXCEPT !.port[p].in_use = FALSE]
             k2 == [k1 EXCEPT !.dying[p] = "rights"]
  <2>1. /\ OnlyPort(k, k1, p)
        /\ Reads(k1.port[p], r.at, FALSE, r.references, r.receiver, r.owner, Nil)
        /\ Shift(k, k1, p, 0)
    BY <1>4, SetInUse
  <2>2. port_destroy(k, p) = k2
    BY <1>4 DEF port_destroy
  <2> HIDE DEF k1
  <2>3. /\ k2 \in KState
        /\ k2.port = k1.port /\ k2.entry = k1.entry
        /\ k2.slot = k1.slot /\ k2.surplus = k1.surplus
        /\ k2.dying = [k1.dying EXCEPT ![p] = "rights"]
        /\ Shift(k1, k2, p, -1)
    <3>1. k1 \in KState /\ "rights" \in KDying
      BY <2>1 DEF OnlyPort, KDying
    <3>2. Bit(Marked(k1.dying[p])) - Bit(Marked("rights")) = -1
      BY <2>1 DEF OnlyPort, Doomed, Bit, Marked
    <3> QED
      BY <3>1, <3>2, SetDying
  <2> HIDE DEF k2
  <2>4. ASSUME NEW q \in Ports PROVE Spare(k2, c, q) = 0
    <3>1. Spare(k, c, q) = IF q = p THEN 1 ELSE 0
      BY DEF Doomed
    <3>2. Spare(k1, c, q) = Spare(k, c, q) + (IF q = p THEN 0 ELSE 0)
      BY <2>1 DEF Shift
    <3>3. Spare(k2, c, q) = Spare(k1, c, q) + (IF q = p THEN -1 ELSE 0)
      BY <2>3 DEF Shift
    <3> QED
      BY <3>1, <3>2, <3>3
  <2>5. \A q \in Ports : k2.dying[q] = IF q = p THEN "rights" ELSE k.dying[q]
    BY <2>1, <2>3 DEF OnlyPort, KState
  <2>6. \A q \in Ports \ {p} : Alike(k, k2, q)
    BY <2>1, <2>3, <2>5 DEF OnlyPort, Alike, Carrying, Used
  <2>7. Local(k2, p)
    <3>1. NotInUse(k2, p)
      BY <2>1, <2>3, <2>5, MarksAreNoTasks DEF OnlyPort, Reads, Doomed, NotInUse
    <3>2. Used(k2, p) = {}
      BY <2>1, <2>3 DEF OnlyPort, Doomed, Used
    <3> QED
      BY <2>1, <2>3, <3>1, <3>2 DEF Reads, Local, Settled
  <2>8. \A q \in Ports : Local(k2, q)
    BY <2>6, <2>7, Frame DEF Doomed
  <2>9. \A q \in Ports : LiveOK(k2, q)
    <3>1. k2.port[p].at = "live" /\ Marked(k2.dying[p])
      BY <2>1, <2>3, <2>5 DEF Doomed, Reads, Marked
    <3>2. LiveOK(k2, p)
      BY <2>3, <2>4, <2>8, <3>1, Lives
    <3> QED
      BY <2>1, <2>3, <3>2 DEF LiveOK, Doomed, OnlyPort
  <2> QED
    BY <2>1, <2>2, <2>3, <2>4, <2>8, <2>9 DEF KInv, SlotsOK, Doomed, OnlyPort
<1> QED
  BY <1>3, <1>4

-----------------------------------------------------------------------------
(* A right in a message reaches a task.                                    *)

\* Both rights end up with the task.
Both(r, rights) ==
    \/ rights = "RECEIVE" /\ r.owner = Nil
    \/ rights = "OWNERSHIP" /\ r.receiver = Nil
    \/ rights = "ALL"

NewReceiver(r, t, rights) ==
    IF "receive" \in Carries(rights) \/ Both(r, rights) THEN t ELSE r.receiver

NewOwner(r, t, rights) ==
    IF "own" \in Carries(rights) \/ Both(r, rights) THEN t ELSE r.owner

NewType(r, rights, type) == IF Both(r, rights) THEN "RECEIVE_OWN" ELSE type

\* k2 is k after rights to p have reached t, whose entry has its type.
Reached(k, k2, t, p, rights) ==
    LET r == k.port[p]
    IN  /\ k2 \in KState
        /\ \A q \in Ports \ {p} : k2.port[q] = k.port[q]
        /\ Reads(k2.port[p], r.at, r.in_use, r.references, NewReceiver(r, t, rights),
                 NewOwner(r, t, rights), r.backup)
        /\ k2.slot = k.slot /\ k2.dying = k.dying /\ k2.surplus = k.surplus
        /\ k2.entry = [k.entry EXCEPT ![t][p] = NewType(r, rights, k.entry[t][p])]
        /\ Shift(k, k2, p, 0)

LEMMA ArrivedIs ==
  ASSUME NEW k \in KState, NEW t \in Tasks, NEW p \in Ports, NEW rights \in Rights,
         k.entry[t][p] \in Types
  PROVE  Reached(k, Arrived(k, t, p, rights), t, p, rights)
<1> DEFINE r == k.port[p]
           k2 == Arrived(k, t, p, rights)
           type == k.entry[t][p]
           b1 == [k EXCEPT !.port[p].receiver = t]
           b2 == [b1 EXCEPT !.port[p].owner = t]
           b3 == [b2 EXCEPT !.entry[t][p] = "RECEIVE_OWN"]
           b4 == [b3 EXCEPT !.port[p].named = TRUE]
           o1 == [k EXCEPT !.port[p].owner = t]
           r2 == [b1 EXCEPT !.port[p].named = TRUE]
<1>0. r \in KPort /\ t \in Holders /\ TRUE \in BOOLEAN
  BY PortOf DEF Holders
<1>1. /\ OnlyPort(k, b1, p)
      /\ Reads(b1.port[p], r.at, r.in_use, r.references, t, r.owner, r.backup)
      /\ Shift(k, b1, p, 0)
  BY <1>0, SetReceiver
<1>2. /\ OnlyPort(k, o1, p)
      /\ Reads(o1.port[p], r.at, r.in_use, r.references, r.receiver, t, r.backup)
      /\ Shift(k, o1, p, 0)
  BY <1>0, SetOwner
<1>3. [k.entry EXCEPT ![t][p] = type] = k.entry
  BY DEF KState, KEntry
<1>4. CASE Both(r, rights)
  <2>1. NewReceiver(r, t, rights) = t /\ NewOwner(r, t, rights) = t
        /\ NewType(r, rights, type) = "RECEIVE_OWN"
    BY <1>4 DEF NewReceiver, NewOwner, NewType
  <2>2. k2 = b3 \/ k2 = b4
    <3>1. CASE rights = "RECEIVE" /\ r.owner = Nil
      BY <3>1 DEF Arrived
    <3>2. CASE rights = "OWNERSHIP" /\ r.receiver = Nil
      BY <3>2 DEF Arrived
    <3>3. CASE rights = "ALL"
      BY <3>3 DEF Arrived
    <3> QED
      BY <1>4, <3>1, <3>2, <3>3 DEF Both
  <2> HIDE DEF b1, k2
  <2>3. b1 \in KState
    BY <1>1 DEF OnlyPort
  <2>4. /\ OnlyPort(b1, b2, p)
        /\ Reads(b2.port[p], r.at, r.in_use, r.references, t, t, r.backup)
        /\ Shift(b1, b2, p, 0)
    BY <1>0, <1>1, <2>3, SetOwner DEF Reads
  <2> HIDE DEF b2
  <2>5. /\ b3 \in KState
        /\ b3.port = b2.port /\ b3.slot = b2.slot
        /\ b3.dying = b2.dying /\ b3.surplus = b2.surplus
        /\ b3.entry = [b2.entry EXCEPT ![t][p] = "RECEIVE_OWN"]
        /\ Shift(b2, b3, p, 0)
    <3>1. b2 \in KState /\ b2.entry = k.entry /\ "RECEIVE_OWN" \in Entries
      BY <1>1, <2>4 DEF Entries, Types, OnlyPort
    <3>2. Bit(b2.entry[t][p] \in Types) - Bit("RECEIVE_OWN" \in Types) = 0
      BY <3>1 DEF Bit, Types
    <3> QED
      BY <3>1, <3>2, SetEntry
  <2> HIDE DEF b3
  <2>6. /\ OnlyPort(b3, b4, p)
        /\ Reads(b4.port[p], r.at, r.in_use, r.references, t, t, r.backup)
        /\ Shift(b3, b4, p, 0)
    <3>1. LET x == b3.port[p]
          IN  /\ OnlyPort(b3, b4, p)
              /\ Reads(b4.port[p], x.at, x.in_use, x.references, x.receiver, x.owner, x.backup)
              /\ Shift(b3, b4, p, 0)
      BY <1>0, <2>5, SetNamed
    <3>2. Reads(b3.port[p], r.at, r.in_use, r.references, t, t, r.backup)
      BY <2>4, <2>5
    <3> QED
      BY <3>1, <3>2 DEF Reads
  <2> HIDE DEF b4
  <2>7. Shift(k, b3, p, 0) /\ Shift(k, b4, p, 0)
    <3>1. ASSUME NEW c \in Calls, NEW q \in Ports
          PROVE  /\ Spare(b3, c, q) = Spare(k, c, q) + (IF q = p THEN 0 ELSE 0)
                 /\ Spare(b4, c, q) = Spare(k, c, q) + (IF q = p THEN 0 ELSE 0)
      <4>1. Spare(b1, c, q) = Spare(k, c, q) + (IF q = p THEN 0 ELSE 0)
        BY <1>1 DEF Shift
      <4>2. Spare(b2, c, q) = Spare(b1, c, q) + (IF q = p THEN 0 ELSE 0)
        BY <2>4 DEF Shift
      <4>3. Spare(b3, c, q) = Spare(b2, c, q) + (IF q = p THEN 0 ELSE 0)
        BY <2>5 DEF Shift
      <4>4. Spare(b4, c, q) = Spare(b3, c, q) + (IF q = p THEN 0 ELSE 0)
        BY <2>6 DEF Shift
      <4>5. Spare(k, c, q) \in Int
        BY SpareType
      <4> QED
        BY <4>1, <4>2, <4>3, <4>4, <4>5
    <3> QED
      BY <3>1 DEF Shift
  <2> QED
    BY <1>1, <2>1, <2>2, <2>4, <2>5, <2>6, <2>7 DEF OnlyPort, k2, Reached
<1>5. CASE ~Both(r, rights)
  <2>1. NewType(r, rights, type) = type
    BY <1>5 DEF NewType
  <2>2. CASE rights = "PORT"
    <3>1. k2 = k /\ Carries(rights) = {}
      BY <2>2 DEF Arrived, Carries
    <3>2. NewReceiver(r, t, rights) = r.receiver /\ NewOwner(r, t, rights) = r.owner
      BY <1>5, <3>1 DEF NewReceiver, NewOwner
    <3>3. Shift(k, k, p, 0)
      BY SpareType DEF Shift
    <3> QED
      BY <1>0, <1>3, <2>1, <3>1, <3>2, <3>3 DEF Reads, Reached
  <2>3. CASE rights = "RECEIVE" /\ r.owner # Nil
    <3>1. Carries(rights) = {"receive"}
      BY <2>3 DEF Carries
    <3>2. NewReceiver(r, t, rights) = t /\ NewOwner(r, t, rights) = r.owner
      BY <1>5, <3>1 DEF NewReceiver, NewOwner
    <3>3. k2 = r2
      BY <2>3 DEF Arrived
    <3> HIDE DEF b1, k2
    <3>4. /\ OnlyPort(b1, r2, p)
          /\ Reads(r2.port[p], r.at, r.in_use, r.references, t, r.owner, r.backup)
          /\ Shift(b1, r2, p, 0)
      BY <1>0, <1>1, SetNamed, ZenonT(30) DEF OnlyPort, Reads
    <3> HIDE DEF r2
    <3>5. ASSUME NEW c \in Calls, NEW q \in Ports
          PROVE  Spare(r2, c, q) = Spare(k, c, q) + (IF q = p THEN 0 ELSE 0)
      BY <1>1, <3>4, SpareType DEF Shift
    <3>6. Shift(k, r2, p, 0)
      BY <3>5 DEF Shift
    <3> QED
      BY <1>1, <1>3, <2>1, <3>2, <3>3, <3>4, <3>6 DEF OnlyPort, k2, Reached
  <2>4. CASE rights = "OWNERSHIP" /\ r.receiver # Nil
    <3>1. Carries(rights) = {"own"}
      BY <2>4 DEF Carries
    <3>2. NewReceiver(r, t, rights) = r.receiver /\ NewOwner(r, t, rights) = t
      BY <1>5, <3>1 DEF NewReceiver, NewOwner
    <3>3. k2 = o1
      BY <2>4 DEF Arrived
    <3> HIDE DEF o1, k2
    <3> QED
      BY <1>2, <1>3, <2>1, <3>2, <3>3 DEF OnlyPort, k2, Reached
  <2> QED
    BY <1>5, <2>2, <2>3, <2>4 DEF Both, Rights
<1> QED
  BY <1>4, <1>5

\* What the task gets fits what it has, and what the others have.
LEMMA CopyoutTable ==
  ASSUME NEW rights \in Rights, NEW old \in Entries, NEW t \in Tasks, NEW r \in KPort,
         Agrees(r.receiver, r.owner, t, old),
         "receive" \in Carries(rights) => r.receiver = Soft,
         "own" \in Carries(rights) => r.owner = Soft
  PROVE  /\ CopyoutResult[rights][old] \in Types
         /\ old # "half"
         /\ Agrees(NewReceiver(r, t, rights), NewOwner(r, t, rights), t,
                   NewType(r, rights, CopyoutResult[rights][old]))
         /\ \A u \in Tasks \ {t}, e \in Entries :
               Agrees(r.receiver, r.owner, u, e) =>
               Agrees(NewReceiver(r, t, rights), NewOwner(r, t, rights), u, e)
<1>0. t # Soft /\ t # Nil /\ Soft # Nil
  BY SoftIsNoTask
<1>1. \A u \in Tasks \ {t} : u # Soft /\ u # Nil /\ u # t
  BY SoftIsNoTask
<1>2. CASE rights = "PORT"
  <2>1. Carries(rights) = {} /\ ~Both(r, rights)
    BY <1>2 DEF Carries, Both
  <2>2. NewReceiver(r, t, rights) = r.receiver /\ NewOwner(r, t, rights) = r.owner
        /\ \A x : NewType(r, rights, x) = x
    BY <2>1 DEF NewReceiver, NewOwner, NewType
  <2>3. old # "half"
    BY DEF Agrees
  <2>4. /\ old = "none" => CopyoutResult[rights][old] = "SEND"
        /\ old \in Types => CopyoutResult[rights][old] = old
    BY <1>2 DEF CopyoutResult, Types
  <2> QED
    BY <2>2, <2>3, <2>4 DEF Agrees, Entries, Types
<1>3. CASE rights = "RECEIVE"
  <2>1. Carries(rights) = {"receive"} /\ (Both(r, rights) <=> r.owner = Nil)
    BY <1>3 DEF Carries, Both
  <2>2. r.receiver = Soft
    BY <2>1
  <2>3. /\ NewReceiver(r, t, rights) = t
        /\ NewOwner(r, t, rights) = IF r.owner = Nil THEN t ELSE r.owner
        /\ \A x : NewType(r, rights, x) = IF r.owner = Nil THEN "RECEIVE_OWN" ELSE x
    BY <2>1 DEF NewReceiver, NewOwner, NewType
  <2>4. \/ r.owner = t /\ old = "OWN" /\ CopyoutResult[rights][old] = "RECEIVE_OWN"
        \/ r.owner # t /\ old \in {"none", "SEND"} /\ CopyoutResult[rights][old] = "RECEIVE"
    BY <1>0, <1>3, <2>2 DEF Agrees, CopyoutResult
  <2> QED
    BY <1>0, <1>1, <2>2, <2>3, <2>4 DEF Agrees, Types
<1>4. CASE rights = "OWNERSHIP"
  <2>1. Carries(rights) = {"own"} /\ (Both(r, rights) <=> r.receiver = Nil)
    BY <1>4 DEF Carries, Both
  <2>2. r.owner = Soft
    BY <2>1
  <2>3. /\ NewOwner(r, t, rights) = t
        /\ NewReceiver(r, t, rights) = IF r.receiver = Nil THEN t ELSE r.receiver
        /\ \A x : NewType(r, rights, x) = IF r.receiver = Nil THEN "RECEIVE_OWN" ELSE x
    BY <2>1 DEF NewReceiver, NewOwner, NewType
  <2>4. \/ r.receiver = t /\ old = "RECEIVE" /\ CopyoutResult[rights][old] = "RECEIVE_OWN"
        \/ r.receiver # t /\ old \in {"none", "SEND"} /\ CopyoutResult[rights][old] = "OWN"
    BY <1>0, <1>4, <2>2 DEF Agrees, CopyoutResult
  <2> QED
    BY <1>0, <1>1, <2>2, <2>3, <2>4 DEF Agrees, Types
<1>5. CASE rights = "ALL"
  <2>1. Carries(rights) = {"receive", "own"} /\ Both(r, rights)
    BY <1>5 DEF Carries, Both
  <2>2. r.receiver = Soft /\ r.owner = Soft
    BY <2>1
  <2>3. /\ NewOwner(r, t, rights) = t
        /\ NewReceiver(r, t, rights) = t
        /\ \A x : NewType(r, rights, x) = "RECEIVE_OWN"
    BY <2>1 DEF NewReceiver, NewOwner, NewType
  <2>4. old \in {"none", "SEND"} /\ CopyoutResult[rights][old] = "RECEIVE_OWN"
    BY <1>0, <1>5, <2>2 DEF Agrees, CopyoutResult
  <2> QED
    BY <1>0, <1>1, <2>2, <2>3, <2>4 DEF Agrees, Types
<1> QED
  BY <1>2, <1>3, <1>4, <1>5 DEF Rights

\* The right in the message is the one the port says is in a message.
LEMMA InThisMessage ==
  ASSUME IInv, NEW s \in Slots, NEW p \in Ports, slot[s].at \in {"live", "doomed"},
         slot[s].obj = p, port[p].in_use
  PROVE  /\ "receive" \in Carries(slot[s].rights) =>
               port[p].receiver = Soft /\ Carrying(State, p, "receive") = {s}
         /\ "own" \in Carries(slot[s].rights) =>
               port[p].owner = Soft /\ Carrying(State, p, "own") = {s}
         /\ "receive" \notin Carries(slot[s].rights) => s \notin Carrying(State, p, "receive")
         /\ "own" \notin Carries(slot[s].rights) => s \notin Carrying(State, p, "own")
<1>1. InUse(State, p)
  BY InvFacts, StateFields DEF Local
<1>2. \A right : s \in Carrying(State, p, right) <=> right \in Carries(slot[s].rights)
  BY StateFields DEF Carrying, Carried
<1>3. /\ InOneMessage(State, p, "receive", port[p].receiver)
      /\ InOneMessage(State, p, "own", port[p].owner)
  BY <1>1, StateFields DEF InUse
<1>4. ASSUME "receive" \in Carries(slot[s].rights)
      PROVE  port[p].receiver = Soft /\ Carrying(State, p, "receive") = {s}
  <2>1. port[p].receiver = Soft
    BY <1>2, <1>3, <1>4 DEF InOneMessage
  <2>2. PICK i \in Slots : Carrying(State, p, "receive") = {i}
    BY <1>3, <2>1 DEF InOneMessage
  <2> QED
    BY <1>2, <1>4, <2>1, <2>2
<1>5. ASSUME "own" \in Carries(slot[s].rights)
      PROVE  port[p].owner = Soft /\ Carrying(State, p, "own") = {s}
  <2>1. port[p].owner = Soft
    BY <1>2, <1>3, <1>5 DEF InOneMessage
  <2>2. PICK i \in Slots : Carrying(State, p, "own") = {i}
    BY <1>3, <2>1 DEF InOneMessage
  <2> QED
    BY <1>2, <1>5, <2>1, <2>2
<1> QED
  BY <1>2, <1>4, <1>5

\* k is what becomes of the state when the right in message s has reached t, and
\* the entry of the message is x.
Reaches(k, x, t, s, p, rights) ==
    LET r == port[p]
        type == NewType(r, rights, CopyoutResult[rights][entry[t][p]])
    IN  /\ k \in KState
        /\ Reads(k.port[p], r.at, r.in_use, k.port[p].references,
                 NewReceiver(r, t, rights), NewOwner(r, t, rights), r.backup)
        /\ \A q \in Ports \ {p} : k.port[q] = port[q]
        /\ \A u \in Tasks, q \in Ports :
              k.entry[u][q] = IF u = t /\ q = p THEN type ELSE entry[u][q]
        /\ k.dying = dying
        /\ k.slot = [slot EXCEPT ![s] = x]
        /\ \A q \in Ports : Spare(k, call, q) = 0

LEMMA Minus ==
  ASSUME NEW A, NEW B, NEW x, A = B \ {x}, x \notin B
  PROVE  A = B
OBVIOUS

\* A right has reached a task, from a message that is gone or, for a task that
\* rights are inserted into, from a request that is yet to be destroyed.
LEMMA ArrivalKeeps ==
  ASSUME IInv, NEW t \in Tasks, NEW s \in Slots, NEW p \in Ports, NEW rights \in Rights,
         slot[s].at = "live", slot[s].obj = p, slot[s].rights = rights,
         port[p].in_use, task[t] = "active", UNCHANGED <<call, task>>,
         NEW x \in KSlot, NEW k, Becomes(k), Reaches(k, x, t, s, p, rights),
         x.at = "free" \/ (x.at = "used" /\ x.obj = p /\ t \in MayInsert
                            /\ rights \in {"PORT", "ALL"} /\ x.rights = rights)
  PROVE  IInv'
<1> DEFINE r == port[p]
           receiver == NewReceiver(r, t, rights)
           owner == NewOwner(r, t, rights)
<1>0. /\ k \in KState
      /\ Reads(k.port[p], r.at, r.in_use, k.port[p].references, receiver, owner, r.backup)
      /\ \A q \in Ports \ {p} : k.port[q] = port[q]
      /\ \A u \in Tasks, q \in Ports :
            k.entry[u][q] = IF u = t /\ q = p
                            THEN NewType(r, rights, CopyoutResult[rights][entry[t][p]])
                            ELSE entry[u][q]
      /\ k.dying = dying
      /\ k.slot = [slot EXCEPT ![s] = x]
      /\ \A q \in Ports : Spare(k, call, q) = 0
  BY DEF Reaches
<1>1. /\ State \in KState /\ call \in Calls
      /\ SlotsOK(State)
      /\ \A q \in Ports : Local(State, q) /\ Spare(State, call, q) = 0 /\ LiveOK(State, q)
  BY InvFacts
<1>2. InUse(State, p) /\ r \in KPort /\ \A u \in Tasks, q \in Ports : entry[u][q] \in Entries
  BY <1>0, <1>1, PortOf, StateFields DEF Local, KState, KEntry
<1>3. /\ "receive" \in Carries(rights) =>
            r.receiver = Soft /\ Carrying(State, p, "receive") = {s}
      /\ "own" \in Carries(rights) =>
            r.owner = Soft /\ Carrying(State, p, "own") = {s}
      /\ "receive" \notin Carries(rights) => s \notin Carrying(State, p, "receive")
      /\ "own" \notin Carries(rights) => s \notin Carrying(State, p, "own")
  BY <1>0, InThisMessage
<1>4. \A q \in Ports : /\ \A right \in {"receive", "own"} :
                             Carrying(k, q, right) = Carrying(State, q, right) \ {s}
                       /\ Used(k, q) = IF Kept(x, q) THEN Used(State, q) \cup {s}
                                       ELSE Used(State, q) \ {s}
  <2>1. k.slot = [State.slot EXCEPT ![s] = x]
    BY <1>0, StateFields
  <2>2. \A q \in Ports, right \in {"receive", "own"} : ~Carried(x, q, right)
    BY DEF Carried
  <2> QED
    BY <1>0, <1>1, <2>1, <2>2, SlotSets
<1>5. \A q \in Ports \ {p} : /\ \A right \in {"receive", "own"} : s \notin Carrying(State, q, right)
                             /\ ~Kept(x, q)
  BY <1>0, StateFields DEF Carrying, Carried, Kept
<1>6. ASSUME NEW q \in Ports \ {p} PROVE Alike(State, k, q)
  <2>1. \A right \in {"receive", "own"} : Carrying(k, q, right) = Carrying(State, q, right)
    <3> SUFFICES ASSUME NEW right \in {"receive", "own"}
                 PROVE  Carrying(k, q, right) = Carrying(State, q, right)
      OBVIOUS
    <3>1. Carrying(k, q, right) = Carrying(State, q, right) \ {s}
      BY <1>0, <1>4
    <3>2. s \notin Carrying(State, q, right)
      BY <1>0, <1>5
    <3> QED
      BY <1>0, <3>1, <3>2
  <2>2. Used(k, q) \subseteq Used(State, q)
    BY <1>0, <1>4, <1>5
  <2> QED
    BY <1>0, <2>1, <2>2, StateFields DEF Alike
<1>7. Local(k, p)
  <2>1. /\ CopyoutResult[rights][entry[t][p]] \in Types
        /\ Agrees(receiver, owner, t, NewType(r, rights, CopyoutResult[rights][entry[t][p]]))
        /\ \A u \in Tasks \ {t}, e \in Entries :
              Agrees(r.receiver, r.owner, u, e) => Agrees(receiver, owner, u, e)
    <3>1. Agrees(r.receiver, r.owner, t, entry[t][p])
      BY <1>0, <1>2, StateFields DEF InUse
    <3> QED
      BY <1>0, <1>2, <1>3, <3>1, CopyoutTable
  <2>2. \A u \in Tasks : Agrees(receiver, owner, u, k.entry[u][p])
    <3>1. \A u \in Tasks : Agrees(r.receiver, r.owner, u, entry[u][p])
      BY <1>0, <1>2, StateFields DEF InUse
    <3> QED
      BY <1>0, <1>2, <2>1, <3>1
  <2>3. t # Soft /\ t # Nil /\ Soft # Nil
    BY SoftIsNoTask
  <2>4. InOneMessage(k, p, "receive", receiver)
    <3>1. CASE "receive" \in Carries(rights)
      <4>1. receiver = t /\ Carrying(k, p, "receive") = {}
        BY <1>0, <1>3, <1>4, <3>1 DEF NewReceiver
      <4> QED
        BY <1>0, <2>3, <4>1 DEF InOneMessage
    <3>2. CASE "receive" \notin Carries(rights)
      <4>1. Carrying(k, p, "receive") = Carrying(State, p, "receive")
        <5>1. Carrying(k, p, "receive") = Carrying(State, p, "receive") \ {s}
          BY <1>0, <1>4
        <5>2. s \notin Carrying(State, p, "receive")
          BY <1>3, <3>2
        <5> QED
          BY <5>1, <5>2, Minus
      <4>2. receiver = r.receiver \/ (receiver = t /\ r.receiver = Nil)
        BY <1>0, <3>2 DEF NewReceiver, Both, Carries
      <4>3. InOneMessage(State, p, "receive", r.receiver)
        BY <1>0, <1>2, StateFields DEF InUse
      <4> QED
        BY <1>0, <2>3, <4>1, <4>2, <4>3 DEF InOneMessage
    <3> QED
      BY <1>0, <3>1, <3>2
  <2>5. InOneMessage(k, p, "own", owner)
    <3>1. CASE "own" \in Carries(rights)
      <4>1. owner = t /\ Carrying(k, p, "own") = {}
        BY <1>0, <1>3, <1>4, <3>1 DEF NewOwner
      <4> QED
        BY <1>0, <2>3, <4>1 DEF InOneMessage
    <3>2. CASE "own" \notin Carries(rights)
      <4>1. Carrying(k, p, "own") = Carrying(State, p, "own")
        <5>1. Carrying(k, p, "own") = Carrying(State, p, "own") \ {s}
          BY <1>0, <1>4
        <5>2. s \notin Carrying(State, p, "own")
          BY <1>3, <3>2
        <5> QED
          BY <5>1, <5>2, Minus
      <4>2. owner = r.owner \/ (owner = t /\ r.owner = Nil)
        BY <1>0, <3>2 DEF NewOwner, Both, Carries
      <4>3. InOneMessage(State, p, "own", r.owner)
        BY <1>0, <1>2, StateFields DEF InUse
      <4> QED
        BY <1>0, <2>3, <4>1, <4>2, <4>3 DEF InOneMessage
    <3> QED
      BY <1>0, <3>1, <3>2
  <2>6. ~(receiver = Nil /\ owner = Nil)
    <3>1. receiver \in {t, r.receiver} /\ owner \in {t, r.owner}
      BY DEF NewReceiver, NewOwner
    <3>2. (receiver = t \/ receiver = r.receiver) /\ ~(r.receiver = Nil /\ r.owner = Nil)
      BY <1>0, <1>2, <3>1, StateFields DEF InUse
    <3> QED
      BY <1>0, <2>3, <3>1, <3>2
  <2>7. InUse(k, p)
    BY <1>0, <1>2, <2>2, <2>4, <2>5, <2>6, StateFields DEF InUse, Reads
  <2>8. Used(k, p) # {} => receiver \in MayInsert /\ owner \in MayInsert
    <3>1. CASE Used(State, p) # {}
      <4>1. r.receiver \in MayInsert /\ r.owner \in MayInsert
        BY <1>0, <1>1, <3>1, StateFields DEF Local, Settled
      <4>2. r.receiver \in Tasks /\ r.owner \in Tasks
        BY <1>0, <4>1, InsertedStay
      <4>3. r.receiver # Soft /\ r.receiver # Nil /\ r.owner # Soft /\ r.owner # Nil
        BY <1>0, <4>2, SoftIsNoTask
      <4>4. receiver = r.receiver /\ owner = r.owner
        BY <1>0, <1>3, <4>3 DEF NewReceiver, NewOwner, Both, Carries
      <4> QED
        BY <1>0, <4>1, <4>4
    <3>2. CASE Used(State, p) = {} /\ Kept(x, p)
      <4>1. t \in MayInsert /\ rights = "ALL"
        BY <1>0, <3>2 DEF Kept
      <4> QED
        BY <1>0, <4>1 DEF NewReceiver, NewOwner, Both
    <3>3. CASE Used(State, p) = {} /\ ~Kept(x, p)
      BY <1>0, <1>4, <3>3
    <3> QED
      BY <1>0, <3>1, <3>2, <3>3
  <2> QED
    BY <1>0, <2>7, <2>8 DEF Local, Settled, Reads
<1>8. \A q \in Ports : Local(k, q)
  BY <1>0, <1>1, <1>6, <1>7, Frame
<1>9. \A q \in Ports : LiveOK(k, q)
  <2>1. k.port[p].at = "live" /\ k.port[p].in_use
    BY <1>0, <1>2, StateFields DEF InUse, Reads
  <2>2. LiveOK(k, p)
    BY <1>0, <1>1, <1>8, <2>1, Lives
  <2> QED
    BY <1>0, <1>1, <2>2, StateFields DEF LiveOK
<1>10. SlotsOK(k)
  <2>1. slot \in [Slots -> KSlot]
    BY <1>0, <1>1, StateFields DEF KState
  <2> QED
    BY <1>0, <1>1, <2>1, StateFields DEF SlotsOK
<1>11. KInv(k, call')
  BY <1>0, <1>8, <1>9, <1>10 DEF KInv
<1>12. TasksOK(k, call', task')
  BY <1>0, TasksFrame
<1> QED
  BY <1>0, <1>11, <1>12, Step

LEMMA ReceiveKeeps ==
  ASSUME IInv, NEW t \in Tasks, NEW s \in Slots, ReceiveRight(t, s)
  PROVE  IInv'
<1> DEFINE p == slot[s].obj
           rights == slot[s].rights
           r == port[p]
           type == CopyoutResult[rights][entry[t][p]]
           made == IF entry[t][p] = "none" THEN EntryCreated(State, t, p, "none") ELSE State
           typed == [made EXCEPT !.entry[t][p] = type]
           there == Arrived(typed, t, p, rights)
           got == Dropped(there, p)
           k == [got EXCEPT !.slot[s] = Free]
           x == [slot[s] EXCEPT !.at = "doomed"]
           dead == [State EXCEPT !.slot[s] = x]
<1>1. /\ State \in KState /\ call \in Calls
      /\ SlotsOK(State)
      /\ \A q \in Ports : Local(State, q) /\ Spare(State, call, q) = 0 /\ LiveOK(State, q)
  BY InvFacts
<1>2. /\ slot[s].at = "live" /\ UNCHANGED <<call, task>>
      /\ IF task[t] = "active" /\ port[p].in_use THEN Becomes(k) ELSE Becomes(dead)
  BY DEF ReceiveRight, object_copyout, State
<1>3. slot[s] \in KSlot /\ p \in Ports /\ rights \in Rights /\ entry[t][p] \in Entries
  <2>1. slot[s] \in KSlot /\ p \in Ports
    BY <1>1, <1>2, StateFields DEF SlotsOK, KState
  <2>2. rights \in Rights
    BY <2>1 DEF KSlot
  <2>3. entry[t][p] \in Entries
    BY <1>1, <2>1, StateFields DEF KState, KEntry
  <2> QED
    BY <2>1, <2>2, <2>3
<1>4. CASE ~(task[t] = "active" /\ port[p].in_use)
  <2>1. /\ x \in KSlot /\ x.obj = p /\ x.rights = rights /\ x.at = "doomed"
    BY <1>3 DEF KSlot
  <2> HIDE DEF x
  <2>2. /\ dead \in KState
        /\ dead.port = State.port /\ dead.entry = State.entry
        /\ dead.dying = State.dying /\ dead.surplus = State.surplus
        /\ dead.slot = [State.slot EXCEPT ![s] = x]
        /\ \A c \in Calls, q \in Ports :
              Spare(dead, c, q) = Spare(State, c, q) + Bit(Filled(State.slot[s], q))
                                                     - Bit(Filled(x, q))
    BY <1>1, <2>1, SetSlot
  <2> HIDE DEF dead
  <2>3. ASSUME NEW q \in Ports PROVE Spare(dead, call, q) = 0
    <3>1. Bit(Filled(State.slot[s], q)) = Bit(Filled(x, q)) /\ Bit(Filled(x, q)) \in Int
      <4>1. Filled(State.slot[s], q) <=> Filled(x, q)
        BY <1>2, <2>1, StateFields DEF Filled
      <4> QED
        BY <4>1 DEF Bit
    <3>2. Spare(dead, call, q) = Spare(State, call, q) + Bit(Filled(State.slot[s], q))
                                                       - Bit(Filled(x, q))
      BY <1>1, <2>2
    <3> QED
      BY <1>1, <3>1, <3>2
  <2>4. ASSUME NEW q \in Ports PROVE Alike(State, dead, q)
    <3>1. /\ \A right : Carried(x, q, right) <=> Carried(State.slot[s], q, right)
          /\ ~Kept(x, q)
      BY <1>2, <2>1, StateFields DEF Carried, Kept
    <3>2. dead.slot[s] = x /\ \A i \in Slots \ {s} : dead.slot[i] = State.slot[i]
      BY <1>1, <2>2 DEF KState
    <3>3. (\A right : Carrying(dead, q, right) = Carrying(State, q, right))
          /\ Used(dead, q) \subseteq Used(State, q)
      BY <3>1, <3>2 DEF Carrying, Used
    <3> QED
      BY <2>2, <3>3 DEF Alike
  <2>5. \A q \in Ports : Local(dead, q)
    BY <1>1, <2>4, Frame
  <2>6. SlotsOK(dead)
    <3>1. dead.slot[s] = x /\ \A i \in Slots \ {s} : dead.slot[i] = State.slot[i]
      BY <1>1, <2>2 DEF KState
    <3> QED
      BY <1>1, <1>3, <2>1, <3>1 DEF SlotsOK
  <2>7. KInv(dead, call')
    BY <1>1, <1>2, <2>2, <2>3, <2>5, <2>6 DEF KInv, LiveOK
  <2>8. TasksOK(dead, call', task')
    BY <1>2, <2>2, TasksFrame, StateFields
  <2> QED
    BY <1>2, <1>4, <2>7, <2>8, Step
<1>5. CASE task[t] = "active" /\ port[p].in_use
  <2>1. /\ "receive" \in Carries(rights) => r.receiver = Soft
        /\ "own" \in Carries(rights) => r.owner = Soft
    BY <1>2, <1>3, <1>5, InThisMessage
  <2>2. type \in Types /\ r \in KPort /\ entry[t][p] # "half"
    <3>1. Agrees(r.receiver, r.owner, t, entry[t][p])
      BY <1>1, <1>3, <1>5, StateFields DEF Local, InUse
    <3>2. r \in KPort
      BY <1>1, <1>3, PortOf, StateFields
    <3> QED
      BY <1>3, <2>1, <3>1, <3>2, CopyoutTable
  <2>3. Becomes(k)
    BY <1>2, <1>5
  <2> HIDE DEF type, p, rights
  <2>4. /\ made \in KState
        /\ \A q \in Ports \ {p} : made.port[q] = port[q]
        /\ Reads(made.port[p], r.at, r.in_use, made.port[p].references, r.receiver, r.owner,
                 r.backup)
        /\ made.slot = slot /\ made.dying = dying
        /\ made.entry = entry
        /\ Shift(State, made, p, IF entry[t][p] = "none" THEN 1 ELSE 0)
    <3>1. CASE entry[t][p] = "none"
      <4>1. "none" \in Entries /\ 1 + Bit(State.entry[t][p] \in Types) - Bit("none" \in Types) = 1
        BY <3>1, StateFields DEF Entries, Bit, Types
      <4>2. [State.entry EXCEPT ![t][p] = "none"] = entry
        BY <1>1, <1>3, <3>1, StateFields DEF KState, KEntry
      <4> QED
        BY <1>1, <1>3, <3>1, <4>1, <4>2, EntryCreatedIs, StateFields, SMTT(20) DEF Reads
    <3>2. CASE entry[t][p] # "none"
      <4>1. made = State
        BY <3>2
      <4>2. Shift(State, State, p, 0)
        BY <1>1, SpareType DEF Shift
      <4>3. Reads(State.port[p], r.at, r.in_use, State.port[p].references, r.receiver, r.owner,
                  r.backup)
        BY <2>2, StateFields DEF Reads
      <4> QED
        BY <1>1, <3>2, <4>1, <4>2, <4>3, StateFields
    <3> QED
      BY <3>1, <3>2
  <2> HIDE DEF made
  <2>5. /\ typed \in KState
        /\ typed.port = made.port /\ typed.slot = made.slot
        /\ typed.dying = made.dying /\ typed.surplus = made.surplus
        /\ typed.entry = [made.entry EXCEPT ![t][p] = type]
        /\ Shift(made, typed, p, IF entry[t][p] = "none" THEN -1 ELSE 0)
    <3>1. Bit(made.entry[t][p] \in Types) - Bit(type \in Types) =
            IF entry[t][p] = "none" THEN -1 ELSE 0
      BY <1>3, <2>2, <2>4 DEF Bit, Types, Entries
    <3>2. type \in Entries
      BY <2>2 DEF Entries
    <3> QED
      BY <1>3, <2>4, <3>1, <3>2, SetEntry
  <2> HIDE DEF typed
  <2>6. typed.entry[t][p] = type
    BY <1>1, <1>3, <2>4, <2>5, StateFields DEF KState, KEntry
  <2>7. /\ there \in KState
        /\ \A q \in Ports \ {p} : there.port[q] = typed.port[q]
        /\ Reads(there.port[p], r.at, r.in_use, there.port[p].references,
                 NewReceiver(r, t, rights), NewOwner(r, t, rights), r.backup)
        /\ there.slot = slot /\ there.dying = dying
        /\ there.entry = [typed.entry EXCEPT ![t][p] = NewType(r, rights, type)]
        /\ Shift(typed, there, p, 0)
    <3> DEFINE z == typed.port[p]
    <3>0. Reached(typed, there, t, p, rights)
      BY <1>3, <2>2, <2>5, <2>6, ArrivedIs
    <3> HIDE DEF there
    <3>1. /\ there \in KState
          /\ \A q \in Ports \ {p} : there.port[q] = typed.port[q]
          /\ Reads(there.port[p], z.at, z.in_use, z.references,
                   NewReceiver(z, t, rights), NewOwner(z, t, rights), z.backup)
          /\ there.slot = typed.slot /\ there.dying = typed.dying
          /\ there.entry = [typed.entry EXCEPT ![t][p] = NewType(z, rights, typed.entry[t][p])]
          /\ Shift(typed, there, p, 0)
      BY <3>0 DEF Reached
    <3>2. /\ NewReceiver(z, t, rights) = NewReceiver(r, t, rights)
          /\ NewOwner(z, t, rights) = NewOwner(r, t, rights)
          /\ NewType(z, rights, type) = NewType(r, rights, type)
          /\ z.at = r.at /\ z.in_use = r.in_use /\ z.backup = r.backup
      BY <2>4, <2>5 DEF Reads, NewReceiver, NewOwner, NewType, Both
    <3> HIDE DEF z
    <3>3. Reads(there.port[p], r.at, r.in_use, there.port[p].references,
                NewReceiver(r, t, rights), NewOwner(r, t, rights), r.backup)
      BY <3>1, <3>2 DEF Reads
    <3> QED
      BY <2>4, <2>5, <2>6, <3>1, <3>2, <3>3
  <2> HIDE DEF there
  <2>8. /\ OnlyPort(there, got, p)
        /\ Reads(got.port[p], r.at, r.in_use, got.port[p].references,
                 NewReceiver(r, t, rights), NewOwner(r, t, rights), r.backup)
        /\ Shift(there, got, p, -1)
    BY <1>3, <2>7, DroppedIs DEF Reads
  <2> HIDE DEF got
  <2>9. got \in KState /\ got.slot = slot /\ Free \in KSlot /\ Free.at = "free"
    BY <2>7, <2>8 DEF OnlyPort, Free, KSlot, Rights
  <2>10. /\ k \in KState
         /\ k.port = got.port /\ k.entry = got.entry
         /\ k.dying = got.dying /\ k.surplus = got.surplus
         /\ k.slot = [got.slot EXCEPT ![s] = Free]
         /\ \A c \in Calls, q \in Ports :
               Spare(k, c, q) = Spare(got, c, q) + Bit(Filled(got.slot[s], q))
                                                 - Bit(Filled(Free, q))
    BY <2>9, SetSlot
  <2> HIDE DEF k
  <2>11. ASSUME NEW q \in Ports PROVE Spare(k, call, q) = 0
    <3>1. Bit(Filled(got.slot[s], q)) = (IF q = p THEN 1 ELSE 0) /\ Bit(Filled(Free, q)) = 0
      BY <1>2, <2>9 DEF Bit, Filled, p
    <3>2. Spare(made, call, q) = Spare(State, call, q)
             + (IF q = p THEN (IF entry[t][p] = "none" THEN 1 ELSE 0) ELSE 0)
      BY <1>1, <2>4 DEF Shift
    <3>3. Spare(typed, call, q) = Spare(made, call, q)
             + (IF q = p THEN (IF entry[t][p] = "none" THEN -1 ELSE 0) ELSE 0)
      BY <1>1, <2>5 DEF Shift
    <3>4. Spare(there, call, q) = Spare(typed, call, q) + (IF q = p THEN 0 ELSE 0)
      BY <1>1, <2>7 DEF Shift
    <3>5. Spare(got, call, q) = Spare(there, call, q) + (IF q = p THEN -1 ELSE 0)
      BY <1>1, <2>8 DEF Shift
    <3>6. Spare(k, call, q) = Spare(got, call, q) + Bit(Filled(got.slot[s], q))
                                                  - Bit(Filled(Free, q))
      BY <1>1, <2>10
    <3> QED
      BY <1>1, <3>1, <3>2, <3>3, <3>4, <3>5, <3>6
  <2>12. \A u \in Tasks, q \in Ports :
            k.entry[u][q] = IF u = t /\ q = p THEN NewType(r, rights, type) ELSE entry[u][q]
    BY <1>1, <1>3, <2>4, <2>5, <2>7, <2>8, <2>10, StateFields DEF KState, KEntry, OnlyPort
  <2>13. /\ \A q \in Ports \ {p} : k.port[q] = port[q]
         /\ Reads(k.port[p], r.at, r.in_use, k.port[p].references,
                  NewReceiver(r, t, rights), NewOwner(r, t, rights), r.backup)
         /\ k.dying = dying /\ k.slot = [slot EXCEPT ![s] = Free]
    BY <2>4, <2>5, <2>7, <2>8, <2>9, <2>10 DEF OnlyPort
  <2>14. slot[s].obj = p /\ slot[s].rights = rights
    BY DEF p, rights
  <2>15. Reaches(k, Free, t, s, p, rights)
    BY <2>10, <2>11, <2>12, <2>13 DEF Reaches, type
  <2> QED
    BY <1>2, <1>3, <1>5, <2>3, <2>9, <2>14, <2>15, ArrivalKeeps
<1> QED
  BY <1>4, <1>5

LEMMA InsertKeeps ==
  ASSUME IInv, NEW t \in Tasks, NEW s \in Slots, Insert(t, s)
  PROVE  IInv'
<1> DEFINE p == slot[s].obj
           rights == slot[s].rights
           r == port[p]
           type == CopyoutResult[rights]["none"]
           made == EntryCreated(State, t, p, type)
           there == Arrived(made, t, p, rights)
           x == [slot[s] EXCEPT !.at = "used"]
           k == [there EXCEPT !.slot[s] = x]
<1>1. /\ State \in KState /\ call \in Calls
      /\ SlotsOK(State)
      /\ \A q \in Ports : Local(State, q) /\ Spare(State, call, q) = 0 /\ LiveOK(State, q)
  BY InvFacts
<1>2. /\ slot[s].at = "live" /\ task[t] = "active" /\ t \in MayInsert
      /\ rights \in {"PORT", "ALL"} /\ entry[t][p] = "none" /\ port[p].in_use
      /\ UNCHANGED <<call, task>>
  BY DEF Insert
<1>3. slot[s] \in KSlot /\ p \in Ports /\ rights \in Rights
  <2>1. slot[s] \in KSlot /\ p \in Ports
    BY <1>1, <1>2, StateFields DEF SlotsOK, KState
  <2> QED
    BY <2>1 DEF KSlot
<1>4. type \in Types /\ r \in KPort
  <2>1. rights = "PORT" => type = "SEND"
    BY DEF CopyoutResult
  <2>2. rights = "ALL" => type = "RECEIVE_OWN"
    BY DEF CopyoutResult
  <2>3. r \in KPort
    BY <1>1, <1>3, PortOf, StateFields
  <2> QED
    BY <1>2, <2>1, <2>2, <2>3 DEF Types
<1>5. x \in KSlot /\ x.at = "used" /\ x.obj = p /\ x.rights = rights
  BY <1>3 DEF KSlot
<1> HIDE DEF type
<1>6. /\ made \in KState
      /\ \A q \in Ports \ {p} : made.port[q] = port[q]
      /\ Reads(made.port[p], r.at, r.in_use, r.references + 1, r.receiver, r.owner, r.backup)
      /\ made.slot = slot /\ made.dying = dying
      /\ made.entry = [entry EXCEPT ![t][p] = type]
      /\ Shift(State, made, p, 0)
  <2>1. 1 + Bit(State.entry[t][p] \in Types) - Bit(type \in Types) = 0
    BY <1>2, <1>4, StateFields DEF Bit, Types
  <2>2. type \in Entries
    BY <1>4 DEF Entries
  <2> QED
    BY <1>1, <1>3, <2>1, <2>2, EntryCreatedIs, StateFields
<1>7. /\ there \in KState
      /\ \A q \in Ports \ {p} : there.port[q] = port[q]
      /\ Reads(there.port[p], r.at, r.in_use, there.port[p].references,
               NewReceiver(r, t, rights), NewOwner(r, t, rights), r.backup)
      /\ there.slot = slot /\ there.dying = dying
      /\ there.entry = [made.entry EXCEPT ![t][p] = NewType(r, rights, type)]
      /\ Shift(made, there, p, 0)
  <2> DEFINE z == made.port[p]
  <2>1. made.entry[t][p] = type
    BY <1>1, <1>3, <1>6, StateFields DEF KState, KEntry
  <2> HIDE DEF made
  <2>2. Reached(made, there, t, p, rights)
    BY <1>3, <1>4, <1>6, <2>1, ArrivedIs
  <2> HIDE DEF there
  <2>3. /\ there \in KState
        /\ \A q \in Ports \ {p} : there.port[q] = made.port[q]
        /\ Reads(there.port[p], z.at, z.in_use, z.references,
                 NewReceiver(z, t, rights), NewOwner(z, t, rights), z.backup)
        /\ there.slot = made.slot /\ there.dying = made.dying
        /\ there.entry = [made.entry EXCEPT ![t][p] = NewType(z, rights, made.entry[t][p])]
        /\ Shift(made, there, p, 0)
    BY <2>2 DEF Reached
  <2>4. /\ NewReceiver(z, t, rights) = NewReceiver(r, t, rights)
        /\ NewOwner(z, t, rights) = NewOwner(r, t, rights)
        /\ NewType(z, rights, type) = NewType(r, rights, type)
        /\ z.at = r.at /\ z.in_use = r.in_use /\ z.backup = r.backup
    BY <1>6 DEF Reads, NewReceiver, NewOwner, NewType, Both
  <2> HIDE DEF z
  <2>5. Reads(there.port[p], r.at, r.in_use, there.port[p].references,
              NewReceiver(r, t, rights), NewOwner(r, t, rights), r.backup)
    BY <2>3, <2>4 DEF Reads
  <2> QED
    BY <1>6, <2>1, <2>3, <2>4, <2>5
<1>8. Becomes(k)
  <2>1. Becomes([there EXCEPT !.slot[s].at = "used"])
    BY <1>2 DEF Insert, type
  <2>2. [there EXCEPT !.slot[s].at = "used"] = [there EXCEPT !.slot[s] = [there.slot[s] EXCEPT !.at = "used"]]
    OBVIOUS
  <2> QED
    BY <1>7, <2>1, <2>2
<1> HIDE DEF made, there, x
<1>9. /\ k \in KState
      /\ k.port = there.port /\ k.entry = there.entry
      /\ k.dying = there.dying /\ k.surplus = there.surplus
      /\ k.slot = [there.slot EXCEPT ![s] = x]
      /\ \A c \in Calls, q \in Ports :
            Spare(k, c, q) = Spare(there, c, q) + Bit(Filled(there.slot[s], q))
                                                - Bit(Filled(x, q))
  BY <1>5, <1>7, SetSlot
<1> HIDE DEF k
<1>10. ASSUME NEW q \in Ports PROVE Spare(k, call, q) = 0
  <2>1. Bit(Filled(there.slot[s], q)) = Bit(Filled(x, q)) /\ Bit(Filled(x, q)) \in Int
    <3>1. Filled(there.slot[s], q) <=> Filled(x, q)
      BY <1>2, <1>5, <1>7 DEF Filled
    <3> QED
      BY <3>1 DEF Bit
  <2>2. Spare(made, call, q) = Spare(State, call, q) + (IF q = p THEN 0 ELSE 0)
    BY <1>1, <1>6 DEF Shift
  <2>3. Spare(there, call, q) = Spare(made, call, q) + (IF q = p THEN 0 ELSE 0)
    BY <1>1, <1>7 DEF Shift
  <2>4. Spare(k, call, q) = Spare(there, call, q) + Bit(Filled(there.slot[s], q))
                                                  - Bit(Filled(x, q))
    BY <1>1, <1>9
  <2> QED
    BY <1>1, <2>1, <2>2, <2>3, <2>4
<1>11. \A u \in Tasks, q \in Ports :
          k.entry[u][q] = IF u = t /\ q = p THEN NewType(r, rights, type) ELSE entry[u][q]
  <2> DEFINE new == NewType(r, rights, type)
  <2>1. entry \in [Tasks -> [Ports -> Entries]] /\ t \in Tasks /\ p \in Ports
    BY <1>1, <1>3, StateFields DEF KState, KEntry
  <2>2. made.entry = [entry EXCEPT ![t][p] = type]
    BY <1>6, StateFields
  <2>3. k.entry = [made.entry EXCEPT ![t][p] = new]
    BY <1>7, <1>9
  <2> HIDE DEF new
  <2>4. \A u \in Tasks, q \in Ports : k.entry[u][q] = IF u = t /\ q = p THEN new ELSE entry[u][q]
    BY <2>1, <2>2, <2>3
  <2> QED
    BY <2>4 DEF new
<1>12. /\ \A q \in Ports \ {p} : k.port[q] = port[q]
       /\ Reads(k.port[p], r.at, r.in_use, k.port[p].references,
                NewReceiver(r, t, rights), NewOwner(r, t, rights), r.backup)
       /\ k.dying = dying /\ k.slot = [slot EXCEPT ![s] = x]
  BY <1>7, <1>9
<1>13. type = CopyoutResult[rights][entry[t][p]]
  BY <1>2 DEF type
<1>14. Reaches(k, x, t, s, p, rights)
  BY <1>9, <1>10, <1>11, <1>12, <1>13 DEF Reaches
<1> QED
  BY <1>2, <1>3, <1>5, <1>8, <1>14, ArrivalKeeps

-----------------------------------------------------------------------------
(* A right dies with its message.                                          *)

\* Message s is gone, but not its reference.
Gone(k, s, p) ==
    /\ k \in KState
    /\ k.port = State.port
    /\ k.entry = State.entry
    /\ k.dying = State.dying
    /\ k.slot[s].at = "free"
    /\ SlotsOK(k)
    /\ Shift(State, k, p, 1)
    /\ \A q \in Ports : /\ \A right \in {"receive", "own"} :
                             Carrying(k, q, right) = Carrying(State, q, right) \ {s}
                        /\ Used(k, q) = Used(State, q) \ {s}

LEMMA MessageGone ==
  ASSUME IInv, NEW s \in Slots, slot[s].at # "free"
  PROVE  /\ slot[s].obj \in Ports
         /\ slot[s].rights \in Rights
         /\ Gone([State EXCEPT !.slot[s] = Free], s, slot[s].obj)
         /\ State.port[slot[s].obj].at = "live"
<1> DEFINE p == slot[s].obj
           k == [State EXCEPT !.slot[s] = Free]
<1>1. /\ State \in KState /\ call \in Calls
      /\ SlotsOK(State)
      /\ \A q \in Ports : Local(State, q) /\ Spare(State, call, q) = 0 /\ LiveOK(State, q)
  BY InvFacts
<1>2. p \in Ports /\ slot[s].rights \in Rights
  <2>1. p \in Ports
    BY <1>1, StateFields DEF SlotsOK
  <2>2. slot[s] \in KSlot
    BY <1>1, StateFields DEF KState
  <2> QED
    BY <2>1, <2>2 DEF KSlot
<1>3. Free \in KSlot /\ Free.at = "free"
  BY DEF Free, KSlot, Rights
<1>4. /\ k \in KState
      /\ k.port = State.port /\ k.entry = State.entry
      /\ k.dying = State.dying /\ k.surplus = State.surplus
      /\ k.slot = [State.slot EXCEPT ![s] = Free]
      /\ \A c \in Calls, q \in Ports :
            Spare(k, c, q) = Spare(State, c, q) + Bit(Filled(State.slot[s], q))
                                                - Bit(Filled(Free, q))
  BY <1>1, <1>3, SetSlot
<1> HIDE DEF k
<1>5. Shift(State, k, p, 1)
  <2>1. \A q \in Ports : /\ Bit(Filled(State.slot[s], q)) = IF q = p THEN 1 ELSE 0
                         /\ Bit(Filled(Free, q)) = 0
    <3>1. \A q \in Ports : (Filled(State.slot[s], q) <=> q = p) /\ ~Filled(Free, q)
      BY <1>3, StateFields DEF Filled
    <3> QED
      BY <3>1 DEF Bit
  <2>2. ASSUME NEW c \in Calls, NEW q \in Ports
        PROVE  Spare(k, c, q) = Spare(State, c, q) + (IF q = p THEN 1 ELSE 0)
    <3>1. Spare(State, c, q) \in Int
      BY <1>1, SpareType
    <3>2. Spare(k, c, q) = Spare(State, c, q) + Bit(Filled(State.slot[s], q))
                                              - Bit(Filled(Free, q))
      BY <1>4
    <3> QED
      BY <2>1, <3>1, <3>2
  <2> QED
    BY <2>2 DEF Shift
<1>6. \A q \in Ports : /\ \A right \in {"receive", "own"} :
                             Carrying(k, q, right) = Carrying(State, q, right) \ {s}
                       /\ Used(k, q) = Used(State, q) \ {s}
  <2>1. \A q \in Ports, right \in {"receive", "own"} :
           ~Carried(Free, q, right) /\ ~Kept(Free, q)
    BY <1>3 DEF Carried, Kept
  <2>2. ASSUME NEW q \in Ports
        PROVE  /\ \A right \in {"receive", "own"} :
                      Carrying(k, q, right) = IF Carried(Free, q, right)
                                              THEN Carrying(State, q, right) \cup {s}
                                              ELSE Carrying(State, q, right) \ {s}
               /\ Used(k, q) = IF Kept(Free, q) THEN Used(State, q) \cup {s}
                               ELSE Used(State, q) \ {s}
    BY <1>1, <1>3, <1>4, SlotSets
  <2> QED
    BY <2>1, <2>2
<1>7. k.slot[s].at = "free" /\ SlotsOK(k)
  <2>1. k.slot[s] = Free /\ \A i \in Slots \ {s} : k.slot[i] = State.slot[i]
    BY <1>1, <1>4 DEF KState
  <2> QED
    BY <1>1, <1>3, <2>1 DEF SlotsOK
<1>8. State.port[p].at = "live"
  <2>1. s \in Carriers(State.slot, p)
    BY StateFields DEF Carriers, Filled
  <2>2. Cardinality(Carriers(State.slot, p)) > 0
    BY <1>1, <1>2, <2>1, CountsType, CardPositive
  <2>3. State.port[p].references > 0
    BY <1>1, <1>2, <2>2, CountsType DEF Spare, Counted
  <2> QED
    BY <1>1, <1>2, <2>3 DEF LiveOK
<1> QED
  BY <1>2, <1>4, <1>5, <1>6, <1>7, <1>8 DEF Gone, k

LEMMA ObjectDestroyKeeps ==
  ASSUME IInv, NEW s \in Slots, object_destroy(s)
  PROVE  IInv'
<1> DEFINE p == slot[s].obj
           rights == slot[s].rights
           r == State.port[p]
           k == [State EXCEPT !.slot[s] = Free]
           receiver == Dead(rights, "receive", k.port[p].receiver)
           owner == Dead(rights, "own", k.port[p].owner)
           d1 == [k EXCEPT !.port[p].receiver = receiver]
           d2 == [d1 EXCEPT !.port[p].owner = owner]
<1>1. /\ State \in KState /\ call \in Calls
      /\ SlotsOK(State)
      /\ \A q \in Ports : Local(State, q) /\ Spare(State, call, q) = 0 /\ LiveOK(State, q)
  BY InvFacts
<1>2. slot[s].at \in {"live", "doomed", "used"} /\ UNCHANGED <<call, task>>
  BY DEF object_destroy
<1>3. p \in Ports /\ rights \in Rights /\ Gone(k, s, p) /\ r.at = "live"
  BY <1>2, MessageGone
<1>4. /\ rights = "PORT" \/ ~port[p].in_use => Becomes(port_release(k, p))
      /\ ~(rights = "PORT" \/ ~port[p].in_use) =>
            IF d2.port[p].receiver = Nil /\ d2.port[p].owner = Nil
            THEN Becomes(port_destroy(d2, p)) ELSE Becomes(Dropped(d2, p))
  <2>1. [k EXCEPT !.port[p].receiver = Dead(rights, "receive", @),
                  !.port[p].owner = Dead(rights, "own", @)] = d2
    BY <1>3 DEF Gone, KState, KPort
  <2> HIDE DEF d2
  <2> QED
    BY <2>1 DEF object_destroy
<1> HIDE DEF k
<1>5. /\ k \in KState /\ k.port = State.port /\ k.entry = State.entry /\ k.dying = State.dying
      /\ SlotsOK(k) /\ FreeSlots(k) # {}
      /\ \A q \in Ports : Used(k, q) = Used(State, q) \ {s}
  BY <1>3 DEF Gone, FreeSlots
<1>6. \A q \in Ports \ {p}, right \in {"receive", "own"} :
         Carrying(k, q, right) = Carrying(State, q, right)
  <2>1. \A q \in Ports \ {p}, right \in {"receive", "own"} : s \notin Carrying(State, q, right)
    BY StateFields DEF Carrying, Carried
  <2> QED
    BY <1>3, <2>1, Minus DEF Gone
<1>7. \A q \in Ports : Spare(k, call, q) = IF q = p THEN 1 ELSE 0
  BY <1>1, <1>3 DEF Gone, Shift
<1>8. CASE rights = "PORT" \/ ~port[p].in_use
  <2> DEFINE k1 == Dropped(k, p)
  <2>1. /\ OnlyPort(k, k1, p)
        /\ Reads(k1.port[p], r.at, r.in_use, r.references - 1, r.receiver, r.owner, r.backup)
        /\ Shift(k, k1, p, -1)
    BY <1>3, <1>5, DroppedIs
  <2>2. Becomes(CheckUnlock(k1, p))
    BY <1>4, <1>8 DEF port_release
  <2> HIDE DEF k1
  <2>3. ASSUME NEW q \in Ports PROVE Spare(k1, call, q) = 0
    <3>1. Spare(k1, call, q) = Spare(k, call, q) + (IF q = p THEN -1 ELSE 0)
      BY <1>1, <2>1 DEF Shift
    <3> QED
      BY <1>7, <3>1
  <2>4. ASSUME NEW q \in Ports PROVE Alike(State, k1, q)
    <3>1. port[q].in_use => \A right \in {"receive", "own"} :
                               Carrying(k, q, right) = Carrying(State, q, right)
      <4>1. CASE q # p
        BY <1>6, <4>1
      <4>2. CASE q = p /\ rights = "PORT"
        <5>1. \A right : s \notin Carrying(State, p, right)
          BY <4>2, StateFields DEF Carrying, Carried, Carries
        <5> QED
          BY <1>3, <4>2, <5>1, Minus DEF Gone
      <4> QED
        BY <1>8, <4>1, <4>2
    <3>2. /\ \A right : Carrying(k1, q, right) = Carrying(k, q, right)
          /\ Used(k1, q) \subseteq Used(State, q)
      BY <1>5, <2>1 DEF OnlyPort, Carrying, Used
    <3>3. k1.entry = State.entry /\ k1.dying = State.dying
      BY <1>5, <2>1 DEF OnlyPort
    <3>4. k1.port[q].in_use = State.port[q].in_use /\ k1.port[q].at = State.port[q].at
          /\ k1.port[q].receiver = State.port[q].receiver
          /\ k1.port[q].owner = State.port[q].owner
          /\ k1.port[q].backup = State.port[q].backup
      BY <1>5, <2>1 DEF OnlyPort, Reads
    <3> QED
      BY <3>1, <3>2, <3>3, <3>4, StateFields DEF Alike
  <2>5. \A q \in Ports : Local(k1, q)
    BY <1>1, <2>4, Frame
  <2>6. /\ k1 \in KState /\ k1.port[p].at = "live" /\ SlotsOK(k1)
        /\ \A q \in Ports \ {p} : LiveOK(k1, q)
    BY <1>1, <1>3, <1>5, <2>1 DEF OnlyPort, Reads, SlotsOK, LiveOK
  <2>7. KInv(CheckUnlock(k1, p), call) /\ CheckUnlock(k1, p).entry = k1.entry
    BY <1>1, <1>3, <2>3, <2>5, <2>6, Unlocked
  <2>8. TasksOK(CheckUnlock(k1, p), call', task')
    BY <1>2, <1>5, <2>1, <2>7, TasksFrame, StateFields DEF OnlyPort
  <2> QED
    BY <1>2, <2>2, <2>7, <2>8, Step
<1>9. CASE rights # "PORT" /\ port[p].in_use
  <2>1. InUse(State, p) /\ r \in KPort /\ r.receiver \in Holders /\ r.owner \in Holders
    <3>1. InUse(State, p) /\ r \in KPort
      BY <1>1, <1>3, <1>9, PortOf, StateFields DEF Local
    <3> QED
      BY <3>1 DEF KPort
  <2>2. /\ receiver = r.receiver \/ (r.receiver = Soft /\ receiver = Nil)
        /\ owner = r.owner \/ (r.owner = Soft /\ owner = Nil)
        /\ receiver \in Holders /\ owner \in Holders
    BY <1>5, <2>1 DEF Dead, Holders
  <2>3. Soft # Nil /\ Nil \notin MayInsert /\ Soft \notin MayInsert
        /\ \A u \in Tasks : u # Soft /\ u # Nil
    BY SoftIsNoTask, InsertedStay
  <2>4. InOneMessage(k, p, "receive", receiver) /\ InOneMessage(k, p, "own", owner)
    <3>1. /\ InOneMessage(State, p, "receive", r.receiver)
          /\ InOneMessage(State, p, "own", r.owner)
      BY <2>1 DEF InUse
    <3>2. \A right \in {"receive", "own"} :
             Carrying(k, p, right) = Carrying(State, p, right) \ {s}
      BY <1>3 DEF Gone
    <3>3. CASE slot[s].at \in {"live", "doomed"}
      <4>1. /\ "receive" \in Carries(rights) =>
                  r.receiver = Soft /\ Carrying(State, p, "receive") = {s}
            /\ "own" \in Carries(rights) =>
                  r.owner = Soft /\ Carrying(State, p, "own") = {s}
            /\ "receive" \notin Carries(rights) => s \notin Carrying(State, p, "receive")
            /\ "own" \notin Carries(rights) => s \notin Carrying(State, p, "own")
        BY <1>3, <1>9, <3>3, InThisMessage, StateFields
      <4>2. InOneMessage(k, p, "receive", receiver)
        <5>1. CASE "receive" \in Carries(rights)
          <6>1. receiver = Nil
            BY <1>5, <4>1, <5>1 DEF Dead
          <6>2. Carrying(k, p, "receive") = {}
            BY <3>2, <4>1, <5>1
          <6> QED
            BY <2>3, <6>1, <6>2 DEF InOneMessage
        <5>2. CASE "receive" \notin Carries(rights)
          <6>1. receiver = r.receiver
            BY <1>5, <5>2 DEF Dead
          <6>2. Carrying(k, p, "receive") = Carrying(State, p, "receive")
            BY <3>2, <4>1, <5>2, Minus
          <6> QED
            BY <3>1, <6>1, <6>2 DEF InOneMessage
        <5> QED
          BY <5>1, <5>2
      <4>3. InOneMessage(k, p, "own", owner)
        <5>1. CASE "own" \in Carries(rights)
          <6>1. owner = Nil
            BY <1>5, <4>1, <5>1 DEF Dead
          <6>2. Carrying(k, p, "own") = {}
            BY <3>2, <4>1, <5>1
          <6> QED
            BY <2>3, <6>1, <6>2 DEF InOneMessage
        <5>2. CASE "own" \notin Carries(rights)
          <6>1. owner = r.owner
            BY <1>5, <5>2 DEF Dead
          <6>2. Carrying(k, p, "own") = Carrying(State, p, "own")
            BY <3>2, <4>1, <5>2, Minus
          <6> QED
            BY <3>1, <6>1, <6>2 DEF InOneMessage
        <5> QED
          BY <5>1, <5>2
      <4> QED
        BY <4>2, <4>3
    <3>4. CASE slot[s].at = "used"
      <4>1. s \in Used(State, p)
        BY <1>9, <3>4, StateFields DEF Used, Kept
      <4>2. r.receiver \in MayInsert /\ r.owner \in MayInsert
        BY <1>1, <1>3, <4>1 DEF Local, Settled
      <4>3. receiver = r.receiver /\ owner = r.owner
        BY <2>2, <2>3, <4>2
      <4>4. \A right : s \notin Carrying(State, p, right)
        BY <3>4, StateFields DEF Carrying, Carried
      <4>5. \A right \in {"receive", "own"} : Carrying(k, p, right) = Carrying(State, p, right)
        BY <3>2, <4>4, Minus
      <4> QED
        BY <3>1, <4>3, <4>5 DEF InOneMessage
    <3> QED
      BY <1>2, <3>3, <3>4
  <2>5. \A u \in Tasks : Agrees(receiver, owner, u, State.entry[u][p])
    <3>1. ASSUME NEW u \in Tasks PROVE Agrees(receiver, owner, u, State.entry[u][p])
      <4>1. Agrees(r.receiver, r.owner, u, State.entry[u][p])
        BY <2>1 DEF InUse
      <4>2. (receiver = u <=> r.receiver = u) /\ (owner = u <=> r.owner = u)
        BY <2>2, <2>3
      <4> QED
        BY <4>1, <4>2 DEF Agrees
    <3> QED
      BY <3>1
  <2>6. Used(k, p) # {} => receiver \in MayInsert /\ owner \in MayInsert
    <3>1. Used(k, p) # {} => r.receiver \in MayInsert /\ r.owner \in MayInsert
      BY <1>1, <1>3, <1>5 DEF Local, Settled
    <3> QED
      BY <2>2, <2>3, <3>1
  <2> HIDE DEF receiver, owner
  <2>7. /\ OnlyPort(k, d1, p)
        /\ Reads(d1.port[p], r.at, r.in_use, r.references, receiver, r.owner, r.backup)
        /\ Shift(k, d1, p, 0)
    BY <1>3, <1>5, <2>2, SetReceiver
  <2> HIDE DEF d1
  <2>8. d1 \in KState
    BY <2>7 DEF OnlyPort
  <2>9. /\ OnlyPort(d1, d2, p)
        /\ Reads(d2.port[p], r.at, r.in_use, r.references, receiver, owner, r.backup)
        /\ Shift(d1, d2, p, 0)
    BY <1>3, <2>2, <2>7, <2>8, SetOwner, ZenonT(30) DEF Reads
  <2> HIDE DEF d2
  <2>10. /\ d2 \in KState /\ SlotsOK(d2) /\ FreeSlots(d2) # {}
         /\ d2.entry = State.entry /\ d2.dying = State.dying /\ d2.slot = k.slot
         /\ \A q \in Ports \ {p} : d2.port[q] = State.port[q]
    BY <1>5, <2>7, <2>9, ZenonT(30) DEF OnlyPort, SlotsOK, FreeSlots
  <2>11. ASSUME NEW q \in Ports PROVE Spare(d2, call, q) = IF q = p THEN 1 ELSE 0
    <3>1. Spare(d1, call, q) = Spare(k, call, q) + (IF q = p THEN 0 ELSE 0)
      BY <1>1, <2>7 DEF Shift
    <3>2. Spare(d2, call, q) = Spare(d1, call, q) + (IF q = p THEN 0 ELSE 0)
      BY <1>1, <2>9 DEF Shift
    <3> QED
      BY <1>7, <3>1, <3>2
  <2>12. \A q \in Ports : /\ \A right : Carrying(d2, q, right) = Carrying(k, q, right)
                          /\ Used(d2, q) = Used(k, q)
    BY <2>10 DEF Carrying, Used
  <2>13. ASSUME NEW q \in Ports \ {p} PROVE Local(d2, q) /\ LiveOK(d2, q)
    <3>1. \A right \in {"receive", "own"} : Carrying(d2, q, right) = Carrying(State, q, right)
      BY <1>6, <2>12
    <3>2. Used(d2, q) \subseteq Used(State, q)
      BY <1>5, <2>12
    <3>3. Alike(State, d2, q)
      BY <2>10, <3>1, <3>2 DEF Alike
    <3> QED
      BY <1>1, <2>10, <3>3, Frame DEF LiveOK
  <2>14. CASE receiver = Nil /\ owner = Nil
    <3>1. Doomed(d2, call, p)
      <4>1. Carrying(d2, p, "receive") = {} /\ Carrying(d2, p, "own") = {}
        BY <1>3, <2>3, <2>4, <2>12, <2>14 DEF InOneMessage
      <4>2. Used(d2, p) = {}
        BY <1>3, <2>3, <2>6, <2>12, <2>14
      <4>3. \A u \in Tasks : d2.entry[u][p] \in {"none", "SEND"}
        BY <2>3, <2>5, <2>10, <2>14 DEF Agrees
      <4>4. d2.port[p].at = "live" /\ d2.port[p].in_use /\ d2.dying[p] = "no"
            /\ d2.port[p].receiver = Nil /\ d2.port[p].owner = Nil
        BY <1>3, <1>9, <2>1, <2>9, <2>10, <2>14, StateFields DEF Reads, InUse
      <4> QED
        BY <2>10, <2>11, <2>13, <4>1, <4>2, <4>3, <4>4 DEF Doomed
    <3>2. KInv(port_destroy(d2, p), call) /\ port_destroy(d2, p).entry = d2.entry
      BY <1>1, <1>3, <2>10, <3>1, PortDestroyKeeps
    <3>3. Becomes(port_destroy(d2, p))
      BY <1>4, <1>9, <2>9, <2>14 DEF Reads
    <3>4. TasksOK(port_destroy(d2, p), call', task')
      BY <1>2, <2>10, <3>2, TasksFrame, StateFields
    <3> QED
      BY <1>2, <3>2, <3>3, <3>4, Step
  <2>15. CASE ~(receiver = Nil /\ owner = Nil)
    <3> DEFINE k2 == Dropped(d2, p)
    <3>1. /\ OnlyPort(d2, k2, p)
          /\ Reads(k2.port[p], r.at, r.in_use, k2.port[p].references, receiver, owner, r.backup)
          /\ Shift(d2, k2, p, -1)
      BY <1>3, <2>9, <2>10, DroppedIs DEF Reads
    <3>2. Becomes(k2)
      BY <1>4, <1>9, <2>9, <2>15 DEF Reads
    <3> HIDE DEF k2
    <3>3. ASSUME NEW q \in Ports PROVE Spare(k2, call, q) = 0
      <4>1. Spare(k2, call, q) = Spare(d2, call, q) + (IF q = p THEN -1 ELSE 0)
        BY <1>1, <3>1 DEF Shift
      <4> QED
        BY <2>11, <4>1
    <3>4. \A q \in Ports : /\ \A right : Carrying(k2, q, right) = Carrying(d2, q, right)
                           /\ Used(k2, q) = Used(d2, q)
      BY <3>1 DEF Carrying, Used, OnlyPort
    <3>5. ASSUME NEW q \in Ports \ {p} PROVE Local(k2, q) /\ LiveOK(k2, q)
      <4>1. Alike(d2, k2, q)
        BY <3>1, <3>4 DEF Alike, OnlyPort
      <4> QED
        BY <2>13, <3>1, <4>1, Frame DEF LiveOK, OnlyPort
    <3>6. Local(k2, p)
      <4>1. InOneMessage(k2, p, "receive", receiver) /\ InOneMessage(k2, p, "own", owner)
        BY <1>3, <2>4, <2>12, <3>4 DEF InOneMessage
      <4>2. k2.entry = State.entry /\ k2.dying = State.dying
        BY <2>10, <3>1 DEF OnlyPort
      <4>3. k2.port[p].at = "live" /\ k2.port[p].in_use
            /\ k2.port[p].receiver = receiver /\ k2.port[p].owner = owner
        BY <1>3, <1>9, <3>1, StateFields DEF Reads
      <4>4. InUse(k2, p)
        BY <2>1, <2>5, <2>15, <4>1, <4>2, <4>3 DEF InUse
      <4>5. Settled(k2, p)
        BY <1>3, <2>6, <2>12, <3>4, <4>3 DEF Settled
      <4> QED
        BY <4>3, <4>4, <4>5 DEF Local
    <3>7. \A q \in Ports : Local(k2, q)
      BY <3>5, <3>6
    <3>8. k2 \in KState /\ SlotsOK(k2) /\ k2.entry = State.entry
      BY <2>10, <3>1 DEF OnlyPort, SlotsOK
    <3>9. LiveOK(k2, p)
      <4>1. k2.port[p].at = "live" /\ k2.port[p].in_use
        BY <1>3, <1>9, <3>1, StateFields DEF Reads
      <4> QED
        BY <1>1, <1>3, <3>3, <3>6, <3>8, <4>1, Lives
    <3>10. KInv(k2, call')
      BY <1>2, <3>3, <3>5, <3>7, <3>8, <3>9 DEF KInv
    <3>11. TasksOK(k2, call', task')
      BY <1>2, <3>8, TasksFrame, StateFields
    <3> QED
      BY <3>2, <3>10, <3>11, Step
  <2> QED
    BY <2>14, <2>15
<1> QED
  BY <1>3, <1>8, <1>9

-----------------------------------------------------------------------------
(* A task gives a translation up.                                          *)

\* The translation of t is gone and its reference dropped, and the port's rights
\* are with receiver and owner.
Left(k, t, p, receiver, owner) ==
    LET r == State.port[p]
    IN  /\ k \in KState
        /\ \A q \in Ports \ {p} : k.port[q] = State.port[q]
        /\ Reads(k.port[p], r.at, r.in_use, r.references - 1, receiver, owner, r.backup)
        /\ k.slot = State.slot
        /\ k.dying = State.dying
        /\ k.entry = [State.entry EXCEPT ![t][p] = IF r.in_use THEN "none" ELSE "half"]
        /\ Shift(State, k, p, 0)

LEMMA LeftFacts ==
  ASSUME IInv, NEW t \in Tasks, NEW p \in Ports, NEW k, NEW receiver, NEW owner,
         Left(k, t, p, receiver, owner)
  PROVE  /\ k \in KState /\ SlotsOK(k)
         /\ FreeSlots(k) = FreeSlots(State)
         /\ \A q \in Ports : Spare(k, call, q) = 0
         /\ \A q \in Ports : \A right : Carrying(k, q, right) = Carrying(State, q, right)
         /\ \A q \in Ports : Used(k, q) = Used(State, q)
         /\ \A q \in Ports \ {p} : Local(k, q) /\ LiveOK(k, q)
         /\ \A u \in Tasks, q \in Ports :
               k.entry[u][q] = IF u = t /\ q = p
                               THEN IF port[p].in_use THEN "none" ELSE "half"
                               ELSE entry[u][q]
         /\ \A u \in Tasks, q \in Ports : k.entry[u][q] \in Types => entry[u][q] \in Types
<1>1. /\ State \in KState /\ call \in Calls
      /\ SlotsOK(State)
      /\ \A q \in Ports : Local(State, q) /\ Spare(State, call, q) = 0 /\ LiveOK(State, q)
  BY InvFacts
<1> DEFINE x == IF State.port[p].in_use THEN "none" ELSE "half"
<1>2. /\ k \in KState
      /\ \A q \in Ports \ {p} : k.port[q] = State.port[q]
      /\ k.slot = State.slot
      /\ k.dying = State.dying
      /\ k.entry = [State.entry EXCEPT ![t][p] = x]
      /\ Shift(State, k, p, 0)
  BY DEF Left
<1>3. x = (IF port[p].in_use THEN "none" ELSE "half") /\ x \notin Types
  BY StateFields DEF Types
<1> HIDE DEF x
<1>4. \A u \in Tasks, q \in Ports :
         k.entry[u][q] = IF u = t /\ q = p THEN x ELSE entry[u][q]
  BY <1>1, <1>2, StateFields DEF KState, KEntry
<1>5. \A q \in Ports : Spare(k, call, q) = 0
  BY <1>1, <1>2 DEF Shift
<1>6. SlotsOK(k) /\ FreeSlots(k) = FreeSlots(State)
  BY <1>1, <1>2 DEF SlotsOK, FreeSlots
<1>7. /\ \A q \in Ports : \A right : Carrying(k, q, right) = Carrying(State, q, right)
      /\ \A q \in Ports : Used(k, q) = Used(State, q)
  BY <1>2 DEF Carrying, Used
<1>8. ASSUME NEW q \in Ports \ {p} PROVE Local(k, q) /\ LiveOK(k, q)
  <2>1. Alike(State, k, q)
    BY <1>2, <1>4, <1>7, StateFields DEF Alike
  <2> QED
    BY <1>1, <1>2, <2>1, Frame DEF LiveOK
<1> QED
  BY <1>2, <1>3, <1>4, <1>5, <1>6, <1>7, <1>8

\* Both rights died: the port dies.
LEMMA LeftDies ==
  ASSUME IInv, NEW t \in Tasks, NEW p \in Ports, NEW k, t \notin MayInsert,
         FreeSlots(State) # {}, port[p].in_use,
         port[p].receiver = t \/ port[p].owner = t,
         port[p].receiver \in {t, Nil}, port[p].owner \in {t, Nil},
         Left(k, t, p, Nil, Nil)
  PROVE  /\ KInv(port_destroy(Referenced(k, p), p), call)
         /\ port_destroy(Referenced(k, p), p).entry = k.entry
<1> DEFINE r == State.port[p]
           k1 == Referenced(k, p)
<1>1. /\ State \in KState /\ call \in Calls
      /\ \A q \in Ports : Local(State, q)
  BY InvFacts
<1>2. /\ k \in KState /\ SlotsOK(k)
      /\ FreeSlots(k) = FreeSlots(State)
      /\ \A q \in Ports : Spare(k, call, q) = 0
      /\ \A q \in Ports : \A right : Carrying(k, q, right) = Carrying(State, q, right)
      /\ \A q \in Ports : Used(k, q) = Used(State, q)
      /\ \A q \in Ports \ {p} : Local(k, q) /\ LiveOK(k, q)
      /\ \A u \in Tasks, q \in Ports :
            k.entry[u][q] = IF u = t /\ q = p
                            THEN IF port[p].in_use THEN "none" ELSE "half"
                            ELSE entry[u][q]
  BY LeftFacts
<1>3. /\ Reads(k.port[p], r.at, r.in_use, r.references - 1, Nil, Nil, r.backup)
      /\ k.dying = State.dying
  BY DEF Left
<1>4. /\ OnlyPort(k, k1, p)
      /\ Reads(k1.port[p], r.at, r.in_use, k1.port[p].references, Nil, Nil, r.backup)
      /\ Shift(k, k1, p, 1)
  BY <1>2, <1>3, ReferencedIs DEF Reads
<1> HIDE DEF k1
<1>5. InUse(State, p)
  BY <1>1, StateFields DEF Local
<1>6. /\ k1 \in KState /\ SlotsOK(k1) /\ FreeSlots(k1) # {}
      /\ k1.entry = k.entry /\ k1.dying = State.dying
  BY <1>2, <1>3, <1>4 DEF OnlyPort, SlotsOK, FreeSlots
<1>7. \A q \in Ports : /\ \A right : Carrying(k1, q, right) = Carrying(State, q, right)
                       /\ Used(k1, q) = Used(State, q)
  <2>1. k1.slot = k.slot
    BY <1>4 DEF OnlyPort
  <2>2. \A q \in Ports : /\ \A right : Carrying(k1, q, right) = Carrying(k, q, right)
                         /\ Used(k1, q) = Used(k, q)
    BY <2>1 DEF Carrying, Used
  <2> QED
    BY <1>2, <2>2
<1>8. Carrying(k1, p, "receive") = {} /\ Carrying(k1, p, "own") = {}
  BY <1>5, <1>7, SoftIsNoTask, StateFields DEF InUse, InOneMessage
<1>9. Used(k1, p) = {}
  BY <1>1, <1>7, InsertedStay, SoftIsNoTask, StateFields DEF Local, Settled
<1>10. \A u \in Tasks : k1.entry[u][p] \in {"none", "SEND"}
  <2>1. ASSUME NEW u \in Tasks PROVE k1.entry[u][p] \in {"none", "SEND"}
    <3>1. CASE u = t
      BY <1>2, <1>6, <3>1
    <3>2. CASE u # t
      <4>1. Agrees(port[p].receiver, port[p].owner, u, entry[u][p])
        BY <1>5, StateFields DEF InUse
      <4>2. port[p].receiver # u /\ port[p].owner # u
        BY <3>2, SoftIsNoTask
      <4>3. k1.entry[u][p] = entry[u][p]
        BY <1>2, <1>6, <3>2
      <4> QED
        BY <4>1, <4>2, <4>3 DEF Agrees
    <3> QED
      BY <3>1, <3>2
  <2> QED
    BY <2>1
<1>11. ASSUME NEW q \in Ports PROVE Spare(k1, call, q) = IF q = p THEN 1 ELSE 0
  <2>1. Spare(k1, call, q) = Spare(k, call, q) + (IF q = p THEN 1 ELSE 0)
    BY <1>1, <1>4 DEF Shift
  <2> QED
    BY <1>2, <2>1
<1>12. ASSUME NEW q \in Ports \ {p} PROVE Local(k1, q) /\ LiveOK(k1, q)
  <2>1. Alike(k, k1, q)
    BY <1>4 DEF Alike, OnlyPort, Carrying, Used
  <2> QED
    BY <1>2, <1>4, <2>1, Frame DEF LiveOK, OnlyPort
<1>13. Doomed(k1, call, p)
  <2>1. k1.port[p].at = "live" /\ k1.port[p].in_use /\ k1.dying[p] = "no"
        /\ k1.port[p].receiver = Nil /\ k1.port[p].owner = Nil
    BY <1>4, <1>5, <1>6, StateFields DEF Reads, InUse
  <2> QED
    BY <1>6, <1>8, <1>9, <1>10, <1>11, <1>12, <2>1 DEF Doomed
<1>14. KInv(port_destroy(k1, p), call) /\ port_destroy(k1, p).entry = k1.entry
  BY <1>1, <1>6, <1>13, PortDestroyKeeps
<1> QED
  BY <1>6, <1>14 DEF k1

\* The port goes on, with the rights where k says, and the messages that k has.
LEMMA LeftLives ==
  ASSUME IInv, NEW t \in Tasks, NEW p \in Ports, NEW k \in KState,
         NEW receiver \in {Nil, Soft, port[p].receiver}, receiver # t,
         NEW owner \in {Nil, Soft, port[p].owner}, owner # t,
         port[p].in_use, t \notin MayInsert, port[p].receiver = t \/ port[p].owner = t,
         ~(receiver = Nil /\ owner = Nil),
         \A q \in Ports \ {p} : Local(k, q) /\ LiveOK(k, q),
         \A q \in Ports : Spare(k, call, q) = 0,
         SlotsOK(k),
         Reads(k.port[p], State.port[p].at, State.port[p].in_use, k.port[p].references,
               receiver, owner, State.port[p].backup),
         k.dying = State.dying,
         \A u \in Tasks : k.entry[u][p] = IF u = t THEN "none" ELSE entry[u][p],
         \A u \in Tasks \ {t} : (receiver = u <=> port[p].receiver = u)
                                /\ (owner = u <=> port[p].owner = u),
         InOneMessage(k, p, "receive", receiver),
         InOneMessage(k, p, "own", owner),
         Used(k, p) = Used(State, p)
  PROVE  KInv(k, call)
<1>1. /\ State \in KState /\ call \in Calls
      /\ \A q \in Ports : Local(State, q)
  BY InvFacts
<1>2. InUse(State, p)
  BY <1>1, StateFields DEF Local
<1>3. k.port[p].at = "live" /\ k.port[p].in_use /\ k.dying[p] = "no"
      /\ k.port[p].receiver = receiver /\ k.port[p].owner = owner
  BY <1>2, StateFields DEF Reads, InUse
<1>4. ASSUME NEW u \in Tasks PROVE Agrees(receiver, owner, u, k.entry[u][p])
  <2>1. CASE u = t
    BY <2>1 DEF Agrees
  <2>2. CASE u # t
    <3>1. Agrees(port[p].receiver, port[p].owner, u, entry[u][p])
      BY <1>2, StateFields DEF InUse
    <3> QED
      BY <2>2, <3>1 DEF Agrees
  <2> QED
    BY <2>1, <2>2
<1>5. InUse(k, p)
  BY <1>3, <1>4 DEF InUse
<1>6. Used(k, p) = {}
  BY <1>1, StateFields DEF Local, Settled
<1>7. Local(k, p)
  BY <1>3, <1>5, <1>6 DEF Local, Settled
<1>8. LiveOK(k, p)
  BY <1>1, <1>3, <1>7, Lives
<1> QED
  BY <1>7, <1>8 DEF KInv

\* A right dies whose other right is in a message.
LEMMA LeftStays ==
  ASSUME IInv, NEW t \in Tasks, NEW p \in Ports, NEW k, t \notin MayInsert, port[p].in_use,
         \/ port[p].receiver = t /\ port[p].owner = Soft /\ Left(k, t, p, Nil, Soft)
         \/ port[p].owner = t /\ port[p].receiver = Soft /\ Left(k, t, p, Soft, Nil)
  PROVE  KInv(k, call)
<1>1. PICK receiver \in {Nil, Soft}, owner \in {Nil, Soft} :
         /\ receiver = Nil => owner = Soft /\ port[p].receiver = t /\ port[p].owner = Soft
         /\ receiver # Nil => owner = Nil /\ port[p].receiver = Soft /\ port[p].owner = t
         /\ Left(k, t, p, receiver, owner)
  BY SoftIsNoTask
<1>2. /\ k \in KState /\ SlotsOK(k)
      /\ \A q \in Ports : Spare(k, call, q) = 0
      /\ \A q \in Ports : \A right : Carrying(k, q, right) = Carrying(State, q, right)
      /\ \A q \in Ports : Used(k, q) = Used(State, q)
      /\ \A q \in Ports \ {p} : Local(k, q) /\ LiveOK(k, q)
      /\ \A u \in Tasks, q \in Ports :
            k.entry[u][q] = IF u = t /\ q = p
                            THEN IF port[p].in_use THEN "none" ELSE "half"
                            ELSE entry[u][q]
  BY <1>1, LeftFacts
<1>3. /\ Reads(k.port[p], State.port[p].at, State.port[p].in_use, k.port[p].references,
               receiver, owner, State.port[p].backup)
      /\ k.dying = State.dying
  BY <1>1 DEF Left, Reads
<1>4. Nil # Soft /\ \A u \in Tasks : u # Soft /\ u # Nil
  BY SoftIsNoTask
<1>5. InUse(State, p)
  BY InvFacts, StateFields DEF Local
<1>6. /\ InOneMessage(State, p, "receive", port[p].receiver)
      /\ InOneMessage(State, p, "own", port[p].owner)
  BY <1>5, StateFields DEF InUse
<1>7. InOneMessage(k, p, "receive", receiver) /\ InOneMessage(k, p, "own", owner)
  BY <1>1, <1>2, <1>4, <1>6 DEF InOneMessage
<1>8. /\ receiver # t /\ owner # t /\ ~(receiver = Nil /\ owner = Nil)
      /\ port[p].receiver = t \/ port[p].owner = t
      /\ \A u \in Tasks \ {t} : (receiver = u <=> port[p].receiver = u)
                                /\ (owner = u <=> port[p].owner = u)
  BY <1>1, <1>4
<1>9. \A u \in Tasks : k.entry[u][p] = IF u = t THEN "none" ELSE entry[u][p]
  BY <1>2
<1> QED
  BY <1>1, <1>2, <1>3, <1>7, <1>8, <1>9, LeftLives

\* The right goes to the task with the other one.
LEMMA LeftGoes ==
  ASSUME IInv, NEW t \in Tasks, NEW p \in Ports, NEW k, t \notin MayInsert, port[p].in_use,
         FreeSlots(State) # {}, NEW rights, NEW to \in Tasks, to # t,
         \/ /\ port[p].receiver = t /\ port[p].owner = to /\ rights = "RECEIVE"
            /\ Left(k, t, p, Soft, to)
         \/ /\ port[p].owner = t /\ port[p].receiver = to /\ rights = "OWNERSHIP"
            /\ Left(k, t, p, to, Soft)
  PROVE  /\ KInv(PutInMessage(Referenced(k, p), p, rights, to), call)
         /\ PutInMessage(Referenced(k, p), p, rights, to).entry = k.entry
<1> DEFINE r == State.port[p]
           k1 == Referenced(k, p)
           k2 == PutInMessage(k1, p, rights, to)
<1>1. PICK receiver \in {to, Soft}, owner \in {to, Soft} :
         /\ receiver = Soft => owner = to /\ port[p].receiver = t /\ port[p].owner = to
                               /\ rights = "RECEIVE"
         /\ receiver # Soft => owner = Soft /\ port[p].receiver = to /\ port[p].owner = t
                               /\ rights = "OWNERSHIP"
         /\ Left(k, t, p, receiver, owner)
  BY SoftIsNoTask
<1>2. /\ k \in KState /\ SlotsOK(k)
      /\ FreeSlots(k) = FreeSlots(State)
      /\ \A q \in Ports : Spare(k, call, q) = 0
      /\ \A q \in Ports : \A right : Carrying(k, q, right) = Carrying(State, q, right)
      /\ \A q \in Ports : Used(k, q) = Used(State, q)
      /\ \A q \in Ports \ {p} : Local(k, q) /\ LiveOK(k, q)
      /\ \A u \in Tasks, q \in Ports :
            k.entry[u][q] = IF u = t /\ q = p
                            THEN IF port[p].in_use THEN "none" ELSE "half"
                            ELSE entry[u][q]
  BY <1>1, LeftFacts
<1>3. /\ Reads(k.port[p], r.at, r.in_use, r.references - 1, receiver, owner, r.backup)
      /\ k.dying = State.dying
  BY <1>1 DEF Left
<1>4. to # Soft /\ to # Nil /\ t # Soft /\ Nil # Soft /\ \A u \in Tasks : u # Soft /\ u # Nil
  BY SoftIsNoTask
<1>5. InUse(State, p) /\ call \in Calls
  BY InvFacts, StateFields DEF Local
<1>6. /\ OnlyPort(k, k1, p)
      /\ Reads(k1.port[p], r.at, r.in_use, k1.port[p].references, receiver, owner, r.backup)
      /\ Shift(k, k1, p, 1)
  BY <1>2, <1>3, ReferencedIs DEF Reads
<1> HIDE DEF k1
<1>7. /\ k1 \in KState /\ SlotsOK(k1) /\ FreeSlots(k1) # {}
      /\ k1.entry = k.entry /\ k1.dying = State.dying /\ k1.slot = k.slot
  BY <1>2, <1>3, <1>6 DEF OnlyPort, SlotsOK, FreeSlots
<1>8. Posted(k1, k2, p, rights, to)
  <2>1. rights \in Rights /\ to \in Tasks \cup {Nil}
    BY DEF Rights
  <2> QED
    BY <1>7, <2>1, PutInMessageIs
<1> HIDE DEF k2
<1>9. ASSUME NEW q \in Ports PROVE Spare(k2, call, q) = 0
  <2>1. Spare(k1, call, q) = Spare(k, call, q) + (IF q = p THEN 1 ELSE 0)
    BY <1>5, <1>6 DEF Shift
  <2>2. Spare(k2, call, q) = Spare(k1, call, q) + (IF q = p THEN -1 ELSE 0)
    BY <1>5, <1>8 DEF Shift, Posted
  <2> QED
    BY <1>2, <2>1, <2>2
<1>10. PICK s \in Slots : \A q \in Ports :
          /\ \A right \in {"receive", "own"} :
               Carrying(k2, q, right) =
                  IF q = p /\ right \in Carries(rights)
                  THEN Carrying(k, q, right) \cup {s} ELSE Carrying(k, q, right)
          /\ Used(k2, q) = Used(k, q)
  BY <1>7, <1>8 DEF Posted, Carrying, Used
<1>11. /\ InOneMessage(State, p, "receive", port[p].receiver)
       /\ InOneMessage(State, p, "own", port[p].owner)
  BY <1>5, StateFields DEF InUse
<1>12. Carrying(k, p, "receive") = {} /\ Carrying(k, p, "own") = {}
  BY <1>1, <1>2, <1>4, <1>11 DEF InOneMessage
<1>13. InOneMessage(k2, p, "receive", receiver) /\ InOneMessage(k2, p, "own", owner)
  <2>1. CASE receiver = Soft
    <3>1. Carries(rights) = {"receive"}
      BY <1>1, <2>1 DEF Carries
    <3>2. Carrying(k2, p, "receive") = {s} /\ Carrying(k2, p, "own") = {}
      BY <1>10, <1>12, <3>1
    <3> QED
      BY <1>1, <1>4, <2>1, <3>2 DEF InOneMessage
  <2>2. CASE receiver # Soft
    <3>1. Carries(rights) = {"own"}
      BY <1>1, <2>2 DEF Carries
    <3>2. Carrying(k2, p, "own") = {s} /\ Carrying(k2, p, "receive") = {}
      BY <1>10, <1>12, <3>1
    <3> QED
      BY <1>1, <1>4, <2>2, <3>2 DEF InOneMessage
  <2> QED
    BY <2>1, <2>2
<1>14. /\ k2 \in KState /\ k2.entry = k.entry /\ k2.dying = State.dying
       /\ \A q \in Ports \ {p} : k2.port[q] = k.port[q]
       /\ Reads(k2.port[p], r.at, r.in_use, k2.port[p].references, receiver, owner, r.backup)
  BY <1>6, <1>7, <1>8 DEF OnlyPort, Posted
<1>15. ASSUME NEW q \in Ports \ {p} PROVE Local(k2, q) /\ LiveOK(k2, q)
  <2>1. Alike(k, k2, q)
    <3>1. k2.dying = k.dying
      BY <1>3, <1>14
    <3> QED
      BY <1>10, <1>14, <3>1 DEF Alike
  <2> QED
    BY <1>2, <1>14, <2>1, Frame DEF LiveOK
<1>16. SlotsOK(k2)
  BY <1>7, <1>8, PostedSlots
<1>17. /\ receiver # t /\ owner # t /\ ~(receiver = Nil /\ owner = Nil)
       /\ receiver \in {Nil, Soft, port[p].receiver} /\ owner \in {Nil, Soft, port[p].owner}
       /\ port[p].receiver = t \/ port[p].owner = t
       /\ \A u \in Tasks \ {t} : (receiver = u <=> port[p].receiver = u)
                                 /\ (owner = u <=> port[p].owner = u)
  BY <1>1, <1>4
<1>18. /\ \A u \in Tasks : k2.entry[u][p] = IF u = t THEN "none" ELSE entry[u][p]
       /\ Used(k2, p) = Used(State, p)
  BY <1>2, <1>10, <1>14
<1>19. KInv(k2, call)
  BY <1>9, <1>13, <1>14, <1>15, <1>16, <1>17, <1>18, LeftLives
<1> QED
  BY <1>14, <1>19 DEF k1, k2

LEMMA PortDeallocKeeps ==
  ASSUME IInv, NEW t \in Tasks, NEW p \in Ports, t \notin MayInsert, FreeSlots(State) # {}
  PROVE  /\ KInv(port_dealloc(State, t, p), call)
         /\ \A u \in Tasks, q \in Ports :
               port_dealloc(State, t, p).entry[u][q] \in Types => entry[u][q] \in Types
<1> DEFINE r == State.port[p]
           gone == obj_entry_destroy(State, t, p)
           unowned == [gone EXCEPT !.port[p].owner = Nil]
           rid == port_clear_receiver(unowned, p, Nil)
           result == port_dealloc(State, t, p)
<1>1. /\ State \in KState /\ call \in Calls
      /\ SlotsOK(State)
      /\ \A q \in Ports : Local(State, q) /\ Spare(State, call, q) = 0 /\ LiveOK(State, q)
  BY InvFacts
<1>2. r = port[p] /\ r \in KPort /\ r.receiver \in Holders /\ r.owner \in Holders
      /\ entry[t][p] \in Entries
  <2>1. r = port[p] /\ r \in KPort /\ entry[t][p] \in Entries
    BY <1>1, PortOf, StateFields DEF KState, KEntry
  <2> QED
    BY <2>1 DEF KPort
<1>3. t # Soft /\ t # Nil /\ Soft # Nil /\ Nil \in Holders /\ Soft \in Holders
  BY SoftIsNoTask DEF Holders
<1>4. CASE entry[t][p] \in {"none", "half"}
  <2>1. result = State
    BY <1>4, StateFields DEF port_dealloc
  <2> HIDE DEF result
  <2> QED
    BY <2>1, StateFields DEF IInv, result
<1>5. CASE entry[t][p] \in Types
  <2>1. Left(gone, t, p, r.receiver, r.owner)
    <3>1. LET k2 == obj_entry_destroy(State, t, p)
              l == State.port[p]
          IN  /\ k2 \in KState
              /\ \A q \in Ports \ {p} : k2.port[q] = State.port[q]
              /\ Reads(k2.port[p], l.at, l.in_use, l.references - 1, l.receiver, l.owner,
                       l.backup)
              /\ k2.slot = State.slot /\ k2.dying = State.dying /\ k2.surplus = State.surplus
              /\ k2.entry = [State.entry EXCEPT ![t][p] = IF l.in_use THEN "none" ELSE "half"]
              /\ Shift(State, k2, p, 0)
      BY <1>1, <1>5, EntryDestroyedIs, StateFields
    <3> QED
      BY <3>1 DEF Left
  <2> HIDE DEF gone
  <2>2. /\ gone \in KState
        /\ \A q \in Ports \ {p} : gone.port[q] = State.port[q]
        /\ Reads(gone.port[p], r.at, r.in_use, r.references - 1, r.receiver, r.owner, r.backup)
        /\ gone.slot = State.slot
        /\ gone.dying = State.dying
        /\ gone.entry = [State.entry EXCEPT ![t][p] = IF r.in_use THEN "none" ELSE "half"]
        /\ Shift(State, gone, p, 0)
    BY <2>1 DEF Left
  <2>3. CASE entry[t][p] = "SEND"
    <3>1. result = gone
      BY <2>3, StateFields DEF port_dealloc, gone
    <3> HIDE DEF result
    <3>2. /\ gone \in KState /\ SlotsOK(gone)
          /\ \A q \in Ports : Spare(gone, call, q) = 0
          /\ \A q \in Ports : \A right : Carrying(gone, q, right) = Carrying(State, q, right)
          /\ \A q \in Ports : Used(gone, q) = Used(State, q)
          /\ \A q \in Ports \ {p} : Local(gone, q) /\ LiveOK(gone, q)
          /\ \A u \in Tasks, q \in Ports :
                gone.entry[u][q] = IF u = t /\ q = p
                                   THEN IF port[p].in_use THEN "none" ELSE "half"
                                   ELSE entry[u][q]
          /\ \A u \in Tasks, q \in Ports : gone.entry[u][q] \in Types => entry[u][q] \in Types
      BY <2>1, LeftFacts
    <3>3. Local(gone, p) /\ gone.port[p].at = "live"
          /\ (gone.port[p].in_use \/ Marked(gone.dying[p]))
      <4>1. CASE port[p].in_use
        <5>1. InUse(State, p)
          BY <1>1, <4>1, StateFields DEF Local
        <5>2. gone.port[p].in_use /\ gone.port[p].at = "live" /\ gone.dying[p] = "no"
              /\ gone.port[p].receiver = r.receiver /\ gone.port[p].owner = r.owner
          BY <1>2, <2>2, <4>1, <5>1 DEF Reads, InUse
        <5>3. Agrees(r.receiver, r.owner, t, "none")
          BY <2>3, <5>1, StateFields DEF InUse, Agrees
        <5>4. \A u \in Tasks : Agrees(r.receiver, r.owner, u, gone.entry[u][p])
          BY <3>2, <4>1, <5>1, <5>3, StateFields DEF InUse
        <5>5. InUse(gone, p)
          BY <3>2, <5>1, <5>2, <5>4 DEF InUse, InOneMessage
        <5>6. Settled(gone, p)
          BY <1>1, <3>2, <5>2 DEF Local, Settled
        <5> QED
          BY <5>2, <5>5, <5>6 DEF Local
      <4>2. CASE ~port[p].in_use
        <5>1. NotInUse(State, p)
          BY <1>1, <4>2, StateFields DEF Local
        <5>2. Marked(dying[p])
          BY <2>3, <5>1, StateFields DEF NotInUse, Marked
        <5>3. r.at = "live"
          BY <1>2, <5>2, Dying
        <5>4. ~gone.port[p].in_use /\ gone.port[p].at = "live" /\ Marked(gone.dying[p])
              /\ gone.port[p].receiver = r.receiver /\ gone.port[p].owner = r.owner
              /\ gone.port[p].backup = r.backup /\ gone.dying[p] = State.dying[p]
          BY <1>2, <2>2, <4>2, <5>2, <5>3, StateFields DEF Reads
        <5>5. \A u \in Tasks : gone.entry[u][p] = IF u = t THEN "half" ELSE entry[u][p]
          BY <3>2, <4>2
        <5>6. NotInUse(gone, p)
          BY <5>1, <5>3, <5>4, <5>5, StateFields DEF NotInUse, Marked
        <5>7. Settled(gone, p)
          BY <1>1, <3>2, <5>4 DEF Local, Settled
        <5> QED
          BY <5>4, <5>6, <5>7 DEF Local
      <4> QED
        BY <4>1, <4>2
    <3>4. LiveOK(gone, p)
      BY <1>1, <3>2, <3>3, Lives
    <3>5. KInv(gone, call)
      BY <3>2, <3>3, <3>4 DEF KInv
    <3> QED
      BY <3>1, <3>2, <3>5 DEF result
  <2>4. ASSUME entry[t][p] # "SEND"
        PROVE  /\ port[p].in_use
               /\ InUse(State, p)
               /\ entry[t][p] = "RECEIVE" => r.receiver = t /\ r.owner # t
               /\ entry[t][p] = "OWN" => r.receiver # t /\ r.owner = t
               /\ entry[t][p] = "RECEIVE_OWN" => r.receiver = t /\ r.owner = t
    <3>1. port[p].in_use
      BY <1>1, <1>5, <2>4, StateFields DEF Local, NotInUse, Types
    <3>2. InUse(State, p)
      BY <1>1, <3>1, StateFields DEF Local
    <3>3. Agrees(r.receiver, r.owner, t, entry[t][p])
      BY <3>2, StateFields DEF InUse
    <3> QED
      BY <3>1, <3>2, <3>3 DEF Agrees
  <2>5. ASSUME NEW x \in Holders
        PROVE  Left(port_clear_receiver(gone, p, x), t, p, x, r.owner)
    <3> DEFINE k2 == port_clear_receiver(gone, p, x)
    <3>1. /\ OnlyPort(gone, k2, p)
          /\ Reads(k2.port[p], r.at, r.in_use, r.references - 1, x, r.owner, r.backup)
          /\ Shift(gone, k2, p, 0)
      BY <2>2, ClearedIs DEF Reads
    <3> HIDE DEF k2
    <3>2. Shift(State, k2, p, 0)
      <4>1. ASSUME NEW c \in Calls, NEW q \in Ports
            PROVE  Spare(k2, c, q) = Spare(State, c, q) + (IF q = p THEN 0 ELSE 0)
        <5>1. Spare(State, c, q) \in Int
          BY <1>1, SpareType
        <5> QED
          BY <2>2, <3>1, <5>1 DEF Shift
      <4> QED
        BY <4>1 DEF Shift
    <3>3. Left(k2, t, p, x, r.owner)
      BY <2>2, <3>1, <3>2 DEF Left, OnlyPort
    <3> QED
      BY <3>3 DEF k2
  <2>6. ASSUME NEW x \in Holders
        PROVE  Left([gone EXCEPT !.port[p].owner = x], t, p, r.receiver, x)
    <3> DEFINE k2 == [gone EXCEPT !.port[p].owner = x]
    <3>1. /\ OnlyPort(gone, k2, p)
          /\ Reads(k2.port[p], r.at, r.in_use, r.references - 1, r.receiver, x, r.backup)
          /\ Shift(gone, k2, p, 0)
      BY <2>2, SetOwner DEF Reads
    <3> HIDE DEF k2
    <3>2. Shift(State, k2, p, 0)
      <4>1. ASSUME NEW c \in Calls, NEW q \in Ports
            PROVE  Spare(k2, c, q) = Spare(State, c, q) + (IF q = p THEN 0 ELSE 0)
        <5>1. Spare(State, c, q) \in Int
          BY <1>1, SpareType
        <5> QED
          BY <2>2, <3>1, <5>1 DEF Shift
      <4> QED
        BY <4>1 DEF Shift
    <3>3. Left(k2, t, p, r.receiver, x)
      BY <2>2, <3>1, <3>2 DEF Left, OnlyPort
    <3> QED
      BY <3>3 DEF k2
  <2>7. CASE entry[t][p] = "RECEIVE"
    <3>1. result = DeallocReceive(gone, p)
      BY <2>7, StateFields DEF port_dealloc, gone
    <3>2. gone.port[p].owner = r.owner
      BY <2>2 DEF Reads
    <3> HIDE DEF result
    <3>3. port[p].in_use /\ port[p].receiver = t /\ port[p].owner = r.owner /\ r.owner # t
      BY <1>2, <2>4, <2>7
    <3>4. CASE r.owner = Nil
      <4> DEFINE k == port_clear_receiver(gone, p, Nil)
      <4>1. Left(k, t, p, Nil, Nil)
        BY <1>3, <2>5, <3>4
      <4>2. result = port_destroy(Referenced(k, p), p)
        BY <1>3, <3>1, <3>2, <3>4 DEF DeallocReceive
      <4> HIDE DEF k
      <4>3. KInv(port_destroy(Referenced(k, p), p), call)
            /\ port_destroy(Referenced(k, p), p).entry = k.entry
        BY <3>3, <3>4, <4>1, LeftDies
      <4>4. \A u \in Tasks, q \in Ports : k.entry[u][q] \in Types => entry[u][q] \in Types
        BY <4>1, LeftFacts
      <4> QED
        BY <4>2, <4>3, <4>4 DEF result
    <3>5. CASE r.owner = Soft
      <4> DEFINE k == port_clear_receiver(gone, p, Nil)
      <4>1. Left(k, t, p, Nil, Soft)
        BY <1>3, <2>5, <3>5
      <4>2. result = k
        BY <1>3, <3>1, <3>2, <3>5 DEF DeallocReceive
      <4> HIDE DEF k
      <4>3. KInv(k, call)
        BY <3>3, <3>5, <4>1, LeftStays
      <4>4. \A u \in Tasks, q \in Ports : k.entry[u][q] \in Types => entry[u][q] \in Types
        BY <4>1, LeftFacts
      <4> QED
        BY <4>2, <4>3, <4>4 DEF result
    <3>6. CASE r.owner \in Tasks
      <4> DEFINE k == port_clear_receiver(gone, p, Soft)
                 to == r.owner
      <4>1. Left(k, t, p, Soft, to)
        BY <1>3, <2>5
      <4>2. result = PutInMessage(Referenced(k, p), p, "RECEIVE", to)
        BY <3>1, <3>2, <3>6, SoftIsNoTask DEF DeallocReceive
      <4> HIDE DEF k
      <4>3. to \in Tasks /\ to # t /\ port[p].owner = to
        BY <3>3, <3>6
      <4> HIDE DEF to
      <4>4. KInv(PutInMessage(Referenced(k, p), p, "RECEIVE", to), call)
            /\ PutInMessage(Referenced(k, p), p, "RECEIVE", to).entry = k.entry
        BY <3>3, <4>1, <4>3, LeftGoes
      <4>5. \A u \in Tasks, q \in Ports : k.entry[u][q] \in Types => entry[u][q] \in Types
        BY <4>1, LeftFacts
      <4> QED
        BY <4>2, <4>4, <4>5 DEF result
    <3> QED
      BY <1>2, <3>4, <3>5, <3>6 DEF Holders
  <2>8. CASE entry[t][p] = "OWN"
    <3>1. result = DeallocOwn(gone, p)
      BY <2>8, StateFields DEF port_dealloc, gone
    <3>2. gone.port[p].receiver = r.receiver
      BY <2>2 DEF Reads
    <3> HIDE DEF result
    <3>3. port[p].in_use /\ port[p].owner = t /\ port[p].receiver = r.receiver
          /\ r.receiver # t
      BY <1>2, <2>4, <2>8
    <3>4. CASE r.receiver = Nil
      <4> DEFINE k == [gone EXCEPT !.port[p].owner = Nil]
      <4>1. Left(k, t, p, Nil, Nil)
        BY <1>3, <2>6, <3>4
      <4>2. result = port_destroy(Referenced(k, p), p)
        BY <1>3, <3>1, <3>2, <3>4 DEF DeallocOwn
      <4> HIDE DEF k
      <4>3. KInv(port_destroy(Referenced(k, p), p), call)
            /\ port_destroy(Referenced(k, p), p).entry = k.entry
        BY <3>3, <3>4, <4>1, LeftDies
      <4>4. \A u \in Tasks, q \in Ports : k.entry[u][q] \in Types => entry[u][q] \in Types
        BY <4>1, LeftFacts
      <4> QED
        BY <4>2, <4>3, <4>4 DEF result
    <3>5. CASE r.receiver = Soft
      <4> DEFINE k == [gone EXCEPT !.port[p].owner = Nil]
      <4>1. Left(k, t, p, Soft, Nil)
        BY <1>3, <2>6, <3>5
      <4>2. result = k
        BY <1>3, <3>1, <3>2, <3>5 DEF DeallocOwn
      <4> HIDE DEF k
      <4>3. KInv(k, call)
        BY <3>3, <3>5, <4>1, LeftStays
      <4>4. \A u \in Tasks, q \in Ports : k.entry[u][q] \in Types => entry[u][q] \in Types
        BY <4>1, LeftFacts
      <4> QED
        BY <4>2, <4>3, <4>4 DEF result
    <3>6. CASE r.receiver \in Tasks
      <4> DEFINE k == [gone EXCEPT !.port[p].owner = Soft]
                 to == r.receiver
      <4>1. Left(k, t, p, to, Soft)
        BY <1>3, <2>6
      <4>2. result = PutInMessage(Referenced(k, p), p, "OWNERSHIP", to)
        BY <3>1, <3>2, <3>6, SoftIsNoTask DEF DeallocOwn
      <4> HIDE DEF k
      <4>3. to \in Tasks /\ to # t /\ port[p].receiver = to
        BY <3>3, <3>6
      <4> HIDE DEF to
      <4>4. KInv(PutInMessage(Referenced(k, p), p, "OWNERSHIP", to), call)
            /\ PutInMessage(Referenced(k, p), p, "OWNERSHIP", to).entry = k.entry
        BY <3>3, <4>1, <4>3, LeftGoes
      <4>5. \A u \in Tasks, q \in Ports : k.entry[u][q] \in Types => entry[u][q] \in Types
        BY <4>1, LeftFacts
      <4> QED
        BY <4>2, <4>4, <4>5 DEF result
    <3> QED
      BY <1>2, <3>4, <3>5, <3>6 DEF Holders
  <2>9. CASE entry[t][p] = "RECEIVE_OWN"
    <3>1. result = port_destroy(Referenced(rid, p), p)
      BY <2>9, StateFields DEF port_dealloc, gone
    <3> HIDE DEF result
    <3>2. Left(unowned, t, p, r.receiver, Nil)
      BY <1>3, <2>6
    <3> HIDE DEF unowned
    <3>3. /\ unowned \in KState
          /\ \A q \in Ports \ {p} : unowned.port[q] = State.port[q]
          /\ Reads(unowned.port[p], r.at, r.in_use, r.references - 1, r.receiver, Nil, r.backup)
          /\ unowned.slot = State.slot
          /\ unowned.dying = State.dying
          /\ unowned.entry = [State.entry EXCEPT ![t][p] = IF r.in_use THEN "none" ELSE "half"]
          /\ Shift(State, unowned, p, 0)
      BY <3>2 DEF Left
    <3>4. /\ OnlyPort(unowned, rid, p)
          /\ Reads(rid.port[p], r.at, r.in_use, r.references - 1, Nil, Nil, r.backup)
          /\ Shift(unowned, rid, p, 0)
      BY <1>3, <3>3, ClearedIs DEF Reads
    <3> HIDE DEF rid
    <3>5. Shift(State, rid, p, 0)
      <4>1. ASSUME NEW c \in Calls, NEW q \in Ports
            PROVE  Spare(rid, c, q) = Spare(State, c, q) + (IF q = p THEN 0 ELSE 0)
        <5>1. Spare(State, c, q) \in Int
          BY <1>1, SpareType
        <5> QED
          BY <3>3, <3>4, <5>1 DEF Shift
      <4> QED
        BY <4>1 DEF Shift
    <3>6. Left(rid, t, p, Nil, Nil)
      BY <3>3, <3>4, <3>5 DEF Left, OnlyPort
    <3>7. port[p].in_use /\ port[p].receiver = t /\ port[p].owner = t
      BY <1>2, <2>4, <2>9
    <3>8. KInv(port_destroy(Referenced(rid, p), p), call)
          /\ port_destroy(Referenced(rid, p), p).entry = rid.entry
      BY <3>6, <3>7, LeftDies
    <3>9. \A u \in Tasks, q \in Ports : rid.entry[u][q] \in Types => entry[u][q] \in Types
      BY <3>6, LeftFacts
    <3> QED
      BY <3>1, <3>8, <3>9 DEF result
  <2> QED
    BY <1>5, <2>3, <2>7, <2>8, <2>9 DEF Types
<1> QED
  BY <1>2, <1>4, <1>5 DEF Entries

LEMMA DeallocKeeps ==
  ASSUME IInv, NEW t \in Tasks, Dealloc(t)
  PROVE  IInv'
<1> DEFINE p == call[t].port
           k == port_dealloc(State, t, p)
           x == IF call[t].ref THEN [call[t] EXCEPT !.at = "release"] ELSE NoCall
<1>1. /\ State \in KState /\ call \in Calls
      /\ CallOK(t, call[t], task[t]) /\ call[t] \in KCall
  BY InvFacts
<1>2. /\ call[t].at = "dealloc" /\ FreeSlots(State) # {} /\ Becomes(k)
      /\ call' = WithCall(call, t, x) /\ task' = task
  BY DEF Dealloc, WithCall
<1>3. p \in Ports /\ t \notin MayInsert
  BY <1>1, <1>2 DEF CallOK
<1>4. /\ KInv(k, call)
      /\ \A u \in Tasks, q \in Ports : k.entry[u][q] \in Types => entry[u][q] \in Types
  BY <1>2, <1>3, PortDeallocKeeps
<1>5. /\ x \in KCall
      /\ CallOK(t, x, task[t])
      /\ \A q \in Ports : Works(x, q) <=> Works(call[t], q)
  <2>1. CASE call[t].ref
    <3>1. x = [call[t] EXCEPT !.at = "release"]
      BY <2>1
    <3>2. x \in KCall /\ x.at = "release" /\ x.port = p /\ x.ref
      BY <1>1, <2>1, <3>1 DEF KCall
    <3> HIDE DEF x, p
    <3> QED
      BY <1>3, <2>1, <3>2 DEF CallOK, Works, p
  <2>2. CASE ~call[t].ref
    <3>1. x = NoCall
      BY <2>2
    <3>2. x \in KCall /\ x.at = "no" /\ ~x.ref
      BY <3>1 DEF KCall, NoCall
    <3> HIDE DEF x
    <3> QED
      BY <1>3, <2>2, <3>2 DEF CallOK, Works
  <2> QED
    BY <2>1, <2>2
<1> HIDE DEF k, x
<1>6. /\ call' \in Calls
      /\ \A q \in Ports : Spare(k, call', q) = Spare(k, call, q)
  <2>1. k \in KState
    BY <1>4 DEF KInv
  <2>2. call' \in Calls /\ \A q \in Ports :
           Spare(k, call', q) = Spare(k, call, q) + Bit(Works(call[t], q)) - Bit(Works(x, q))
    BY <1>1, <1>2, <1>5, <2>1, SetCall
  <2>3. \A q \in Ports : Spare(k, call, q) \in Int
    BY <1>1, <2>1, SpareType
  <2>4. \A q \in Ports : Bit(Works(call[t], q)) = Bit(Works(x, q)) /\ Bit(Works(x, q)) \in Int
    BY <1>5 DEF Bit
  <2> QED
    BY <2>2, <2>3, <2>4
<1>7. KInv(k, call')
  BY <1>4, <1>6 DEF KInv
<1>8. TasksOK(k, call', task')
  BY <1>2, <1>4, <1>5, <1>6, StateFields DEF IInv, TasksOK, Calls, WithCall
<1> QED
  BY <1>2, <1>7, <1>8, Step

-----------------------------------------------------------------------------
(* The invariant holds, and what it says.                                  *)

LEMMA InitKeeps == Init => IInv
<1> SUFFICES ASSUME Init PROVE IInv
  OBVIOUS
<1>1. /\ \A p \in Ports : port[p] = [at |-> "new", in_use |-> FALSE, references |-> 0,
                                     receiver |-> Nil, named |-> FALSE, owner |-> Nil,
                                     backup |-> Nil]
      /\ \A t \in Tasks, p \in Ports : entry[t][p] = "none"
      /\ \A s \in Slots : slot[s] = Free
      /\ \A p \in Ports : dying[p] = "no" /\ surplus[p] = 0
      /\ \A t \in Tasks : call[t] = NoCall /\ task[t] = "active"
  BY DEF Init
<1>2. Free \in KSlot /\ NoCall \in KCall /\ Nil \in Holders /\ "none" \in Entries
  BY DEF Free, NoCall, KSlot, KCall, Rights, Holders, Entries
<1>3. call \in Calls /\ State \in KState
  <2>1. port \in [Ports -> KPort]
    BY <1>2 DEF Init, KPort
  <2>2. entry \in KEntry /\ slot \in [Slots -> KSlot] /\ dying \in [Ports -> KDying]
        /\ surplus \in [Ports -> Nat] /\ call \in Calls
    BY <1>2 DEF Init, KEntry, KDying, Calls
  <2> QED
    BY <2>1, <2>2 DEF KState, State
<1>4. SlotsOK(State)
  BY <1>1, StateFields DEF SlotsOK, Free
<1>5. ASSUME NEW p \in Ports PROVE Local(State, p)
  <2>1. ~port[p].in_use /\ port[p].at = "new" /\ port[p].receiver = Nil /\ port[p].owner = Nil
        /\ port[p].backup = Nil
    BY <1>1
  <2>2. NotInUse(State, p)
    BY <1>1, <2>1, MarksAreNoTasks, StateFields DEF NotInUse
  <2>3. Used(State, p) = {}
    BY <1>1, StateFields DEF Used, Kept, Free
  <2> QED
    BY <2>1, <2>2, <2>3, StateFields DEF Local, Settled
<1>6. ASSUME NEW p \in Ports PROVE Spare(State, call, p) = 0 /\ LiveOK(State, p)
  <2>1. Translated(State.entry, p) = {}
    BY <1>1, StateFields DEF Translated, Types
  <2>2. Carriers(State.slot, p) = {}
    BY <1>1, StateFields DEF Carriers, Filled, Free
  <2>3. BackedUp(State.port, p) = {}
    <3>1. \A q \in Ports : State.port[q].backup = Nil
      BY <1>1, StateFields
    <3> QED
      BY <3>1, SoftIsNoTask DEF BackedUp
  <2>4. Working(call, p) = {}
    BY <1>1 DEF Working, NoCall
  <2>5. State.surplus[p] = 0 /\ Bit(Marked(State.dying[p])) = 0
    BY <1>1, StateFields DEF Bit, Marked
  <2>6. State.port[p].references = 0 /\ State.port[p].at = "new"
    BY <1>1, StateFields
  <2> QED
    BY <2>1, <2>2, <2>3, <2>4, <2>5, <2>6, FS_EmptySet DEF Spare, Counted, LiveOK
<1>7. KInv(State, call)
  BY <1>3, <1>4, <1>5, <1>6 DEF KInv
<1>8. TasksOK(State, call, task)
  <2>1. task \in [Tasks -> {"active", "ending", "ended"}]
    BY DEF Init
  <2>2. \A t \in Tasks : CallOK(t, call[t], task[t]) /\ task[t] # "ended"
    BY <1>1 DEF CallOK, NoCall
  <2> QED
    BY <1>3, <2>1, <2>2 DEF TasksOK
<1> QED
  BY <1>7, <1>8 DEF IInv

LEMMA NextKeeps == IInv /\ [Next]_vars => IInv'
<1> SUFFICES ASSUME IInv, [Next]_vars PROVE IInv'
  OBVIOUS
<1>1. CASE UNCHANGED vars
  <2>1. UNCHANGED <<port, entry, slot, dying, surplus, call, task>>
    BY <1>1 DEF vars
  <2>2. Becomes(State)
    BY <2>1, StateFields DEF Becomes
  <2> QED
    BY <2>1, <2>2, Step DEF IInv
<1>2. ASSUME NEW t \in Tasks, NEW p \in Ports,
             \/ port_allocate(t, p)
             \/ \E rights \in Rights, deallocate \in BOOLEAN :
                    object_copyin(t, p, rights, deallocate)
             \/ \E b \in Ports : port_set_backup(t, p, b)
             \/ port_deallocate(t, p)
             \/ DestroyChooses(p, t) \/ DestroyRemoves(p, t)
      PROVE  IInv'
  BY <1>2, AllocateKeeps, CopyinKeeps, SetBackupKeeps, DeallocateKeeps, DestroyChoosesKeeps,
     DestroyRemovesKeeps
<1>3. ASSUME NEW s \in Slots, NEW t \in Tasks, ReceiveRight(t, s) \/ Insert(t, s)
      PROVE  IInv'
  BY <1>3, ReceiveKeeps, InsertKeeps
<1>4. ASSUME NEW s \in Slots, object_destroy(s) PROVE IInv'
  BY <1>4, ObjectDestroyKeeps
<1>5. ASSUME NEW p \in Ports, ReleaseBackup(p) \/ DestroyEnds(p) PROVE IInv'
  BY <1>5, ReleaseBackupKeeps, DestroyEndsKeeps
<1>6. ASSUME NEW t \in Tasks,
             \/ Dealloc(t) \/ Release(t)
             \/ ipc_task_terminate(t) \/ TerminateNext(t) \/ TerminateEnds(t)
      PROVE  IInv'
  BY <1>6, DeallocKeeps, ReleaseKeeps, TerminateKeeps
<1> QED
  BY <1>1, <1>2, <1>3, <1>4, <1>5, <1>6 DEF Next

\* Every routine that moves a right (the copyin and copyout routines, port_dealloc,
\* port_destroy, port_insert_send and port_insert_receive, object_destroy), makes
\* or ends a translation, or changes a port's references keeps the invariant, in
\* any order of its sections with those of other tasks.
THEOREM Invariance == Spec => []IInv
<1>1. Init => IInv
  BY InitKeeps
<1>2. IInv /\ [Next]_vars => IInv'
  BY NextKeeps
<1> QED
  BY <1>1, <1>2, PTL DEF Spec

LEMMA Exact ==
  ASSUME IInv, NEW p \in Ports
  PROVE  port[p].references = Counted(State, call, p)
<1>1. State \in KState /\ call \in Calls /\ Spare(State, call, p) = 0
  BY InvFacts
<1> QED
  BY <1>1, CountsType, StateFields DEF Spare, Counted

\* No field of kern_port, translation or message leaves its type; above all the
\* number of references, which port_release and the others decrease without a
\* test, is never negative.
THEOREM TypeCorrect == Spec => []TypeOK
<1>1. ASSUME IInv PROVE TypeOK
  <2>1. State \in KState /\ call \in Calls /\ task \in [Tasks -> {"active", "ending", "ended"}]
    BY <1>1 DEF IInv, KInv, TasksOK
  <2>2. ASSUME NEW p \in Ports
        PROVE  port[p] \in [at: {"new", "live", "freed"}, in_use: BOOLEAN, references: Nat,
                            receiver: Tasks \cup {Nil, Soft}, named: BOOLEAN,
                            owner: Tasks \cup {Nil, Soft}, backup: Ports \cup {Nil}]
    <3>1. Counted(State, call, p) \in Nat
      BY <2>1, CountsType DEF Counted
    <3>2. port[p] \in KPort /\ port[p].references \in Nat
      BY <1>1, <2>1, <3>1, Exact, PortOf, StateFields
    <3> QED
      BY <3>2 DEF KPort, Holders
  <2>3. port \in [Ports -> KPort]
    BY <2>1, StateFields DEF KState
  <2>4. entry \in [Tasks -> [Ports -> Entries]] /\ surplus \in [Ports -> Nat]
    BY <2>1, StateFields DEF KState, KEntry
  <2>5. slot \in [Slots -> KSlot] /\ dying \in [Ports -> KDying]
    BY <2>1, StateFields DEF KState
  <2>6. port \in [Ports -> [at: {"new", "live", "freed"}, in_use: BOOLEAN, references: Nat,
                            receiver: Tasks \cup {Nil, Soft}, named: BOOLEAN,
                            owner: Tasks \cup {Nil, Soft}, backup: Ports \cup {Nil}]]
    BY <2>2, <2>3
  <2> QED
    BY <2>1, <2>4, <2>5, <2>6 DEF TypeOK, KSlot, KDying, Calls, KCall
<1> QED
  BY <1>1, Invariance, PTL

\* The receive right and the ownership right of a port in use are each in one
\* place, the translations say what the port says, and a port whose rights are
\* both dead is not in use: what object_copyin_from_task and port_dealloc assert,
\* and what they need to move the right that they find.
THEOREM RightsAreExact == Spec => []RightsExact
<1>1. ASSUME IInv PROVE RightsExact
  <2> SUFFICES ASSUME NEW p \in Ports, port[p].in_use
               PROVE  /\ \A t \in Tasks : entry[t][p] \in TypeOf(t, p)
                      /\ Cardinality(InTransit(p, "receive")) =
                            IF port[p].receiver = Soft THEN 1 ELSE 0
                      /\ Cardinality(InTransit(p, "own")) =
                            IF port[p].owner = Soft THEN 1 ELSE 0
                      /\ ~(port[p].receiver = Nil /\ port[p].owner = Nil)
    BY DEF RightsExact
  <2>1. InUse(State, p)
    BY <1>1, InvFacts, StateFields DEF Local
  <2>2. ASSUME NEW t \in Tasks PROVE entry[t][p] \in TypeOf(t, p)
    <3>1. Agrees(port[p].receiver, port[p].owner, t, entry[t][p])
      BY <2>1, StateFields DEF InUse
    <3>2. CASE port[p].receiver = t /\ port[p].owner = t
      BY <3>1, <3>2 DEF Agrees, TypeOf
    <3>3. CASE port[p].receiver = t /\ port[p].owner # t
      BY <3>1, <3>3 DEF Agrees, TypeOf
    <3>4. CASE port[p].receiver # t /\ port[p].owner = t
      BY <3>1, <3>4 DEF Agrees, TypeOf
    <3>5. CASE port[p].receiver # t /\ port[p].owner # t
      BY <3>1, <3>5 DEF Agrees, TypeOf
    <3> QED
      BY <3>2, <3>3, <3>4, <3>5
  <2>3. \A right : InTransit(p, right) = Carrying(State, p, right)
    BY StateFields DEF InTransit, Carrying, Carried
  <2>4. ASSUME NEW right, NEW holder, InOneMessage(State, p, right, holder)
        PROVE  Cardinality(InTransit(p, right)) = IF holder = Soft THEN 1 ELSE 0
    BY <2>3, <2>4, FS_EmptySet, FS_Singleton DEF InOneMessage
  <2>5. /\ InOneMessage(State, p, "receive", port[p].receiver)
        /\ InOneMessage(State, p, "own", port[p].owner)
        /\ ~(port[p].receiver = Nil /\ port[p].owner = Nil)
    BY <2>1, StateFields DEF InUse
  <2> QED
    BY <2>2, <2>4, <2>5
<1> QED
  BY <1>1, Invariance, PTL

\* The references of a port are those of its translations, of messages, of the
\* ports that it backs up and of the routines at work on it, and its storage is
\* freed with the last of them and not before: no routine that has a reference
\* reads a port that port_check_unlock has freed.
THEOREM RefsAreExact == Spec => []RefsExact
<1>1. ASSUME IInv PROVE RefsExact
  <2> DEFINE Held(p) == {q \in Ports : port[q].at = "live" /\ port[q].backup = p}
  <2>1. ASSUME NEW p \in Ports
        PROVE  /\ {t \in Tasks : entry[t][p] \in Types} = Translated(State.entry, p)
               /\ {s \in Slots : slot[s].at # "free" /\ slot[s].obj = p}
                     = Carriers(State.slot, p)
               /\ {t \in Tasks : call[t].ref /\ call[t].port = p} = Working(call, p)
               /\ State.surplus[p] = surplus[p]
               /\ (IF dying[p] \in {"no", "done"} THEN 0 ELSE 1) = Bit(Marked(State.dying[p]))
    BY StateFields DEF Translated, Carriers, Filled, Working, Bit, Marked
  <2>2. ASSUME NEW p \in Ports PROVE Held(p) = BackedUp(State.port, p)
    <3>1. ASSUME NEW q \in Ports, port[q].backup = p PROVE port[q].at = "live"
      <4>1. Local(State, q) /\ p # Nil
        BY <1>1, InvFacts, SoftIsNoTask
      <4> QED
        BY <3>1, <4>1, StateFields DEF Local, InUse, NotInUse
    <3> QED
      BY <3>1, StateFields DEF BackedUp
  <2>3. ASSUME NEW p \in Ports
        PROVE  /\ port[p].references = Counted(State, call, p)
               /\ port[p].at = "live" <=> port[p].references > 0
    BY <1>1, Exact, InvFacts, StateFields DEF LiveOK
  <2> QED
    BY <2>1, <2>2, <2>3 DEF RefsExact, Counted
<1> QED
  BY <1>1, Invariance, PTL

\* obj_destroy_rights and ipc_task_terminate leave no translation, whichever of
\* them, of port_deallocate and of the copyout routines comes first to each, and
\* an entry that obj_destroy_rights has chosen is still there for it to free.
THEOREM NothingIsLeft == Spec => []NothingAfterDeath
<1>1. ASSUME IInv PROVE NothingAfterDeath
  <2>1. ASSUME NEW p \in Ports, dying[p] # "no"
        PROVE  NotInUse(State, p)
    BY <1>1, <2>1, InvFacts, StateFields DEF Local, InUse
  <2>2. ASSUME NEW p \in Ports, dying[p] = "done"
        PROVE  \A t \in Tasks : entry[t][p] = "none"
    BY <2>1, <2>2, StateFields DEF NotInUse
  <2>3. ASSUME NEW p \in Ports, NEW t \in Tasks, dying[p] = t
        PROVE  entry[t][p] # "none"
    BY <2>1, <2>3, MarksAreNoTasks, StateFields DEF NotInUse
  <2>4. ASSUME NEW t \in Tasks, task[t] = "ended", NEW p \in Ports
        PROVE  entry[t][p] \notin Types
    BY <1>1, <2>4, StateFields DEF IInv, TasksOK
  <2> QED
    BY <2>2, <2>3, <2>4 DEF NothingAfterDeath
<1> QED
  BY <1>1, Invariance, PTL

=============================================================================
