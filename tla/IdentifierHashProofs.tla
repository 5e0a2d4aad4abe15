------------------------ MODULE IdentifierHashProofs ------------------------
(***************************************************************************)
(* Proofs about IdentifierHash, for every number of declarations, every    *)
(* set of identifiers and every hash function: the invariants of the       *)
(* table, the stability of its cells, and that it implements SymbolTable.  *)
(***************************************************************************)
EXTENDS IdentifierHash, FiniteSetTheorems, TLAPS

\* The locals of a running call agree with its argument; an answered cell is
\* the cell of the key that was looked up.
CallConsistent ==
  /\ op # "idle" => key \in Key /\ startIndex = HomeSlot(key) /\ result = "none"
  /\ op = "insert" => decl \in Decl
  /\ result = "found" => HoldsKey(index)

\* The slots a running call has gone past are taken by other keys.
ProbedSlots ==
  op # "idle" =>
    \A i \in Slot :
      Distance(startIndex, i) < Distance(startIndex, index)
        => hash[i] # Empty /\ hash[i].key # key

\* Every cell was paid for by an insertion, and a running insertion has not
\* stored its cell yet.
CellsPaidFor ==
  Cardinality(Occupied) + (IF op = "insert" THEN 1 ELSE 0) <= inserts

IInv ==
  /\ TypeOK
  /\ CallConsistent
  /\ ProbedSlots
  /\ CellsPaidFor
  /\ ProbeChainUnbroken
  /\ KeysUnique

-----------------------------------------------------------------------------
(* Slots and distances *)

\* The table has at least one slot more than there are declarations.
LEMMA SizeExceedsCapacity ==
  /\ Size \in Nat
  /\ Size > Capacity
  /\ Size > 0
<1>1. \A n \in Nat : (4 * n) \div 3 \in Nat /\ (4 * n) \div 3 >= n
  OBVIOUS
<1>2. QED
  BY <1>1, CapacityAssumption DEF Size, TableSize

\* Stepping to the next slot stays inside the table and only wraps at its end.
LEMMA NextSlotStep ==
  ASSUME NEW i \in Slot
  PROVE  /\ NextSlot(i) \in Slot
         /\ NextSlot(i) = IF i = Size - 1 THEN 0 ELSE i + 1
<1>1. Size \in Nat /\ Size > 0 /\ i \in 0 .. Size - 1
  BY SizeExceedsCapacity, CapacityAssumption DEF Slot
<1>2. CASE i = Size - 1
  BY <1>1, <1>2 DEF NextSlot, Slot
<1>3. CASE i # Size - 1
  BY <1>1, <1>3 DEF NextSlot, Slot
<1>4. QED
  BY <1>2, <1>3

\* A probe starts inside the table.
LEMMA HomeSlotInTable ==
  ASSUME NEW k \in Key
  PROVE  HomeSlot(k) \in Slot
<1>1. Size \in Nat /\ Size > 0 /\ Hash[k] \in Nat
  BY SizeExceedsCapacity, CapacityAssumption, HashAssumption
<1>2. QED
  BY <1>1 DEF HomeSlot, Slot

\* Distances from one slot identify the other, and are below the table size.
LEMMA DistanceFacts ==
  ASSUME NEW a \in Slot, NEW b \in Slot, NEW c \in Slot
  PROVE  /\ Distance(a, b) \in 0 .. Size - 1
         /\ Distance(a, a) = 0
         /\ Distance(a, b) = Distance(a, c) => b = c
BY SizeExceedsCapacity DEF Slot, Distance

\* The slots nearer than the next slot are those nearer than this one, and
\* this one; the step that comes back to the start has passed all others.
LEMMA DistanceStep ==
  ASSUME NEW a \in Slot, NEW b \in Slot, NEW i \in Slot
  PROVE  /\ NextSlot(b) # a /\ Distance(a, i) < Distance(a, NextSlot(b))
              => Distance(a, i) < Distance(a, b) \/ i = b
         /\ NextSlot(b) = a /\ i # b => Distance(a, i) < Distance(a, b)
BY SizeExceedsCapacity, NextSlotStep DEF Slot, Distance

LEMMA OccupiedFinite ==
  /\ IsFiniteSet(Slot)
  /\ Cardinality(Slot) = Size
  /\ IsFiniteSet(Occupied)
  /\ Cardinality(Occupied) \in Nat
<1>1. IsFiniteSet(Slot) /\ Cardinality(Slot) = Size
  BY FS_Interval, SizeExceedsCapacity DEF Slot
<1>2. Occupied \subseteq Slot
  BY DEF Occupied
<1>3. QED
  BY <1>1, <1>2, FS_Subset, FS_CardinalityType

-----------------------------------------------------------------------------
(* What a probe knows when it stops *)

\* An empty slot on the path of a probe means that its key has no cell.
LEMMA EmptyMeansAbsent ==
  ASSUME IInv, op # "idle", IsEmpty(index)
  PROVE  \A t \in Occupied : hash[t].key # key
<1> SUFFICES ASSUME NEW t \in Occupied, hash[t].key = key
             PROVE  FALSE
  OBVIOUS
<1>1. /\ t \in Slot /\ index \in Slot /\ startIndex \in Slot
      /\ startIndex = HomeSlot(hash[t].key)
      /\ index \notin Occupied
  BY DEF IInv, TypeOK, CallConsistent, Occupied, IsEmpty
<1>2. ~(Distance(startIndex, index) < Distance(startIndex, t))
  BY <1>1 DEF IInv, ProbeChainUnbroken
<1>3. ~(Distance(startIndex, t) < Distance(startIndex, index))
  BY <1>1 DEF IInv, ProbedSlots
<1>4. t # index
  BY <1>1
<1>5. /\ Distance(startIndex, t) \in Nat
      /\ Distance(startIndex, index) \in Nat
      /\ Distance(startIndex, t) # Distance(startIndex, index)
  BY <1>1, <1>4, DistanceFacts, SizeExceedsCapacity
<1>6. QED
  BY <1>2, <1>3, <1>5

\* No probe goes all the way round: there is always an empty slot left.
LEMMA NoWrapAround ==
  ASSUME IInv, op # "idle", ~IsEmpty(index)
  PROVE  NextSlot(index) # startIndex
<1> SUFFICES ASSUME NextSlot(index) = startIndex
             PROVE  FALSE
  OBVIOUS
<1>1. /\ index \in Slot /\ startIndex \in Slot
      /\ inserts \in 0 .. Capacity
  BY DEF IInv, TypeOK
<1>2. \A i \in Slot : i \in Occupied
  <2> SUFFICES ASSUME NEW i \in Slot
               PROVE  i \in Occupied
    OBVIOUS
  <2>1. CASE i = index
    BY <1>1, <2>1 DEF Occupied, IsEmpty
  <2>2. CASE i # index
    BY <1>1, <2>2, DistanceStep DEF IInv, ProbedSlots, Occupied
  <2>3. QED
    BY <2>1, <2>2
<1>3. Occupied = Slot
  BY <1>2 DEF Occupied
<1>4. Cardinality(Occupied) <= inserts
  BY OccupiedFinite, <1>1, CapacityAssumption DEF IInv, CellsPaidFor
<1>5. QED
  BY <1>1, <1>3, <1>4, OccupiedFinite, SizeExceedsCapacity, CapacityAssumption

-----------------------------------------------------------------------------
(* The invariant is inductive *)

LEMMA InitEstablishesIInv == Init => IInv
<1> SUFFICES ASSUME Init
             PROVE  IInv
  OBVIOUS
<1>1. Occupied = {}
  BY DEF Init, Occupied
<1>2. Cardinality(Occupied) = 0
  BY <1>1, FS_EmptySet
<1>3. TypeOK
  BY SizeExceedsCapacity, CapacityAssumption DEF Init, TypeOK, Slot
<1>4. QED
  BY <1>1, <1>2, <1>3
  DEF Init, IInv, CallConsistent, ProbedSlots, CellsPaidFor,
      ProbeChainUnbroken, KeysUnique

\* Entering a call only resets the locals.
LEMMA EnterPreservesIInv ==
  ASSUME IInv, NEW k \in Key,
         \/ CallFind(k)
         \/ \E d \in Decl : CallInsert(k, d)
  PROVE  IInv'
<1>1. /\ op = "idle" /\ op' \in {"insert", "find"}
      /\ key' = k /\ key' \in Key
      /\ index' = HomeSlot(k) /\ startIndex' = HomeSlot(k)
      /\ result' = "none" /\ hash' = hash
  BY DEF CallFind, CallInsert, Enter
<1>2. TypeOK'
  <2>1. HomeSlot(k) \in Slot
    BY HomeSlotInTable
  <2>2. decl' \in Decl \union {NoDecl} /\ inserts' \in 0 .. Capacity
    BY CapacityAssumption DEF IInv, TypeOK, CallFind, CallInsert
  <2>3. QED
    BY <1>1, <2>1, <2>2 DEF IInv, TypeOK
<1>3. CallConsistent'
  <2>1. op' = "insert" => decl' \in Decl
    BY DEF CallFind, CallInsert, Enter
  <2>2. QED
    BY <1>1, <2>1 DEF CallConsistent, HomeSlot
<1>4. ProbedSlots'
  <2>1. HomeSlot(k) \in Slot
    BY HomeSlotInTable
  <2>2. \A i \in Slot : ~(Distance(HomeSlot(k), i) < Distance(HomeSlot(k), HomeSlot(k)))
    BY <2>1, DistanceFacts, SizeExceedsCapacity
  <2>3. QED
    BY <1>1, <2>2 DEF ProbedSlots, Distance
<1>5. Occupied' = Occupied
  BY <1>1 DEF Occupied
<1>6. CellsPaidFor'
  <2>1. Cardinality(Occupied) <= inserts /\ Cardinality(Occupied) \in Nat /\ inserts \in Nat
    BY <1>1, OccupiedFinite DEF IInv, CellsPaidFor, TypeOK
  <2>2. \/ op' = "find" /\ inserts' = inserts
        \/ op' = "insert" /\ inserts' = inserts + 1
    BY DEF CallFind, CallInsert, Enter
  <2>3. QED
    BY <1>5, <2>1, <2>2 DEF CellsPaidFor
<1>7. ProbeChainUnbroken' /\ KeysUnique'
  BY <1>1, <1>5 DEF IInv, ProbeChainUnbroken, KeysUnique, HomeSlot, Distance
<1>8. QED
  BY <1>2, <1>3, <1>4, <1>6, <1>7 DEF IInv

\* Storing a cell fills the first empty slot of its probe path.
LEMMA StorePreservesIInv ==
  ASSUME IInv, InsertStore
  PROVE  IInv'
<1>1. /\ index \in Slot /\ key \in Key /\ decl \in Decl
      /\ startIndex = HomeSlot(key)
      /\ op = "insert" /\ hash[index] = Empty
      /\ hash \in [Slot -> IdentifierCell \union {Empty}]
  BY DEF IInv, TypeOK, CallConsistent, InsertStore, IsEmpty
<1>2. StoredCell \in IdentifierCell /\ StoredCell # Empty /\ StoredCell.key = key
  <2>1. StoredCell \in IdentifierCell
    BY <1>1 DEF StoredCell, IdentifierCell
  <2>2. StoredCell.key = key
    BY DEF StoredCell
  <2>3. QED
    BY <2>1, <2>2, EmptyAssumption
<1>3. /\ hash' = [hash EXCEPT ![index] = StoredCell]
      /\ op' = "idle" /\ result' = "stored"
      /\ UNCHANGED <<index, key, decl, startIndex, inserts>>
  BY DEF InsertStore, Return, locals
<1>4. /\ hash'[index] = StoredCell
      /\ \A i \in Slot : i # index => hash'[i] = hash[i]
  BY <1>1, <1>3
<1>5. Occupied' = Occupied \union {index} /\ index \notin Occupied
  BY <1>1, <1>2, <1>4 DEF Occupied
<1>6. TypeOK'
  BY <1>1, <1>2, <1>3 DEF IInv, TypeOK
<1>7. CallConsistent' /\ ProbedSlots'
  BY <1>3 DEF CallConsistent, ProbedSlots
<1>8. CellsPaidFor'
  <2>1. Cardinality(Occupied \union {index}) = Cardinality(Occupied) + 1
    BY <1>5, OccupiedFinite, FS_AddElement
  <2>2. Cardinality(Occupied) + 1 <= inserts
    BY <1>1 DEF IInv, CellsPaidFor
  <2>3. Cardinality(Occupied \union {index}) \in Nat /\ inserts \in Nat
    BY <2>1, OccupiedFinite DEF IInv, TypeOK
  <2>4. QED
    BY <1>3, <1>5, <2>1, <2>2, <2>3 DEF CellsPaidFor
<1>9. ProbeChainUnbroken'
  <2> SUFFICES ASSUME NEW s \in Occupied', NEW i \in Slot,
                      Distance(HomeSlot(hash'[s].key), i) < Distance(HomeSlot(hash'[s].key), s)
               PROVE  i \in Occupied'
    BY DEF ProbeChainUnbroken, HomeSlot, Distance
  <2>1. CASE s = index
    <3>1. Distance(startIndex, i) < Distance(startIndex, index)
      BY <1>1, <1>2, <1>4, <2>1
    <3>2. QED
      BY <1>1, <1>5, <3>1 DEF IInv, ProbedSlots, Occupied
  <2>2. CASE s # index
    <3>1. s \in Occupied /\ hash'[s] = hash[s]
      BY <1>4, <1>5, <2>2 DEF Occupied
    <3>2. i \in Occupied
      BY <3>1 DEF IInv, ProbeChainUnbroken
    <3>3. QED
      BY <1>5, <3>2
  <2>3. QED
    BY <2>1, <2>2
<1>10. KeysUnique'
  <2>1. \A t \in Occupied : hash[t].key # key
    BY <1>1, EmptyMeansAbsent DEF IsEmpty
  <2>2. \A t \in Occupied : t # index /\ hash'[t] = hash[t]
    BY <1>4, <1>5 DEF Occupied
  <2>3. QED
    BY <1>2, <1>4, <1>5, <2>1, <2>2 DEF IInv, KeysUnique
<1>11. QED
  BY <1>6, <1>7, <1>8, <1>9, <1>10 DEF IInv

\* Leaving a loop without storing only ends the call.
LEMMA AnswerPreservesIInv ==
  ASSUME IInv, InsertDuplicate \/ FindEmpty \/ FindHit
  PROVE  IInv'
<1>1. /\ UNCHANGED <<hash, index, key, decl, startIndex, inserts>>
      /\ op \in {"insert", "find"} /\ op' = "idle"
      /\ result' \in {"duplicate", "missing", "found"}
      /\ result' = "found" => HoldsKey(index)
  BY DEF InsertDuplicate, FindEmpty, FindHit, Return, locals
<1>2. Occupied' = Occupied
  BY <1>1 DEF Occupied
<1>3. TypeOK' /\ CallConsistent' /\ ProbedSlots'
  BY <1>1 DEF IInv, TypeOK, CallConsistent, ProbedSlots, HoldsKey
<1>4. CellsPaidFor'
  BY <1>1, <1>2, OccupiedFinite DEF IInv, CellsPaidFor, TypeOK
<1>5. ProbeChainUnbroken' /\ KeysUnique'
  BY <1>1, <1>2 DEF IInv, ProbeChainUnbroken, KeysUnique, HomeSlot, Distance
<1>6. QED
  BY <1>3, <1>4, <1>5 DEF IInv

\* Advancing adds the slot just examined to the probed ones.
LEMMA AdvancePreservesIInv ==
  ASSUME IInv, Advance
  PROVE  IInv'
<1>1. /\ op \in {"insert", "find"}
      /\ index \in Slot /\ startIndex \in Slot
      /\ hash[index] # Empty /\ hash[index].key # key
  BY DEF IInv, TypeOK, Advance, IsEmpty, HoldsKey
<1>2. NextSlot(index) # startIndex
  BY <1>1, NoWrapAround DEF IsEmpty
<1>3. /\ index' = NextSlot(index)
      /\ UNCHANGED <<hash, op, result, key, decl, startIndex, inserts>>
  BY <1>2 DEF Advance, locals
<1>4. Occupied' = Occupied
  BY <1>3 DEF Occupied
<1>5. TypeOK'
  BY <1>1, <1>3, NextSlotStep DEF IInv, TypeOK
<1>6. CallConsistent'
  BY <1>1, <1>3 DEF IInv, CallConsistent, HomeSlot
<1>7. ProbedSlots'
  <2> SUFFICES ASSUME NEW i \in Slot,
                      Distance(startIndex, i) < Distance(startIndex, NextSlot(index))
               PROVE  hash[i] # Empty /\ hash[i].key # key
    BY <1>3 DEF ProbedSlots, Distance
  <2>1. Distance(startIndex, i) < Distance(startIndex, index) \/ i = index
    BY <1>1, <1>2, DistanceStep
  <2>2. QED
    BY <1>1, <2>1 DEF IInv, ProbedSlots
<1>8. CellsPaidFor'
  BY <1>3, <1>4 DEF IInv, CellsPaidFor
<1>9. ProbeChainUnbroken' /\ KeysUnique'
  BY <1>3, <1>4 DEF IInv, ProbeChainUnbroken, KeysUnique, HomeSlot, Distance
<1>10. QED
  BY <1>5, <1>6, <1>7, <1>8, <1>9 DEF IInv

\* Marking changes nothing the table is searched by.
LEMMA MarkPreservesIInv ==
  ASSUME IInv, MarkEntry
  PROVE  /\ IInv'
         /\ index \in Occupied
         /\ Occupied' = Occupied
         /\ hash'[index] = [hash[index] EXCEPT !.has_entry = TRUE]
         /\ \A i \in Slot : i # index => hash'[i] = hash[i]
<1>1. /\ index \in Slot /\ op = "idle" /\ result = "found"
      /\ hash[index] # Empty /\ hash[index].key = key
      /\ hash \in [Slot -> IdentifierCell \union {Empty}]
  BY DEF IInv, TypeOK, CallConsistent, MarkEntry, HoldsKey
<1>2. /\ hash' = [hash EXCEPT ![index].has_entry = TRUE]
      /\ UNCHANGED <<key, decl, startIndex, inserts, op, index, result>>
  BY DEF MarkEntry, locals
<1>3. /\ hash'[index] = [hash[index] EXCEPT !.has_entry = TRUE]
      /\ \A i \in Slot : i # index => hash'[i] = hash[i]
  BY <1>1, <1>2
<1>4. hash[index] \in IdentifierCell
  BY <1>1
<1>5. /\ hash'[index] \in IdentifierCell
      /\ hash'[index] # Empty
      /\ hash'[index].key = hash[index].key
  BY <1>3, <1>4, EmptyAssumption DEF IdentifierCell
<1>6. Occupied' = Occupied /\ index \in Occupied
  BY <1>1, <1>3, <1>5 DEF Occupied
<1>7. \A i \in Occupied : hash'[i].key = hash[i].key
  BY <1>3, <1>5 DEF Occupied
<1>8. TypeOK'
  <2>1. hash' \in [Slot -> IdentifierCell \union {Empty}]
    BY <1>1, <1>2, <1>3, <1>5
  <2>2. QED
    BY <1>2, <2>1 DEF IInv, TypeOK
<1>9. CallConsistent' /\ ProbedSlots'
  BY <1>1, <1>2, <1>5 DEF IInv, CallConsistent, ProbedSlots, HoldsKey, HomeSlot
<1>10. CellsPaidFor'
  BY <1>2, <1>6 DEF IInv, CellsPaidFor
<1>11. ProbeChainUnbroken' /\ KeysUnique'
  BY <1>6, <1>7 DEF IInv, ProbeChainUnbroken, KeysUnique, HomeSlot, Distance
<1>12. QED
  BY <1>3, <1>6, <1>8, <1>9, <1>10, <1>11 DEF IInv

LEMMA StepPreservesIInv == IInv /\ [Next]_vars => IInv'
<1> SUFFICES ASSUME IInv, [Next]_vars
             PROVE  IInv'
  OBVIOUS
<1>1. CASE \E k \in Key, d \in Decl : CallInsert(k, d)
  BY <1>1, EnterPreservesIInv
<1>2. CASE \E k \in Key : CallFind(k)
  BY <1>2, EnterPreservesIInv
<1>3. CASE InsertStore
  BY <1>3, StorePreservesIInv
<1>4. CASE InsertDuplicate \/ FindEmpty \/ FindHit
  BY <1>4, AnswerPreservesIInv
<1>5. CASE Advance
  BY <1>5, AdvancePreservesIInv
<1>6. CASE MarkEntry
  BY <1>6, MarkPreservesIInv
<1>7. CASE UNCHANGED vars
  BY <1>7 DEF vars, IInv, TypeOK, CallConsistent, ProbedSlots, CellsPaidFor,
    ProbeChainUnbroken, KeysUnique, Occupied, HomeSlot, Distance, HoldsKey
<1>8. QED
  BY <1>1, <1>2, <1>3, <1>4, <1>5, <1>6, <1>7 DEF Next

LEMMA Invariance == Spec => []IInv
<1>1. Init => IInv
  BY InitEstablishesIInv
<1>2. IInv /\ [Next]_vars => IInv'
  BY StepPreservesIInv
<1>3. QED
  BY <1>1, <1>2, PTL DEF Spec

-----------------------------------------------------------------------------
(* The invariants of the table *)

\* The variables of the table keep their types: in particular index never
\* leaves the array, for any load and any hash.
THEOREM TypeCorrect == Spec => []TypeOK
<1>1. IInv => TypeOK
  BY DEF IInv
<1>2. QED
  BY <1>1, Invariance, PTL

\* No probe path to a stored identifier is ever broken by an empty slot.
THEOREM ProbeChainsHold == Spec => []ProbeChainUnbroken
<1>1. IInv => ProbeChainUnbroken
  BY DEF IInv
<1>2. QED
  BY <1>1, Invariance, PTL

\* No identifier ever gets a second cell.
THEOREM KeysStayUnique == Spec => []KeysUnique
<1>1. IInv => KeysUnique
  BY DEF IInv
<1>2. QED
  BY <1>1, Invariance, PTL

\* The "table is full" exit of insert (and the give-up exit of find) is dead
\* code for a table sized by the analyzer.
THEOREM InsertNeverFull == Spec => []NeverFull
<1>1. Init => NeverFull
  BY DEF Init, NeverFull
<1>2. IInv /\ NeverFull /\ [Next]_vars => NeverFull'
  <2> SUFFICES ASSUME IInv, NeverFull, [Next]_vars
               PROVE  NeverFull'
    OBVIOUS
  <2>1. CASE Advance
    <3>1. NextSlot(index) # startIndex
      BY <2>1, NoWrapAround DEF Advance
    <3>2. QED
      BY <2>1, <3>1 DEF Advance, NeverFull
  <2>2. CASE UNCHANGED vars
    BY <2>2 DEF vars, NeverFull
  <2>3. CASE \/ \E k \in Key, d \in Decl : CallInsert(k, d)
             \/ \E k \in Key : CallFind(k)
    BY <2>3 DEF CallInsert, CallFind, Enter, NeverFull
  <2>4. CASE InsertStore \/ InsertDuplicate \/ FindEmpty \/ FindHit
    BY <2>4 DEF InsertStore, InsertDuplicate, FindEmpty, FindHit, Return, NeverFull
  <2>5. CASE MarkEntry
    BY <2>5 DEF MarkEntry, NeverFull
  <2>6. QED
    BY <2>1, <2>2, <2>3, <2>4, <2>5 DEF Next
<1>3. QED
  BY <1>1, <1>2, Invariance, PTL DEF Spec

-----------------------------------------------------------------------------
(* The stability of cells *)

CellStable(i) ==
  /\ hash'[i] # Empty
  /\ hash'[i].key = hash[i].key
  /\ hash'[i].decl = hash[i].decl
  /\ hash[i].has_entry => hash'[i].has_entry

\* No later insertion moves a cell, writes another declaration over it or takes its
\* mark, whatever the hash function and however the chains collide.
THEOREM CellsStayPut == Spec => CellsStable
<1>1. IInv /\ [Next]_vars => \A i \in Occupied : CellStable(i)
  <2> SUFFICES ASSUME IInv, [Next]_vars, NEW i \in Occupied
               PROVE  CellStable(i)
    OBVIOUS
  <2>1. i \in Slot /\ hash[i] # Empty
    BY DEF Occupied
  <2>2. CASE InsertStore
    <3>1. i # index /\ hash \in [Slot -> IdentifierCell \union {Empty}]
      BY <2>1, <2>2 DEF InsertStore, IsEmpty, IInv, TypeOK
    <3>2. hash'[i] = hash[i]
      BY <2>1, <2>2, <3>1 DEF InsertStore
    <3>3. QED
      BY <2>1, <3>2 DEF CellStable
  <2>3. CASE MarkEntry
    <3>1. CASE i # index
      <4>1. hash'[i] = hash[i]
        BY <2>1, <2>3, <3>1, MarkPreservesIInv
      <4>2. QED
        BY <2>1, <4>1 DEF CellStable
    <3>2. CASE i = index
      <4>1. /\ hash'[i] = [hash[i] EXCEPT !.has_entry = TRUE]
            /\ hash'[i] # Empty
        BY <2>1, <2>3, <3>2, MarkPreservesIInv DEF Occupied
      <4>2. hash[i] \in IdentifierCell
        BY <2>1 DEF IInv, TypeOK
      <4>3. QED
        BY <4>1, <4>2 DEF CellStable, IdentifierCell
    <3>3. QED
      BY <3>1, <3>2
  <2>4. CASE UNCHANGED hash
    BY <2>1, <2>4 DEF CellStable
  <2>5. QED
    BY <2>2, <2>3, <2>4 DEF Next, CallInsert, CallFind, Enter, InsertDuplicate,
      FindEmpty, FindHit, Advance, vars
<1>2. QED
  BY <1>1, Invariance, PTL DEF Spec, CellsStable, CellStable

-----------------------------------------------------------------------------
(* The table implements its abstract specification *)

LEMMA TableMembers ==
  /\ \A k : ST!Known(k) <=> \E i \in Occupied : hash[i].key = k
  /\ \A i \in Occupied : hash[i] \in Table
BY DEF Table, ST!Known

\* The call that stops at an empty slot answers for an unknown identifier.
LEMMA EmptyMeansUnknown ==
  ASSUME IInv, op # "idle", IsEmpty(index)
  PROVE  ~ST!Known(key)
BY EmptyMeansAbsent, TableMembers

\* The call that stops at its key answers for a known identifier.
LEMMA HitMeansKnown ==
  ASSUME IInv, HoldsKey(index)
  PROVE  ST!Known(key)
<1>1. index \in Occupied
  BY DEF IInv, TypeOK, HoldsKey, Occupied
<1>2. QED
  BY <1>1, TableMembers DEF HoldsKey

LEMMA InitRefines == Init => ST!Init
<1> SUFFICES ASSUME Init
             PROVE  ST!Init
  OBVIOUS
<1>1. Occupied = {}
  BY DEF Init, Occupied
<1>2. QED
  BY <1>1 DEF Init, ST!Init, Table

\* Storing a cell adds exactly that cell to the abstract table.
LEMMA StoreRefines ==
  ASSUME IInv, InsertStore
  PROVE  ST!Insert
<1>1. /\ index \in Slot /\ op = "insert" /\ IsEmpty(index)
      /\ hash \in [Slot -> IdentifierCell \union {Empty}]
      /\ key \in Key /\ decl \in Decl
  BY DEF IInv, TypeOK, CallConsistent, InsertStore
<1>2. StoredCell # Empty
  <2>1. StoredCell \in IdentifierCell
    BY <1>1 DEF StoredCell, IdentifierCell
  <2>2. QED
    BY <2>1, EmptyAssumption
<1>3. /\ hash'[index] = StoredCell
      /\ \A i \in Slot : i # index => hash'[i] = hash[i]
  BY <1>1 DEF InsertStore
<1>4. Occupied' = Occupied \union {index} /\ index \notin Occupied
  BY <1>1, <1>2, <1>3 DEF Occupied, IsEmpty
<1>5. \A i \in Occupied : hash'[i] = hash[i]
  BY <1>3, <1>4 DEF Occupied
<1>6. Table' = Table \union {StoredCell}
  BY <1>3, <1>4, <1>5 DEF Table
<1>7. ~ST!Known(key)
  BY <1>1, EmptyMeansUnknown
<1>8. QED
  BY <1>6, <1>7 DEF InsertStore, Return, locals, ST!Insert, ST!NewCell, StoredCell

\* Marking the answered cell replaces that cell, and only that cell.
LEMMA MarkRefines ==
  ASSUME IInv, MarkEntry
  PROVE  ST!MarkEntry
<1> DEFINE c == hash[index]
<1>1. /\ index \in Slot /\ c # Empty /\ c.key = key /\ ~c.has_entry
      /\ index \in Occupied /\ Occupied' = Occupied
      /\ hash'[index] = [c EXCEPT !.has_entry = TRUE]
      /\ \A i \in Slot : i # index => hash'[i] = hash[i]
  BY MarkPreservesIInv DEF IInv, TypeOK, CallConsistent, MarkEntry, HoldsKey
<1>2. \A i \in Occupied : i # index => hash[i] # c
  BY <1>1 DEF IInv, KeysUnique
<1>3. c \in Table
  BY <1>1, TableMembers
<1> HIDE DEF c
<1>4. Table' = (Table \ {c}) \union {[c EXCEPT !.has_entry = TRUE]}
  <2>1. \A i \in Occupied : i # index => hash'[i] = hash[i]
    BY <1>1 DEF Occupied
  <2>2. Table' = {hash'[i] : i \in Occupied}
    BY <1>1 DEF Table
  <2>3. Table \ {c} = {hash[i] : i \in Occupied \ {index}}
    BY <1>1, <1>2 DEF Table, c
  <2> DEFINE marked == [c EXCEPT !.has_entry = TRUE]
  <2>4. index \in Occupied /\ hash'[index] = marked
    BY <1>1
  <2> HIDE DEF marked
  <2>5. Table' = (Table \ {c}) \union {marked}
    BY <2>1, <2>2, <2>3, <2>4
  <2>6. QED
    BY <2>5 DEF marked
<1>5. QED
  BY <1>1, <1>3, <1>4 DEF MarkEntry, locals, ST!MarkEntry

LEMMA StepRefines == IInv /\ [Next]_vars => [ST!Next]_(ST!vars)
<1> SUFFICES ASSUME IInv, [Next]_vars
             PROVE  ST!Next \/ UNCHANGED ST!vars
  OBVIOUS
<1>1. UNCHANGED hash => UNCHANGED Table
  BY DEF Table, Occupied
<1>2. CASE \E k \in Key, d \in Decl : CallInsert(k, d)
  BY <1>1, <1>2 DEF CallInsert, Enter, ST!Next, ST!CallInsert
<1>3. CASE \E k \in Key : CallFind(k)
  BY <1>1, <1>3 DEF CallFind, Enter, ST!Next, ST!CallFind
<1>4. CASE InsertStore
  BY <1>4, StoreRefines DEF ST!Next
<1>5. CASE InsertDuplicate
  BY <1>1, <1>5, HitMeansKnown DEF InsertDuplicate, Return, locals, ST!Next, ST!Insert
<1>6. CASE FindEmpty
  BY <1>1, <1>6, EmptyMeansUnknown DEF FindEmpty, Return, locals, ST!Next, ST!Find
<1>7. CASE FindHit
  BY <1>1, <1>7, HitMeansKnown DEF FindHit, Return, locals, ST!Next, ST!Find
<1>8. CASE Advance
  <2>1. NextSlot(index) # startIndex
    BY <1>8, NoWrapAround DEF Advance
  <2>2. QED
    BY <1>1, <1>8, <2>1 DEF Advance, locals, ST!vars
<1>9. CASE MarkEntry
  BY <1>9, MarkRefines DEF ST!Next
<1>10. CASE UNCHANGED vars
  BY <1>1, <1>10 DEF vars, ST!vars
<1>11. QED
  BY <1>2, <1>3, <1>4, <1>5, <1>6, <1>7, <1>8, <1>9, <1>10 DEF Next

\* Open addressing implements the symbol table: whatever the hash function
\* and its collisions, insertion answers "stored" exactly for a new identifier
\* and find answers a cell exactly for an inserted one.
THEOREM ImplementsSymbolTable == Spec => RefinesSymbolTable
<1>1. Init => ST!Init
  BY InitRefines
<1>2. IInv /\ [Next]_vars => [ST!Next]_(ST!vars)
  BY StepRefines
<1>3. QED
  BY <1>1, <1>2, Invariance, PTL DEF Spec, ST!Spec, RefinesSymbolTable
=============================================================================
