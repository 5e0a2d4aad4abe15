--------------------------- MODULE IdentifierHash ---------------------------
(***************************************************************************)
(* The identifier hash table of source/semantic_analyzer.c: a calloc'ed    *)
(* array of IdentifierCell probed linearly from the djb2 hash of the key.  *)
(* One action per iteration of the do-while loops of                       *)
(* semantic_analyzer_find_identifier and semantic_analyzer_insert_identifier,*)
(* so that the path a probe takes is part of the state.  The hash is any   *)
(* function from keys to naturals.                                         *)
(***************************************************************************)
EXTENDS Naturals, FiniteSets

CONSTANTS
  Key, Decl,
  Capacity,      \* identifiers counted by semantic_analyzer_initialize
  Hash,          \* compute_string_hash
  Empty,         \* a cell whose key is NULL
  NoKey, NoDecl

\* (unsigned int)(n / 0.75) + 1
TableSize(n) == (4 * n) \div 3 + 1

Size == TableSize(Capacity)
Slot == 0 .. Size - 1

IdentifierCell == [key : Key, decl : Decl, has_entry : BOOLEAN]

ASSUME CapacityAssumption == Capacity \in Nat
ASSUME HashAssumption == Hash \in [Key -> Nat]
ASSUME EmptyAssumption == Empty \notin IdentifierCell
ASSUME NoneAssumption == NoKey \notin Key /\ NoDecl \notin Decl

VARIABLES
  hash,                \* analyzer->hash
  op,                  \* the function running, "idle" between calls
  key, decl,           \* its arguments
  index, startIndex,   \* its local variables; index is the cell it answers
  result,
  inserts              \* insertions requested so far

vars == <<hash, op, key, decl, index, startIndex, result, inserts>>
locals == <<key, decl, startIndex, inserts>>

HomeSlot(k) == Hash[k] % Size

\* Mutants of the probe step: skipping a slot, and held at the last slot.
NextSlotSkipping(i) == (i + 2) % Size
NextSlotClamped(i) == IF i = Size - 1 THEN i ELSE i + 1

NextSlot(i) == (i + 1) % Size

IsEmpty(i) == hash[i] = Empty

HoldsKey(i) == hash[i] # Empty /\ hash[i].key = key

\* has_entry is cleared by the insertion, whatever the caller's cell says.
StoredCell == [key |-> key, decl |-> decl, has_entry |-> FALSE]

-----------------------------------------------------------------------------
Init ==
  /\ hash = [i \in Slot |-> Empty]
  /\ op = "idle" /\ key = NoKey /\ decl = NoDecl
  /\ index = 0 /\ startIndex = 0
  /\ result = "none"
  /\ inserts = 0

Enter(operation, k) ==
  /\ op = "idle"
  /\ op' = operation
  /\ key' = k
  /\ index' = HomeSlot(k)
  /\ startIndex' = HomeSlot(k)
  /\ result' = "none"
  /\ UNCHANGED hash

\* The analyzer inserts each counted declaration at most once.
CallInsert(k, d) ==
  /\ inserts < Capacity
  /\ Enter("insert", k)
  /\ decl' = d
  /\ inserts' = inserts + 1

CallFind(k) ==
  /\ Enter("find", k)
  /\ UNCHANGED <<decl, inserts>>

Return(answer) ==
  /\ op' = "idle"
  /\ result' = answer
  /\ UNCHANGED index

InsertStore ==
  /\ op = "insert" /\ IsEmpty(index)
  /\ hash' = [hash EXCEPT ![index] = StoredCell]
  /\ Return("stored")
  /\ UNCHANGED locals

\* Mutant: a duplicate replaces the declaration.
InsertReplacing ==
  /\ op = "insert" /\ HoldsKey(index)
  /\ hash' = [hash EXCEPT ![index].decl = decl]
  /\ Return("duplicate")
  /\ UNCHANGED locals

InsertDuplicate ==
  /\ op = "insert" /\ HoldsKey(index)
  /\ Return("duplicate")
  /\ UNCHANGED <<locals, hash>>

\* Mutant: a collision taken for an absent key.
FindWithoutProbing ==
  /\ op = "find" /\ ~HoldsKey(index)
  /\ Return("missing")
  /\ UNCHANGED <<locals, hash>>

FindEmpty ==
  /\ op = "find" /\ IsEmpty(index)
  /\ Return("missing")
  /\ UNCHANGED <<locals, hash>>

FindHit ==
  /\ op = "find" /\ HoldsKey(index)
  /\ Return("found")
  /\ UNCHANGED <<locals, hash>>

\* The end of the loop body: step to the next slot and leave the loop, with
\* the answer the code gives for a table with no free slot, once back at the
\* start.
Advance ==
  /\ op \in {"insert", "find"} /\ ~IsEmpty(index) /\ ~HoldsKey(index)
  /\ index' = NextSlot(index)
  /\ IF NextSlot(index) = startIndex
     THEN /\ op' = "idle"
          /\ result' = IF op = "insert" THEN "full" ELSE "missing"
     ELSE UNCHANGED <<op, result>>
  /\ UNCHANGED <<locals, hash>>

\* generate_entry_file_string sets the flag through the pointer it was given.
MarkEntry ==
  /\ op = "idle" /\ result = "found"
  /\ ~hash[index].has_entry
  /\ hash' = [hash EXCEPT ![index].has_entry = TRUE]
  /\ UNCHANGED <<locals, op, index, result>>

Probe == InsertStore \/ InsertDuplicate \/ FindEmpty \/ FindHit \/ Advance

Next ==
  \/ \E k \in Key, d \in Decl : CallInsert(k, d)
  \/ \E k \in Key : CallFind(k)
  \/ InsertStore
  \/ InsertDuplicate
  \/ FindEmpty
  \/ FindHit
  \/ Advance
  \/ MarkEntry

Spec == Init /\ [][Next]_vars

\* The loops are straight-line C code: a call that was entered keeps running.
FairSpec == Spec /\ WF_vars(Probe)

-----------------------------------------------------------------------------
Occupied == {i \in Slot : hash[i] # Empty}

\* How many steps a probe that starts at slot a takes to reach slot b.
Distance(a, b) == IF a <= b THEN b - a ELSE b - a + Size

TypeOK ==
  /\ hash \in [Slot -> IdentifierCell \union {Empty}]
  /\ op \in {"idle", "insert", "find"}
  /\ key \in Key \union {NoKey}
  /\ decl \in Decl \union {NoDecl}
  /\ index \in Slot /\ startIndex \in Slot
  /\ result \in {"none", "stored", "duplicate", "full", "found", "missing"}
  /\ inserts \in 0 .. Capacity

\* Between the home slot of a stored key and the slot that holds it there is
\* no empty slot: a probe for that key (find and insert both stop at the first
\* empty cell) can never stop short of it.
ProbeChainUnbroken ==
  \A s \in Occupied : \A i \in Slot :
    Distance(HomeSlot(hash[s].key), i) < Distance(HomeSlot(hash[s].key), s)
      => i \in Occupied

\* No identifier has two cells, whatever the collisions.
KeysUnique ==
  \A s, t \in Occupied : hash[s].key = hash[t].key => s = t

\* The table sized by semantic_analyzer_initialize is never full: the insertion
\* that fails always fails because the identifier is declared twice, the only
\* reason the analyzer reports.
NeverFull == result # "full"

\* A stored cell never moves, is never replaced by another declaration, and keeps
\* its mark: what find answered for a name it answers again.
CellsStable ==
  [][\A i \in Occupied :
       /\ hash'[i] # Empty
       /\ hash'[i].key = hash[i].key
       /\ hash'[i].decl = hash[i].decl
       /\ hash[i].has_entry => hash'[i].has_entry]_vars

\* Every call comes back, though the loops have no bound but the wrap-around.
CallReturns == op # "idle" ~> op = "idle"

\* The hash table is an implementation of SymbolTable: insertion succeeds
\* exactly for a new identifier, find answers exactly the inserted ones.
Table == {hash[i] : i \in Occupied}
ST == INSTANCE SymbolTable WITH table <- Table
RefinesSymbolTable == ST!Spec
=============================================================================
