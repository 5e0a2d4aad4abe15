---------------------------- MODULE SymbolTable ----------------------------
(***************************************************************************)
(* What the symbol table of the assembler promises its callers             *)
(* (semantic_analyzer.h: insert answers true iff the identifier is new,    *)
(* find answers the cell or NULL).  The table is a set of cells; a call is *)
(* made, is served in one step, and its answer stays readable until the    *)
(* next call.  IdentifierHash implements this with open addressing.        *)
(***************************************************************************)
EXTENDS Naturals

CONSTANTS
  Key,      \* identifiers
  Decl,     \* what an identifier is declared as (a label or an external node)
  Capacity, \* the number of declarations the table was sized for
  NoKey, NoDecl

VARIABLES
  table,    \* the cells stored so far
  op,       \* the call being served, "idle" between calls
  key,      \* the argument of the last call
  decl,     \* the declaration given to the last insertion
  result,   \* the answer of the last call
  inserts   \* how many insertions were requested

vars == <<table, op, key, decl, result, inserts>>

Known(k) == \E c \in table : c.key = k

NewCell(k, d) == [key |-> k, decl |-> d, has_entry |-> FALSE]

Init ==
  /\ table = {}
  /\ op = "idle" /\ key = NoKey /\ decl = NoDecl
  /\ result = "none"
  /\ inserts = 0

CallInsert(k, d) ==
  /\ op = "idle" /\ inserts < Capacity
  /\ op' = "insert" /\ key' = k /\ decl' = d
  /\ result' = "none"
  /\ inserts' = inserts + 1
  /\ UNCHANGED table

CallFind(k) ==
  /\ op = "idle"
  /\ op' = "find" /\ key' = k
  /\ result' = "none"
  /\ UNCHANGED <<table, decl, inserts>>

\* An insertion succeeds exactly when the key is new; it never fails for lack
\* of room.
Insert ==
  /\ op = "insert"
  /\ \/ /\ ~Known(key)
        /\ table' = table \union {NewCell(key, decl)}
        /\ result' = "stored"
     \/ /\ Known(key)
        /\ result' = "duplicate"
        /\ UNCHANGED table
  /\ op' = "idle"
  /\ UNCHANGED <<key, decl, inserts>>

Find ==
  /\ op = "find"
  /\ result' = IF Known(key) THEN "found" ELSE "missing"
  /\ op' = "idle"
  /\ UNCHANGED <<table, key, decl, inserts>>

\* The caller marks the cell a find has just answered.
MarkEntry ==
  /\ op = "idle" /\ result = "found"
  /\ \E c \in table :
       /\ c.key = key /\ ~c.has_entry
       /\ table' = (table \ {c}) \union {[c EXCEPT !.has_entry = TRUE]}
  /\ UNCHANGED <<op, key, decl, result, inserts>>

Next ==
  \/ \E k \in Key, d \in Decl : CallInsert(k, d)
  \/ \E k \in Key : CallFind(k)
  \/ Insert
  \/ Find
  \/ MarkEntry

Spec == Init /\ [][Next]_vars
=============================================================================
