--------------------------------- MODULE Db ---------------------------------
(***************************************************************************)
(* The database: tables of rows, held as one block of cells each, whose     *)
(* capacity doubles, and a list of strings.                                 *)
(*                                                                          *)
(* The kernel calls it one call at a time.  Out of memory is a panic, in    *)
(* kmalloc: of the database's own checks for it, only those of a block of   *)
(* no bytes can ever be taken.                                              *)
(***************************************************************************)
EXTENDS Integers, Sequences

CONSTANTS
  Cell,           \* what a cell can hold
  Text,           \* the strings
  Length,         \* [Text -> strlen]
  MaxCols,        \* MAX_COLS
  RowCapacity,    \* the first capacity for rows, 8
  StringCapacity, \* the first capacity for strings, 16
  TableSize,      \* sizeof(db_table_t), in cells
  StringSize,     \* sizeof(db_str_t), in cells
  NoText,         \* what a string not yet added holds
  HeapLimit       \* the largest block kmalloc can map, in cells

ASSUME DbAssumption ==
  /\ MaxCols \in Nat \ {0} /\ Length \in [Text -> Nat] /\ 0 \in Cell
  /\ {RowCapacity, StringCapacity, TableSize, StringSize} \subseteq Nat \ {0}
  /\ HeapLimit \in Nat /\ NoText \notin Text

VARIABLES
  tables,          \* db_t.tables, a function on 0 .. table_count - 1
  table_count,
  strings,         \* db_t.strings, a function on 0 .. string_capacity - 1
  string_count, string_capacity,
  result,          \* of the last call: whether it succeeded, what it returned
  halted           \* "no" or "panic"

stringVars == <<strings, string_count, string_capacity>>
vars == <<tables, table_count, stringVars, result, halted>>

Failed == [ok |-> FALSE, value |-> <<>>]
Returned(value) == [ok |-> TRUE, value |-> value]
Row == UNION {[1 .. n -> Cell] : n \in 1 .. MaxCols}
Empty == [i \in {} |-> 0]

Init ==
  /\ tables = Empty /\ table_count = 0
  /\ strings = Empty /\ string_count = 0 /\ string_capacity = 0
  /\ result = Failed
  /\ halted = "no"
-----------------------------------------------------------------------------
\* krealloc: what fits of the old block, then zeros (what stands for zero).
Realloc(old, n, zero) == [i \in 0 .. n - 1 |-> IF i \in DOMAIN old THEN old[i] ELSE zero]
Allocates(n) == n <= HeapLimit
Grown(capacity, first) == IF capacity = 0 THEN first ELSE capacity * 2

Table0(name) == [name |-> name, row_count |-> 0, row_capacity |-> 0, col_count |-> 0,
                 cells |-> Empty]

\* A call that changes nothing, and one that runs out of memory.
Returns(r) == result' = r /\ UNCHANGED <<tables, table_count, stringVars, halted>>
Panics == halted' = "panic" /\ UNCHANGED <<tables, table_count, stringVars, result>>

\* The list has room for one more, or grows first.
StringsFull == string_count >= string_capacity
StringRoom == IF StringsFull THEN Grown(string_capacity, StringCapacity) ELSE string_capacity
StringsFit == StringsFull => Allocates(StringRoom * StringSize)
Appended(text) ==
  /\ strings' = [Realloc(strings, StringRoom, NoText) EXCEPT ![string_count] = text]
  /\ string_capacity' = StringRoom
  /\ string_count' = string_count + 1

AddString(text) ==
  IF StringsFit
  THEN /\ Appended(text)
       /\ result' = Returned(<<string_count>>)
       /\ UNCHANGED <<tables, table_count, halted>>
  ELSE Panics

\* The caller's buffer must take the string and its end.
GetString(id, len) ==
  Returns(IF id < string_count /\ len >= Length[strings[id]] + 1
          THEN Returned(<<strings[id]>>) ELSE Failed)

\* The tables move; the new one's name is added after it is counted.
CreateTable(name) ==
  IF StringsFit /\ Allocates((table_count + 1) * TableSize)
  THEN /\ tables' = Realloc(tables, table_count + 1, Table0(string_count))
       /\ table_count' = table_count + 1
       /\ Appended(name)
       /\ result' = Returned(<<table_count>>)
       /\ UNCHANGED halted
  ELSE Panics

\* A call about a table, which keeps all the others.
Change(id, table, r) ==
  /\ tables' = [tables EXCEPT ![id] = table]
  /\ result' = r
  /\ UNCHANGED <<table_count, stringVars, halted>>

\* Set once; no column at all is a block of no bytes, which fails.
SetTableGeometry(id, count) ==
  IF id < table_count /\ count \in 1 .. MaxCols /\ tables[id].col_count = 0
  THEN Change(id, [tables[id] EXCEPT !.col_count = count], Returned(<<>>))
  ELSE Returns(Failed)

ClearTable(id) ==
  IF id < table_count
  THEN Change(id, [tables[id] EXCEPT !.cells = Empty, !.row_count = 0, !.row_capacity = 0],
              Returned(<<>>))
  ELSE Returns(Failed)

\* The columns of a row, in the block's cells.
StoredBeside(cells, row, data) ==   \* mutant: rows are not spaced by their width
  [i \in DOMAIN cells |-> IF i \in row .. row + Len(data) - 1 THEN data[i - row + 1] ELSE cells[i]]
Stored(cells, row, data) ==
  LET at == row * Len(data) IN
  [i \in DOMAIN cells |-> IF i \in at .. at + Len(data) - 1 THEN data[i - at + 1] ELSE cells[i]]
Fetched(cells, row, count) == [c \in 1 .. count |-> cells[row * count + c - 1]]

RowsFullLate(table) == table.row_count > table.row_capacity   \* mutant: off by one
RowsFull(table) == table.row_count >= table.row_capacity
WithRoom(table) ==
  LET capacity == Grown(table.row_capacity, RowCapacity) IN
  IF RowsFull(table)
  THEN [table EXCEPT !.cells = Realloc(table.cells, capacity * table.col_count, 0),
                     !.row_capacity = capacity]
  ELSE table
RowsFit(table) ==
  RowsFull(table) => Allocates(Grown(table.row_capacity, RowCapacity) * table.col_count)

WithRow(table, data) ==
  [WithRoom(table) EXCEPT !.cells = Stored(@, table.row_count, data),
                          !.row_count = table.row_count + 1]

InsertRow(id, data) ==
  IF id < table_count /\ Len(data) = tables[id].col_count
  THEN IF RowsFit(tables[id])
       THEN Change(id, WithRow(tables[id], data), Returned(<<tables[id].row_count>>))
       ELSE Panics
  ELSE Returns(Failed)

\* A row of the caller's width that is there.
RowFits(id, row, count) ==
  id < table_count /\ count = tables[id].col_count /\ row < tables[id].row_count

FetchRow(id, row, count) ==
  Returns(IF RowFits(id, row, count) THEN Returned(Fetched(tables[id].cells, row, count))
          ELSE Failed)

UpdateRow(id, row, data) ==
  IF RowFits(id, row, Len(data))
  THEN Change(id, [tables[id] EXCEPT !.cells = Stored(@, row, data)], Returned(<<>>))
  ELSE Returns(Failed)

Rows(id) == IF id < table_count THEN tables[id].row_count ELSE 0

Next ==
  /\ halted = "no"
  /\ \/ \E text \in Text : AddString(text) \/ CreateTable(text)
     \/ \E id \in 0 .. string_count, text \in Text : GetString(id, Length[text] + 1)
     \/ \E id \in 0 .. table_count :
          \/ ClearTable(id)
          \/ \E count \in 0 .. MaxCols + 1 : SetTableGeometry(id, count)
          \/ \E data \in Row : InsertRow(id, data)
          \/ \E row \in 0 .. Rows(id) :
               \/ \E count \in 1 .. MaxCols : FetchRow(id, row, count)
               \/ \E data \in Row : UpdateRow(id, row, data)

Spec == Init /\ [][Next]_vars
-----------------------------------------------------------------------------
\* Blocks are as large as their capacities say and hold what is counted in
\* them, through every doubling, clearing and refused geometry; names are
\* strings that are there.
CountsFit ==
  /\ DOMAIN tables = 0 .. table_count - 1
  /\ DOMAIN strings = 0 .. string_capacity - 1 /\ string_count <= string_capacity
  /\ \A id \in DOMAIN tables :
       LET table == tables[id] IN
       /\ table.name < string_count
       /\ table.row_count <= table.row_capacity /\ table.col_count <= MaxCols
       /\ DOMAIN table.cells = 0 .. table.row_capacity * table.col_count - 1

\* The database is tables of rows and a list of strings.
StringList == [i \in 1 .. string_count |-> strings[i - 1]]
RowsOf(table) == [r \in 1 .. table.row_count |-> Fetched(table.cells, r - 1, table.col_count)]
TableOf(table) == [name |-> strings[table.name], width |-> table.col_count, rows |-> RowsOf(table)]
TableList == [i \in 1 .. table_count |-> TableOf(tables[i - 1])]
S == INSTANCE Store WITH strings <- StringList, tables <- TableList
IsStore == S!Spec
=============================================================================
