------------------------------ MODULE DbProofs ------------------------------
(***************************************************************************)
(* Theorems about the database, for any cells and strings, any number of    *)
(* columns, any first capacities and any heap.                              *)
(***************************************************************************)
EXTENDS Db, SequenceTheorems, TLAPS

Cells == UNION {[0 .. n - 1 -> Cell] : n \in Nat}
Table == [name : Nat, row_count : Nat, row_capacity : Nat, col_count : 0 .. MaxCols, cells : Cells]

\* A table whose block has room for its rows; one without columns has none.
Sound(table) ==
  /\ table \in Table
  /\ table.row_count <= table.row_capacity
  /\ DOMAIN table.cells = 0 .. table.row_capacity * table.col_count - 1
  /\ table.col_count = 0 => table.row_capacity = 0

TablesSound ==
  /\ table_count \in Nat
  /\ DOMAIN tables = 0 .. table_count - 1
  /\ \A id \in DOMAIN tables : Sound(tables[id]) /\ tables[id].name < string_count
StringsSound ==
  /\ string_count \in Nat /\ string_capacity \in Nat /\ string_count <= string_capacity
  /\ DOMAIN strings = 0 .. string_capacity - 1
  /\ \A i \in 0 .. string_count - 1 : strings[i] \in Text
DbInv == TablesSound /\ StringsSound
-----------------------------------------------------------------------------
LEMMA Constants ==
  /\ MaxCols \in Nat \ {0} /\ RowCapacity \in Nat \ {0} /\ StringCapacity \in Nat \ {0}
  /\ 0 \in Cell
BY DbAssumption

LEMMA GrownIsLarger ==
  ASSUME NEW capacity \in Nat, NEW first \in Nat \ {0}
  PROVE  Grown(capacity, first) \in Nat /\ Grown(capacity, first) > capacity
BY DEF Grown

LEMMA Columns ==
  ASSUME NEW data \in Row
  PROVE  /\ Len(data) \in 1 .. MaxCols /\ DOMAIN data = 1 .. Len(data)
         /\ \A i \in 1 .. Len(data) : data[i] \in Cell
<1>1. PICK n \in 1 .. MaxCols : data \in [1 .. n -> Cell]
  BY DEF Row
<1>2. n \in Nat /\ data \in Seq(Cell) /\ Len(data) = n
  BY <1>1, Constants
<1> QED  BY <1>1, <1>2

\* What Append makes, as a function.
LEMMA AppendIs ==
  ASSUME NEW T, NEW s \in Seq(T), NEW e
  PROVE  Append(s, e) = [i \in 1 .. Len(s) + 1 |-> IF i <= Len(s) THEN s[i] ELSE e]
<1> DEFINE U == T \cup {e}
<1>1. s \in Seq(U) /\ e \in U
  <2>1. Len(s) \in Nat /\ s \in [1 .. Len(s) -> T]
    OBVIOUS
  <2>2. s \in [1 .. Len(s) -> U]
    BY <2>1
  <2>3. e \in U
    OBVIOUS
  <2> HIDE DEF U
  <2> QED  BY <2>1, <2>2, <2>3
<1> HIDE DEF U
<1>2. /\ Append(s, e) \in Seq(U) /\ Len(Append(s, e)) = Len(s) + 1 /\ Len(s) \in Nat
      /\ \A i \in 1 .. Len(s) : Append(s, e)[i] = s[i]
      /\ Append(s, e)[Len(s) + 1] = e
  BY <1>1, AppendProperties
<1> DEFINE a == Append(s, e)
           n == Len(s)
<1>3. Append(s, e) \in [1 .. Len(s) + 1 -> U]
  <2>1. a \in Seq(U) /\ Len(a) = n + 1
    BY <1>2
  <2> HIDE DEF a, n
  <2>2. a \in [1 .. n + 1 -> U]
    BY <2>1
  <2> QED  BY <2>2 DEF a, n
<1>4. \A i \in 1 .. Len(s) + 1 : Append(s, e)[i] = IF i <= Len(s) THEN s[i] ELSE e
  BY <1>2
<1> QED  BY <1>3, <1>4

\* Row numbers, row by row: a product with the width can be compared.
LEMMA Product ==
  ASSUME NEW a \in Nat, NEW n \in Nat
  PROVE  a * n \in Nat /\ (a + 1) * n = a * n + n
BY SMT

LEMMA ProductGrows ==
  ASSUME NEW a \in Nat, NEW b \in Nat, NEW n \in Nat, a <= b
  PROVE  a * n <= b * n
<1>1. b = a + (b - a) /\ b - a \in Nat
  OBVIOUS
<1>2. b * n = a * n + (b - a) * n
  BY <1>1, SMT
<1>3. (b - a) * n \in Nat
  BY <1>1, SMT
<1> QED  BY <1>2, <1>3, Product

\* The cells of two rows of one width are apart, and a row that is there
\* lies in the block.
LEMMA RowsApart ==
  ASSUME NEW row \in Nat, NEW other \in Nat, NEW n \in Nat, NEW c \in 0 .. n - 1, row # other
  PROVE  row * n + c \notin other * n .. other * n + n - 1
<1>1. row * n \in Nat /\ other * n \in Nat
  BY Product
<1>2. CASE row < other
  <2>1. (row + 1) * n <= other * n
    BY <1>2, ProductGrows
  <2> QED  BY <1>1, <2>1, Product
<1>3. CASE other < row
  <2>1. (other + 1) * n <= row * n
    BY <1>3, ProductGrows
  <2> QED  BY <1>1, <2>1, Product
<1> QED  BY <1>2, <1>3

LEMMA RowInBlock ==
  ASSUME NEW row \in Nat, NEW capacity \in Nat, NEW n \in Nat, NEW c \in 0 .. n - 1, row < capacity
  PROVE  row * n + c \in 0 .. capacity * n - 1
<1>1. (row + 1) * n <= capacity * n
  BY ProductGrows
<1>2. row * n \in Nat /\ capacity * n \in Nat
  BY Product
<1> QED  BY <1>1, <1>2, Product
-----------------------------------------------------------------------------
\* What the blocks are after krealloc and after a row is stored in them.
LEMMA ReallocCells ==
  ASSUME NEW old \in Cells, NEW n \in Nat
  PROVE  /\ Realloc(old, n, 0) \in Cells /\ DOMAIN Realloc(old, n, 0) = 0 .. n - 1
         /\ \A i \in (DOMAIN old) \cap 0 .. n - 1 : Realloc(old, n, 0)[i] = old[i]
BY Constants DEF Realloc, Cells

LEMMA StoredCells ==
  ASSUME NEW cells \in Cells, NEW row \in Nat, NEW data \in Row
  PROVE  /\ Stored(cells, row, data) \in Cells
         /\ DOMAIN Stored(cells, row, data) = DOMAIN cells
<1> DEFINE n == Len(data)
<1>1. n \in Nat /\ \A i \in 1 .. n : data[i] \in Cell
  BY Columns, Constants
<1>2. row * n \in Nat
  BY <1>1, Product
<1>3. PICK m \in Nat : cells \in [0 .. m - 1 -> Cell]
  BY DEF Cells
<1>4. \A i \in 0 .. m - 1 : i \in row * n .. row * n + n - 1 => data[i - row * n + 1] \in Cell
  BY <1>1, <1>2
<1>5. Stored(cells, row, data) \in [0 .. m - 1 -> Cell]
  BY <1>3, <1>4 DEF Stored
<1> QED  BY <1>3, <1>5 DEF Cells

\* The row that was stored, and any other.
LEMMA FetchedStored ==
  ASSUME NEW cells \in Cells, NEW row \in Nat, NEW other \in Nat, NEW data \in Row,
         \A r \in {row, other}, c \in 0 .. Len(data) - 1 : r * Len(data) + c \in DOMAIN cells
  PROVE  Fetched(Stored(cells, row, data), other, Len(data)) =
           IF other = row THEN data ELSE Fetched(cells, other, Len(data))
<1> DEFINE n == Len(data)
<1>1. n \in Nat /\ DOMAIN data = 1 .. n
  BY Columns, Constants
<1>2. row * n \in Nat /\ other * n \in Nat
  BY <1>1, Product
<1>3. \A c \in 1 .. n : c - 1 \in 0 .. n - 1 /\ other * n + c - 1 = other * n + (c - 1)
  BY <1>1, <1>2
<1>4. CASE other = row
  <2>1. \A c \in 1 .. n : Stored(cells, row, data)[other * n + c - 1] = data[c]
    <3> SUFFICES ASSUME NEW c \in 1 .. n
                 PROVE  Stored(cells, row, data)[other * n + c - 1] = data[c]
      OBVIOUS
    <3> DEFINE at == row * n
               i == at + c - 1
    <3>1. i \in DOMAIN cells
      BY <1>1, <1>2, <1>3
    <3>2. Stored(cells, row, data)[i] = IF i \in at .. at + n - 1 THEN data[i - at + 1] ELSE cells[i]
      BY <3>1 DEF Stored
    <3>3. at \in Nat
      BY <1>2
    <3> HIDE DEF at
    <3>4. i \in at .. at + n - 1 /\ i - at + 1 = c
      BY <1>1, <3>3
    <3> QED  BY <1>4, <3>2, <3>4 DEF at
  <2>2. Fetched(Stored(cells, row, data), other, n) = [c \in 1 .. n |-> data[c]]
    BY <2>1 DEF Fetched
  <2> QED  BY <1>1, <1>4, <2>2 DEF Row
<1>5. CASE other # row
  <2>1. \A c \in 1 .. n : Stored(cells, row, data)[other * n + c - 1] = cells[other * n + c - 1]
    BY <1>1, <1>2, <1>3, <1>5, RowsApart DEF Stored
  <2> QED  BY <1>5, <2>1 DEF Fetched
<1> QED  BY <1>4, <1>5
-----------------------------------------------------------------------------
LEMMA Fields ==
  ASSUME NEW table \in Table
  PROVE  /\ table.name \in Nat /\ table.row_count \in Nat /\ table.row_capacity \in Nat
         /\ table.col_count \in Nat /\ table.col_count <= MaxCols /\ table.cells \in Cells
BY Constants DEF Table

LEMMA NewTable ==
  ASSUME NEW name \in Nat
  PROVE  Sound(Table0(name))
<1>1. Empty \in [0 .. 0 - 1 -> Cell] /\ DOMAIN Empty = 0 .. 0 - 1
  BY DEF Empty
<1>2. Empty \in Cells
  BY <1>1 DEF Cells
<1>3. Table0(name) \in Table
  BY <1>2, Constants DEF Table0, Table
<1> QED  BY <1>1, <1>3 DEF Sound, Table0

LEMMA GeometrySet ==
  ASSUME NEW table, Sound(table), table.col_count = 0, NEW count \in 1 .. MaxCols
  PROVE  Sound([table EXCEPT !.col_count = count])
<1> DEFINE new == [table EXCEPT !.col_count = count]
<1>1. new \in Table
  <2>1. count \in 0 .. MaxCols
    BY Constants
  <2> QED  BY <2>1 DEF Sound, Table
<1>2. /\ new.row_count = table.row_count /\ new.row_capacity = table.row_capacity
      /\ new.col_count = count /\ new.cells = table.cells
  BY DEF Sound, Table
<1>3. table.row_capacity = 0 /\ DOMAIN table.cells = 0 .. 0 - 1
  BY Fields DEF Sound
<1>4. 0 * count = 0
  BY Constants
<1> HIDE DEF new
<1>5. Sound(new)
  BY <1>1, <1>2, <1>3, <1>4, Constants DEF Sound
<1> QED  BY <1>5 DEF new

LEMMA TableCleared ==
  ASSUME NEW table, Sound(table)
  PROVE  LET new == [table EXCEPT !.cells = Empty, !.row_count = 0, !.row_capacity = 0]
         IN Sound(new) /\ new.name = table.name /\ new.col_count = table.col_count
                       /\ new.row_count = 0
<1> DEFINE new == [table EXCEPT !.cells = Empty, !.row_count = 0, !.row_capacity = 0]
<1>1. table = [name |-> table.name, row_count |-> table.row_count,
               row_capacity |-> table.row_capacity, col_count |-> table.col_count,
               cells |-> table.cells]
  BY DEF Sound, Table
<1>2. new = [name |-> table.name, row_count |-> 0, row_capacity |-> 0,
             col_count |-> table.col_count, cells |-> Empty]
  <2> DEFINE first == [table EXCEPT !.cells = Empty]
             second == [first EXCEPT !.row_count = 0]
             third == [second EXCEPT !.row_capacity = 0]
  <2>1. new = third
    OBVIOUS
  <2>2. first = [name |-> table.name, row_count |-> table.row_count,
                 row_capacity |-> table.row_capacity, col_count |-> table.col_count,
                 cells |-> Empty]
    BY <1>1
  <2> HIDE DEF first
  <2>3. second = [name |-> table.name, row_count |-> 0, row_capacity |-> table.row_capacity,
                  col_count |-> table.col_count, cells |-> Empty]
    BY <2>2
  <2> HIDE DEF second
  <2>4. third = [name |-> table.name, row_count |-> 0, row_capacity |-> 0,
                 col_count |-> table.col_count, cells |-> Empty]
    BY <2>3
  <2> QED  BY <2>1, <2>4
<1>3. Empty \in [0 .. 0 - 1 -> Cell] /\ DOMAIN Empty = 0 .. 0 - 1
  BY DEF Empty
<1>4. Empty \in Cells
  BY <1>3 DEF Cells
<1> HIDE DEF new
<1>5. new \in Table
  BY <1>2, <1>4, Constants DEF Sound, Table
<1>6. 0 * table.col_count = 0
  BY Fields DEF Sound
<1>7. Sound(new) /\ new.name = table.name /\ new.col_count = table.col_count /\ new.row_count = 0
  BY <1>2, <1>3, <1>5, <1>6 DEF Sound
<1> QED  BY <1>7 DEF new

LEMMA RowUpdated ==
  ASSUME NEW table, Sound(table), NEW row \in Nat, NEW data \in Row
  PROVE  LET new == [table EXCEPT !.cells = Stored(@, row, data)]
         IN /\ Sound(new) /\ new.name = table.name /\ new.col_count = table.col_count
            /\ new.row_count = table.row_count /\ new.cells = Stored(table.cells, row, data)
<1> DEFINE new == [table EXCEPT !.cells = Stored(@, row, data)]
<1>1. table \in Table /\ table.cells \in Cells
  BY Fields DEF Sound
<1> DEFINE cells == Stored(table.cells, row, data)
<1>2. cells \in Cells /\ DOMAIN cells = DOMAIN table.cells
  BY <1>1, StoredCells
<1> HIDE DEF cells
<1>3. new = [table EXCEPT !.cells = cells]
  BY <1>1 DEF cells, Table
<1>4. /\ new \in Table /\ new.cells = cells /\ new.name = table.name
      /\ new.row_count = table.row_count /\ new.row_capacity = table.row_capacity
      /\ new.col_count = table.col_count
  BY <1>1, <1>2, <1>3 DEF Table
<1> HIDE DEF new
<1>5. Sound(new)
  BY <1>2, <1>4 DEF Sound
<1> QED  BY <1>4, <1>5 DEF new, cells

\* A table that is full gets a larger block and keeps its rows.
LEMMA Enlarged ==
  ASSUME NEW table, Sound(table), table.col_count # 0
  PROVE  LET new == WithRoom(table)
         IN /\ Sound(new) /\ new.row_count < new.row_capacity
            /\ new.name = table.name /\ new.col_count = table.col_count
            /\ new.row_count = table.row_count
            /\ \A i \in DOMAIN table.cells : i \in DOMAIN new.cells /\ new.cells[i] = table.cells[i]
<1> DEFINE new == WithRoom(table)
           capacity == Grown(table.row_capacity, RowCapacity)
           n == table.col_count
           cells == Realloc(table.cells, capacity * n, 0)
<1>1. /\ table \in Table /\ table.cells \in Cells /\ n \in Nat /\ n <= MaxCols
      /\ table.row_capacity \in Nat /\ table.row_count \in Nat
      /\ table.row_count <= table.row_capacity
      /\ DOMAIN table.cells = 0 .. table.row_capacity * n - 1
  BY Fields DEF Sound
<1>2. CASE ~RowsFull(table)
  BY <1>1, <1>2 DEF RowsFull, WithRoom
<1>3. CASE RowsFull(table)
  <2>1. capacity \in Nat /\ capacity > table.row_capacity
    BY <1>1, GrownIsLarger, Constants
  <2>2. capacity * n \in Nat /\ table.row_capacity * n \in Nat
    BY <1>1, <2>1, Product
  <2>3. table.row_capacity * n <= capacity * n
    BY <1>1, <2>1, ProductGrows
  <2>4. /\ cells \in Cells /\ DOMAIN cells = 0 .. capacity * n - 1
        /\ \A i \in DOMAIN table.cells : i \in DOMAIN cells /\ cells[i] = table.cells[i]
    <3> DEFINE m == capacity * n
               k == table.row_capacity * n
    <3> HIDE DEF m, k
    <3>1. m \in Nat /\ k \in Nat /\ k <= m /\ DOMAIN table.cells = 0 .. k - 1
      BY <1>1, <2>2, <2>3 DEF m, k
    <3>2. /\ Realloc(table.cells, m, 0) \in Cells /\ DOMAIN Realloc(table.cells, m, 0) = 0 .. m - 1
          /\ \A i \in (DOMAIN table.cells) \cap 0 .. m - 1 :
               Realloc(table.cells, m, 0)[i] = table.cells[i]
      BY <1>1, <3>1, ReallocCells
    <3>3. \A i \in DOMAIN table.cells : i \in 0 .. m - 1
      BY <3>1
    <3> QED  BY <3>2, <3>3 DEF m
  <2>5. new = [table EXCEPT !.cells = cells, !.row_capacity = capacity]
    BY <1>3 DEF WithRoom
  <2> HIDE DEF new, cells, capacity
  <2>6. table = [name |-> table.name, row_count |-> table.row_count,
                 row_capacity |-> table.row_capacity, col_count |-> n, cells |-> table.cells]
    BY <1>1 DEF Table
  <2>7. new = [name |-> table.name, row_count |-> table.row_count,
               row_capacity |-> capacity, col_count |-> n, cells |-> cells]
    BY <2>5, <2>6
  <2>8. new \in Table
    BY <1>1, <2>1, <2>4, <2>7 DEF Table
  <2>9. Sound(new) /\ new.row_count < new.row_capacity
    BY <1>1, <2>1, <2>4, <2>7, <2>8 DEF Sound
  <2> QED  BY <2>4, <2>7, <2>9 DEF new
<1> QED  BY <1>2, <1>3

LEMMA RowInserted ==
  ASSUME NEW table, Sound(table), NEW data \in Row, Len(data) = table.col_count
  PROVE  LET new == WithRow(table, data)
         IN /\ Sound(new) /\ new.name = table.name /\ new.col_count = table.col_count
            /\ new.row_count = table.row_count + 1
            /\ new.cells = Stored(WithRoom(table).cells, table.row_count, data)
<1> DEFINE row == table.row_count
           large == WithRoom(table)
           cells == Stored(large.cells, row, data)
           new == WithRow(table, data)
<1>1. table.col_count # 0
  BY Columns, Constants
<1>2. /\ Sound(large) /\ large.row_count < large.row_capacity
      /\ large.name = table.name /\ large.col_count = table.col_count /\ large.row_count = row
  BY <1>1, Enlarged
<1> HIDE DEF large
<1>3. /\ large \in Table /\ large.cells \in Cells /\ row \in Nat /\ large.row_capacity \in Nat
  BY <1>2, Fields DEF Sound
<1>4. cells \in Cells /\ DOMAIN cells = DOMAIN large.cells
  BY <1>3, StoredCells
<1> DEFINE first == [large EXCEPT !.cells = cells]
           second == [first EXCEPT !.row_count = row + 1]
<1>5. new = second
  BY DEF WithRow, large
<1> HIDE DEF cells, row
<1>6. first = [name |-> large.name, row_count |-> large.row_count,
               row_capacity |-> large.row_capacity, col_count |-> large.col_count,
               cells |-> cells]
  BY <1>3 DEF Table
<1> HIDE DEF first
<1>7. second = [name |-> large.name, row_count |-> row + 1, row_capacity |-> large.row_capacity,
                col_count |-> large.col_count, cells |-> cells]
  BY <1>6
<1> HIDE DEF second
<1>8. second \in Table
  BY <1>3, <1>4, <1>7, Constants DEF Table
<1>9. Sound(second)
  BY <1>2, <1>3, <1>4, <1>7, <1>8 DEF Sound
<1>10. /\ Sound(second) /\ second.name = table.name /\ second.col_count = table.col_count
       /\ second.row_count = row + 1 /\ second.cells = cells
  BY <1>2, <1>7, <1>9
<1> HIDE DEF new
<1>11. /\ Sound(new) /\ new.name = table.name /\ new.col_count = table.col_count
       /\ new.row_count = row + 1 /\ new.cells = cells
  BY <1>5, <1>10
<1> QED  BY <1>11 DEF new, cells, row, large
-----------------------------------------------------------------------------
LEMMA InitDbInv == Init => DbInv
BY DEF Init, Empty, DbInv, TablesSound, StringsSound

LEMMA QuietInv ==
  ASSUME DbInv, UNCHANGED <<tables, table_count, stringVars>>
  PROVE  DbInv'
BY DEF DbInv, TablesSound, StringsSound, Sound, stringVars

LEMMA AppendedStrings ==
  ASSUME StringsSound, NEW text \in Text, Appended(text)
  PROVE  /\ StringsSound' /\ string_count' = string_count + 1
         /\ strings'[string_count] = text
         /\ \A i \in 0 .. string_count - 1 : strings'[i] = strings[i]
<1> DEFINE room == StringRoom
<1>1. /\ string_count \in Nat /\ string_capacity \in Nat /\ string_count <= string_capacity
      /\ DOMAIN strings = 0 .. string_capacity - 1
      /\ \A i \in 0 .. string_count - 1 : strings[i] \in Text
  BY DEF StringsSound
<1>2. room \in Nat /\ string_count < room /\ string_capacity <= room
  BY <1>1, GrownIsLarger, Constants DEF StringRoom, StringsFull
<1>3. /\ strings' = [Realloc(strings, room, NoText) EXCEPT ![string_count] = text]
      /\ string_capacity' = room /\ string_count' = string_count + 1
  BY DEF Appended
<1> HIDE DEF room
<1>4. /\ DOMAIN strings' = 0 .. room - 1
      /\ strings'[string_count] = text
      /\ \A i \in 0 .. string_count - 1 : strings'[i] = strings[i]
  BY <1>1, <1>2, <1>3 DEF Realloc
<1>5. \A i \in 0 .. string_count' - 1 : i = string_count \/ i \in 0 .. string_count - 1
  BY <1>1, <1>3
<1> QED  BY <1>1, <1>2, <1>3, <1>4, <1>5 DEF StringsSound

LEMMA AddStringInv ==
  ASSUME DbInv, NEW text \in Text, AddString(text)
  PROVE  DbInv'
<1>1. CASE StringsFit
  <2>1. StringsSound' /\ string_count' = string_count + 1
    BY <1>1, AppendedStrings DEF AddString, DbInv
  <2>2. UNCHANGED <<tables, table_count>>
    BY <1>1 DEF AddString
  <2>3. \A id \in DOMAIN tables : Sound(tables[id]) /\ tables[id].name \in Nat
    BY Fields DEF DbInv, TablesSound, Sound
  <2>4. TablesSound'
    BY <2>1, <2>2, <2>3 DEF DbInv, TablesSound, StringsSound, Sound
  <2> QED  BY <2>1, <2>4 DEF DbInv
<1>2. CASE ~StringsFit
  BY <1>2, QuietInv DEF AddString, Panics
<1> QED  BY <1>1, <1>2

\* The tables there were, and the new one.
LEMMA CreatedTables ==
  ASSUME DbInv, tables' = Realloc(tables, table_count + 1, Table0(string_count))
  PROVE  /\ DOMAIN tables' = 0 .. table_count
         /\ tables'[table_count] = Table0(string_count)
         /\ \A id \in DOMAIN tables : id \in DOMAIN tables' /\ id < table_count /\ tables'[id] = tables[id]
BY DEF DbInv, TablesSound, Realloc

LEMMA CreateTableInv ==
  ASSUME DbInv, NEW text \in Text, CreateTable(text)
  PROVE  DbInv'
<1>1. CASE StringsFit /\ Allocates((table_count + 1) * TableSize)
  <2>1. /\ tables' = Realloc(tables, table_count + 1, Table0(string_count))
        /\ table_count' = table_count + 1 /\ Appended(text)
    BY <1>1 DEF CreateTable
  <2>2. StringsSound' /\ string_count' = string_count + 1
    BY <2>1, AppendedStrings DEF DbInv
  <2>3. string_count \in Nat /\ table_count \in Nat /\ DOMAIN tables = 0 .. table_count - 1
    BY DEF DbInv, StringsSound, TablesSound
  <2>4. Sound(Table0(string_count)) /\ Table0(string_count).name = string_count
    BY <2>3, NewTable DEF Table0
  <2>5. \A id \in DOMAIN tables : Sound(tables[id]) /\ tables[id].name \in Nat /\ tables[id].name < string_count
    BY Fields DEF DbInv, TablesSound, Sound
  <2>6. \A id \in DOMAIN tables' : Sound(tables'[id]) /\ tables'[id].name < string_count + 1
    <3> SUFFICES ASSUME NEW id \in DOMAIN tables'
                 PROVE  Sound(tables'[id]) /\ tables'[id].name < string_count + 1
      OBVIOUS
    <3>1. CASE id = table_count
      BY <2>1, <2>3, <2>4, <3>1, CreatedTables
    <3>2. CASE id # table_count
      <4>1. id \in DOMAIN tables /\ tables'[id] = tables[id]
        BY <2>1, <2>3, <3>2, CreatedTables
      <4> QED  BY <2>3, <2>5, <4>1
    <3> QED  BY <3>1, <3>2
  <2>7. TablesSound'
    BY <2>1, <2>2, <2>3, <2>6, CreatedTables DEF TablesSound, Sound
  <2> QED  BY <2>2, <2>7 DEF DbInv
<1>2. CASE ~(StringsFit /\ Allocates((table_count + 1) * TableSize))
  BY <1>2, QuietInv DEF CreateTable, Panics
<1> QED  BY <1>1, <1>2

\* A call about one table.
LEMMA ChangeInv ==
  ASSUME DbInv, NEW id \in DOMAIN tables, NEW table, NEW r, Change(id, table, r),
         Sound(table), table.name = tables[id].name
  PROVE  DbInv'
<1>1. /\ DOMAIN tables' = DOMAIN tables /\ tables'[id] = table
      /\ \A j \in DOMAIN tables : j # id => tables'[j] = tables[j]
  BY DEF Change
<1>2. UNCHANGED <<table_count, strings, string_count, string_capacity>>
  BY DEF Change, stringVars
<1>3. TablesSound'
  BY <1>1, <1>2 DEF DbInv, TablesSound, Sound
<1>4. StringsSound'
  BY <1>2 DEF DbInv, StringsSound
<1> QED  BY <1>3, <1>4 DEF DbInv

LEMMA IsTable ==
  ASSUME DbInv, NEW id \in Nat, id < table_count
  PROVE  id \in DOMAIN tables /\ Sound(tables[id])
BY DEF DbInv, TablesSound

LEMMA ReturnsInv == ASSUME DbInv, NEW r, Returns(r) PROVE DbInv'
BY QuietInv DEF Returns

LEMMA TableInv ==
  ASSUME DbInv, NEW id \in Nat,
         \/ ClearTable(id)
         \/ \E count \in 0 .. MaxCols + 1 : SetTableGeometry(id, count)
  PROVE  DbInv'
<1>1. CASE ClearTable(id)
  BY <1>1, IsTable, TableCleared, ChangeInv, ReturnsInv DEF ClearTable
<1>2. ASSUME NEW count \in 0 .. MaxCols + 1, SetTableGeometry(id, count) PROVE DbInv'
  <2>1. CASE id < table_count /\ count \in 1 .. MaxCols /\ tables[id].col_count = 0
    <3> DEFINE new == [tables[id] EXCEPT !.col_count = count]
    <3>1. id \in DOMAIN tables /\ Sound(tables[id])
      BY <2>1, IsTable
    <3>2. Sound(new)
      BY <2>1, <3>1, GeometrySet
    <3>3. new.name = tables[id].name
      BY <3>1 DEF Sound, Table
    <3>4. Change(id, new, Returned(<<>>))
      BY <1>2, <2>1 DEF SetTableGeometry
    <3> HIDE DEF new
    <3> QED  BY <3>1, <3>2, <3>3, <3>4, ChangeInv
  <2>2. CASE ~(id < table_count /\ count \in 1 .. MaxCols /\ tables[id].col_count = 0)
    BY <1>2, <2>2, ReturnsInv DEF SetTableGeometry
  <2> QED  BY <2>1, <2>2
<1> QED  BY <1>1, <1>2

LEMMA InsertRowInv ==
  ASSUME DbInv, NEW id \in Nat, NEW data \in Row, InsertRow(id, data)
  PROVE  DbInv'
<1>1. CASE id < table_count /\ Len(data) = tables[id].col_count /\ RowsFit(tables[id])
  <2>1. id \in DOMAIN tables /\ Sound(tables[id])
    BY <1>1, IsTable
  <2> DEFINE new == WithRow(tables[id], data)
  <2>2. Sound(new) /\ new.name = tables[id].name
    BY <1>1, <2>1, RowInserted
  <2>3. Change(id, new, Returned(<<tables[id].row_count>>))
    BY <1>1 DEF InsertRow
  <2> HIDE DEF new
  <2> QED  BY <2>1, <2>2, <2>3, ChangeInv
<1>2. CASE ~(id < table_count /\ Len(data) = tables[id].col_count /\ RowsFit(tables[id]))
  BY <1>2, ReturnsInv, QuietInv DEF InsertRow, Panics
<1> QED  BY <1>1, <1>2

LEMMA UpdateRowInv ==
  ASSUME DbInv, NEW id \in Nat, NEW row \in Nat, NEW data \in Row, UpdateRow(id, row, data)
  PROVE  DbInv'
<1>1. CASE RowFits(id, row, Len(data))
  <2> DEFINE new == [tables[id] EXCEPT !.cells = Stored(@, row, data)]
  <2>1. id \in DOMAIN tables /\ Sound(tables[id])
    BY <1>1, IsTable DEF RowFits
  <2>2. Sound(new) /\ new.name = tables[id].name
    BY <2>1, RowUpdated
  <2>3. Change(id, new, Returned(<<>>))
    BY <1>1 DEF UpdateRow
  <2> HIDE DEF new
  <2> QED  BY <2>1, <2>2, <2>3, ChangeInv
<1>2. CASE ~RowFits(id, row, Len(data))
  BY <1>2, ReturnsInv DEF UpdateRow
<1> QED  BY <1>1, <1>2

LEMMA RowsAreNat ==
  ASSUME DbInv, NEW id \in Nat
  PROVE  Rows(id) \in Nat /\ 0 .. Rows(id) \subseteq Nat
<1>1. ASSUME id < table_count PROVE tables[id].row_count \in Nat
  <2>1. tables[id] \in Table
    BY <1>1, IsTable DEF Sound
  <2> QED  BY <2>1, Fields
<1> QED  BY <1>1 DEF Rows

\* The inductive invariant: every table's block has room for its rows.
THEOREM Invariance == Spec => []DbInv
<1>1. DbInv /\ [Next]_vars => DbInv'
  <2> SUFFICES ASSUME DbInv, [Next]_vars PROVE DbInv'
    OBVIOUS
  <2>1. CASE UNCHANGED vars
    BY <2>1, QuietInv DEF vars
  <2>2. CASE \E text \in Text : AddString(text) \/ CreateTable(text)
    BY <2>2, AddStringInv, CreateTableInv
  <2>3. CASE \E id \in 0 .. string_count, text \in Text : GetString(id, Length[text] + 1)
    BY <2>3, ReturnsInv DEF GetString
  <2>4. table_count \in Nat /\ 0 .. table_count \subseteq Nat
    BY DEF DbInv, TablesSound
  <2>5. CASE \E id \in 0 .. table_count :
               \/ ClearTable(id)
               \/ \E count \in 0 .. MaxCols + 1 : SetTableGeometry(id, count)
               \/ \E data \in Row : InsertRow(id, data)
    BY <2>4, <2>5, TableInv, InsertRowInv
  <2>6. CASE \E id \in 0 .. table_count : \E row \in 0 .. Rows(id) :
               \/ \E count \in 1 .. MaxCols : FetchRow(id, row, count)
               \/ \E data \in Row : UpdateRow(id, row, data)
    BY <2>4, <2>6, RowsAreNat, ReturnsInv, UpdateRowInv DEF FetchRow
  <2> QED  BY <2>1, <2>2, <2>3, <2>5, <2>6, Zenon DEF Next
<1> QED  BY <1>1, InitDbInv, PTL DEF Spec

\* For any widths, capacities and heap: no call, in any order, leaves a block
\* that its counts do not fit in, or a table whose name is not there.
THEOREM CountsAlwaysFit == Spec => []CountsFit
<1>1. DbInv => CountsFit
  BY Fields DEF DbInv, TablesSound, StringsSound, CountsFit, Sound
<1> QED  BY <1>1, Invariance, PTL
-----------------------------------------------------------------------------
\* The lists the refinement maps to are sequences.
LEMMA Lists ==
  ASSUME DbInv
  PROVE  /\ StringList \in Seq(Text) /\ Len(StringList) = string_count
         /\ \A i \in 0 .. string_count - 1 : StringList[i + 1] = strings[i]
         /\ TableList \in Seq({TableOf(tables[i]) : i \in DOMAIN tables})
         /\ Len(TableList) = table_count
         /\ \A id \in DOMAIN tables : id + 1 \in 1 .. table_count /\ TableList[id + 1] = TableOf(tables[id])
<1>1. string_count \in Nat /\ \A i \in 0 .. string_count - 1 : strings[i] \in Text
  BY DEF DbInv, StringsSound
<1>2. \A i \in 1 .. string_count : i - 1 \in 0 .. string_count - 1
  BY <1>1
<1>3. StringList \in [1 .. string_count -> Text]
  BY <1>1, <1>2 DEF StringList
<1>4. StringList \in Seq(Text) /\ Len(StringList) = string_count
  BY <1>1, <1>3
<1>5. \A i \in 0 .. string_count - 1 : StringList[i + 1] = strings[i]
  BY <1>1 DEF StringList
<1>6. table_count \in Nat /\ DOMAIN tables = 0 .. table_count - 1
  BY DEF DbInv, TablesSound
<1> DEFINE T == {TableOf(tables[i]) : i \in DOMAIN tables}
<1>7. TableList \in [1 .. table_count -> T]
  BY <1>6 DEF TableList
<1>8. \A id \in DOMAIN tables : id + 1 \in 1 .. table_count /\ TableList[id + 1] = TableOf(tables[id])
  BY <1>6 DEF TableList
<1> HIDE DEF T
<1>9. TableList \in Seq(T) /\ Len(TableList) = table_count
  BY <1>6, <1>7
<1> QED  BY <1>4, <1>5, <1>8, <1>9 DEF T

LEMMA RowList ==
  ASSUME NEW table, Sound(table)
  PROVE  /\ RowsOf(table) \in Seq({Fetched(table.cells, r, table.col_count) : r \in Nat})
         /\ Len(RowsOf(table)) = table.row_count
         /\ DOMAIN RowsOf(table) = 1 .. table.row_count
<1>1. table.row_count \in Nat
  BY Fields DEF Sound
<1> DEFINE F == {Fetched(table.cells, r, table.col_count) : r \in Nat}
<1>2. RowsOf(table) \in [1 .. table.row_count -> F]
  BY <1>1 DEF RowsOf
<1> HIDE DEF F
<1>3. RowsOf(table) \in Seq(F) /\ Len(RowsOf(table)) = table.row_count
  BY <1>1, <1>2
<1> QED  BY <1>2, <1>3 DEF F

LEMMA NoRows ==
  ASSUME NEW table, table.row_count = 0
  PROVE  RowsOf(table) = <<>>
<1>1. RowsOf(table) = [r \in 1 .. 0 |-> Fetched(table.cells, r - 1, table.col_count)]
  BY DEF RowsOf
<1> QED  BY <1>1

\* A row that is there is in the block.
LEMMA RowThere ==
  ASSUME NEW table, Sound(table), NEW r \in Nat, r < table.row_capacity,
         NEW c \in 0 .. table.col_count - 1
  PROVE  r * table.col_count + c \in DOMAIN table.cells
<1> DEFINE n == table.col_count
           capacity == table.row_capacity
<1>1. n \in Nat /\ capacity \in Nat /\ DOMAIN table.cells = 0 .. capacity * n - 1
  BY Fields DEF Sound
<1>2. r < capacity /\ c \in 0 .. n - 1
  OBVIOUS
<1> HIDE DEF n, capacity
<1>3. r * n + c \in 0 .. capacity * n - 1
  BY <1>1, <1>2, RowInBlock
<1> QED  BY <1>1, <1>3 DEF n

\* FetchedStored, of a table.
LEMMA FetchedOfTable ==
  ASSUME NEW table, Sound(table), NEW data \in Row, Len(data) = table.col_count,
         NEW row \in Nat, NEW other \in Nat, row < table.row_capacity, other < table.row_capacity
  PROVE  Fetched(Stored(table.cells, row, data), other, table.col_count)
           = IF other = row THEN data ELSE Fetched(table.cells, other, table.col_count)
<1>1. table.cells \in Cells
  BY Fields DEF Sound
<1>2. \A c \in 0 .. table.col_count - 1 :
        /\ row * table.col_count + c \in DOMAIN table.cells
        /\ other * table.col_count + c \in DOMAIN table.cells
  BY RowThere
<1>3. \A r \in {row, other}, c \in 0 .. Len(data) - 1 : r * Len(data) + c \in DOMAIN table.cells
  BY <1>2
<1>4. Fetched(Stored(table.cells, row, data), other, Len(data))
        = IF other = row THEN data ELSE Fetched(table.cells, other, Len(data))
  BY <1>1, <1>3, FetchedStored
<1> QED  BY <1>4

\* The rows after one is added, and after one is replaced.
LEMMA RowsInserted ==
  ASSUME NEW table, Sound(table), NEW data \in Row, Len(data) = table.col_count
  PROVE  RowsOf(WithRow(table, data)) = Append(RowsOf(table), data)
<1> DEFINE n == table.col_count
           count == table.row_count
           large == WithRoom(table)
           cells == large.cells
           new == WithRow(table, data)
<1>1. n \in Nat \ {0} /\ count \in Nat /\ count <= table.row_capacity /\ table.row_capacity \in Nat
  BY Columns, Constants, Fields DEF Sound
<1>2. /\ Sound(large) /\ count < large.row_capacity /\ large.col_count = n /\ large.row_count = count
      /\ \A i \in DOMAIN table.cells : i \in DOMAIN cells /\ cells[i] = table.cells[i]
  BY <1>1, Enlarged
<1>3. /\ cells \in Cells /\ large.row_capacity \in Nat
      /\ DOMAIN cells = 0 .. large.row_capacity * n - 1
      /\ DOMAIN table.cells = 0 .. table.row_capacity * n - 1
  BY <1>2, Fields DEF Sound
<1>4. new.row_count = count + 1 /\ new.col_count = n /\ new.cells = Stored(cells, count, data)
  BY RowInserted
<1>5. RowsOf(new) = [r \in 1 .. count + 1 |-> Fetched(Stored(cells, count, data), r - 1, n)]
  BY <1>4 DEF RowsOf
<1> HIDE DEF new
<1>6. ASSUME NEW r \in 0 .. count
      PROVE  Fetched(Stored(cells, count, data), r, n)
               = IF r = count THEN data ELSE Fetched(cells, r, n)
  <2>1. r \in Nat /\ r < large.row_capacity
    BY <1>1, <1>2, <1>3
  <2>2. Len(data) = large.col_count
    BY <1>2
  <2> HIDE DEF large
  <2>3. Fetched(Stored(cells, count, data), r, large.col_count)
          = IF r = count THEN data ELSE Fetched(cells, r, large.col_count)
    BY <1>1, <1>2, <2>1, <2>2, FetchedOfTable
  <2> QED  BY <1>2, <2>3
<1>7. Fetched(Stored(cells, count, data), count, n) = data
  BY <1>1, <1>6
<1> HIDE DEF large, cells
<1>8. ASSUME NEW r \in 0 .. count - 1
      PROVE  Fetched(Stored(cells, count, data), r, n) = Fetched(table.cells, r, n)
  <2>1. Fetched(Stored(cells, count, data), r, n) = Fetched(cells, r, n)
    BY <1>1, <1>6
  <2>2. \A c \in 0 .. n - 1 : cells[r * n + c] = table.cells[r * n + c]
    <3>1. r \in Nat /\ r < table.row_capacity
      BY <1>1
    <3>2. \A c \in 0 .. n - 1 : r * n + c \in DOMAIN table.cells
      BY <3>1, RowThere
    <3> QED  BY <1>2, <3>2
  <2>3. \A c \in 1 .. n : cells[r * n + c - 1] = table.cells[r * n + c - 1]
    <3>1. r * n \in Nat
      BY <1>1, Product
    <3>2. \A c \in 1 .. n : c - 1 \in 0 .. n - 1 /\ r * n + c - 1 = r * n + (c - 1)
      BY <1>1, <3>1
    <3> QED  BY <2>2, <3>2
  <2>4. Fetched(cells, r, n) = Fetched(table.cells, r, n)
    BY <2>3 DEF Fetched
  <2> QED  BY <2>1, <2>4
<1> DEFINE old == RowsOf(table)
<1>9. old \in Seq({Fetched(table.cells, r, n) : r \in Nat}) /\ Len(old) = count
  BY RowList
<1>10. \A r \in 1 .. count : old[r] = Fetched(table.cells, r - 1, n)
  BY DEF RowsOf
<1> HIDE DEF old
<1>11. Append(old, data) = [r \in 1 .. count + 1 |-> IF r <= count THEN old[r] ELSE data]
  BY <1>9, AppendIs
<1>12. \A r \in 1 .. count + 1 :
         Fetched(Stored(cells, count, data), r - 1, n) = IF r <= count THEN old[r] ELSE data
  BY <1>1, <1>7, <1>8, <1>10
<1>13. RowsOf(new) = Append(old, data)
  BY <1>5, <1>11, <1>12
<1> QED  BY <1>13 DEF new, old

LEMMA RowsUpdated ==
  ASSUME NEW table, Sound(table), NEW data \in Row, Len(data) = table.col_count,
         NEW row \in Nat, row < table.row_count
  PROVE  LET new == [table EXCEPT !.cells = Stored(@, row, data)]
         IN RowsOf(new) = [RowsOf(table) EXCEPT ![row + 1] = data]
<1> DEFINE n == table.col_count
           count == table.row_count
           cells == table.cells
           new == [table EXCEPT !.cells = Stored(@, row, data)]
<1>1. /\ n \in Nat /\ count \in Nat /\ count <= table.row_capacity /\ table.row_capacity \in Nat
      /\ cells \in Cells /\ DOMAIN cells = 0 .. table.row_capacity * n - 1
  BY Fields DEF Sound
<1>2. new.row_count = count /\ new.col_count = n /\ new.cells = Stored(cells, row, data)
  BY RowUpdated
<1> HIDE DEF new
<1>3. RowsOf(new) = [r \in 1 .. count |-> Fetched(Stored(cells, row, data), r - 1, n)]
  BY <1>2 DEF RowsOf
<1>4. ASSUME NEW r \in 0 .. count - 1
      PROVE  r \in Nat /\ r < table.row_capacity /\ row < table.row_capacity
  BY <1>1
<1>5. \A r \in 0 .. count - 1 :
        Fetched(Stored(cells, row, data), r, n) = IF r = row THEN data ELSE Fetched(cells, r, n)
  BY <1>4, FetchedOfTable
<1>6. \A r \in 1 .. count :
        Fetched(Stored(cells, row, data), r - 1, n)
          = IF r = row + 1 THEN data ELSE Fetched(cells, r - 1, n)
  BY <1>1, <1>5
<1>7. RowsOf(new) = [r \in 1 .. count |-> IF r = row + 1 THEN data ELSE Fetched(cells, r - 1, n)]
  BY <1>3, <1>6
<1>8. [RowsOf(table) EXCEPT ![row + 1] = data]
        = [r \in 1 .. count |-> IF r = row + 1 THEN data ELSE Fetched(cells, r - 1, n)]
  BY DEF RowsOf
<1> QED  BY <1>7, <1>8 DEF new
-----------------------------------------------------------------------------
\* The lists of strings and tables after a string, or a table, is added.
LEMMA StringAppended ==
  ASSUME DbInv, NEW text \in Text, Appended(text), DbInv'
  PROVE  StringList' = Append(StringList, text)
<1>1. /\ string_count \in Nat /\ string_count' = string_count + 1
      /\ strings'[string_count] = text
      /\ \A i \in 0 .. string_count - 1 : strings'[i] = strings[i]
  BY AppendedStrings DEF DbInv, StringsSound
<1>2. StringList \in Seq(Text) /\ Len(StringList) = string_count
  BY Lists
<1>3. Append(StringList, text)
        = [i \in 1 .. string_count + 1 |-> IF i <= string_count THEN StringList[i] ELSE text]
  BY <1>2, AppendIs
<1>4. \A i \in 1 .. string_count + 1 :
        strings'[i - 1] = IF i <= string_count THEN StringList[i] ELSE text
  BY <1>1 DEF StringList
<1>5. StringList' = [i \in 1 .. string_count + 1 |-> strings'[i - 1]]
  BY <1>1 DEF StringList
<1> QED  BY <1>3, <1>4, <1>5

\* A table that is there looks the same after: its name is there too.
LEMMA OldTables ==
  ASSUME DbInv, NEW text \in Text, Appended(text), NEW id \in DOMAIN tables,
         tables'[id] = tables[id]
  PROVE  TableOf(tables[id])' = TableOf(tables[id])
<1>1. Sound(tables[id]) /\ tables[id].name < string_count /\ string_count \in Nat
  BY DEF DbInv, TablesSound, StringsSound
<1>2. tables[id].name \in Nat
  BY <1>1, Fields DEF Sound
<1>3. strings'[tables[id].name] = strings[tables[id].name]
  BY <1>1, <1>2, AppendedStrings DEF DbInv
<1> QED  BY <1>3 DEF TableOf, RowsOf, Fetched

LEMMA AddStringRefines ==
  ASSUME DbInv, DbInv', NEW text \in Text, AddString(text)
  PROVE  [S!Next]_(S!vars)
<1>1. CASE StringsFit
  <2>1. Appended(text) /\ result' = Returned(<<string_count>>) /\ UNCHANGED <<tables, table_count>>
    BY <1>1 DEF AddString
  <2>2. StringList' = Append(StringList, text) /\ Len(StringList) = string_count
    BY <2>1, StringAppended, Lists
  <2>3. \A i \in 1 .. table_count : TableOf(tables[i - 1])' = TableOf(tables[i - 1])
    <3>1. \A i \in 1 .. table_count : i - 1 \in DOMAIN tables
      BY DEF DbInv, TablesSound
    <3> QED  BY <2>1, <3>1, OldTables
  <2>4. TableList' = TableList
    BY <2>1, <2>3 DEF TableList
  <2>5. S!AddString(text)
    BY <2>1, <2>2, <2>4 DEF S!AddString, S!Returned, Returned
  <2> QED  BY <2>5 DEF S!Next
<1>2. CASE ~StringsFit
  <2>1. UNCHANGED <<tables, table_count, stringVars, result>>
    BY <1>2 DEF AddString, Panics
  <2> QED  BY <2>1 DEF S!vars, StringList, TableList, TableOf, RowsOf, Fetched, stringVars
<1> QED  BY <1>1, <1>2

LEMMA CreateTableRefines ==
  ASSUME DbInv, DbInv', NEW text \in Text, CreateTable(text)
  PROVE  [S!Next]_(S!vars)
<1>1. CASE StringsFit /\ Allocates((table_count + 1) * TableSize)
  <2>1. /\ tables' = Realloc(tables, table_count + 1, Table0(string_count))
        /\ table_count' = table_count + 1 /\ Appended(text)
        /\ result' = Returned(<<table_count>>)
    BY <1>1 DEF CreateTable
  <2>2. StringList' = Append(StringList, text)
    BY <2>1, StringAppended
  <2>3. table_count \in Nat /\ Len(TableList) = table_count
        /\ TableList \in Seq({TableOf(tables[i]) : i \in DOMAIN tables})
    BY Lists DEF DbInv, TablesSound
  <2> DEFINE new == [name |-> text, width |-> 0, rows |-> <<>>]
  <2>4. ASSUME NEW k, k = table_count PROVE TableOf(tables[k])' = new
    <3>1. tables'[k] = Table0(string_count)
      BY <2>1, <2>4, CreatedTables
    <3>2. strings'[string_count] = text
      BY <2>1, AppendedStrings DEF DbInv
    <3>3. Table0(string_count).row_count = 0
      BY DEF Table0
    <3>4. RowsOf(Table0(string_count)) = <<>>
      BY <3>3, NoRows
    <3>5. TableOf(tables[k])'
            = [name |-> strings'[tables'[k].name], width |-> tables'[k].col_count,
               rows |-> RowsOf(tables'[k])]
      BY DEF TableOf, RowsOf, Fetched
    <3> QED  BY <3>1, <3>2, <3>4, <3>5 DEF Table0
  <2>5. TableList' = Append(TableList, new)
    <3> HIDE DEF new
    <3>1. Append(TableList, new)
            = [i \in 1 .. table_count + 1 |-> IF i <= table_count THEN TableList[i] ELSE new]
      BY <2>3, AppendIs
    <3>2. TableList' = [i \in 1 .. table_count + 1 |-> TableOf(tables[i - 1])']
      BY <2>1 DEF TableList
    <3>3. ASSUME NEW i \in 1 .. table_count
          PROVE  TableOf(tables[i - 1])' = TableList[i]
      <4>1. i - 1 \in DOMAIN tables /\ TableList[i] = TableOf(tables[i - 1])
        BY DEF DbInv, TablesSound, TableList
      <4>2. tables'[i - 1] = tables[i - 1]
        BY <2>1, <4>1, CreatedTables
      <4> QED  BY <2>1, <4>1, <4>2, OldTables
    <3>4. \A i \in 1 .. table_count + 1 :
            TableOf(tables[i - 1])' = IF i <= table_count THEN TableList[i] ELSE new
      <4> SUFFICES ASSUME NEW i \in 1 .. table_count + 1
                   PROVE  TableOf(tables[i - 1])' = IF i <= table_count THEN TableList[i] ELSE new
        OBVIOUS
      <4>1. CASE i = table_count + 1
        <5>1. i - 1 = table_count
          BY <2>3, <4>1
        <5> QED  BY <2>3, <2>4, <4>1, <5>1
      <4>2. CASE i # table_count + 1
        BY <2>3, <3>3, <4>2
      <4> QED  BY <4>1, <4>2
    <3> QED  BY <3>1, <3>2, <3>4
  <2>6. S!CreateTable(text)
    BY <2>1, <2>2, <2>3, <2>5 DEF S!CreateTable, S!Returned, Returned
  <2> QED  BY <2>6 DEF S!Next
<1>2. CASE ~(StringsFit /\ Allocates((table_count + 1) * TableSize))
  <2>1. UNCHANGED <<tables, table_count, stringVars, result>>
    BY <1>2 DEF CreateTable, Panics
  <2> QED  BY <2>1 DEF S!vars, StringList, TableList, TableOf, RowsOf, Fetched, stringVars
<1> QED  BY <1>1, <1>2

\* A call that changes nothing.
LEMMA UnchangedLists ==
  ASSUME UNCHANGED <<tables, table_count, stringVars>>
  PROVE  UNCHANGED <<TableList, StringList>>
BY DEF StringList, TableList, TableOf, RowsOf, Fetched, stringVars

LEMMA FailRefines == ASSUME Returns(Failed) PROVE S!Next
<1>1. result' = Failed /\ UNCHANGED <<TableList, StringList>>
  BY UnchangedLists DEF Returns
<1> QED  BY <1>1 DEF S!Next, S!Fail, S!Failed, Failed

LEMMA GetStringRefines ==
  ASSUME DbInv, NEW id \in 0 .. string_count, NEW len, GetString(id, len)
  PROVE  S!Next
<1>1. CASE id < string_count /\ len >= Length[strings[id]] + 1
  <2>1. result' = Returned(<<strings[id]>>) /\ UNCHANGED <<TableList, StringList>>
    BY <1>1, UnchangedLists DEF GetString, Returns
  <2>2. string_count \in Nat
    BY DEF DbInv, StringsSound
  <2>3. id \in 0 .. Len(StringList) /\ id < Len(StringList) /\ StringList[id + 1] = strings[id]
    BY <1>1, <2>2, Lists
  <2>4. S!GetString(id)
    BY <2>1, <2>3 DEF S!GetString, S!Reads, S!Returned, Returned
  <2> QED  BY <2>3, <2>4 DEF S!Next
<1>2. CASE ~(id < string_count /\ len >= Length[strings[id]] + 1)
  BY <1>2, FailRefines DEF GetString
<1> QED  BY <1>1, <1>2

\* A call that changes one table.
LEMMA ChangedList ==
  ASSUME DbInv, NEW id \in DOMAIN tables, NEW table, NEW r, Change(id, table, r)
  PROVE  /\ TableList' = [TableList EXCEPT ![id + 1] = TableOf(table)]
         /\ StringList' = StringList /\ result' = r
<1>1. /\ table_count \in Nat /\ DOMAIN tables = 0 .. table_count - 1
  BY DEF DbInv, TablesSound
<1>2. /\ tables'[id] = table
      /\ \A j \in DOMAIN tables : j # id => tables'[j] = tables[j]
      /\ UNCHANGED <<table_count, strings, string_count, string_capacity>> /\ result' = r
  BY DEF Change, stringVars
<1>3. TableList' = [i \in 1 .. table_count |-> TableOf(tables'[i - 1])]
  BY <1>2 DEF TableList, TableOf, RowsOf, Fetched
<1>4. [TableList EXCEPT ![id + 1] = TableOf(table)]
        = [i \in 1 .. table_count |-> IF i = id + 1 THEN TableOf(table) ELSE TableOf(tables[i - 1])]
  BY DEF TableList
<1>5. \A i \in 1 .. table_count :
        TableOf(tables'[i - 1]) = IF i = id + 1 THEN TableOf(table) ELSE TableOf(tables[i - 1])
  BY <1>1, <1>2
<1>6. TableList' = [TableList EXCEPT ![id + 1] = TableOf(table)]
  BY <1>3, <1>4, <1>5
<1>7. StringList' = StringList
  BY <1>2 DEF StringList
<1> QED  BY <1>2, <1>6, <1>7

\* The table a call is about, in the specification.
LEMMA TableThere ==
  ASSUME DbInv, NEW id \in Nat, id < table_count
  PROVE  /\ id \in DOMAIN tables /\ Sound(tables[id])
         /\ id \in 0 .. Len(TableList) /\ S!IsTable(id) /\ S!Table(id) = TableOf(tables[id])
         /\ S!Table(id).rows = RowsOf(tables[id]) /\ S!Table(id).width = tables[id].col_count
<1>1. id \in DOMAIN tables /\ Sound(tables[id]) /\ table_count \in Nat
  BY IsTable DEF DbInv, TablesSound
<1>2. Len(TableList) = table_count /\ TableList[id + 1] = TableOf(tables[id])
  BY <1>1, Lists
<1>3. S!Table(id) = TableOf(tables[id]) /\ S!IsTable(id)
  BY <1>2 DEF S!Table, S!IsTable
<1> QED  BY <1>1, <1>2, <1>3 DEF TableOf

LEMMA ClearTableRefines ==
  ASSUME DbInv, NEW id \in Nat, ClearTable(id)
  PROVE  S!Next
<1>1. CASE id < table_count
  <2> DEFINE new == [tables[id] EXCEPT !.cells = Empty, !.row_count = 0, !.row_capacity = 0]
  <2>1. id \in DOMAIN tables /\ Sound(tables[id])
    BY <1>1, TableThere
  <2>2. new.name = tables[id].name /\ new.col_count = tables[id].col_count /\ new.row_count = 0
    BY <2>1, TableCleared
  <2>3. Change(id, new, Returned(<<>>))
    BY <1>1 DEF ClearTable
  <2> HIDE DEF new
  <2>4. TableOf(new) = [TableOf(tables[id]) EXCEPT !.rows = <<>>]
    BY <2>2, NoRows DEF TableOf
  <2>5. S!ClearTable(id)
    BY <1>1, <2>1, <2>3, <2>4, ChangedList, TableThere
       DEF S!ClearTable, S!Changes, S!Returned, Returned
  <2> QED  BY <1>1, <2>5, TableThere DEF S!Next
<1>2. CASE ~(id < table_count)
  BY <1>2, FailRefines DEF ClearTable
<1> QED  BY <1>1, <1>2

LEMMA SetGeometryRefines ==
  ASSUME DbInv, NEW id \in Nat, NEW count \in 0 .. MaxCols + 1, SetTableGeometry(id, count)
  PROVE  S!Next
<1>1. CASE id < table_count /\ count \in 1 .. MaxCols /\ tables[id].col_count = 0
  <2> DEFINE new == [tables[id] EXCEPT !.col_count = count]
  <2>1. id \in DOMAIN tables /\ Sound(tables[id])
    BY <1>1, TableThere
  <2>2. new.name = tables[id].name /\ new.col_count = count /\ new.row_count = tables[id].row_count
    BY <2>1 DEF Sound, Table
  <2>3. Change(id, new, Returned(<<>>))
    BY <1>1 DEF SetTableGeometry
  <2>4. tables[id].row_count = 0
    <3>1. tables[id].row_capacity = 0 /\ tables[id].row_count <= tables[id].row_capacity
      BY <1>1, <2>1 DEF Sound
    <3>2. tables[id].row_count \in Nat
      BY <2>1, Fields DEF Sound
    <3> QED  BY <3>1, <3>2
  <2> HIDE DEF new
  <2>5. TableOf(new) = [TableOf(tables[id]) EXCEPT !.width = count]
    BY <2>2, <2>4, NoRows DEF TableOf
  <2>6. S!SetGeometry(id, count)
    BY <1>1, <2>1, <2>3, <2>5, ChangedList, TableThere
       DEF S!SetGeometry, S!Changes, S!Returned, Returned
  <2> QED  BY <1>1, <2>6, TableThere DEF S!Next
<1>2. CASE ~(id < table_count /\ count \in 1 .. MaxCols /\ tables[id].col_count = 0)
  BY <1>2, FailRefines DEF SetTableGeometry
<1> QED  BY <1>1, <1>2

LEMMA InsertRowRefines ==
  ASSUME DbInv, NEW id \in Nat, NEW data \in Row, InsertRow(id, data)
  PROVE  [S!Next]_(S!vars)
<1>1. CASE id < table_count /\ Len(data) = tables[id].col_count /\ RowsFit(tables[id])
  <2> DEFINE new == WithRow(tables[id], data)
             count == tables[id].row_count
  <2>1. id \in DOMAIN tables /\ Sound(tables[id])
    BY <1>1, TableThere
  <2>2. new.name = tables[id].name /\ new.col_count = tables[id].col_count
    BY <1>1, <2>1, RowInserted
  <2>3. Change(id, new, Returned(<<count>>))
    BY <1>1 DEF InsertRow
  <2>4. RowsOf(new) = Append(RowsOf(tables[id]), data)
    BY <1>1, <2>1, RowsInserted
  <2>5. Len(RowsOf(tables[id])) = count
    BY <2>1, RowList
  <2> HIDE DEF new
  <2>6. TableOf(new) = [S!Table(id) EXCEPT !.rows = Append(S!Table(id).rows, data)]
    <3>1. S!Table(id) = TableOf(tables[id]) /\ S!Table(id).rows = RowsOf(tables[id])
      BY <1>1, TableThere
    <3> DEFINE more == Append(RowsOf(tables[id]), data)
    <3> HIDE DEF more
    <3>2. RowsOf(new) = more
      BY <2>4 DEF more
    <3>3. TableOf(new) = [TableOf(tables[id]) EXCEPT !.rows = more]
      BY <2>2, <3>2 DEF TableOf
    <3> QED  BY <3>1, <3>3 DEF more
  <2>7. TableList' = [TableList EXCEPT ![id + 1] = [S!Table(id) EXCEPT !.rows = Append(@, data)]]
        /\ StringList' = StringList /\ result' = Returned(<<count>>)
    <3>1. /\ TableList' = [TableList EXCEPT ![id + 1] = TableOf(new)]
          /\ StringList' = StringList /\ result' = Returned(<<count>>)
      BY <2>1, <2>3, ChangedList
    <3> QED  BY <2>6, <3>1
  <2>8. S!IsTable(id) /\ S!Table(id).width = Len(data) /\ Len(S!Table(id).rows) = count
    BY <1>1, <2>5, TableThere
  <2>9. S!InsertRow(id, data)
    BY <2>7, <2>8 DEF S!InsertRow, S!Changes, S!Returned, Returned
  <2> QED  BY <1>1, <2>9, TableThere DEF S!Next, S!Row, Row
<1>2. CASE id < table_count /\ Len(data) = tables[id].col_count /\ ~RowsFit(tables[id])
  BY <1>2, UnchangedLists DEF InsertRow, Panics, S!vars
<1>3. CASE ~(id < table_count /\ Len(data) = tables[id].col_count)
  BY <1>3, FailRefines DEF InsertRow
<1> QED  BY <1>1, <1>2, <1>3

LEMMA FetchRowRefines ==
  ASSUME DbInv, NEW id \in Nat, NEW row \in Nat, NEW count, FetchRow(id, row, count)
  PROVE  S!Next
<1>1. CASE RowFits(id, row, count)
  <2>1. id < table_count /\ count = tables[id].col_count /\ row < tables[id].row_count
    BY <1>1 DEF RowFits
  <2>2. Sound(tables[id]) /\ S!IsTable(id) /\ S!Table(id).rows = RowsOf(tables[id])
    BY <2>1, TableThere
  <2>3. /\ result' = Returned(Fetched(tables[id].cells, row, count))
        /\ UNCHANGED <<TableList, StringList>>
    BY <1>1, UnchangedLists DEF FetchRow, Returns
  <2>4. tables[id].row_count \in Nat /\ Len(RowsOf(tables[id])) = tables[id].row_count
    BY <2>2, RowList, Fields DEF Sound
  <2>5. RowsOf(tables[id])[row + 1] = Fetched(tables[id].cells, row, count)
    BY <2>1, <2>4 DEF RowsOf
  <2>6. S!FetchRow(id, row)
    BY <2>1, <2>2, <2>3, <2>4, <2>5 DEF S!FetchRow, S!IsRow, S!Reads, S!Returned, Returned
  <2>7. row \in 0 .. (IF S!IsTable(id) THEN Len(S!Table(id).rows) ELSE 0)
    BY <2>1, <2>2, <2>4
  <2>8. id \in 0 .. Len(TableList)
    BY <2>1, TableThere
  <2> QED  BY <2>6, <2>7, <2>8 DEF S!Next
<1>2. CASE ~RowFits(id, row, count)
  BY <1>2, FailRefines DEF FetchRow
<1> QED  BY <1>1, <1>2

LEMMA UpdateRowRefines ==
  ASSUME DbInv, NEW id \in Nat, NEW row \in Nat, NEW data \in Row, UpdateRow(id, row, data)
  PROVE  S!Next
<1>1. CASE RowFits(id, row, Len(data))
  <2> DEFINE new == [tables[id] EXCEPT !.cells = Stored(@, row, data)]
  <2>1. id < table_count /\ Len(data) = tables[id].col_count /\ row < tables[id].row_count
    BY <1>1 DEF RowFits
  <2>2. /\ id \in DOMAIN tables /\ Sound(tables[id])
        /\ S!IsTable(id) /\ S!Table(id).rows = RowsOf(tables[id])
    BY <2>1, TableThere
  <2>3. new.name = tables[id].name /\ new.col_count = tables[id].col_count
    BY <2>2, RowUpdated
  <2>4. Change(id, new, Returned(<<>>))
    BY <1>1 DEF UpdateRow
  <2>5. RowsOf(new) = [RowsOf(tables[id]) EXCEPT ![row + 1] = data]
    BY <2>1, <2>2, RowsUpdated
  <2>6. tables[id].row_count \in Nat /\ Len(RowsOf(tables[id])) = tables[id].row_count
    BY <2>2, RowList, Fields DEF Sound
  <2> HIDE DEF new
  <2>7. TableOf(new) = [S!Table(id) EXCEPT !.rows[row + 1] = data]
    <3>1. S!Table(id) = TableOf(tables[id])
      BY <2>1, TableThere
    <3>2. TableOf(new) = [TableOf(tables[id]) EXCEPT !.rows[row + 1] = data]
      BY <2>3, <2>5 DEF TableOf
    <3> QED  BY <3>1, <3>2
  <2>8. S!UpdateRow(id, row, data)
    <3>1. /\ TableList' = [TableList EXCEPT ![id + 1] = TableOf(new)]
          /\ StringList' = StringList /\ result' = Returned(<<>>)
      BY <2>2, <2>4, ChangedList
    <3>2. TableList' = [TableList EXCEPT ![id + 1] = [S!Table(id) EXCEPT !.rows[row + 1] = data]]
      BY <2>7, <3>1
    <3>3. S!IsRow(id, row) /\ S!Table(id).width = Len(data)
      BY <2>1, <2>2, <2>6, TableThere DEF S!IsRow
    <3> QED  BY <3>1, <3>2, <3>3 DEF S!UpdateRow, S!Changes, S!Returned, Returned
  <2>9. row \in 0 .. (IF S!IsTable(id) THEN Len(S!Table(id).rows) ELSE 0)
    BY <2>1, <2>2, <2>6
  <2> QED  BY <2>1, <2>8, <2>9, TableThere DEF S!Next, S!Row, Row
<1>2. CASE ~RowFits(id, row, Len(data))
  BY <1>2, FailRefines DEF UpdateRow
<1> QED  BY <1>1, <1>2

LEMMA InitRefines == Init => S!Init
<1> SUFFICES ASSUME Init PROVE S!Init
  OBVIOUS
<1>1. string_count = 0 /\ table_count = 0 /\ result = Failed
  BY DEF Init
<1>2. StringList = <<>> /\ TableList = <<>>
  BY <1>1 DEF StringList, TableList
<1> QED  BY <1>1, <1>2 DEF S!Init, S!Failed, Failed

\* For any widths, capacities and heap, the blocks of cells, grown, cleared
\* and overwritten, behave as tables of rows, and strings keep their numbers:
\* the database refines its specification.
THEOREM ImplementsStore == Spec => IsStore
<1>1. DbInv /\ DbInv' /\ [Next]_vars => [S!Next]_(S!vars)
  <2> SUFFICES ASSUME DbInv, DbInv', [Next]_vars PROVE [S!Next]_(S!vars)
    OBVIOUS
  <2>1. CASE UNCHANGED vars
    BY <2>1, UnchangedLists DEF vars, S!vars
  <2>2. CASE \E text \in Text : AddString(text) \/ CreateTable(text)
    BY <2>2, AddStringRefines, CreateTableRefines
  <2>3. CASE \E id \in 0 .. string_count, text \in Text : GetString(id, Length[text] + 1)
    BY <2>3, GetStringRefines
  <2>4. 0 .. table_count \subseteq Nat
    BY DEF DbInv, TablesSound
  <2>5. CASE \E id \in 0 .. table_count :
               \/ ClearTable(id)
               \/ \E count \in 0 .. MaxCols + 1 : SetTableGeometry(id, count)
               \/ \E data \in Row : InsertRow(id, data)
    BY <2>4, <2>5, ClearTableRefines, SetGeometryRefines, InsertRowRefines
  <2>6. CASE \E id \in 0 .. table_count : \E row \in 0 .. Rows(id) :
               \/ \E count \in 1 .. MaxCols : FetchRow(id, row, count)
               \/ \E data \in Row : UpdateRow(id, row, data)
    BY <2>4, <2>6, RowsAreNat, FetchRowRefines, UpdateRowRefines
  <2> QED  BY <2>1, <2>2, <2>3, <2>5, <2>6, Zenon DEF Next
<1> QED  BY <1>1, InitRefines, Invariance, PTL DEF Spec, IsStore, S!Spec
=============================================================================
