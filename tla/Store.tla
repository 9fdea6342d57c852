------------------------------- MODULE Store -------------------------------
(***************************************************************************)
(* What the database promises: tables that are sequences of rows of one     *)
(* width, and strings that keep their numbers.                              *)
(***************************************************************************)
EXTENDS Naturals, Sequences

CONSTANTS Cell, Text, MaxCols,
          Length   \* [Text -> its length]

VARIABLES
  tables,   \* the tables, in order: name, width (0 before it is set), rows
  strings,  \* the strings, in order
  result    \* of the last call: whether it succeeded, and what it returned

vars == <<tables, strings, result>>

Failed == [ok |-> FALSE, value |-> <<>>]
Returned(value) == [ok |-> TRUE, value |-> value]
Row == UNION {[1 .. n -> Cell] : n \in 1 .. MaxCols}
Table(t) == tables[t + 1]
IsTable(t) == t < Len(tables)
IsRow(t, r) == IsTable(t) /\ r < Len(Table(t).rows)

Init == tables = <<>> /\ strings = <<>> /\ result = Failed

Fail == result' = Failed /\ UNCHANGED <<tables, strings>>
Reads(value) == result' = Returned(value) /\ UNCHANGED <<tables, strings>>
Changes(t, table) ==
  tables' = [tables EXCEPT ![t + 1] = table] /\ UNCHANGED strings

CreateTable(name) ==
  /\ tables' = Append(tables, [name |-> name, width |-> 0, rows |-> <<>>])
  /\ strings' = Append(strings, name)
  /\ result' = Returned(<<Len(tables)>>)

SetGeometry(t, n) ==
  /\ IsTable(t) /\ Table(t).width = 0 /\ n \in 1 .. MaxCols
  /\ Changes(t, [Table(t) EXCEPT !.width = n])
  /\ result' = Returned(<<>>)

ClearTable(t) ==
  /\ IsTable(t)
  /\ Changes(t, [Table(t) EXCEPT !.rows = <<>>])
  /\ result' = Returned(<<>>)

InsertRow(t, row) ==
  /\ IsTable(t) /\ Table(t).width = Len(row)
  /\ Changes(t, [Table(t) EXCEPT !.rows = Append(@, row)])
  /\ result' = Returned(<<Len(Table(t).rows)>>)

FetchRow(t, r) == IsRow(t, r) /\ Reads(Table(t).rows[r + 1])

UpdateRow(t, r, row) ==
  /\ IsRow(t, r) /\ Table(t).width = Len(row)
  /\ Changes(t, [Table(t) EXCEPT !.rows[r + 1] = row])
  /\ result' = Returned(<<>>)

AddString(text) ==
  /\ strings' = Append(strings, text)
  /\ result' = Returned(<<Len(strings)>>)
  /\ UNCHANGED tables

GetString(s) == s < Len(strings) /\ Reads(<<strings[s + 1]>>)

Next ==
  \/ Fail
  \/ \E text \in Text : CreateTable(text) \/ AddString(text)
  \/ \E s \in 0 .. Len(strings) : GetString(s)
  \/ \E t \in 0 .. Len(tables) :
       \/ ClearTable(t)
       \/ \E n \in 1 .. MaxCols : SetGeometry(t, n)
       \/ \E row \in Row : InsertRow(t, row)
       \/ \E r \in 0 .. (IF IsTable(t) THEN Len(Table(t).rows) ELSE 0) :
            FetchRow(t, r) \/ \E row \in Row : UpdateRow(t, r, row)

Spec == Init /\ [][Next]_vars
=============================================================================
