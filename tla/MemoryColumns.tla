----------------------------- MODULE MemoryColumns ---------------------------
(***************************************************************************)
(* The memory section of a block (PMM1 of wire.rs): column by column and   *)
(* row by row, which processes have no value, and how the others changed   *)
(* since the process last had one, in units; a peak is what it exceeds the *)
(* owned memory by.  The processes of a row stand in order, a value of a   *)
(* process is memory[column].                                              *)
(***************************************************************************)
EXTENDS Lists

Columns == <<"owned", "peak", "evicted">>

Having(row, column) == {p \in DOMAIN row : column \in DOMAIN row[p].memory}

\* Of the columns to be written, those that some process has a value in
Selected(rows, chosen) ==
    LET used == {c \in DOMAIN Columns :
                   Columns[c] \in chosen /\ \E r \in DOMAIN rows : Having(rows[r], Columns[c]) # {}}
        list == Ascending(used, Len(Columns))
    IN  [i \in DOMAIN list |-> Columns[list[i]]]

\* What a peak is counted from
Base(process, column, columns, unit) ==
    IF column = "peak" /\ Contains(columns, "owned") /\ "owned" \in DOMAIN process.memory
    THEN process.memory["owned"] \div unit ELSE 0

\* Mutant: the excess is rounded, not the two values.
UnitsOfExcess(process, column, columns, unit) ==
    IF column = "peak" /\ Contains(columns, "owned") /\ "owned" \in DOMAIN process.memory
    THEN (process.memory[column] - process.memory["owned"]) \div unit
    ELSE process.memory[column] \div unit

Units(process, column, columns, unit) == process.memory[column] \div unit - Base(process, column, columns, unit)

Gaps(positions) == [i \in DOMAIN positions |-> (IF i = 1 THEN positions[1] ELSE positions[i] - positions[i - 1]) - 1]
Positions(gaps) == Tail(Sums(0, [i \in DOMAIN gaps |-> gaps[i] + 1]))

Identity(row) == [p \in DOMAIN row |-> row[p].id]

\* The units each process last had, after those of a row
Remembered(identity, units, previous) ==
    [id \in DOMAIN previous |->
     IF \E p \in DOMAIN units : identity[p] = id THEN units[CHOOSE p \in DOMAIN units : identity[p] = id] ELSE previous[id]]

\* A row of a column, after the values in previous
EncodeRow(row, column, columns, unit, previous) ==
    LET with == Ascending(Having(row, column), Len(row))
        units == [p \in Having(row, column) |-> Units(row[p], column, columns, unit)]
    IN  [absent |-> Gaps(Ascending(DOMAIN row \ Having(row, column), Len(row))),
         deltas |-> [i \in DOMAIN with |-> units[with[i]] - previous[row[with[i]].id]],
         previous |-> Remembered(Identity(row), units, previous)]

EncodeNext(sofar, row, column, columns, unit) ==
    LET e == EncodeRow(row, column, columns, unit, sofar.previous)
    IN  [previous |-> e.previous, rows |-> Append(sofar.rows, [absent |-> e.absent, deltas |-> e.deltas])]

EncodeColumn(rows, column, columns, unit, ids) ==
    FoldLeft(LAMBDA sofar, row : EncodeNext(sofar, row, column, columns, unit),
             [previous |-> [id \in ids |-> 0], rows |-> <<>>], rows).rows

Put(process, column, value) ==
    [process EXCEPT !.memory = [c \in DOMAIN process.memory \cup {column} |->
                                  IF c = column THEN value ELSE process.memory[c]]]

\* The units of the processes that have a value, by their place in the row
UnitsRead(row, with, deltas, previous) ==
    [p \in ToSet(with) |-> previous[row[p].id] + deltas[CHOOSE i \in DOMAIN with : with[i] = p]]

ValuesRead(row, units, column, columns, unit) ==
    [p \in DOMAIN units |-> (units[p] + Base(row[p], column, columns, unit)) * unit]

PutRow(row, column, values) == [p \in DOMAIN row |-> IF p \in DOMAIN values THEN Put(row[p], column, values[p]) ELSE row[p]]

\* The same row as the decoder has it: the processes of the row, with the columns before this one.
\* It refuses positions out of range and values below zero.
DecodeRow(row, encoded, column, columns, unit, previous) ==
    LET absent == ToSet(Positions(encoded.absent))
        with == Ascending(DOMAIN row \ absent, Len(row))
        units == UnitsRead(row, with, encoded.deltas, previous)
        values == ValuesRead(row, units, column, columns, unit)
    IN  [row |-> PutRow(row, column, values), previous |-> Remembered(Identity(row), units, previous),
         present |-> DOMAIN units # {}, ok |-> absent \subseteq DOMAIN row /\ \A p \in DOMAIN values : values[p] >= 0]

DecodeNext(sofar, row, encoded, column, columns, unit) ==
    LET d == DecodeRow(row, encoded, column, columns, unit, sofar.previous)
    IN  [previous |-> d.previous, rows |-> Append(sofar.rows, d.row),
         present |-> sofar.present \/ d.present, ok |-> sofar.ok /\ d.ok]

\* The decoder refuses a column without values, too.
DecodeColumn(sofar, encoded, column, columns, unit, ids) ==
    LET all == FoldLeft(LAMBDA a, r : DecodeNext(a, sofar.rows[r], encoded[r], column, columns, unit),
                        [previous |-> [id \in ids |-> 0], rows |-> <<>>, present |-> FALSE, ok |-> TRUE],
                        [r \in DOMAIN sofar.rows |-> r])
    IN  [rows |-> all.rows, ok |-> sofar.ok /\ all.ok /\ all.present]

EncodeMemory(rows, chosen, unit, ids) ==
    LET columns == Selected(rows, chosen)
    IN  [columns |-> columns, section |-> [c \in DOMAIN columns |-> EncodeColumn(rows, columns[c], columns, unit, ids)]]

DecodeMemory(bare, wire, unit, ids) ==
    FoldLeft(LAMBDA sofar, c : DecodeColumn(sofar, wire.section[c], wire.columns[c], wire.columns, unit, ids),
             [rows |-> bare, ok |-> TRUE], [c \in DOMAIN wire.columns |-> c])
=============================================================================
