------------------------------ MODULE MetaCodec -----------------------------
(***************************************************************************)
(* The metadata section of a block (PSD1 of wire.rs), its encoder and its  *)
(* decoder in lockstep: one action per process of a row, in the order of   *)
(* the slots, and the change it puts on the wire, if any, goes straight to *)
(* the decoder.  Both keep a table of slots, one per identity ever seen,   *)
(* and the set of the slots that are active; only differences travel.      *)
(* Beside it the two estimates of the decoded size: the encoder's, over    *)
(* the whole block, and the decoder's, as it reads.                        *)
(***************************************************************************)
EXTENDS Integers, Sequences

CONSTANTS
    Ids,            \* identities, ordered as numbers
    NameBytes,      \* the length of each name
    Processes,      \* what a row says of a process: parent, name, resident bytes
    RssUnit,        \* RSS_UNITS, 256 KiB
    HeaderSize, RowSize, ObservationSize, ProcessSize, EntrySize, IdentitySize, \* sizes in memory:
                    \* expanded header, MetaRow, DecodedObservation, DecodedProcess, MetaProcess,
                    \* and what a set or map needs for an identity
    Moves,          \* bound: how far the clocks of a row are from those of the row before
    MaxRows         \* bound: rows of a block

ASSUME MetaCodecAssumption ==
    /\ Ids \subseteq Int /\ RssUnit \in Nat \ {0}
    /\ NameBytes \in [DOMAIN NameBytes -> Nat]
    /\ Processes \subseteq [ppid : Nat, name : DOMAIN NameBytes, rss : Nat]
    /\ {HeaderSize, RowSize, ObservationSize, ProcessSize, EntrySize, IdentitySize} \subseteq Nat
    /\ Moves \subseteq [seq : Nat, wall : Int, scan : Nat, span : Nat] /\ MaxRows \in Nat

VARIABLES
    row, clock,             \* the row being written, and its clocks
    rows,                   \* number of rows so far
    at,                     \* the slot the encoder has come to, Idle between rows
    slots, active, previous,\* encoder: its table, the active slots of the row before, previous_slot
    dSlots, dActive, dPrevious, dClock, refused, \* the decoder's, and whether it has given up
    points, names,          \* processes of all rows, and the bytes of their names
    dIds, dNames            \* identities the decoder has allocated, and the bytes of their names

rowVars == <<row, clock, rows>>
encoder == <<slots, active, previous>>
decoder == <<dSlots, dActive, dPrevious, refused>>
vars == <<rowVars, at, encoder, decoder, dClock, points, names, dIds, dNames>>

Idle == 0
Rows == UNION {[S -> Processes] : S \in SUBSET Ids}
Clocks == [seq : Nat, wall : Int, scan : Nat, end : Nat]
Slots == [id : Ids, ppid : Nat, name : DOMAIN NameBytes, units : Nat]

TypeOK ==
    /\ row \in Rows /\ clock \in Clocks /\ rows \in 0 .. MaxRows /\ at \in Nat
    /\ slots \in Seq(Slots) /\ active \subseteq DOMAIN slots /\ previous \in Nat
    /\ dSlots \in Seq(Slots) /\ dActive \subseteq DOMAIN dSlots /\ dPrevious \in Nat
    /\ dClock \in Clocks /\ refused \in BOOLEAN
    /\ {points, names, dIds, dNames} \subseteq Nat

Init ==
    /\ row = <<>> /\ clock = [seq |-> 0, wall |-> 0, scan |-> 0, end |-> 0] /\ rows = 0 /\ at = Idle
    /\ slots = <<>> /\ active = {} /\ previous = 0
    /\ dSlots = <<>> /\ dActive = {} /\ dPrevious = 0 /\ dClock = clock /\ refused = FALSE
    /\ points = 0 /\ names = 0 /\ dIds = 0 /\ dNames = 0

----------------------------------------------------------------------------
(* The decoder (decode_psd1) *)

IdsOf(table) == {table[s].id : s \in DOMAIN table}

Refuses(slot, change) ==
    \/ change.mask = {}
    \/ /\ change.mask = {"new"}
       /\ slot # Len(dSlots) + 1 \/ change.process.id \in IdsOf(dSlots)
    \/ /\ change.mask = {"missing"} /\ slot \notin dActive
    \/ /\ change.mask \cap {"new", "missing"} = {}
       /\ \/ slot \notin DOMAIN dSlots
          \/ "return" \in change.mask <=> slot \in dActive
          \/ "ppid" \in change.mask /\ dSlots[slot].ppid + change.ppid < 0
          \/ "rss" \in change.mask /\ dSlots[slot].units + change.units < 0

Updated(old, change) ==
    [id |-> old.id,
     name |-> IF "name" \in change.mask THEN change.name ELSE old.name,
     ppid |-> IF "ppid" \in change.mask THEN old.ppid + change.ppid ELSE old.ppid,
     units |-> IF "rss" \in change.mask THEN old.units + change.units ELSE old.units]

Receive(change) ==
    LET slot == dPrevious + change.gap + 1
    IN  IF Refuses(slot, change)
        THEN refused' = TRUE /\ UNCHANGED <<dSlots, dActive, dPrevious, dIds, dNames>>
        ELSE /\ dPrevious' = slot /\ UNCHANGED refused
             /\ IF change.mask = {"new"}
                THEN /\ dSlots' = Append(dSlots, change.process) /\ dActive' = dActive \cup {slot}
                     /\ dIds' = dIds + 1 /\ dNames' = dNames + NameBytes[change.process.name]
                ELSE /\ UNCHANGED <<dIds, dNames>>
                     /\ IF change.mask = {"missing"}
                        THEN dActive' = dActive \ {slot} /\ UNCHANGED dSlots
                        ELSE /\ dActive' = dActive \cup {slot}
                             /\ dSlots' = [dSlots EXCEPT ![slot] = Updated(@, change)]

----------------------------------------------------------------------------
(* The encoder (encode_psd1) *)

Stored(id) == [id |-> id, ppid |-> row[id].ppid, name |-> row[id].name, units |-> row[id].rss \div RssUnit]

\* validate_rows takes the row after the last one.
Follows(c) ==
    /\ rows > 0 => c.seq > clock.seq /\ c.scan > clock.scan
    /\ c.end >= c.scan

\* The clocks of a row are differences too, and the decoder looks at them again.
ReadClocks(c) ==
    LET seq == dClock.seq + (c.seq - clock.seq)
        wall == dClock.wall + (c.wall - clock.wall)
        scan == dClock.scan + (c.scan - clock.scan)
    IN  /\ dClock' = [seq |-> seq, wall |-> wall, scan |-> scan, end |-> scan + (c.end - c.scan)]
        /\ refused' = (\/ refused \/ seq < 0 \/ scan < 0
                       \/ rows > 0 /\ (seq <= dClock.seq \/ scan <= dClock.scan))

\* The next row begins.
Observe(r, c) ==
    /\ at = Idle /\ rows < MaxRows
    /\ Follows(c) /\ ReadClocks(c)
    /\ row' = r /\ clock' = c /\ rows' = rows + 1 /\ at' = 1
    /\ previous' = 0 /\ dPrevious' = 0
    /\ UNCHANGED <<slots, active, dSlots, dActive, points, names, dIds, dNames>>

Writing == at # Idle /\ at \in DOMAIN slots
Present == slots[at].id \in DOMAIN row
Gap == at - previous - 1

\* Mutant: a process that was away travels only if something else of it changed.
MaskNoReturn ==
    LET old == slots[at]
        new == Stored(old.id)
    IN  (IF new.name = old.name THEN {} ELSE {"name"})
        \cup (IF new.ppid = old.ppid THEN {} ELSE {"ppid"})
        \cup (IF new.units = old.units THEN {} ELSE {"rss"})

Mask ==
    LET old == slots[at]
        new == Stored(old.id)
    IN  (IF at \in active THEN {} ELSE {"return"})
        \cup (IF new.name = old.name THEN {} ELSE {"name"})
        \cup (IF new.ppid = old.ppid THEN {} ELSE {"ppid"})
        \cup (IF new.units = old.units THEN {} ELSE {"rss"})

\* The process of the slot is in the row, and counts.
Visit(id) == points' = points + 1 /\ names' = names + NameBytes[row[id].name]
NoVisit == UNCHANGED <<points, names>>

\* The process of the slot is gone, and was there.
Missing ==
    /\ Writing /\ ~Present /\ at \in active
    /\ Receive([gap |-> Gap, mask |-> {"missing"}])
    /\ previous' = at /\ at' = at + 1 /\ NoVisit
    /\ UNCHANGED <<rowVars, slots, active, dClock>>

\* It is gone, and was not there.
StaysAway ==
    /\ Writing /\ ~Present /\ at \notin active
    /\ at' = at + 1 /\ NoVisit
    /\ UNCHANGED <<rowVars, encoder, decoder, dClock, dIds, dNames>>

\* It is there as it was.
Unchanged ==
    /\ Writing /\ Present /\ Mask = {}
    /\ at' = at + 1 /\ Visit(slots[at].id)
    /\ UNCHANGED <<rowVars, encoder, decoder, dClock, dIds, dNames>>

\* It is there again, or different.
Update ==
    /\ Writing /\ Present /\ Mask # {}
    /\ LET old == slots[at]
           new == Stored(old.id)
       IN  /\ Receive([gap |-> Gap, mask |-> Mask, name |-> new.name,
                       ppid |-> new.ppid - old.ppid, units |-> new.units - old.units])
           /\ slots' = [slots EXCEPT ![at] = new]
           /\ Visit(old.id)
    /\ previous' = at /\ at' = at + 1
    /\ UNCHANGED <<rowVars, active, dClock>>

\* After the slots, the identities without one, in their order
New(id) ==
    /\ at = Len(slots) + 1
    /\ id \in DOMAIN row \ IdsOf(slots)
    /\ \A other \in DOMAIN row \ IdsOf(slots) : id <= other
    /\ Receive([gap |-> Gap, mask |-> {"new"}, process |-> Stored(id)])
    /\ slots' = Append(slots, Stored(id))
    /\ previous' = at /\ at' = at + 1 /\ Visit(id)
    /\ UNCHANGED <<rowVars, active, dClock>>

EndRow ==
    /\ at = Len(slots) + 1 /\ DOMAIN row \subseteq IdsOf(slots)
    /\ active' = {s \in DOMAIN slots : slots[s].id \in DOMAIN row}
    /\ at' = Idle
    /\ UNCHANGED <<rowVars, slots, previous, decoder, dClock, points, names, dIds, dNames>>

Next ==
    \/ \E r \in Rows, m \in Moves :
          Observe(r, [seq |-> clock.seq + m.seq, wall |-> clock.wall + m.wall,
                      scan |-> clock.scan + m.scan, end |-> clock.scan + m.scan + m.span])
    \/ Missing \/ StaysAway \/ Unchanged \/ Update \/ EndRow
    \/ \E id \in Ids : New(id)

Spec == Init /\ [][Next]_vars

----------------------------------------------------------------------------
\* The decoder gives up on nothing the encoder writes, and between two rows it has read the last
\* row: the same clocks and processes, resident bytes rounded down to the unit.
RowExact ==
    /\ ~refused
    /\ dClock = clock
    /\ at = Idle => {dSlots[s] : s \in dActive} = {Stored(id) : id \in DOMAIN row}

\* Mutant: the names are counted once.
EncoderBudgetOneName ==
    HeaderSize + rows * RowSize + points * EntrySize + rows * ObservationSize + points * ProcessSize + names
    + points * (EntrySize + IdentitySize)

\* check_v2_decoded_budget, without what temporal profiles and memory columns add to it
EncoderBudget ==
    HeaderSize + rows * RowSize + points * EntrySize + rows * ObservationSize + points * ProcessSize + names
    + points * (EntrySize + IdentitySize) + names

\* The combined size decode_psd1 compares with the same limit
DecoderBudget ==
    HeaderSize + rows * (RowSize + ObservationSize) + points * EntrySize + names
    + dIds * (EntrySize + IdentitySize) + dNames

\* What the encoder accepts as small enough, the decoder does too.
BudgetCovers == DecoderBudget <= EncoderBudget
=============================================================================
