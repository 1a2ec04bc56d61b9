--------------------------- MODULE Formats_proofs ---------------------------
(***************************************************************************)
(* The decoders of the metadata, of the memory section and of all the CPU  *)
(* sections follow their encoders, for every set of identities, every      *)
(* block of any length, every row and every clock.  The encoder's estimate *)
(* of the decoded metadata covers the decoder's.                           *)
(***************************************************************************)
EXTENDS MetaCodec, BlockRows, FiniteSetTheorems, SequenceTheorems, WellFoundedInduction, TLAPS

-----------------------------------------------------------------------------
(* Metadata                                                                 *)

\* What a slot says of a process that is in the row
Current(s) == slots[s] = Stored(slots[s].id)

\* The slots before the one the encoder has come to are as the row says, the others as before it.
Followed ==
    /\ at \in 1 .. Len(slots) + 1
    /\ dPrevious = previous /\ previous < at
    /\ \A s \in 1 .. at - 1 : /\ s \in dActive <=> slots[s].id \in DOMAIN row
                              /\ s \in dActive => Current(s)
    /\ \A s \in at .. Len(slots) : s \in dActive <=> s \in active

\* Between rows encoder and decoder agree on the row.
Settled ==
    /\ dActive = active
    /\ \A s \in DOMAIN slots : /\ s \in active <=> slots[s].id \in DOMAIN row
                               /\ s \in active => Current(s)
    /\ DOMAIN row \subseteq IdsOf(slots)

\* The inductive invariant: the decoder's table is the encoder's, no identity has two slots, and
\* the active slots agree as far as the row has been written.
Mirror ==
    /\ ~refused /\ dClock = clock /\ dSlots = slots
    /\ \A s, t \in DOMAIN slots : slots[s].id = slots[t].id => s = t
    /\ at = Idle => Settled
    /\ at # Idle => Followed

RowOK == DOMAIN row \subseteq Ids /\ \A id \in DOMAIN row : row[id] \in Processes

\* An observation is what the rows of the model are made of.
LEMMA RowFunction == ASSUME row \in Rows PROVE RowOK
BY DEF Rows, RowOK

\* What the encoder stores of a process is an entry of a table.
LEMMA StoredType == ASSUME row \in Rows, NEW id \in DOMAIN row PROVE Stored(id) \in Slots
<1>1. id \in Ids /\ row[id] \in Processes BY RowFunction DEF RowOK
<1>2. row[id] \in [ppid : Nat, name : DOMAIN NameBytes, rss : Nat] BY <1>1, MetaCodecAssumption
<1>3. row[id].rss \div RssUnit \in Nat BY <1>2, MetaCodecAssumption
<1> QED BY <1>1, <1>2, <1>3 DEF Stored, Slots

\* The first state satisfies both invariants.
LEMMA InitMirror == Init => TypeOK /\ Mirror
<1> SUFFICES ASSUME Init PROVE TypeOK /\ Mirror OBVIOUS
<1> USE DEF Init
<1>1. row \in Rows
  <2>1. row \in [{} -> Processes] OBVIOUS
  <2> QED BY <2>1 DEF Rows
<1>2. TypeOK
  <2>1. clock \in Clocks /\ dClock \in Clocks BY DEF Clocks
  <2>2. rows \in 0 .. MaxRows /\ at \in Nat BY MetaCodecAssumption DEF Idle
  <2>3. slots \in Seq(Slots) /\ dSlots \in Seq(Slots) OBVIOUS
  <2>4. active \subseteq DOMAIN slots /\ dActive \subseteq DOMAIN dSlots OBVIOUS
  <2>5. previous \in Nat /\ dPrevious \in Nat /\ {points, names, dIds, dNames} \subseteq Nat OBVIOUS
  <2> QED BY <1>1, <2>1, <2>2, <2>3, <2>4, <2>5 DEF TypeOK
<1>3. Mirror BY DEF Mirror, Settled, Idle, IdsOf
<1> QED BY <1>2, <1>3

\* A row begins: the clocks arrive as they were sent, nothing else has happened yet.
LEMMA StepObserve ==
    ASSUME TypeOK, Mirror, NEW r \in Rows, NEW c \in Clocks, Observe(r, c)
    PROVE  TypeOK' /\ Mirror'
<1> USE DEF Observe, Follows, ReadClocks
<1>1. clock \in Clocks /\ dClock = clock /\ ~refused /\ Settled BY DEF TypeOK, Mirror
<1>2. /\ dClock.seq + (c.seq - clock.seq) = c.seq
      /\ dClock.wall + (c.wall - clock.wall) = c.wall
      /\ dClock.scan + (c.scan - clock.scan) = c.scan
      /\ c.scan + (c.end - c.scan) = c.end
  BY <1>1 DEF Clocks
<1>3. dClock' = [seq |-> c.seq, wall |-> c.wall, scan |-> c.scan, end |-> c.end] BY <1>2
<1>4. dClock' = c BY <1>3 DEF Clocks
<1>5. ~refused'
  <2>1. c.seq \in Nat /\ c.scan \in Nat BY DEF Clocks
  <2>2. rows > 0 => c.seq > clock.seq /\ c.scan > clock.scan OBVIOUS
  <2>3. clock.seq \in Nat /\ clock.scan \in Nat BY <1>1 DEF Clocks
  <2>4. refused' = (\/ refused \/ c.seq < 0 \/ c.scan < 0
                    \/ rows > 0 /\ (c.seq <= clock.seq \/ c.scan <= clock.scan))
    BY <1>1, <1>2
  <2> QED BY <1>1, <2>1, <2>2, <2>3, <2>4
<1>6. TypeOK'
  <2>1. rows \in Nat /\ MaxRows \in Nat BY MetaCodecAssumption DEF TypeOK
  <2>2. rows < MaxRows /\ rows' = rows + 1 OBVIOUS
  <2>3. rows' \in 0 .. MaxRows BY <2>1, <2>2
  <2>4. refused' \in BOOLEAN BY <1>5
  <2> QED BY <1>4, <2>3, <2>4 DEF TypeOK
<1>7. Followed'
  <2>1. Len(slots) \in Nat /\ DOMAIN slots = 1 .. Len(slots) BY DEF TypeOK
  <2>2. at' = 1 /\ slots' = slots /\ active' = active /\ dActive' = dActive OBVIOUS
  <2>3. at' \in 1 .. Len(slots') + 1 /\ dPrevious' = previous' /\ previous' < at' BY <2>1, <2>2
  <2>4. 1 .. at' - 1 = {} BY <2>2
  <2>5. \A s \in at' .. Len(slots') : s \in dActive' <=> s \in active' BY <1>1, <2>2 DEF Settled
  <2> QED BY <2>3, <2>4, <2>5 DEF Followed
<1>8. at' # Idle BY DEF Idle
<1> QED BY <1>4, <1>5, <1>6, <1>7, <1>8 DEF Mirror

\* Where the gap of the next change leads the decoder
LEMMA GapLeads == ASSUME TypeOK, Followed PROVE dPrevious + Gap + 1 = at
BY DEF TypeOK, Followed, Gap

\* Nothing is written for a process that stays away or is as it was.
LEMMA StepSilent ==
    ASSUME TypeOK, Mirror, StaysAway \/ Unchanged
    PROVE  TypeOK' /\ Mirror'
<1>1. at # Idle /\ at \in DOMAIN slots /\ at \in Nat /\ Len(slots) \in Nat /\ DOMAIN slots = 1 .. Len(slots)
  BY DEF StaysAway, Unchanged, Writing, TypeOK
<1>2. Followed BY <1>1 DEF Mirror
<1>3. at' = at + 1 /\ UNCHANGED <<rowVars, encoder, decoder, dClock, dIds, dNames>>
  BY DEF StaysAway, Unchanged
<1> USE DEF rowVars, encoder, decoder
<1>4. points' \in Nat /\ names' \in Nat
  <2>1. CASE StaysAway BY <2>1 DEF StaysAway, NoVisit, TypeOK
  <2>2. CASE Unchanged
    <3>1. slots[at].id \in DOMAIN row BY <2>2 DEF Unchanged, Present
    <3>2. row[slots[at].id] \in Processes BY <3>1, RowFunction DEF TypeOK, RowOK
    <3>3. NameBytes[row[slots[at].id].name] \in Nat BY <3>2, MetaCodecAssumption
    <3>4. points \in Nat /\ names \in Nat BY DEF TypeOK
    <3>5. points' = points + 1 /\ names' = names + NameBytes[row[slots[at].id].name] BY <2>2 DEF Unchanged, Visit
    <3> QED BY <3>3, <3>4, <3>5
  <2> QED BY <2>1, <2>2
<1>5. TypeOK' BY <1>1, <1>3, <1>4 DEF TypeOK
<1>6. /\ at \in dActive <=> slots[at].id \in DOMAIN row
      /\ at \in dActive => Current(at)
  <2>1. at \in dActive <=> at \in active BY <1>1, <1>2 DEF Followed
  <2>2. CASE StaysAway BY <2>1, <2>2 DEF StaysAway, Present
  <2>3. CASE Unchanged
    <3>1. at \in active BY <2>3 DEF Unchanged, Mask
    <3>2. /\ slots[at].name = Stored(slots[at].id).name
          /\ slots[at].ppid = Stored(slots[at].id).ppid
          /\ slots[at].units = Stored(slots[at].id).units
      BY <2>3 DEF Unchanged, Mask
    <3>3. slots[at] \in Slots BY <1>1 DEF TypeOK
    <3>4. Current(at) BY <3>2, <3>3 DEF Current, Stored, Slots
    <3> QED BY <2>1, <2>3, <3>1, <3>4 DEF Unchanged, Present
  <2> QED BY <2>2, <2>3
<1>7. Followed'
  <2>1. at' \in 1 .. Len(slots') + 1 /\ dPrevious' = previous' /\ previous' < at' BY <1>1, <1>2, <1>3 DEF Followed, TypeOK
  <2>2. ASSUME NEW s \in 1 .. at' - 1
        PROVE  (s \in dActive' <=> slots'[s].id \in DOMAIN row') /\ (s \in dActive' => Current(s)')
    <3>1. s = at \/ s \in 1 .. at - 1 BY <1>1, <1>3
    <3> QED BY <1>2, <1>3, <1>6, <3>1 DEF Followed, Current, Stored
  <2>3. \A s \in at' .. Len(slots') : s \in dActive' <=> s \in active' BY <1>1, <1>2, <1>3 DEF Followed
  <2> QED BY <2>1, <2>2, <2>3 DEF Followed
<1> QED BY <1>1, <1>3, <1>5, <1>7 DEF Mirror, Idle

\* A process that is gone: the decoder takes its slot out of the active ones.
LEMMA StepMissing ==
    ASSUME TypeOK, Mirror, Missing
    PROVE  TypeOK' /\ Mirror'
<1> DEFINE change == [gap |-> Gap, mask |-> {"missing"}]
<1>1. at # Idle /\ at \in DOMAIN slots /\ at \in Nat /\ Len(slots) \in Nat /\ DOMAIN slots = 1 .. Len(slots)
  BY DEF Missing, Writing, TypeOK
<1>2. Followed BY <1>1 DEF Mirror
<1>3. dPrevious + Gap + 1 = at BY <1>2, GapLeads
<1>4. at \in dActive BY <1>1, <1>2 DEF Missing, Followed
<1>5. ~Refuses(at, change)
  <2>1. {"missing"} # {} /\ {"missing"} # {"new"} /\ {"missing"} \cap {"new", "missing"} # {} OBVIOUS
  <2> QED BY <1>4, <2>1 DEF Refuses
<1>6. Receive(change) BY DEF Missing
<1>7. /\ dPrevious' = at /\ refused' = refused /\ dActive' = dActive \ {at} /\ dSlots' = dSlots
      /\ dIds' = dIds /\ dNames' = dNames
  <2>1. {"missing"} # {"new"} OBVIOUS
  <2> HIDE DEF change
  <2>2. change.gap = Gap /\ change.mask = {"missing"} BY DEF change
  <2> QED BY <1>3, <1>5, <1>6, <2>1, <2>2 DEF Receive
<1>8. /\ at' = at + 1 /\ previous' = at /\ UNCHANGED <<rowVars, slots, active, dClock>> /\ NoVisit
      /\ slots[at].id \notin DOMAIN row
  BY DEF Missing, Present
<1> USE DEF rowVars, NoVisit
<1>9. TypeOK' BY <1>1, <1>7, <1>8 DEF TypeOK
<1>10. Followed'
  <2>1. at' \in 1 .. Len(slots') + 1 /\ dPrevious' = previous' /\ previous' < at' BY <1>1, <1>7, <1>8
  <2>2. ASSUME NEW s \in 1 .. at' - 1
        PROVE  (s \in dActive' <=> slots'[s].id \in DOMAIN row') /\ (s \in dActive' => Current(s)')
    <3>1. s = at \/ s \in 1 .. at - 1 BY <1>1, <1>8
    <3>2. CASE s = at BY <1>7, <1>8, <3>2
    <3>3. CASE s # at BY <1>2, <1>7, <1>8, <3>1, <3>3 DEF Followed, Current, Stored
    <3> QED BY <3>2, <3>3
  <2>3. \A s \in at' .. Len(slots') : s \in dActive' <=> s \in active' BY <1>1, <1>2, <1>7, <1>8 DEF Followed
  <2> QED BY <2>1, <2>2, <2>3 DEF Followed
<1> QED BY <1>1, <1>7, <1>8, <1>9, <1>10 DEF Mirror, Idle

\* The fields that travel are those of an update.
LEMMA MaskFields == Mask \subseteq {"return", "name", "ppid", "rss"}
BY DEF Mask

\* A process that is there again or different: the differences add up to what the encoder stores.
LEMMA StepUpdate ==
    ASSUME TypeOK, Mirror, Update
    PROVE  TypeOK' /\ Mirror'
<1> DEFINE old == slots[at]
           new == Stored(old.id)
           change == [gap |-> Gap, mask |-> Mask, name |-> new.name,
                      ppid |-> new.ppid - old.ppid, units |-> new.units - old.units]
<1>1. at # Idle /\ at \in DOMAIN slots /\ at \in Nat /\ Len(slots) \in Nat /\ DOMAIN slots = 1 .. Len(slots)
  BY DEF Update, Writing, TypeOK
<1>2. Followed BY <1>1 DEF Mirror
<1>3. dPrevious + Gap + 1 = at BY <1>2, GapLeads
<1>4. old \in Slots /\ dSlots = slots BY <1>1 DEF TypeOK, Mirror
<1>5. old.id \in DOMAIN row BY DEF Update, Present
<1>6. new \in Slots BY <1>5, StoredType DEF TypeOK
<1>7. new.id = old.id BY DEF Stored
<1>8. at \in dActive <=> at \in active BY <1>1, <1>2 DEF Followed
<1>9. Mask # {} /\ ~("new" \in Mask) /\ ~("missing" \in Mask) BY MaskFields DEF Update
<1>10. old.ppid + (new.ppid - old.ppid) = new.ppid /\ old.units + (new.units - old.units) = new.units
  BY <1>4, <1>6 DEF Slots
<1>11. ~Refuses(at, change)
  <2>1. Mask # {"new"} /\ Mask # {"missing"} BY <1>9
  <2>2. "return" \in Mask <=> at \notin active BY DEF Mask
  <2>3. new.ppid \in Nat /\ new.units \in Nat BY <1>6 DEF Slots
  <2> HIDE DEF new
  <2>4. /\ change.mask = Mask /\ change.ppid = new.ppid - old.ppid /\ change.units = new.units - old.units
    OBVIOUS
  <2> HIDE DEF change
  <2>5. dSlots[at].ppid + change.ppid = new.ppid /\ dSlots[at].units + change.units = new.units
    BY <1>4, <1>10, <2>4
  <2>6. ~(dSlots[at].ppid + change.ppid < 0) /\ ~(dSlots[at].units + change.units < 0)
    BY <2>3, <2>5
  <2> QED BY <1>1, <1>4, <1>8, <1>9, <2>1, <2>2, <2>4, <2>6 DEF Refuses
<1>12. Updated(old, change) = new
  <2>1. /\ "name" \notin Mask => new.name = old.name
        /\ "ppid" \notin Mask => new.ppid = old.ppid
        /\ "rss" \notin Mask => new.units = old.units
    BY DEF Mask
  <2>2. new = [id |-> new.id, ppid |-> new.ppid, name |-> new.name, units |-> new.units] BY DEF Stored
  <2>3. Updated(old, change) = [id |-> old.id, name |-> new.name, ppid |-> new.ppid, units |-> new.units]
    <3> HIDE DEF new, old
    <3>1. /\ change.mask = Mask /\ change.name = new.name
          /\ change.ppid = new.ppid - old.ppid /\ change.units = new.units - old.units
      OBVIOUS
    <3> HIDE DEF change
    <3> QED BY <1>10, <2>1, <3>1 DEF Updated
  <2> HIDE DEF new, old, change
  <2> QED BY <1>7, <2>2, <2>3
<1>13. /\ at' = at + 1 /\ previous' = at /\ slots' = [slots EXCEPT ![at] = new]
       /\ UNCHANGED <<rowVars, active, dClock>> /\ Visit(old.id)
  BY DEF Update
<1>14. /\ dPrevious' = at /\ refused' = refused /\ dActive' = dActive \cup {at}
       /\ dSlots' = [slots EXCEPT ![at] = new] /\ dIds' = dIds /\ dNames' = dNames
  <2>1. Receive(change) BY DEF Update
  <2>2. change.gap = Gap /\ change.mask = Mask OBVIOUS
  <2>3. Mask # {"new"} /\ Mask # {"missing"} BY <1>9
  <2> HIDE DEF change, new
  <2>4. dSlots' = [dSlots EXCEPT ![at] = Updated(@, change)] /\ dPrevious' = at /\ refused' = refused
        /\ dActive' = dActive \cup {at} /\ dIds' = dIds /\ dNames' = dNames
    BY <1>3, <1>11, <2>1, <2>2, <2>3 DEF Receive
  <2> QED BY <1>1, <1>4, <1>12, <2>4
<1> USE DEF rowVars
<1>15. slots' \in Seq(Slots) /\ Len(slots') = Len(slots) /\ DOMAIN slots' = DOMAIN slots
  BY <1>1, <1>6, <1>13 DEF TypeOK
<1>16. points' \in Nat /\ names' \in Nat
  <2>1. NameBytes[row[old.id].name] \in Nat BY <1>5, RowFunction, MetaCodecAssumption DEF TypeOK, RowOK
  <2>2. points \in Nat /\ names \in Nat BY DEF TypeOK
  <2> QED BY <1>13, <2>1, <2>2 DEF Visit
<1>17. TypeOK' BY <1>1, <1>4, <1>13, <1>14, <1>15, <1>16 DEF TypeOK
<1>18. \A s \in DOMAIN slots : slots'[s].id = slots[s].id /\ (s # at => slots'[s] = slots[s])
  BY <1>1, <1>7, <1>13 DEF TypeOK
<1>19. Followed'
  <2>1. at' \in 1 .. Len(slots') + 1 /\ dPrevious' = previous' /\ previous' < at' BY <1>1, <1>13, <1>14, <1>15
  <2>2. ASSUME NEW s \in 1 .. at' - 1
        PROVE  (s \in dActive' <=> slots'[s].id \in DOMAIN row') /\ (s \in dActive' => Current(s)')
    <3>1. s = at \/ s \in 1 .. at - 1 BY <1>1, <1>13
    <3>2. CASE s = at
      <4>1. slots'[s] = new BY <1>1, <1>13, <3>2 DEF TypeOK
      <4>2. new = Stored(new.id) BY <1>7
      <4> QED BY <1>5, <1>7, <1>13, <1>14, <3>2, <4>1, <4>2 DEF Current, Stored
    <3>3. CASE s # at
      <4>1. s \in 1 .. at - 1 /\ s \in DOMAIN slots BY <1>1, <3>1, <3>3
      <4> QED BY <1>2, <1>13, <1>14, <1>18, <3>3, <4>1 DEF Followed, Current, Stored
    <3> QED BY <3>2, <3>3
  <2>3. \A s \in at' .. Len(slots') : s \in dActive' <=> s \in active'
    BY <1>1, <1>2, <1>13, <1>14, <1>15 DEF Followed
  <2> QED BY <2>1, <2>2, <2>3 DEF Followed
<1>20. \A s, t \in DOMAIN slots' : slots'[s].id = slots'[t].id => s = t BY <1>15, <1>18 DEF Mirror
<1> QED BY <1>1, <1>13, <1>14, <1>17, <1>19, <1>20 DEF Mirror, Idle

\* An identity without a slot: both append it at the same place.
LEMMA StepNew ==
    ASSUME TypeOK, Mirror, NEW id \in Ids, New(id)
    PROVE  TypeOK' /\ Mirror'
<1> DEFINE change == [gap |-> Gap, mask |-> {"new"}, process |-> Stored(id)]
<1>1. at # Idle /\ at = Len(slots) + 1 /\ Len(slots) \in Nat /\ DOMAIN slots = 1 .. Len(slots) /\ at \in Nat
  BY DEF New, TypeOK, Idle
<1>2. Followed BY <1>1 DEF Mirror
<1>3. dPrevious + Gap + 1 = at BY <1>2, GapLeads
<1>4. id \in DOMAIN row /\ id \notin IdsOf(slots) /\ dSlots = slots BY DEF New, Mirror
<1>5. Stored(id) \in Slots /\ Stored(id).id = id BY <1>4, StoredType DEF TypeOK, Stored
<1>6. ~Refuses(at, change)
  <2>1. {"new"} # {} /\ {"new"} # {"missing"} /\ {"new"} \cap {"new", "missing"} # {} OBVIOUS
  <2> QED BY <1>1, <1>4, <1>5, <2>1 DEF Refuses
<1>7. /\ dPrevious' = at /\ refused' = refused /\ dActive' = dActive \cup {at}
      /\ dSlots' = Append(dSlots, Stored(id)) /\ dIds' = dIds + 1 /\ dNames' = dNames + NameBytes[row[id].name]
  <2>1. Receive(change) BY DEF New
  <2>2. change.gap = Gap /\ change.mask = {"new"} /\ change.process = Stored(id) OBVIOUS
  <2>3. Stored(id).name = row[id].name BY DEF Stored
  <2> HIDE DEF change
  <2> QED BY <1>3, <1>6, <2>1, <2>2, <2>3 DEF Receive
<1>8. /\ at' = at + 1 /\ previous' = at /\ slots' = Append(slots, Stored(id))
      /\ UNCHANGED <<rowVars, active, dClock>> /\ Visit(id)
  BY DEF New
<1> USE DEF rowVars
<1>9. /\ slots' \in Seq(Slots) /\ Len(slots') = Len(slots) + 1 /\ DOMAIN slots' = 1 .. Len(slots) + 1
      /\ slots'[at] = Stored(id) /\ \A s \in DOMAIN slots : slots'[s] = slots[s]
  BY <1>1, <1>5, <1>8 DEF TypeOK
<1>10. /\ points' \in Nat /\ names' \in Nat /\ dIds' \in Nat /\ dNames' \in Nat
  <2>1. NameBytes[row[id].name] \in Nat BY <1>4, RowFunction, MetaCodecAssumption DEF TypeOK, RowOK
  <2>2. points \in Nat /\ names \in Nat /\ dIds \in Nat /\ dNames \in Nat BY DEF TypeOK
  <2>3. points' = points + 1 /\ names' = names + NameBytes[row[id].name] BY <1>8 DEF Visit
  <2>4. dIds' = dIds + 1 /\ dNames' = dNames + NameBytes[row[id].name] BY <1>7
  <2> QED BY <2>1, <2>2, <2>3, <2>4
<1>11. TypeOK' BY <1>1, <1>4, <1>7, <1>8, <1>9, <1>10 DEF TypeOK
<1>12. Followed'
  <2>1. at' \in 1 .. Len(slots') + 1 /\ dPrevious' = previous' /\ previous' < at' BY <1>1, <1>7, <1>8, <1>9
  <2>2. ASSUME NEW s \in 1 .. at' - 1
        PROVE  (s \in dActive' <=> slots'[s].id \in DOMAIN row') /\ (s \in dActive' => Current(s)')
    <3>1. s = at \/ s \in 1 .. at - 1 BY <1>1, <1>8
    <3>2. CASE s = at BY <1>4, <1>5, <1>7, <1>8, <1>9, <3>2 DEF Current, Stored
    <3>3. CASE s # at
      <4>1. s \in 1 .. at - 1 /\ slots'[s] = slots[s] BY <1>1, <1>9, <3>1, <3>3
      <4> QED BY <1>2, <1>7, <1>8, <3>3, <4>1 DEF Followed, Current, Stored
    <3> QED BY <3>2, <3>3
  <2>3. at' .. Len(slots') = {} BY <1>1, <1>8, <1>9
  <2> QED BY <2>1, <2>2, <2>3 DEF Followed
<1>13. \A s, t \in DOMAIN slots' : slots'[s].id = slots'[t].id => s = t
  <2> SUFFICES ASSUME NEW s \in DOMAIN slots', NEW t \in DOMAIN slots', slots'[s].id = slots'[t].id
               PROVE  s = t
    OBVIOUS
  <2>1. \A u \in DOMAIN slots : slots[u].id # id BY <1>4 DEF IdsOf
  <2>2. s \in DOMAIN slots \/ s = at BY <1>1, <1>9
  <2>3. t \in DOMAIN slots \/ t = at BY <1>1, <1>9
  <2> QED BY <1>5, <1>9, <2>1, <2>2, <2>3 DEF Mirror
<1> QED BY <1>1, <1>4, <1>7, <1>8, <1>11, <1>12, <1>13 DEF Mirror, Idle

\* The end of a row: the active slots are the processes of the row.
LEMMA StepEndRow ==
    ASSUME TypeOK, Mirror, EndRow
    PROVE  TypeOK' /\ Mirror'
<1> USE DEF EndRow, rowVars, decoder
<1>1. at # Idle /\ at = Len(slots) + 1 /\ Len(slots) \in Nat /\ DOMAIN slots = 1 .. Len(slots)
  BY DEF TypeOK, Idle
<1>2. Followed /\ dSlots = slots BY <1>1 DEF Mirror
<1>3. \A s \in DOMAIN slots : (s \in dActive <=> slots[s].id \in DOMAIN row) /\ (s \in dActive => Current(s))
  BY <1>1, <1>2 DEF Followed
<1>4. dActive = active' BY <1>2, <1>3 DEF TypeOK
<1>5. Settled' BY <1>3, <1>4 DEF Settled, Current, Stored, IdsOf
<1>6. TypeOK' BY DEF TypeOK, Idle
<1> QED BY <1>5, <1>6 DEF Mirror, Idle

\* Every step keeps both invariants.
LEMMA StepMirror == TypeOK /\ Mirror /\ [Next]_vars => TypeOK' /\ Mirror'
<1> SUFFICES ASSUME TypeOK, Mirror, [Next]_vars PROVE TypeOK' /\ Mirror' OBVIOUS
<1>1. CASE \E r \in Rows, m \in Moves :
             Observe(r, [seq |-> clock.seq + m.seq, wall |-> clock.wall + m.wall,
                         scan |-> clock.scan + m.scan, end |-> clock.scan + m.scan + m.span])
  <2>1. PICK r \in Rows, m \in Moves :
             Observe(r, [seq |-> clock.seq + m.seq, wall |-> clock.wall + m.wall,
                         scan |-> clock.scan + m.scan, end |-> clock.scan + m.scan + m.span])
    BY <1>1
  <2>2. m \in [seq : Nat, wall : Int, scan : Nat, span : Nat] /\ clock \in Clocks
    BY MetaCodecAssumption DEF TypeOK
  <2>3. [seq |-> clock.seq + m.seq, wall |-> clock.wall + m.wall,
         scan |-> clock.scan + m.scan, end |-> clock.scan + m.scan + m.span] \in Clocks
    BY <2>2 DEF Clocks
  <2> QED BY <2>1, <2>3, StepObserve
<1>2. CASE Missing BY <1>2, StepMissing
<1>3. CASE StaysAway \/ Unchanged BY <1>3, StepSilent
<1>4. CASE Update BY <1>4, StepUpdate
<1>5. CASE EndRow BY <1>5, StepEndRow
<1>6. CASE \E id \in Ids : New(id) BY <1>6, StepNew
<1>7. CASE UNCHANGED vars
  BY <1>7 DEF vars, rowVars, encoder, decoder, TypeOK, Mirror, Settled, Followed, Current, Stored
<1> QED BY <1>1, <1>2, <1>3, <1>4, <1>5, <1>6, <1>7 DEF Next

\* In every block, decoder and encoder keep the same table of slots, and the active slots of
\* the decoder follow the row as it is written.
THEOREM AlwaysMirror == Spec => [](TypeOK /\ Mirror)
<1>1. Init => TypeOK /\ Mirror BY InitMirror
<1>2. TypeOK /\ Mirror /\ [Next]_vars => (TypeOK /\ Mirror)' BY StepMirror
<1> QED BY <1>1, <1>2, PTL DEF Spec

\* The tables, clocks and counts of encoder and decoder keep their types.
THEOREM AlwaysTypeOK == Spec => []TypeOK
<1>1. TypeOK /\ Mirror => TypeOK OBVIOUS
<1> QED BY <1>1, AlwaysMirror, PTL

\* The decoder accepts all that encode_psd1 writes and reads every row as it was, resident bytes
\* rounded down to the unit.
THEOREM AlwaysRowExact == Spec => []RowExact
<1>1. TypeOK /\ Mirror => RowExact
  <2> SUFFICES ASSUME TypeOK, Mirror PROVE RowExact OBVIOUS
  <2>1. ~refused /\ dClock = clock /\ dSlots = slots BY DEF Mirror
  <2>2. ASSUME at = Idle
        PROVE  {dSlots[s] : s \in dActive} = {Stored(id) : id \in DOMAIN row}
    <3>1. Settled BY <2>2 DEF Mirror
    <3>2. ASSUME NEW s \in dActive
          PROVE  slots[s] = Stored(slots[s].id) /\ slots[s].id \in DOMAIN row
      BY <2>1, <3>1 DEF Settled, Current, TypeOK
    <3>3. ASSUME NEW id \in DOMAIN row
          PROVE  \E s \in dActive : slots[s] = Stored(id)
      <4>1. PICK s \in DOMAIN slots : slots[s].id = id BY <3>1 DEF Settled, IdsOf
      <4> QED BY <3>1, <4>1 DEF Settled, Current
    <3> QED BY <2>1, <3>2, <3>3
  <2> QED BY <2>1, <2>2 DEF RowExact
<1> QED BY <1>1, AlwaysMirror, PTL

\* What the decoder spends on identities is bounded by the processes of the rows: each identity
\* it allocates is a process the encoder has counted, with the same name.
Counted == dIds <= points /\ dNames <= names

\* Every step keeps that bound: New counts on both sides, the other steps on the encoder's at most.
LEMMA StepCounted == TypeOK /\ Mirror /\ Counted /\ [Next]_vars => Counted'
<1> SUFFICES ASSUME TypeOK, Mirror, Counted, [Next]_vars PROVE Counted' OBVIOUS
<1>1. points \in Nat /\ names \in Nat /\ dIds \in Nat /\ dNames \in Nat BY DEF TypeOK
<1>2. ASSUME NEW id \in DOMAIN row PROVE NameBytes[row[id].name] \in Nat
  BY RowFunction, MetaCodecAssumption DEF TypeOK, RowOK
<1>3. CASE \E r \in Rows, c \in {[seq |-> clock.seq + m.seq, wall |-> clock.wall + m.wall,
                  scan |-> clock.scan + m.scan, end |-> clock.scan + m.scan + m.span] : m \in Moves} : Observe(r, c)
  BY <1>3 DEF Observe, ReadClocks, Counted
<1>4. CASE Missing
  <2>1. Receive([gap |-> Gap, mask |-> {"missing"}]) /\ NoVisit BY <1>4 DEF Missing
  <2>2. {"missing"} # {"new"} OBVIOUS
  <2>3. dIds' = dIds /\ dNames' = dNames BY <2>1, <2>2 DEF Receive
  <2> QED BY <2>1, <2>3 DEF NoVisit, Counted
<1>5. CASE StaysAway BY <1>5 DEF StaysAway, NoVisit, Counted
<1>6. CASE Unchanged
  <2>1. slots[at].id \in DOMAIN row BY <1>6 DEF Unchanged, Present
  <2>2. points' = points + 1 /\ names' = names + NameBytes[row[slots[at].id].name] /\ dIds' = dIds /\ dNames' = dNames
    BY <1>6 DEF Unchanged, Visit
  <2> QED BY <1>1, <1>2, <2>1, <2>2 DEF Counted
<1>7. CASE Update
  <2>1. slots[at].id \in DOMAIN row BY <1>7 DEF Update, Present
  <2>2. Visit(slots[at].id) BY <1>7 DEF Update
  <2>3. Mask # {"new"} BY MaskFields
  <2>4. dIds' = dIds /\ dNames' = dNames BY <1>7, <2>3 DEF Update, Receive
  <2>5. points' = points + 1 /\ names' = names + NameBytes[row[slots[at].id].name] BY <2>2 DEF Visit
  <2> QED BY <1>1, <1>2, <2>1, <2>4, <2>5 DEF Counted
<1>8. CASE EndRow BY <1>8 DEF EndRow, Counted
<1>9. CASE \E id \in Ids : New(id)
  <2>1. PICK id \in Ids : New(id) BY <1>9
  <2>2. id \in DOMAIN row BY <2>1 DEF New
  <2>3. points' = points + 1 /\ names' = names + NameBytes[row[id].name] BY <2>1 DEF New, Visit
  <2>4. (dIds' = dIds /\ dNames' = dNames) \/ (dIds' = dIds + 1 /\ dNames' = dNames + NameBytes[Stored(id).name])
    BY <2>1 DEF New, Receive
  <2>5. Stored(id).name = row[id].name BY DEF Stored
  <2> QED BY <1>1, <1>2, <2>2, <2>3, <2>4, <2>5 DEF Counted
<1>10. CASE UNCHANGED vars BY <1>10 DEF vars, Counted
<1> QED BY <1>3, <1>4, <1>5, <1>6, <1>7, <1>8, <1>9, <1>10 DEF Next

\* A product with a smaller factor is smaller.
LEMMA SmallerProduct == ASSUME NEW a \in Nat, NEW b \in Nat, NEW c \in Nat, a <= b PROVE a * c <= b * c
<1>1. b - a \in Nat /\ (b - a) * c \in Nat OBVIOUS
<1>2. b * c = a * c + (b - a) * c OBVIOUS
<1> QED BY <1>1, <1>2

\* A block whose size check_v2_decoded_budget accepts is not refused for its size by decode_psd1.
THEOREM AlwaysBudgetCovers == Spec => []BudgetCovers
<1>1. Init => Counted BY DEF Init, Counted
<1>2. TypeOK /\ Mirror /\ Counted /\ [Next]_vars => Counted' BY StepCounted
<1>3. TypeOK /\ Counted => BudgetCovers
  <2> SUFFICES ASSUME TypeOK, Counted PROVE BudgetCovers OBVIOUS
  <2>1. /\ points \in Nat /\ names \in Nat /\ dIds \in Nat /\ dNames \in Nat /\ rows \in Nat
        /\ dIds <= points /\ dNames <= names
    BY MetaCodecAssumption DEF TypeOK, Counted
  <2>2. /\ HeaderSize \in Nat /\ RowSize \in Nat /\ ObservationSize \in Nat /\ ProcessSize \in Nat
        /\ EntrySize \in Nat /\ IdentitySize \in Nat /\ EntrySize + IdentitySize \in Nat
    BY MetaCodecAssumption
  <2>3. dIds * (EntrySize + IdentitySize) <= points * (EntrySize + IdentitySize)
    BY <2>1, <2>2, SmallerProduct
  <2>4. rows * (RowSize + ObservationSize) = rows * RowSize + rows * ObservationSize BY <2>1, <2>2
  <2>5. /\ points * ProcessSize \in Nat /\ rows * RowSize \in Nat /\ rows * ObservationSize \in Nat
        /\ points * EntrySize \in Nat /\ dIds * (EntrySize + IdentitySize) \in Nat
        /\ points * (EntrySize + IdentitySize) \in Nat
    BY <2>1, <2>2
  <2> QED BY <2>1, <2>2, <2>3, <2>4, <2>5 DEF BudgetCovers, EncoderBudget, DecoderBudget
<1> QED BY <1>1, <1>2, <1>3, AlwaysMirror, PTL DEF Spec

-----------------------------------------------------------------------------
(* Folds                                                                    *)

\* Induction over the natural numbers, for a set instead of a predicate
LEMMA Induction ==
  ASSUME NEW T, 0 \in T, \A n \in Nat : n \in T => n + 1 \in T
  PROVE  Nat \subseteq T
<1> SUFFICES ASSUME Nat \ T # {} PROVE FALSE
  OBVIOUS
<1>1. PICK n \in Nat \ T : \A m \in Nat \ T : ~(<<m, n>> \in OpToRel(<, Nat))
  <2>1. IsWellFoundedOn(OpToRel(<, Nat), Nat)
    BY NatLessThanWellFounded
  <2>2. Nat \ T \subseteq Nat
    OBVIOUS
  <2> QED
    BY <2>1, <2>2, WFMin
<1>2. n - 1 \in Nat /\ n - 1 < n /\ (n - 1) + 1 = n
  <2>1. n # 0
    OBVIOUS
  <2> QED
    BY <2>1
<1>3. n - 1 \notin T
  BY <1>2
<1>4. <<n - 1, n>> \in OpToRel(<, Nat)
  BY <1>2 DEF OpToRel
<1> QED
  BY <1>1, <1>2, <1>3, <1>4

\* A non-empty set of indices has a maximum, and Max is it.
LEMMA MaxIs ==
  ASSUME NEW n \in Nat, NEW t \in SUBSET (1..n), t # {}
  PROVE  Max(t) \in t /\ \A y \in t : y <= Max(t)
<1> DEFINE T == {m \in Nat : \A s \in SUBSET (1..m) : s # {} => \E x \in s : \A y \in s : x >= y}
<1>1. 0 \in T
  <2>1. 1..0 = {}
    OBVIOUS
  <2> QED
    BY <2>1
<1>2. ASSUME NEW m \in Nat, m \in T  PROVE m + 1 \in T
  <2> SUFFICES ASSUME NEW s \in SUBSET (1..(m + 1)), s # {}
               PROVE  \E x \in s : \A y \in s : x >= y
    OBVIOUS
  <2>1. CASE m + 1 \in s
    BY <2>1
  <2>2. CASE m + 1 \notin s
    <3>1. s \in SUBSET (1..m)
      BY <2>2
    <3> QED
      BY <3>1, <1>2
  <2> QED
    BY <2>1, <2>2
<1>3. n \in T
  <2> HIDE DEF T
  <2> QED
    BY <1>1, <1>2, Induction
<1>4. \E x \in t : \A y \in t : x >= y
  BY <1>3
<1>5. Max(t) \in t /\ \A y \in t : Max(t) >= y
  BY <1>4 DEF Max
<1> QED
  BY <1>5

\* The last of the first k indices.
LEMMA UpTo ==
  ASSUME NEW k \in Nat \ {0}
  PROVE  Max(1..k) = k /\ (1..k) \ {k} = 1..(k - 1) /\ 1..k # {}
<1>1. k \in 1..k
  OBVIOUS
<1>2. Max(1..k) \in 1..k /\ k <= Max(1..k)
  BY <1>1, MaxIs
<1>3. (1..k) \ {k} = 1..(k - 1)
  OBVIOUS
<1> QED
  BY <1>1, <1>2, <1>3

\* One index more: what h is on the sets with it and on those without it.
LEMMA Longer ==
  ASSUME NEW n \in Nat, NEW g, NEW top, NEW h,
         h = [t \in SUBSET (1..(n + 1)) |-> IF n + 1 \in t THEN top[t \ {n + 1}] ELSE g[t]],
         NEW t \in SUBSET (1..(n + 1))
  PROVE  /\ t = {} => h[t] = g[t]
         /\ n + 1 \in t => /\ t # {} /\ Max(t) = n + 1 /\ h[t] = top[t \ {n + 1}]
                           /\ t \ {n + 1} \in SUBSET (1..n) /\ h[t \ {n + 1}] = g[t \ {n + 1}]
         /\ t # {} /\ n + 1 \notin t => /\ t \in SUBSET (1..n) /\ h[t] = g[t]
                                        /\ h[t \ {Max(t)}] = g[t \ {Max(t)}]
<1>1. CASE t = {}
  BY <1>1
<1>2. CASE n + 1 \in t
  <2>1. Max(t) = n + 1
    <3>1. n + 1 \in Nat /\ t # {}
      BY <1>2
    <3>2. Max(t) \in t /\ n + 1 <= Max(t)
      BY <3>1, <1>2, MaxIs
    <3>3. Max(t) \in 1..(n + 1)
      BY <3>2
    <3> QED
      BY <3>2, <3>3
  <2>2. n + 1 \notin t \ {n + 1} /\ t \ {n + 1} \in SUBSET (1..n) /\ t \ {n + 1} \in SUBSET (1..(n + 1))
    OBVIOUS
  <2> QED
    BY <1>2, <2>1, <2>2
<1>3. CASE t # {} /\ n + 1 \notin t
  <2>1. t \in SUBSET (1..n)
    BY <1>3
  <2>2. PICK m : m = Max(t)
    OBVIOUS
  <2>3. t \ {m} \in SUBSET (1..(n + 1)) /\ n + 1 \notin t \ {m}
    BY <1>3
  <2> QED
    BY <1>3, <2>1, <2>2, <2>3
<1> QED
  BY <1>1, <1>2, <1>3

-----------------------------------------------------------------------------
\* The members of S among the first n of xs
Listing(S, start, xs, n) == FoldLeft(LAMBDA a, x : ListIf(a, x, S), start, [i \in 1..n |-> xs[i]])

\* g is a fold as FoldLeft chooses one.
ListingFold(g, S, start, xs, n) ==
  g = [t \in SUBSET (1..n) |-> IF t = {} THEN start ELSE ListIf(g[t \ {Max(t)}], xs[Max(t)], S)]

\* There is a fold that lists them.
LEMMA ListingFoldExists ==
  ASSUME NEW S, NEW start, NEW xs
  PROVE  \A n \in Nat : \E g : ListingFold(g, S, start, xs, n)
<1> DEFINE T == {n \in Nat : \E g : ListingFold(g, S, start, xs, n)}
<1>1. 0 \in T
  <2>1. SUBSET (1..0) = {{}}
    OBVIOUS
  <2>2. ListingFold([t \in SUBSET (1..0) |-> start], S, start, xs, 0)
    BY <2>1 DEF ListingFold
  <2> QED
    BY <2>2
<1>2. ASSUME NEW n \in Nat, n \in T  PROVE n + 1 \in T
  <2>1. PICK g : ListingFold(g, S, start, xs, n)
    BY <1>2
  <2>2. PICK top : top = [u \in SUBSET (1..n) |-> ListIf(g[u], xs[n + 1], S)]
    OBVIOUS
  <2>3. PICK h : h = [t \in SUBSET (1..(n + 1)) |-> IF n + 1 \in t THEN top[t \ {n + 1}] ELSE g[t]]
    OBVIOUS
  <2>4. ASSUME NEW t \in SUBSET (1..(n + 1))
        PROVE  h[t] = IF t = {} THEN start ELSE ListIf(h[t \ {Max(t)}], xs[Max(t)], S)
    <3>1. CASE t = {}
      <4>1. h[t] = g[t] /\ t \in SUBSET (1..n)
        BY <2>3, <3>1, Longer
      <4> QED
        BY <2>1, <3>1, <4>1 DEF ListingFold
    <3>2. CASE n + 1 \in t
      <4>1. /\ t # {} /\ Max(t) = n + 1 /\ h[t] = top[t \ {n + 1}]
            /\ t \ {n + 1} \in SUBSET (1..n) /\ h[t \ {n + 1}] = g[t \ {n + 1}]
        BY <2>3, <3>2, Longer
      <4> QED
        BY <2>2, <4>1
    <3>3. CASE t # {} /\ n + 1 \notin t
      <4>1. t \in SUBSET (1..n) /\ h[t] = g[t] /\ h[t \ {Max(t)}] = g[t \ {Max(t)}]
        BY <2>3, <3>3, Longer
      <4>2. g[t] = ListIf(g[t \ {Max(t)}], xs[Max(t)], S)
        BY <2>1, <3>3, <4>1 DEF ListingFold
      <4> QED
        BY <3>3, <4>1, <4>2
    <3> QED
      BY <3>1, <3>2, <3>3
  <2>5. h = [t \in SUBSET (1..(n + 1)) |-> IF t = {} THEN start ELSE ListIf(h[t \ {Max(t)}], xs[Max(t)], S)]
    BY <2>3, <2>4
  <2>6. ListingFold(h, S, start, xs, n + 1)
    BY <2>5, Zenon DEF ListingFold
  <2> QED
    BY <2>6
<1> QED
  <2> HIDE DEF T
  <2>1. Nat \subseteq T
    BY <1>1, <1>2, Induction
  <2> QED
    BY <2>1 DEF T

\* Listing is the value of such a fold g.
ListingIs(g, S, start, xs, n) ==
  /\ g[{}] = start /\ Listing(S, start, xs, n) = g[1..n]
  /\ \A k \in 1..n : g[1..k] = ListIf(g[1..(k - 1)], xs[k], S)

\* Listing is a fold over the intervals 1..k.
LEMMA ListingIsFold ==
  ASSUME NEW S, NEW start, NEW xs
  PROVE  \A n \in Nat : \E g : ListingIs(g, S, start, xs, n)
<1> TAKE n \in Nat
<1> DEFINE q == [i \in 1..n |-> xs[i]]
           g == CHOOSE g : ListingFold(g, S, start, q, n)
<1>1. DOMAIN q = 1..n
  OBVIOUS
<1>2. Listing(S, start, xs, n)
       = (CHOOSE f : f = [t \in SUBSET DOMAIN q |-> IF t = {} THEN start
         ELSE ListIf(f[t \ {Max(t)}], q[Max(t)], S)])[DOMAIN q]
  BY Zenon DEF Listing, FoldLeft, MapThenFoldSet
<1>3. Listing(S, start, xs, n) = g[1..n]
  BY <1>1, <1>2, Zenon DEF ListingFold
<1>4. ListingFold(g, S, start, q, n)
  <2> HIDE DEF q
  <2>1. \E f : ListingFold(f, S, start, q, n)
    BY ListingFoldExists
  <2> QED
    BY <2>1, Zenon
<1> HIDE DEF g
<1>5. g[{}] = start
  BY <1>4 DEF ListingFold
<1>6. ASSUME NEW k \in 1..n  PROVE g[1..k] = ListIf(g[1..(k - 1)], xs[k], S)
  <2>1. k \in Nat \ {0} /\ 1..k \in SUBSET (1..n) /\ q[k] = xs[k]
    OBVIOUS
  <2>2. Max(1..k) = k /\ (1..k) \ {k} = 1..(k - 1) /\ 1..k # {}
    BY <2>1, UpTo
  <2> HIDE DEF q
  <2>3. g[1..k] = ListIf(g[1..(k - 1)], q[k], S)
    BY <1>4, <2>1, <2>2 DEF ListingFold
  <2> QED
    BY <2>1, <2>3
<1> QED
  BY <1>3, <1>5, <1>6 DEF ListingIs

\* One element after the other.
LEMMA ListingFirst ==
  ASSUME NEW S, NEW start, NEW xs
  PROVE  Listing(S, start, xs, 0) = start
<1>1. 1..0 = {} /\ 0 \in Nat
  OBVIOUS
<1> QED
  BY <1>1, ListingIsFold DEF ListingIs

\* One number more is listed after those before it, or is not.
LEMMA ListingStep ==
  ASSUME NEW S, NEW start, NEW xs, NEW n \in Nat
  PROVE  Listing(S, start, xs, n + 1) = ListIf(Listing(S, start, xs, n), xs[n + 1], S)
<1>1. PICK g : ListingIs(g, S, start, xs, n)
  BY ListingIsFold
<1>2. n + 1 \in Nat
  OBVIOUS
<1>3. PICK h : ListingIs(h, S, start, xs, n + 1)
  BY <1>2, ListingIsFold
<1> USE DEF ListingIs
<1> DEFINE T == {k \in Nat : k <= n => g[1..k] = h[1..k]}
<1>4. 0 \in T
  <2>1. 1..0 = {}
    OBVIOUS
  <2> QED
    BY <1>1, <1>3, <2>1
<1>5. ASSUME NEW k \in Nat, k \in T  PROVE k + 1 \in T
  <2> SUFFICES ASSUME k + 1 <= n  PROVE g[1..(k + 1)] = h[1..(k + 1)]
    OBVIOUS
  <2>1. k + 1 \in 1..n /\ k + 1 \in 1..(n + 1) /\ (k + 1) - 1 = k /\ k <= n
    OBVIOUS
  <2>2. g[1..k] = h[1..k]
    BY <1>5, <2>1
  <2>3. g[1..(k + 1)] = ListIf(g[1..k], xs[k + 1], S) /\ h[1..(k + 1)] = ListIf(h[1..k], xs[k + 1], S)
    BY <1>1, <1>3, <2>1
  <2> QED
    BY <2>2, <2>3
<1>6. n \in T
  <2> HIDE DEF T
  <2> QED
    BY <1>4, <1>5, Induction
<1>7. g[1..n] = h[1..n]
  BY <1>6
<1>8. n + 1 \in 1..(n + 1) /\ (n + 1) - 1 = n
  OBVIOUS
<1> QED
  BY <1>1, <1>3, <1>7, <1>8

-----------------------------------------------------------------------------
\* The sums of the first n steps
Summing(start, xs, n) == FoldLeft(LAMBDA a, x : Further(a, x), start, [i \in 1..n |-> xs[i]])

\* g is a fold as FoldLeft chooses one.
SummingFold(g, start, xs, n) ==
  g = [t \in SUBSET (1..n) |-> IF t = {} THEN start ELSE Further(g[t \ {Max(t)}], xs[Max(t)])]

\* There is a fold over the steps.
LEMMA SummingFoldExists ==
  ASSUME NEW start, NEW xs
  PROVE  \A n \in Nat : \E g : SummingFold(g, start, xs, n)
<1> DEFINE T == {n \in Nat : \E g : SummingFold(g, start, xs, n)}
<1>1. 0 \in T
  <2>1. SUBSET (1..0) = {{}}
    OBVIOUS
  <2>2. SummingFold([t \in SUBSET (1..0) |-> start], start, xs, 0)
    BY <2>1 DEF SummingFold
  <2> QED
    BY <2>2
<1>2. ASSUME NEW n \in Nat, n \in T  PROVE n + 1 \in T
  <2>1. PICK g : SummingFold(g, start, xs, n)
    BY <1>2
  <2>2. PICK top : top = [u \in SUBSET (1..n) |-> Further(g[u], xs[n + 1])]
    OBVIOUS
  <2>3. PICK h : h = [t \in SUBSET (1..(n + 1)) |-> IF n + 1 \in t THEN top[t \ {n + 1}] ELSE g[t]]
    OBVIOUS
  <2>4. ASSUME NEW t \in SUBSET (1..(n + 1))
        PROVE  h[t] = IF t = {} THEN start ELSE Further(h[t \ {Max(t)}], xs[Max(t)])
    <3>1. CASE t = {}
      <4>1. h[t] = g[t] /\ t \in SUBSET (1..n)
        BY <2>3, <3>1, Longer
      <4> QED
        BY <2>1, <3>1, <4>1 DEF SummingFold
    <3>2. CASE n + 1 \in t
      <4>1. /\ t # {} /\ Max(t) = n + 1 /\ h[t] = top[t \ {n + 1}]
            /\ t \ {n + 1} \in SUBSET (1..n) /\ h[t \ {n + 1}] = g[t \ {n + 1}]
        BY <2>3, <3>2, Longer
      <4> QED
        BY <2>2, <4>1
    <3>3. CASE t # {} /\ n + 1 \notin t
      <4>1. t \in SUBSET (1..n) /\ h[t] = g[t] /\ h[t \ {Max(t)}] = g[t \ {Max(t)}]
        BY <2>3, <3>3, Longer
      <4>2. g[t] = Further(g[t \ {Max(t)}], xs[Max(t)])
        BY <2>1, <3>3, <4>1 DEF SummingFold
      <4> QED
        BY <3>3, <4>1, <4>2
    <3> QED
      BY <3>1, <3>2, <3>3
  <2>5. h = [t \in SUBSET (1..(n + 1)) |-> IF t = {} THEN start ELSE Further(h[t \ {Max(t)}], xs[Max(t)])]
    BY <2>3, <2>4
  <2>6. SummingFold(h, start, xs, n + 1)
    BY <2>5, Zenon DEF SummingFold
  <2> QED
    BY <2>6
<1> QED
  <2> HIDE DEF T
  <2>1. Nat \subseteq T
    BY <1>1, <1>2, Induction
  <2> QED
    BY <2>1 DEF T

\* Summing is the value of such a fold g.
SummingIs(g, start, xs, n) ==
  /\ g[{}] = start /\ Summing(start, xs, n) = g[1..n]
  /\ \A k \in 1..n : g[1..k] = Further(g[1..(k - 1)], xs[k])

\* So is Summing.
LEMMA SummingIsFold ==
  ASSUME NEW start, NEW xs
  PROVE  \A n \in Nat : \E g : SummingIs(g, start, xs, n)
<1> TAKE n \in Nat
<1> DEFINE q == [i \in 1..n |-> xs[i]]
           g == CHOOSE g : SummingFold(g, start, q, n)
<1>1. DOMAIN q = 1..n
  OBVIOUS
<1>2. Summing(start, xs, n)
       = (CHOOSE f : f = [t \in SUBSET DOMAIN q |-> IF t = {} THEN start
         ELSE Further(f[t \ {Max(t)}], q[Max(t)])])[DOMAIN q]
  BY Zenon DEF Summing, FoldLeft, MapThenFoldSet
<1>3. Summing(start, xs, n) = g[1..n]
  BY <1>1, <1>2, Zenon DEF SummingFold
<1>4. SummingFold(g, start, q, n)
  <2> HIDE DEF q
  <2>1. \E f : SummingFold(f, start, q, n)
    BY SummingFoldExists
  <2> QED
    BY <2>1, Zenon
<1> HIDE DEF g
<1>5. g[{}] = start
  BY <1>4 DEF SummingFold
<1>6. ASSUME NEW k \in 1..n  PROVE g[1..k] = Further(g[1..(k - 1)], xs[k])
  <2>1. k \in Nat \ {0} /\ 1..k \in SUBSET (1..n) /\ q[k] = xs[k]
    OBVIOUS
  <2>2. Max(1..k) = k /\ (1..k) \ {k} = 1..(k - 1) /\ 1..k # {}
    BY <2>1, UpTo
  <2> HIDE DEF q
  <2>3. g[1..k] = Further(g[1..(k - 1)], q[k])
    BY <1>4, <2>1, <2>2 DEF SummingFold
  <2> QED
    BY <2>1, <2>3
<1> QED
  BY <1>3, <1>5, <1>6 DEF SummingIs

\* One element after the other.
LEMMA SummingFirst ==
  ASSUME NEW start, NEW xs
  PROVE  Summing(start, xs, 0) = start
<1>1. 1..0 = {} /\ 0 \in Nat
  OBVIOUS
<1> QED
  BY <1>1, SummingIsFold DEF SummingIs

\* One step more leads to one sum more.
LEMMA SummingStep ==
  ASSUME NEW start, NEW xs, NEW n \in Nat
  PROVE  Summing(start, xs, n + 1) = Further(Summing(start, xs, n), xs[n + 1])
<1>1. PICK g : SummingIs(g, start, xs, n)
  BY SummingIsFold
<1>2. n + 1 \in Nat
  OBVIOUS
<1>3. PICK h : SummingIs(h, start, xs, n + 1)
  BY <1>2, SummingIsFold
<1> USE DEF SummingIs
<1> DEFINE T == {k \in Nat : k <= n => g[1..k] = h[1..k]}
<1>4. 0 \in T
  <2>1. 1..0 = {}
    OBVIOUS
  <2> QED
    BY <1>1, <1>3, <2>1
<1>5. ASSUME NEW k \in Nat, k \in T  PROVE k + 1 \in T
  <2> SUFFICES ASSUME k + 1 <= n  PROVE g[1..(k + 1)] = h[1..(k + 1)]
    OBVIOUS
  <2>1. k + 1 \in 1..n /\ k + 1 \in 1..(n + 1) /\ (k + 1) - 1 = k /\ k <= n
    OBVIOUS
  <2>2. g[1..k] = h[1..k]
    BY <1>5, <2>1
  <2>3. g[1..(k + 1)] = Further(g[1..k], xs[k + 1]) /\ h[1..(k + 1)] = Further(h[1..k], xs[k + 1])
    BY <1>1, <1>3, <2>1
  <2> QED
    BY <2>2, <2>3
<1>6. n \in T
  <2> HIDE DEF T
  <2> QED
    BY <1>4, <1>5, Induction
<1>7. g[1..n] = h[1..n]
  BY <1>6
<1>8. n + 1 \in 1..(n + 1) /\ (n + 1) - 1 = n
  OBVIOUS
<1> QED
  BY <1>1, <1>3, <1>7, <1>8

-----------------------------------------------------------------------------
\* The first n rows of a column, encoded
Encoding(column, columns, unit, start, xs, n) ==
  FoldLeft(LAMBDA a, x : EncodeNext(a, x, column, columns, unit), start, [i \in 1..n |-> xs[i]])

\* g is a fold as FoldLeft chooses one.
EncodingFold(g, column, columns, unit, start, xs, n) ==
  g = [t \in SUBSET (1..n) |-> IF t = {} THEN start ELSE EncodeNext(g[t \ {Max(t)}], xs[Max(t)], column, columns, unit)]

\* There is a fold that encodes the rows.
LEMMA EncodingFoldExists ==
  ASSUME NEW column, NEW columns, NEW unit, NEW start, NEW xs
  PROVE  \A n \in Nat : \E g : EncodingFold(g, column, columns, unit, start, xs, n)
<1> DEFINE T == {n \in Nat : \E g : EncodingFold(g, column, columns, unit, start, xs, n)}
<1>1. 0 \in T
  <2>1. SUBSET (1..0) = {{}}
    OBVIOUS
  <2>2. EncodingFold([t \in SUBSET (1..0) |-> start], column, columns, unit, start, xs, 0)
    BY <2>1 DEF EncodingFold
  <2> QED
    BY <2>2
<1>2. ASSUME NEW n \in Nat, n \in T  PROVE n + 1 \in T
  <2>1. PICK g : EncodingFold(g, column, columns, unit, start, xs, n)
    BY <1>2
  <2>2. PICK top : top = [u \in SUBSET (1..n) |-> EncodeNext(g[u], xs[n + 1], column, columns, unit)]
    OBVIOUS
  <2>3. PICK h : h = [t \in SUBSET (1..(n + 1)) |-> IF n + 1 \in t THEN top[t \ {n + 1}] ELSE g[t]]
    OBVIOUS
  <2>4. ASSUME NEW t \in SUBSET (1..(n + 1))
        PROVE  h[t] = IF t = {} THEN start ELSE EncodeNext(h[t \ {Max(t)}], xs[Max(t)], column, columns, unit)
    <3>1. CASE t = {}
      <4>1. h[t] = g[t] /\ t \in SUBSET (1..n)
        BY <2>3, <3>1, Longer
      <4> QED
        BY <2>1, <3>1, <4>1 DEF EncodingFold
    <3>2. CASE n + 1 \in t
      <4>1. /\ t # {} /\ Max(t) = n + 1 /\ h[t] = top[t \ {n + 1}]
            /\ t \ {n + 1} \in SUBSET (1..n) /\ h[t \ {n + 1}] = g[t \ {n + 1}]
        BY <2>3, <3>2, Longer
      <4> QED
        BY <2>2, <4>1
    <3>3. CASE t # {} /\ n + 1 \notin t
      <4>1. t \in SUBSET (1..n) /\ h[t] = g[t] /\ h[t \ {Max(t)}] = g[t \ {Max(t)}]
        BY <2>3, <3>3, Longer
      <4>2. g[t] = EncodeNext(g[t \ {Max(t)}], xs[Max(t)], column, columns, unit)
        BY <2>1, <3>3, <4>1 DEF EncodingFold
      <4> QED
        BY <3>3, <4>1, <4>2
    <3> QED
      BY <3>1, <3>2, <3>3
  <2>5. h = [t \in SUBSET (1..(n + 1)) |-> IF t = {} THEN start ELSE EncodeNext(h[t \ {Max(t)}], xs[Max(t)], column, columns, unit)]
    BY <2>3, <2>4
  <2>6. EncodingFold(h, column, columns, unit, start, xs, n + 1)
    BY <2>5, Zenon DEF EncodingFold
  <2> QED
    BY <2>6
<1> QED
  <2> HIDE DEF T
  <2>1. Nat \subseteq T
    BY <1>1, <1>2, Induction
  <2> QED
    BY <2>1 DEF T

\* Encoding is the value of such a fold g.
EncodingIs(g, column, columns, unit, start, xs, n) ==
  /\ g[{}] = start /\ Encoding(column, columns, unit, start, xs, n) = g[1..n]
  /\ \A k \in 1..n : g[1..k] = EncodeNext(g[1..(k - 1)], xs[k], column, columns, unit)

\* So is Encoding.
LEMMA EncodingIsFold ==
  ASSUME NEW column, NEW columns, NEW unit, NEW start, NEW xs
  PROVE  \A n \in Nat : \E g : EncodingIs(g, column, columns, unit, start, xs, n)
<1> TAKE n \in Nat
<1> DEFINE q == [i \in 1..n |-> xs[i]]
           g == CHOOSE g : EncodingFold(g, column, columns, unit, start, q, n)
<1>1. DOMAIN q = 1..n
  OBVIOUS
<1>2. Encoding(column, columns, unit, start, xs, n)
       = (CHOOSE f : f = [t \in SUBSET DOMAIN q |-> IF t = {} THEN start
         ELSE EncodeNext(f[t \ {Max(t)}], q[Max(t)], column, columns, unit)])[DOMAIN q]
  BY Zenon DEF Encoding, FoldLeft, MapThenFoldSet
<1>3. Encoding(column, columns, unit, start, xs, n) = g[1..n]
  BY <1>1, <1>2, Zenon DEF EncodingFold
<1>4. EncodingFold(g, column, columns, unit, start, q, n)
  <2> HIDE DEF q
  <2>1. \E f : EncodingFold(f, column, columns, unit, start, q, n)
    BY EncodingFoldExists
  <2> QED
    BY <2>1, Zenon
<1> HIDE DEF g
<1>5. g[{}] = start
  BY <1>4 DEF EncodingFold
<1>6. ASSUME NEW k \in 1..n  PROVE g[1..k] = EncodeNext(g[1..(k - 1)], xs[k], column, columns, unit)
  <2>1. k \in Nat \ {0} /\ 1..k \in SUBSET (1..n) /\ q[k] = xs[k]
    OBVIOUS
  <2>2. Max(1..k) = k /\ (1..k) \ {k} = 1..(k - 1) /\ 1..k # {}
    BY <2>1, UpTo
  <2> HIDE DEF q
  <2>3. g[1..k] = EncodeNext(g[1..(k - 1)], q[k], column, columns, unit)
    BY <1>4, <2>1, <2>2 DEF EncodingFold
  <2> QED
    BY <2>1, <2>3
<1> QED
  BY <1>3, <1>5, <1>6 DEF EncodingIs

\* One element after the other.
LEMMA EncodingFirst ==
  ASSUME NEW column, NEW columns, NEW unit, NEW start, NEW xs
  PROVE  Encoding(column, columns, unit, start, xs, 0) = start
<1>1. 1..0 = {} /\ 0 \in Nat
  OBVIOUS
<1> QED
  BY <1>1, EncodingIsFold DEF EncodingIs

\* One row more is encoded after those before it.
LEMMA EncodingStep ==
  ASSUME NEW column, NEW columns, NEW unit, NEW start, NEW xs, NEW n \in Nat
  PROVE  Encoding(column, columns, unit, start, xs, n + 1)
         = EncodeNext(Encoding(column, columns, unit, start, xs, n), xs[n + 1], column, columns, unit)
<1>1. PICK g : EncodingIs(g, column, columns, unit, start, xs, n)
  BY EncodingIsFold
<1>2. n + 1 \in Nat
  OBVIOUS
<1>3. PICK h : EncodingIs(h, column, columns, unit, start, xs, n + 1)
  BY <1>2, EncodingIsFold
<1> USE DEF EncodingIs
<1> DEFINE T == {k \in Nat : k <= n => g[1..k] = h[1..k]}
<1>4. 0 \in T
  <2>1. 1..0 = {}
    OBVIOUS
  <2> QED
    BY <1>1, <1>3, <2>1
<1>5. ASSUME NEW k \in Nat, k \in T  PROVE k + 1 \in T
  <2> SUFFICES ASSUME k + 1 <= n  PROVE g[1..(k + 1)] = h[1..(k + 1)]
    OBVIOUS
  <2>1. k + 1 \in 1..n /\ k + 1 \in 1..(n + 1) /\ (k + 1) - 1 = k /\ k <= n
    OBVIOUS
  <2>2. g[1..k] = h[1..k]
    BY <1>5, <2>1
  <2>3. g[1..(k + 1)] = EncodeNext(g[1..k], xs[k + 1], column, columns, unit)
         /\ h[1..(k + 1)] = EncodeNext(h[1..k], xs[k + 1], column, columns, unit)
    BY <1>1, <1>3, <2>1
  <2> QED
    BY <2>2, <2>3
<1>6. n \in T
  <2> HIDE DEF T
  <2> QED
    BY <1>4, <1>5, Induction
<1>7. g[1..n] = h[1..n]
  BY <1>6
<1>8. n + 1 \in 1..(n + 1) /\ (n + 1) - 1 = n
  OBVIOUS
<1> QED
  BY <1>1, <1>3, <1>7, <1>8

-----------------------------------------------------------------------------
\* The first n rows of a column, decoded
Decoding(src, encoded, column, columns, unit, start, xs, n) ==
  FoldLeft(LAMBDA a, x : DecodeNext(a, src[x], encoded[x], column, columns, unit), start, [i \in 1..n |-> xs[i]])

\* g is a fold as FoldLeft chooses one.
DecodingFold(g, src, encoded, column, columns, unit, start, xs, n) ==
  g = [t \in SUBSET (1..n) |-> IF t = {} THEN start ELSE DecodeNext(g[t \ {Max(t)}], src[xs[Max(t)]], encoded[xs[Max(t)]], column, columns, unit)]

\* There is a fold that decodes the rows.
LEMMA DecodingFoldExists ==
  ASSUME NEW src, NEW encoded, NEW column, NEW columns, NEW unit, NEW start, NEW xs
  PROVE  \A n \in Nat : \E g : DecodingFold(g, src, encoded, column, columns, unit, start, xs, n)
<1> DEFINE T == {n \in Nat : \E g : DecodingFold(g, src, encoded, column, columns, unit, start, xs, n)}
<1>1. 0 \in T
  <2>1. SUBSET (1..0) = {{}}
    OBVIOUS
  <2>2. DecodingFold([t \in SUBSET (1..0) |-> start], src, encoded, column, columns, unit, start, xs, 0)
    BY <2>1 DEF DecodingFold
  <2> QED
    BY <2>2
<1>2. ASSUME NEW n \in Nat, n \in T  PROVE n + 1 \in T
  <2>1. PICK g : DecodingFold(g, src, encoded, column, columns, unit, start, xs, n)
    BY <1>2
  <2>2. PICK top : top = [u \in SUBSET (1..n) |-> DecodeNext(g[u], src[xs[n + 1]], encoded[xs[n + 1]], column, columns, unit)]
    OBVIOUS
  <2>3. PICK h : h = [t \in SUBSET (1..(n + 1)) |-> IF n + 1 \in t THEN top[t \ {n + 1}] ELSE g[t]]
    OBVIOUS
  <2>4. ASSUME NEW t \in SUBSET (1..(n + 1))
        PROVE  h[t]
               = IF t = {} THEN start
                 ELSE DecodeNext(h[t \ {Max(t)}], src[xs[Max(t)]], encoded[xs[Max(t)]], column, columns, unit)
    <3>1. CASE t = {}
      <4>1. h[t] = g[t] /\ t \in SUBSET (1..n)
        BY <2>3, <3>1, Longer
      <4> QED
        BY <2>1, <3>1, <4>1 DEF DecodingFold
    <3>2. CASE n + 1 \in t
      <4>1. /\ t # {} /\ Max(t) = n + 1 /\ h[t] = top[t \ {n + 1}]
            /\ t \ {n + 1} \in SUBSET (1..n) /\ h[t \ {n + 1}] = g[t \ {n + 1}]
        BY <2>3, <3>2, Longer
      <4> QED
        BY <2>2, <4>1
    <3>3. CASE t # {} /\ n + 1 \notin t
      <4>1. t \in SUBSET (1..n) /\ h[t] = g[t] /\ h[t \ {Max(t)}] = g[t \ {Max(t)}]
        BY <2>3, <3>3, Longer
      <4>2. g[t] = DecodeNext(g[t \ {Max(t)}], src[xs[Max(t)]], encoded[xs[Max(t)]], column, columns, unit)
        BY <2>1, <3>3, <4>1 DEF DecodingFold
      <4> QED
        BY <3>3, <4>1, <4>2
    <3> QED
      BY <3>1, <3>2, <3>3
  <2>5. h = [t \in SUBSET (1..(n + 1)) |-> IF t = {} THEN start ELSE DecodeNext(h[t \ {Max(t)}], src[xs[Max(t)]], encoded[xs[Max(t)]], column, columns, unit)]
    BY <2>3, <2>4
  <2>6. DecodingFold(h, src, encoded, column, columns, unit, start, xs, n + 1)
    BY <2>5, Zenon DEF DecodingFold
  <2> QED
    BY <2>6
<1> QED
  <2> HIDE DEF T
  <2>1. Nat \subseteq T
    BY <1>1, <1>2, Induction
  <2> QED
    BY <2>1 DEF T

\* Decoding is the value of such a fold g.
DecodingIs(g, src, encoded, column, columns, unit, start, xs, n) ==
  /\ g[{}] = start /\ Decoding(src, encoded, column, columns, unit, start, xs, n) = g[1..n]
  /\ \A k \in 1..n : g[1..k] = DecodeNext(g[1..(k - 1)], src[xs[k]], encoded[xs[k]], column, columns, unit)

\* So is Decoding.
LEMMA DecodingIsFold ==
  ASSUME NEW src, NEW encoded, NEW column, NEW columns, NEW unit, NEW start, NEW xs
  PROVE  \A n \in Nat : \E g : DecodingIs(g, src, encoded, column, columns, unit, start, xs, n)
<1> TAKE n \in Nat
<1> DEFINE q == [i \in 1..n |-> xs[i]]
           g == CHOOSE g : DecodingFold(g, src, encoded, column, columns, unit, start, q, n)
<1>1. DOMAIN q = 1..n
  OBVIOUS
<1>2. Decoding(src, encoded, column, columns, unit, start, xs, n)
       = (CHOOSE f : f = [t \in SUBSET DOMAIN q |-> IF t = {} THEN start
         ELSE DecodeNext(f[t \ {Max(t)}], src[q[Max(t)]], encoded[q[Max(t)]], column, columns, unit)])[DOMAIN q]
  BY Zenon DEF Decoding, FoldLeft, MapThenFoldSet
<1>3. Decoding(src, encoded, column, columns, unit, start, xs, n) = g[1..n]
  BY <1>1, <1>2, Zenon DEF DecodingFold
<1>4. DecodingFold(g, src, encoded, column, columns, unit, start, q, n)
  <2> HIDE DEF q
  <2>1. \E f : DecodingFold(f, src, encoded, column, columns, unit, start, q, n)
    BY DecodingFoldExists
  <2> QED
    BY <2>1, Zenon
<1> HIDE DEF g
<1>5. g[{}] = start
  BY <1>4 DEF DecodingFold
<1>6. ASSUME NEW k \in 1..n  PROVE g[1..k]
       = DecodeNext(g[1..(k - 1)], src[xs[k]], encoded[xs[k]], column, columns, unit)
  <2>1. k \in Nat \ {0} /\ 1..k \in SUBSET (1..n) /\ q[k] = xs[k]
    OBVIOUS
  <2>2. Max(1..k) = k /\ (1..k) \ {k} = 1..(k - 1) /\ 1..k # {}
    BY <2>1, UpTo
  <2> HIDE DEF q
  <2>3. g[1..k] = DecodeNext(g[1..(k - 1)], src[q[k]], encoded[q[k]], column, columns, unit)
    BY <1>4, <2>1, <2>2 DEF DecodingFold
  <2> QED
    BY <2>1, <2>3
<1> QED
  BY <1>3, <1>5, <1>6 DEF DecodingIs

\* One element after the other.
LEMMA DecodingFirst ==
  ASSUME NEW src, NEW encoded, NEW column, NEW columns, NEW unit, NEW start, NEW xs
  PROVE  Decoding(src, encoded, column, columns, unit, start, xs, 0) = start
<1>1. 1..0 = {} /\ 0 \in Nat
  OBVIOUS
<1> QED
  BY <1>1, DecodingIsFold DEF DecodingIs

\* One row more is decoded after those before it.
LEMMA DecodingStep ==
  ASSUME NEW src, NEW encoded, NEW column, NEW columns, NEW unit, NEW start, NEW xs, NEW n \in Nat
  PROVE  Decoding(src, encoded, column, columns, unit, start, xs, n + 1)
         = DecodeNext(Decoding(src, encoded, column, columns, unit, start, xs, n), src[xs[n + 1]], encoded[xs[n + 1]], column, columns, unit)
<1>1. PICK g : DecodingIs(g, src, encoded, column, columns, unit, start, xs, n)
  BY DecodingIsFold
<1>2. n + 1 \in Nat
  OBVIOUS
<1>3. PICK h : DecodingIs(h, src, encoded, column, columns, unit, start, xs, n + 1)
  BY <1>2, DecodingIsFold
<1> USE DEF DecodingIs
<1> DEFINE T == {k \in Nat : k <= n => g[1..k] = h[1..k]}
<1>4. 0 \in T
  <2>1. 1..0 = {}
    OBVIOUS
  <2> QED
    BY <1>1, <1>3, <2>1
<1>5. ASSUME NEW k \in Nat, k \in T  PROVE k + 1 \in T
  <2> SUFFICES ASSUME k + 1 <= n  PROVE g[1..(k + 1)] = h[1..(k + 1)]
    OBVIOUS
  <2>1. k + 1 \in 1..n /\ k + 1 \in 1..(n + 1) /\ (k + 1) - 1 = k /\ k <= n
    OBVIOUS
  <2>2. g[1..k] = h[1..k]
    BY <1>5, <2>1
  <2>3. g[1..(k + 1)] = DecodeNext(g[1..k], src[xs[k + 1]], encoded[xs[k + 1]], column, columns, unit)
         /\ h[1..(k + 1)] = DecodeNext(h[1..k], src[xs[k + 1]], encoded[xs[k + 1]], column, columns, unit)
    BY <1>1, <1>3, <2>1
  <2> QED
    BY <2>2, <2>3
<1>6. n \in T
  <2> HIDE DEF T
  <2> QED
    BY <1>4, <1>5, Induction
<1>7. g[1..n] = h[1..n]
  BY <1>6
<1>8. n + 1 \in 1..(n + 1) /\ (n + 1) - 1 = n
  OBVIOUS
<1> QED
  BY <1>1, <1>3, <1>7, <1>8

-----------------------------------------------------------------------------
\* The first n columns, decoded
Reading(wire, unit, ids, start, xs, n) ==
  FoldLeft(LAMBDA a, x : DecodeColumn(a, wire.section[x], wire.columns[x], wire.columns, unit, ids), start, [i \in 1..n |-> xs[i]])

\* g is a fold as FoldLeft chooses one.
ReadingFold(g, wire, unit, ids, start, xs, n) ==
  g = [t \in SUBSET (1..n) |-> IF t = {} THEN start ELSE DecodeColumn(g[t \ {Max(t)}], wire.section[xs[Max(t)]], wire.columns[xs[Max(t)]], wire.columns, unit, ids)]

\* There is a fold over the columns.
LEMMA ReadingFoldExists ==
  ASSUME NEW wire, NEW unit, NEW ids, NEW start, NEW xs
  PROVE  \A n \in Nat : \E g : ReadingFold(g, wire, unit, ids, start, xs, n)
<1> DEFINE T == {n \in Nat : \E g : ReadingFold(g, wire, unit, ids, start, xs, n)}
<1>1. 0 \in T
  <2>1. SUBSET (1..0) = {{}}
    OBVIOUS
  <2>2. ReadingFold([t \in SUBSET (1..0) |-> start], wire, unit, ids, start, xs, 0)
    BY <2>1 DEF ReadingFold
  <2> QED
    BY <2>2
<1>2. ASSUME NEW n \in Nat, n \in T  PROVE n + 1 \in T
  <2>1. PICK g : ReadingFold(g, wire, unit, ids, start, xs, n)
    BY <1>2
  <2>2. PICK top : top = [u \in SUBSET (1..n) |-> DecodeColumn(g[u], wire.section[xs[n + 1]], wire.columns[xs[n + 1]], wire.columns, unit, ids)]
    OBVIOUS
  <2>3. PICK h : h = [t \in SUBSET (1..(n + 1)) |-> IF n + 1 \in t THEN top[t \ {n + 1}] ELSE g[t]]
    OBVIOUS
  <2>4. ASSUME NEW t \in SUBSET (1..(n + 1))
        PROVE  h[t]
               = IF t = {} THEN start
                 ELSE DecodeColumn(h[t \ {Max(t)}], wire.section[xs[Max(t)]], wire.columns[xs[Max(t)]], wire.columns, unit, ids)
    <3>1. CASE t = {}
      <4>1. h[t] = g[t] /\ t \in SUBSET (1..n)
        BY <2>3, <3>1, Longer
      <4> QED
        BY <2>1, <3>1, <4>1 DEF ReadingFold
    <3>2. CASE n + 1 \in t
      <4>1. /\ t # {} /\ Max(t) = n + 1 /\ h[t] = top[t \ {n + 1}]
            /\ t \ {n + 1} \in SUBSET (1..n) /\ h[t \ {n + 1}] = g[t \ {n + 1}]
        BY <2>3, <3>2, Longer
      <4> QED
        BY <2>2, <4>1
    <3>3. CASE t # {} /\ n + 1 \notin t
      <4>1. t \in SUBSET (1..n) /\ h[t] = g[t] /\ h[t \ {Max(t)}] = g[t \ {Max(t)}]
        BY <2>3, <3>3, Longer
      <4>2. g[t]
             = DecodeColumn(g[t \ {Max(t)}], wire.section[xs[Max(t)]], wire.columns[xs[Max(t)]], wire.columns, unit, ids)
        BY <2>1, <3>3, <4>1 DEF ReadingFold
      <4> QED
        BY <3>3, <4>1, <4>2
    <3> QED
      BY <3>1, <3>2, <3>3
  <2>5. h = [t \in SUBSET (1..(n + 1)) |-> IF t = {} THEN start ELSE DecodeColumn(h[t \ {Max(t)}], wire.section[xs[Max(t)]], wire.columns[xs[Max(t)]], wire.columns, unit, ids)]
    BY <2>3, <2>4
  <2>6. ReadingFold(h, wire, unit, ids, start, xs, n + 1)
    BY <2>5, Zenon DEF ReadingFold
  <2> QED
    BY <2>6
<1> QED
  <2> HIDE DEF T
  <2>1. Nat \subseteq T
    BY <1>1, <1>2, Induction
  <2> QED
    BY <2>1 DEF T

\* Reading is the value of such a fold g.
ReadingIs(g, wire, unit, ids, start, xs, n) ==
  /\ g[{}] = start /\ Reading(wire, unit, ids, start, xs, n) = g[1..n]
  /\ \A k \in 1..n : g[1..k]
         = DecodeColumn(g[1..(k - 1)], wire.section[xs[k]], wire.columns[xs[k]], wire.columns, unit, ids)

\* So is Reading.
LEMMA ReadingIsFold ==
  ASSUME NEW wire, NEW unit, NEW ids, NEW start, NEW xs
  PROVE  \A n \in Nat : \E g : ReadingIs(g, wire, unit, ids, start, xs, n)
<1> TAKE n \in Nat
<1> DEFINE q == [i \in 1..n |-> xs[i]]
           g == CHOOSE g : ReadingFold(g, wire, unit, ids, start, q, n)
<1>1. DOMAIN q = 1..n
  OBVIOUS
<1>2. Reading(wire, unit, ids, start, xs, n)
       = (CHOOSE f : f = [t \in SUBSET DOMAIN q |-> IF t = {} THEN start
         ELSE DecodeColumn(f[t \ {Max(t)}], wire.section[q[Max(t)]], wire.columns[q[Max(t)]], wire.columns, unit, ids)])[DOMAIN q]
  BY Zenon DEF Reading, FoldLeft, MapThenFoldSet
<1>3. Reading(wire, unit, ids, start, xs, n) = g[1..n]
  BY <1>1, <1>2, Zenon DEF ReadingFold
<1>4. ReadingFold(g, wire, unit, ids, start, q, n)
  <2> HIDE DEF q
  <2>1. \E f : ReadingFold(f, wire, unit, ids, start, q, n)
    BY ReadingFoldExists
  <2> QED
    BY <2>1, Zenon
<1> HIDE DEF g
<1>5. g[{}] = start
  BY <1>4 DEF ReadingFold
<1>6. ASSUME NEW k \in 1..n  PROVE g[1..k]
       = DecodeColumn(g[1..(k - 1)], wire.section[xs[k]], wire.columns[xs[k]], wire.columns, unit, ids)
  <2>1. k \in Nat \ {0} /\ 1..k \in SUBSET (1..n) /\ q[k] = xs[k]
    OBVIOUS
  <2>2. Max(1..k) = k /\ (1..k) \ {k} = 1..(k - 1) /\ 1..k # {}
    BY <2>1, UpTo
  <2> HIDE DEF q
  <2>3. g[1..k] = DecodeColumn(g[1..(k - 1)], wire.section[q[k]], wire.columns[q[k]], wire.columns, unit, ids)
    BY <1>4, <2>1, <2>2 DEF ReadingFold
  <2> QED
    BY <2>1, <2>3
<1> QED
  BY <1>3, <1>5, <1>6 DEF ReadingIs

\* One element after the other.
LEMMA ReadingFirst ==
  ASSUME NEW wire, NEW unit, NEW ids, NEW start, NEW xs
  PROVE  Reading(wire, unit, ids, start, xs, 0) = start
<1>1. 1..0 = {} /\ 0 \in Nat
  OBVIOUS
<1> QED
  BY <1>1, ReadingIsFold DEF ReadingIs

\* One column more is decoded after those before it.
LEMMA ReadingStep ==
  ASSUME NEW wire, NEW unit, NEW ids, NEW start, NEW xs, NEW n \in Nat
  PROVE  Reading(wire, unit, ids, start, xs, n + 1)
         = DecodeColumn(Reading(wire, unit, ids, start, xs, n), wire.section[xs[n + 1]], wire.columns[xs[n + 1]], wire.columns, unit, ids)
<1>1. PICK g : ReadingIs(g, wire, unit, ids, start, xs, n)
  BY ReadingIsFold
<1>2. n + 1 \in Nat
  OBVIOUS
<1>3. PICK h : ReadingIs(h, wire, unit, ids, start, xs, n + 1)
  BY <1>2, ReadingIsFold
<1> USE DEF ReadingIs
<1> DEFINE T == {k \in Nat : k <= n => g[1..k] = h[1..k]}
<1>4. 0 \in T
  <2>1. 1..0 = {}
    OBVIOUS
  <2> QED
    BY <1>1, <1>3, <2>1
<1>5. ASSUME NEW k \in Nat, k \in T  PROVE k + 1 \in T
  <2> SUFFICES ASSUME k + 1 <= n  PROVE g[1..(k + 1)] = h[1..(k + 1)]
    OBVIOUS
  <2>1. k + 1 \in 1..n /\ k + 1 \in 1..(n + 1) /\ (k + 1) - 1 = k /\ k <= n
    OBVIOUS
  <2>2. g[1..k] = h[1..k]
    BY <1>5, <2>1
  <2>3. g[1..(k + 1)] = DecodeColumn(g[1..k], wire.section[xs[k + 1]], wire.columns[xs[k + 1]], wire.columns, unit, ids)
         /\ h[1..(k + 1)] = DecodeColumn(h[1..k], wire.section[xs[k + 1]], wire.columns[xs[k + 1]], wire.columns, unit, ids)
    BY <1>1, <1>3, <2>1
  <2> QED
    BY <2>2, <2>3
<1>6. n \in T
  <2> HIDE DEF T
  <2> QED
    BY <1>4, <1>5, Induction
<1>7. g[1..n] = h[1..n]
  BY <1>6
<1>8. n + 1 \in 1..(n + 1) /\ (n + 1) - 1 = n
  OBVIOUS
<1> QED
  BY <1>1, <1>3, <1>7, <1>8

-----------------------------------------------------------------------------
(* Members in order, and their differences                                  *)

IsSeq(q) == q \in Seq(ToSet(q))

\* Every sequence over a set is one for the lemmas below.
LEMMA SeqIs ==
  ASSUME NEW S, NEW q \in Seq(S)
  PROVE  IsSeq(q)
<1>1. Len(q) \in Nat /\ DOMAIN q = 1..Len(q) /\ q = [i \in 1..Len(q) |-> q[i]]
  OBVIOUS
<1>2. \A i \in 1..Len(q) : q[i] \in ToSet(q)
  BY <1>1 DEF ToSet
<1> HIDE DEF IsSeq
<1>3. [i \in 1..Len(q) |-> q[i]] \in Seq(ToSet(q))
  BY <1>1, <1>2, IsASeq
<1> QED
  BY <1>1, <1>3 DEF IsSeq

\* What is known of a sequence and its length
LEMMA SeqHas ==
  ASSUME NEW q, IsSeq(q)
  PROVE  Len(q) \in Nat /\ DOMAIN q = 1..Len(q) /\ q = [i \in 1..Len(q) |-> q[i]]
BY DEF IsSeq

\* A function over 1..n is a sequence.
LEMMA ListIsSeq ==
  ASSUME NEW n \in Nat, NEW q, q = [i \in 1..n |-> q[i]]
  PROVE  IsSeq(q) /\ Len(q) = n
<1>1. q \in [1..n -> ToSet(q)]
  BY DEF ToSet
<1>2. q \in Seq(ToSet(q))
  BY <1>1
<1> QED
  BY <1>1, <1>2 DEF IsSeq

\* The numbers of a list are the members of S up to n, in order.
Ascends(a, S, n) ==
  /\ a \in Seq(Nat)
  /\ \A i \in 1..Len(a) : a[i] \in S /\ a[i] \in 1..n
  /\ \A p \in 1..n : p \in S => \E i \in 1..Len(a) : a[i] = p
  /\ \A i, j \in 1..Len(a) : i < j => a[i] < a[j]

\* One number more
LEMMA AscendsFurther ==
  ASSUME NEW a, NEW S, NEW n \in Nat, Ascends(a, S, n)
  PROVE  Ascends(ListIf(a, n + 1, S), S, n + 1)
<1>1. CASE n + 1 \notin S
  <2>1. ListIf(a, n + 1, S) = a
    BY <1>1 DEF ListIf
  <2>2. \A p \in 1..(n + 1) : p \in S => p \in 1..n
    BY <1>1
  <2>3. Ascends(a, S, n + 1)
    BY <2>2 DEF Ascends
  <2> QED
    BY <2>1, <2>3
<1>2. CASE n + 1 \in S
  <2>1. PICK b : b = Append(a, n + 1)
    OBVIOUS
  <2>2. ListIf(a, n + 1, S) = b
    BY <1>2, <2>1 DEF ListIf
  <2>3. a \in Seq(Nat)
    BY DEF Ascends
  <2>4. /\ b \in Seq(Nat) /\ Len(b) = Len(a) + 1 /\ Len(a) \in Nat /\ b[Len(a) + 1] = n + 1
        /\ \A i \in 1..Len(a) : b[i] = a[i]
    BY <2>1, <2>3
  <2>5. \A i \in 1..Len(b) : b[i] \in S /\ b[i] \in 1..(n + 1)
    <3> TAKE i \in 1..Len(b)
    <3>1. CASE i \in 1..Len(a)
      <4>1. b[i] = a[i] /\ a[i] \in S /\ a[i] \in 1..n
        BY <2>4, <3>1 DEF Ascends
      <4> QED
        BY <4>1
    <3>2. CASE i = Len(a) + 1
      BY <1>2, <2>4, <3>2
    <3> QED
      BY <2>4, <3>1, <3>2
  <2>6. ASSUME NEW p \in 1..(n + 1), p \in S  PROVE \E i \in 1..Len(b) : b[i] = p
    <3>1. CASE p \in 1..n
      <4>1. PICK i \in 1..Len(a) : a[i] = p
        BY <2>6, <3>1 DEF Ascends
      <4>2. i \in 1..Len(b) /\ b[i] = p
        BY <2>4, <4>1
      <4> QED
        BY <4>2
    <3>2. CASE p = n + 1
      <4>1. Len(a) + 1 \in 1..Len(b) /\ b[Len(a) + 1] = p
        BY <2>4, <3>2
      <4> QED
        BY <4>1
    <3> QED
      BY <3>1, <3>2
  <2>7. ASSUME NEW i \in 1..Len(b), NEW j \in 1..Len(b), i < j  PROVE b[i] < b[j]
    <3>1. i \in 1..Len(a) /\ b[i] = a[i] /\ a[i] \in 1..n
      BY <2>4, <2>7 DEF Ascends
    <3>2. CASE j \in 1..Len(a)
      <4>1. b[j] = a[j] /\ a[i] < a[j]
        BY <2>4, <2>7, <3>1, <3>2 DEF Ascends
      <4> QED
        BY <3>1, <4>1
    <3>3. CASE j = Len(a) + 1
      BY <2>4, <3>1, <3>3
    <3> QED
      BY <2>4, <3>2, <3>3
  <2>8. Ascends(b, S, n + 1)
    BY <2>4, <2>5, <2>6, <2>7 DEF Ascends
  <2> QED
    BY <2>2, <2>8
<1> QED
  BY <1>1, <1>2

\* Ascending is what its name says.
LEMMA AscendingIs ==
  ASSUME NEW S, NEW n \in Nat
  PROVE  Ascends(Ascending(S, n), S, n)
<1>1. PICK xs : xs = [p \in 1..n |-> p]
  OBVIOUS
<1>2. xs = [p \in 1..n |-> xs[p]]
  BY <1>1
<1>3. Ascending(S, n) = Listing(S, <<>>, xs, n)
  <2>1. FoldLeft(LAMBDA list, p : ListIf(list, p, S), <<>>, [p \in 1..n |-> xs[p]]) = Listing(S, <<>>, xs, n)
    BY Zenon DEF Listing
  <2>2. FoldLeft(LAMBDA list, p : ListIf(list, p, S), <<>>, [p \in 1..n |-> p]) = Listing(S, <<>>, xs, n)
    BY <1>1, <1>2, <2>1, Zenon
  <2> QED
    BY <2>2, Zenon DEF Ascending
<1> DEFINE T == {k \in Nat : k <= n => Ascends(Listing(S, <<>>, xs, k), S, k)}
<1>4. 0 \in T
  <2>1. Listing(S, <<>>, xs, 0) = <<>>
    BY ListingFirst
  <2>2. Ascends(<<>>, S, 0)
    BY DEF Ascends
  <2> QED
    BY <2>1, <2>2
<1>5. ASSUME NEW k \in Nat, k \in T  PROVE k + 1 \in T
  <2> SUFFICES ASSUME k + 1 <= n  PROVE Ascends(Listing(S, <<>>, xs, k + 1), S, k + 1)
    OBVIOUS
  <2>1. k <= n /\ k + 1 \in 1..n
    OBVIOUS
  <2>2. xs[k + 1] = k + 1
    BY <1>1, <2>1
  <2>3. Listing(S, <<>>, xs, k + 1) = ListIf(Listing(S, <<>>, xs, k), k + 1, S)
    BY <2>2, ListingStep
  <2>4. Ascends(Listing(S, <<>>, xs, k), S, k)
    BY <1>5, <2>1
  <2> QED
    BY <2>3, <2>4, AscendsFurther
<1>6. n \in T
  <2> HIDE DEF T
  <2> QED
    BY <1>4, <1>5, Induction
<1> QED
  BY <1>3, <1>6

\* A list of n integers, and the steps of a list
Numbers(s, n) == s = [i \in 1..n |-> s[i]] /\ \A i \in 1..n : s[i] \in Int
\* The steps from each number of a list to the next
Steps(steps, s, n) == steps = [i \in 1..n |-> steps[i]] /\ \A i \in 1..n : steps[i] = s[i + 1] - s[i]

\* Sums of differences: a list is its first number and the steps from one to the next.
LEMMA SumsOfDifferences ==
  ASSUME NEW n \in Nat, NEW s, Numbers(s, n + 1), NEW first, first = s[1], NEW steps, Steps(steps, s, n)
  PROVE  Sums(first, steps) = s
<1>1. Sums(first, steps) = Summing(<<first>>, steps, n)
  <2>1. FoldLeft(LAMBDA sums, step : Further(sums, step), <<first>>, [i \in 1..n |-> steps[i]]) = Summing(<<first>>, steps, n)
    BY Zenon DEF Summing
  <2>2. FoldLeft(LAMBDA sums, step : Further(sums, step), <<first>>, steps) = Summing(<<first>>, steps, n)
    BY <2>1, Zenon DEF Steps
  <2> QED
    BY <2>2, Zenon DEF Sums
<1> DEFINE P(k) == [i \in 1..(k + 1) |-> s[i]]
           T == {k \in Nat : k <= n => Summing(<<first>>, steps, k) = P(k)}
<1>2. 0 \in T
  <2>1. Summing(<<first>>, steps, 0) = <<first>>
    BY SummingFirst
  <2>2. P(0) = <<first>>
    <3>1. 1..(0 + 1) = {1} /\ s[1] = first
      OBVIOUS
    <3> QED
      BY <3>1
  <2> QED
    BY <2>1, <2>2
<1>3. ASSUME NEW k \in Nat, k \in T  PROVE k + 1 \in T
  <2> SUFFICES ASSUME k + 1 <= n  PROVE Summing(<<first>>, steps, k + 1) = P(k + 1)
    OBVIOUS
  <2>1. k <= n /\ k + 1 \in 1..n /\ k + 1 \in 1..(n + 1) /\ k + 2 \in 1..(n + 1) /\ (k + 1) + 1 = k + 2
    OBVIOUS
  <2>2. Summing(<<first>>, steps, k + 1) = Further(P(k), steps[k + 1])
    <3>1. Summing(<<first>>, steps, k) = P(k)
      BY <1>3, <2>1
    <3> HIDE DEF P
    <3> QED
      BY <3>1, SummingStep
  <2>3. PICK p : p = P(k)
    OBVIOUS
  <2>4. p \in Seq(Int) /\ Len(p) = k + 1 /\ \A i \in 1..(k + 1) : p[i] = s[i]
    <3>1. p \in [1..(k + 1) -> Int]
      BY <2>1, <2>3 DEF Numbers
    <3> QED
      BY <2>3, <3>1
  <2>5. Last(p) + steps[k + 1] = s[k + 2]
    <3>1. Last(p) = p[k + 1] /\ k + 1 \in 1..(k + 1)
      BY <2>4 DEF Last
    <3>2. steps[k + 1] = s[k + 2] - s[k + 1] /\ s[k + 2] \in Int /\ s[k + 1] \in Int
      BY <2>1 DEF Numbers, Steps
    <3> QED
      BY <2>4, <3>1, <3>2
  <2>6. PICK u, v : u = Append(p, s[k + 2]) /\ v = P(k + 1)
    OBVIOUS
  <2>7. u \in Seq(Int) /\ Len(u) = k + 2 /\ u[k + 2] = s[k + 2] /\ \A i \in 1..(k + 1) : u[i] = p[i]
    <3>1. s[k + 2] \in Int
      BY <2>1 DEF Numbers
    <3> QED
      BY <2>4, <2>6, <3>1
  <2>8. v = [i \in 1..(k + 2) |-> s[i]]
    BY <2>1, <2>6
  <2>9. u = v
    <3>1. u = [i \in 1..(k + 2) |-> u[i]]
      BY <2>7
    <3>2. ASSUME NEW i \in 1..(k + 2)  PROVE u[i] = s[i]
      <4>1. CASE i \in 1..(k + 1)
        BY <2>4, <2>7, <4>1
      <4>2. CASE i = k + 2
        BY <2>7, <4>2
      <4> QED
        BY <4>1, <4>2
    <3> QED
      BY <2>8, <3>1, <3>2
  <2> QED
    BY <2>2, <2>3, <2>5, <2>6, <2>9 DEF Further
<1>4. n \in T
  <2> HIDE DEF T
  <2> QED
    BY <1>2, <1>3, Induction
<1>5. P(n) = s
  BY DEF Numbers
<1> QED
  BY <1>1, <1>4, <1>5

\* The positions before which there are these gaps
LEMMA PositionsOfGaps ==
  ASSUME NEW s \in Seq(Nat)
  PROVE  Positions(Gaps(s)) = s
<1>1. PICK n, gaps : n = Len(s) /\ gaps = Gaps(s)
  OBVIOUS
<1>2. n \in Nat /\ s = [i \in 1..n |-> s[i]] /\ DOMAIN s = 1..n /\ \A i \in 1..n : s[i] \in Nat
  BY <1>1
<1>3. DOMAIN gaps = 1..n /\ \A i \in 1..n : gaps[i] = (IF i = 1 THEN s[1] ELSE s[i] - s[i - 1]) - 1
  BY <1>1, <1>2 DEF Gaps
<1>4. PICK steps : steps = [i \in 1..n |-> gaps[i] + 1]
  OBVIOUS
<1>5. PICK q : q = [i \in 1..(n + 1) |-> IF i = 1 THEN 0 ELSE s[i - 1]]
  OBVIOUS
<1>6. q[1] = 0 /\ \A i \in 1..n : q[i + 1] = s[i]
  <2>1. 1 \in 1..(n + 1)
    BY <1>2
  <2>2. \A i \in 1..n : i + 1 \in 1..(n + 1) /\ i + 1 # 1 /\ (i + 1) - 1 = i
    BY <1>2
  <2> QED
    BY <1>5, <2>1, <2>2
<1>7. \A i \in 1..(n + 1) : q[i] \in Nat
  <2>1. \A i \in 1..(n + 1) : i # 1 => i - 1 \in 1..n
    BY <1>2
  <2> QED
    BY <1>2, <1>5, <2>1
<1>8. \A i \in 1..n : steps[i] = q[i + 1] - q[i]
  <2> TAKE i \in 1..n
  <2>1. s[i] \in Nat /\ steps[i] = ((IF i = 1 THEN s[1] ELSE s[i] - s[i - 1]) - 1) + 1 /\ q[i + 1] = s[i]
    BY <1>2, <1>3, <1>4, <1>6
  <2>2. CASE i = 1
    BY <1>6, <2>1, <2>2
  <2>3. CASE i # 1
    <3>1. i - 1 \in 1..n /\ i \in 1..(n + 1)
      BY <1>2, <2>3
    <3>2. q[i] = s[i - 1] /\ s[i - 1] \in Nat
      BY <1>2, <1>5, <2>3, <3>1
    <3> QED
      BY <2>1, <2>3, <3>2
  <2> QED
    BY <2>2, <2>3
<1>9. Sums(0, steps) = q
  <2>1. Numbers(q, n + 1) /\ Steps(steps, q, n)
    <3>1. q = [i \in 1..(n + 1) |-> q[i]]
      BY <1>5
    <3>2. steps = [i \in 1..n |-> steps[i]]
      BY <1>4
    <3>3. \A i \in 1..(n + 1) : q[i] \in Int
      BY <1>7
    <3> QED
      BY <1>8, <3>1, <3>2, <3>3, Zenon DEF Numbers, Steps
  <2>2. 0 = q[1]
    BY <1>6
  <2> QED
    BY <1>2, <2>1, <2>2, SumsOfDifferences
<1>10. Tail(q) = s
  <2>1. q \in Seq(Nat) /\ Len(q) = n + 1
    <3>1. q \in [1..(n + 1) -> Nat]
      BY <1>5, <1>7
    <3> QED
      BY <1>2, <3>1
  <2>2. PICK t : t = Tail(q)
    OBVIOUS
  <2>3. t \in Seq(Nat) /\ Len(t) = n /\ \A i \in 1..n : t[i] = q[i + 1]
    BY <1>2, <2>1, <2>2
  <2>4. t = [i \in 1..n |-> t[i]] /\ \A i \in 1..n : t[i] = s[i]
    BY <1>6, <2>3
  <2> QED
    BY <1>2, <2>2, <2>4
<1>11. Positions(gaps) = Tail(Sums(0, steps))
  <2>1. steps = [i \in DOMAIN gaps |-> gaps[i] + 1]
    BY <1>3, <1>4
  <2> QED
    BY <2>1, Zenon DEF Positions
<1> QED
  BY <1>1, <1>9, <1>10, <1>11

-----------------------------------------------------------------------------
(* A row of a column                                                        *)

IsProcess(q) ==
  /\ q = [id |-> q.id, total |-> q.total, name |-> q.name, memory |-> q.memory]
  /\ DOMAIN q.memory \subseteq ToSet(Columns)
  /\ q.memory \in [DOMAIN q.memory -> Nat]

RowTrue(ps, ids) == IsSeq(ps) /\ \A p \in 1..Len(ps) : IsProcess(ps[p]) /\ ps[p].id \in ids

\* A multiple of the unit is so many units.
LEMMA WholeUnits ==
  ASSUME NEW n \in Nat, NEW unit \in Nat \ {0}
  PROVE  n \div unit \in Nat /\ (n \div unit) * unit \in Nat /\ ((n \div unit) * unit) \div unit = n \div unit
<1>1. PICK k : k = n \div unit
  OBVIOUS
<1>2. k \in Nat
  BY <1>1
<1>3. k * unit \in Nat
  BY <1>2
<1>4. (k * unit) \div unit = k
  <2>1. PICK m, j : m = k * unit /\ j = m \div unit
    OBVIOUS
  <2>2. m \in Nat /\ j \in Int /\ j * unit <= m /\ m < j * unit + unit
    BY <1>3, <2>1
  <2>3. j * unit <= k * unit /\ k * unit < (j + 1) * unit
    BY <1>2, <2>1, <2>2
  <2>4. j <= k
    <3>1. CASE j > k
      <4>1. (k + 1) * unit <= j * unit
        BY <1>2, <2>2, <3>1
      <4>2. (k + 1) * unit = k * unit + unit
        BY <1>2
      <4> QED
        BY <1>2, <1>3, <2>2, <2>3, <4>1, <4>2
    <3> QED
      BY <1>2, <2>2, <3>1
  <2>5. k < j + 1
    <3>1. CASE k >= j + 1
      <4>1. (j + 1) * unit <= k * unit
        BY <1>2, <2>2, <3>1
      <4> QED
        BY <1>2, <1>3, <2>2, <2>3, <4>1
    <3> QED
      BY <1>2, <2>2, <3>1
  <2> QED
    BY <1>2, <2>1, <2>2, <2>4, <2>5
<1> QED
  BY <1>1, <1>2, <1>3, <1>4

\* A process with other memory
LEMMA WithMemoryIs ==
  ASSUME NEW q, NEW memory, IsProcess(q)
  PROVE  WithMemory(q, memory) = [id |-> q.id, total |-> q.total, name |-> q.name, memory |-> memory]
BY DEF WithMemory, IsProcess

\* One more column to a process that has a value in it
LEMMA PutIs ==
  ASSUME NEW q, NEW K, NEW c, NEW unit, IsProcess(q), c \in DOMAIN q.memory
  PROVE  Put(WithMemory(q, Rounded(q.memory, K, unit)), c, (q.memory[c] \div unit) * unit)
           = WithMemory(q, Rounded(q.memory, K \cup {c}, unit))
<1>1. PICK f, g, v, x : f = Rounded(q.memory, K, unit) /\ g = Rounded(q.memory, K \cup {c}, unit)
                        /\ v = (q.memory[c] \div unit) * unit /\ x = WithMemory(q, f)
  OBVIOUS
<1>2. [d \in DOMAIN f \cup {c} |-> IF d = c THEN v ELSE f[d]] = g
  BY <1>1 DEF Rounded
<1>3. x = [id |-> q.id, total |-> q.total, name |-> q.name, memory |-> f]
  BY <1>1, WithMemoryIs
<1>4. Put(x, c, v) = [id |-> q.id, total |-> q.total, name |-> q.name, memory |-> g]
  <2>1. x.memory = f
    BY <1>3
  <2>2. Put(x, c, v) = [x EXCEPT !.memory = g]
    BY <1>2, <2>1, Zenon DEF Put
  <2> QED
    BY <1>3, <2>2
<1>5. WithMemory(q, g) = [id |-> q.id, total |-> q.total, name |-> q.name, memory |-> g]
  BY WithMemoryIs
<1> QED
  BY <1>1, <1>4, <1>5

\* One more column to a process that has none in it
LEMMA NothingPut ==
  ASSUME NEW q, NEW K, NEW c, NEW unit, c \notin DOMAIN q.memory
  PROVE  Rounded(q.memory, K \cup {c}, unit) = Rounded(q.memory, K, unit)
BY DEF Rounded

\* A peak is counted from the same for encoder and decoder.
LEMMA BaseSame ==
  ASSUME NEW q, NEW K, NEW column, NEW columns, NEW unit \in Nat \ {0}, IsProcess(q),
         column = "peak" /\ Contains(columns, "owned") => "owned" \in K,
         NEW x, x = WithMemory(q, Rounded(q.memory, K, unit))
  PROVE  Base(x, column, columns, unit) = Base(q, column, columns, unit) /\ Base(q, column, columns, unit) \in Nat
<1>1. PICK f : f = Rounded(q.memory, K, unit)
  OBVIOUS
<1>2. x.memory = f
  BY <1>1, WithMemoryIs
<1>3. CASE column = "peak" /\ Contains(columns, "owned")
  <2>1. "owned" \in DOMAIN f <=> "owned" \in DOMAIN q.memory
    BY <1>1, <1>3 DEF Rounded
  <2>2. CASE "owned" \in DOMAIN q.memory
    <3>1. q.memory["owned"] \in Nat
      BY <2>2 DEF IsProcess
    <3>2. f["owned"] = (q.memory["owned"] \div unit) * unit
      BY <1>1, <2>1, <2>2 DEF Rounded
    <3>3. f["owned"] \div unit = q.memory["owned"] \div unit /\ q.memory["owned"] \div unit \in Nat
      BY <3>1, <3>2, WholeUnits
    <3>4. Base(x, column, columns, unit) = f["owned"] \div unit
      BY <1>2, <1>3, <2>1, <2>2 DEF Base
    <3>5. Base(q, column, columns, unit) = q.memory["owned"] \div unit
      BY <1>3, <2>2 DEF Base
    <3> QED
      BY <3>3, <3>4, <3>5
  <2>3. CASE "owned" \notin DOMAIN q.memory
    BY <1>2, <2>1, <2>3 DEF Base
  <2> QED
    BY <2>2, <2>3
<1>4. CASE ~(column = "peak" /\ Contains(columns, "owned"))
  BY <1>4 DEF Base
<1> QED
  BY <1>3, <1>4
\* A row without memory values of its own has those of KeptRow.
LEMMA KeptRowIs ==
  ASSUME NEW ids, NEW ps, RowTrue(ps, ids), NEW K, NEW unit, NEW x, x = KeptRow(ps, K, unit)
  PROVE  /\ IsSeq(x) /\ Len(x) = Len(ps) /\ DOMAIN x = 1..Len(ps)
         /\ \A p \in 1..Len(ps) : x[p] = WithMemory(ps[p], Rounded(ps[p].memory, K, unit)) /\ x[p].id = ps[p].id
<1>1. Len(ps) \in Nat /\ DOMAIN ps = 1..Len(ps)
  BY SeqHas DEF RowTrue
<1>2. x = [p \in 1..Len(ps) |-> x[p]] /\ \A p \in 1..Len(ps) : x[p] = WithMemory(ps[p], Rounded(ps[p].memory, K, unit))
  BY <1>1 DEF KeptRow
<1>3. IsSeq(x) /\ Len(x) = Len(ps)
  BY <1>1, <1>2, ListIsSeq
<1>4. ASSUME NEW p \in 1..Len(ps)  PROVE x[p].id = ps[p].id
  <2>1. PICK m : m = Rounded(ps[p].memory, K, unit)
    OBVIOUS
  <2>2. x[p] = WithMemory(ps[p], m) /\ IsProcess(ps[p])
    BY <1>2, <2>1 DEF RowTrue
  <2> QED
    BY <2>2, WithMemoryIs
<1> QED
  BY <1>1, <1>2, <1>3, <1>4

\* The units remembered of each process are numbers.
LEMMA RememberedInts ==
  ASSUME NEW ids, NEW had \in [ids -> Int], NEW identity, NEW H, NEW units \in [H -> Int]
  PROVE  Remembered(identity, units, had) \in [ids -> Int]
<1>1. ASSUME NEW id \in ids
      PROVE  (IF \E p \in DOMAIN units : identity[p] = id
              THEN units[CHOOSE p \in DOMAIN units : identity[p] = id] ELSE had[id]) \in Int
  <2>1. CASE \E p \in DOMAIN units : identity[p] = id
    <3>1. PICK k : k = CHOOSE p \in DOMAIN units : identity[p] = id
      OBVIOUS
    <3>2. k \in DOMAIN units
      BY <2>1, <3>1
    <3>3. units[k] \in Int
      BY <3>2
    <3> QED
      BY <2>1, <3>1, <3>3
  <2>2. CASE ~\E p \in DOMAIN units : identity[p] = id
    BY <2>2
  <2> QED
    BY <2>1, <2>2
<1>2. DOMAIN had = ids
  OBVIOUS
<1> QED
  BY <1>1, <1>2, Zenon DEF Remembered

\* What a row is read as, from what is written of it
RowReads(ps, K, column, columns, unit, had, ids) ==
  LET e == EncodeRow(ps, column, columns, unit, had)
      d == DecodeRow(KeptRow(ps, K, unit), [absent |-> e.absent, deltas |-> e.deltas], column, columns, unit, had)
  IN  /\ d.row = KeptRow(ps, K \cup {column}, unit)
      /\ d.previous = e.previous /\ e.previous \in [ids -> Int]
      /\ d.ok /\ (d.present <=> Having(ps, column) # {})

\* The values of a row come back, and what is remembered of it is the same.
LEMMA RowBack ==
  ASSUME NEW ids, NEW ps, RowTrue(ps, ids), NEW K, NEW column, NEW columns, NEW unit \in Nat \ {0},
         NEW had \in [ids -> Int], column = "peak" /\ Contains(columns, "owned") => "owned" \in K
  PROVE  RowReads(ps, K, column, columns, unit, had, ids)
<1>1. PICK n, H, x : n = Len(ps) /\ H = Having(ps, column) /\ x = KeptRow(ps, K, unit)
  OBVIOUS
<1>2. n \in Nat /\ DOMAIN ps = 1..n
  BY <1>1, SeqHas DEF RowTrue
<1>3. H \subseteq 1..n /\ \A p \in 1..n : p \in H <=> column \in DOMAIN ps[p].memory
  BY <1>1, <1>2 DEF Having
<1>4. /\ Len(x) = n /\ DOMAIN x = 1..n
      /\ \A p \in 1..n : x[p] = WithMemory(ps[p], Rounded(ps[p].memory, K, unit)) /\ x[p].id = ps[p].id
  BY <1>1, KeptRowIs
<1>5. PICK with, lost, units : /\ with = Ascending(H, n) /\ lost = Ascending(1..n \ H, n)
                               /\ units = [p \in H |-> Units(ps[p], column, columns, unit)]
  OBVIOUS
<1>6. Ascends(with, H, n) /\ Ascends(lost, 1..n \ H, n)
  BY <1>2, <1>5, AscendingIs
<1>7. PICK deltas, remembered : /\ deltas = [i \in DOMAIN with |-> units[with[i]] - had[ps[with[i]].id]]
                                /\ remembered = Remembered(Identity(ps), units, had)
  OBVIOUS
<1>8. EncodeRow(ps, column, columns, unit, had) = [absent |-> Gaps(lost), deltas |-> deltas, previous |-> remembered]
  BY <1>1, <1>2, <1>5, <1>7 DEF EncodeRow
<1>9. Positions(Gaps(lost)) = lost
  BY <1>6, PositionsOfGaps DEF Ascends
<1>10. ToSet(lost) = 1..n \ H
  <2>1. PICK A : A = 1..n \ H
    OBVIOUS
  <2>2. Ascends(lost, A, n) /\ A \subseteq 1..n
    BY <1>6, <2>1
  <2>3. ToSet(lost) = {lost[i] : i \in 1..Len(lost)}
    BY <2>2 DEF ToSet, Ascends
  <2>4. ASSUME NEW p \in A  PROVE p \in ToSet(lost)
    <3>1. PICK i \in 1..Len(lost) : lost[i] = p
      BY <2>2 DEF Ascends
    <3> QED
      BY <2>3, <3>1
  <2>5. ToSet(lost) \subseteq A
    BY <2>2, <2>3 DEF Ascends
  <2> QED
    BY <2>1, <2>4, <2>5
<1>11. ASSUME NEW p \in H
       PROVE  /\ units[p] \in Int /\ ps[p].memory[column] \in Nat /\ IsProcess(ps[p]) /\ ps[p].id \in ids
              /\ Base(x[p], column, columns, unit) = Base(ps[p], column, columns, unit)
              /\ units[p] + Base(x[p], column, columns, unit) = ps[p].memory[column] \div unit
  <2>1. p \in 1..n
    BY <1>3
  <2>2. IsProcess(ps[p]) /\ ps[p].id \in ids
    BY <1>1, <2>1 DEF RowTrue
  <2>3. ps[p].memory[column] \in Nat
    BY <1>3, <2>1, <2>2 DEF IsProcess
  <2>4. PICK y, b, m : y = x[p] /\ b = Base(ps[p], column, columns, unit) /\ m = ps[p].memory[column]
    OBVIOUS
  <2>5. y = WithMemory(ps[p], Rounded(ps[p].memory, K, unit))
    BY <1>4, <2>1, <2>4
  <2>6. Base(y, column, columns, unit) = b /\ b \in Nat
    BY <2>2, <2>4, <2>5, BaseSame
  <2>7. m \div unit \in Nat
    BY <2>3, <2>4, WholeUnits
  <2>8. units[p] = m \div unit - b
    BY <1>5, <2>4 DEF Units
  <2> QED
    BY <2>2, <2>3, <2>4, <2>6, <2>7, <2>8
<1>12. units \in [H -> Int]
  BY <1>5, <1>11
<1>13. remembered \in [ids -> Int]
  BY <1>7, <1>12, RememberedInts
<1>14. Identity(x) = Identity(ps)
  BY <1>2, <1>4 DEF Identity
<1>15. (1..n) \ (1..n \ H) = H
  BY <1>3
<1>16. PICK got : got = [p \in H |-> had[x[p].id] + deltas[CHOOSE i \in DOMAIN with : with[i] = p]]
  OBVIOUS
<1>17. got = units
  <2>1. ASSUME NEW p \in H  PROVE got[p] = units[p]
    <3>1. p \in 1..n
      BY <1>3
    <3>2. \E i \in DOMAIN with : with[i] = p
      BY <1>6, <3>1 DEF Ascends
    <3>3. PICK i : i = CHOOSE j \in DOMAIN with : with[j] = p
      OBVIOUS
    <3>4. i \in DOMAIN with /\ with[i] = p
      BY <3>2, <3>3
    <3>5. deltas[i] = units[p] - had[ps[p].id]
      BY <1>7, <3>4
    <3>6. got[p] = had[ps[p].id] + deltas[i]
      BY <1>4, <1>16, <3>1, <3>3
    <3>7. had[ps[p].id] \in Int /\ units[p] \in Int
      BY <1>11
    <3> QED
      BY <3>5, <3>6, <3>7
  <2>2. got = [p \in H |-> got[p]] /\ units = [p \in H |-> units[p]]
    BY <1>5, <1>16
  <2> QED
    BY <2>1, <2>2
<1>18. PICK value : value = [p \in H |-> (units[p] + Base(x[p], column, columns, unit)) * unit]
  OBVIOUS
<1>19. DOMAIN units = H /\ DOMAIN value = H
  BY <1>12, <1>18
<1>20. \A p \in H : value[p] = (ps[p].memory[column] \div unit) * unit /\ value[p] >= 0
  <2> TAKE p \in H
  <2>1. value[p] = (ps[p].memory[column] \div unit) * unit
    BY <1>11, <1>18
  <2>2. (ps[p].memory[column] \div unit) * unit \in Nat
    BY <1>11, WholeUnits
  <2> QED
    BY <2>1, <2>2
<1>21. PICK back : back = [p \in 1..n |-> IF p \in H THEN Put(x[p], column, value[p]) ELSE x[p]]
  OBVIOUS
<1>22. DecodeRow(x, [absent |-> Gaps(lost), deltas |-> deltas], column, columns, unit, had)
         = [row |-> back, previous |-> Remembered(Identity(x), units, had), present |-> H # {},
            ok |-> 1..n \ H \subseteq 1..n /\ \A p \in H : value[p] >= 0]
  <2>1. PICK w, A : w = [absent |-> Gaps(lost), deltas |-> deltas] /\ A = 1..n \ H
    OBVIOUS
  <2>2. w.absent = Gaps(lost) /\ w.deltas = deltas
    BY <2>1
  <2>3. ToSet(Positions(w.absent)) = A
    BY <1>9, <1>10, <2>1, <2>2
  <2>4. Ascending(DOMAIN x \ A, Len(x)) = with
    BY <1>4, <1>5, <1>15, <2>1
  <2>5. UnitsRead(x, with, deltas, had) = units
    <3>1. ToSet(with) = H
      <4>1. ToSet(with) = {with[i] : i \in 1..Len(with)}
        BY <1>6 DEF ToSet, Ascends
      <4>2. ASSUME NEW p \in H  PROVE p \in ToSet(with)
        <5>1. PICK i \in 1..Len(with) : with[i] = p
          BY <1>3, <1>6 DEF Ascends
        <5> QED
          BY <4>1, <5>1
      <4>3. ToSet(with) \subseteq H
        BY <1>6, <4>1 DEF Ascends
      <4> QED
        BY <4>2, <4>3
    <3> QED
      BY <1>16, <1>17, <3>1, Zenon DEF UnitsRead
  <2>6. ValuesRead(x, units, column, columns, unit) = value
    BY <1>18, <1>19, Zenon DEF ValuesRead
  <2>7. PutRow(x, column, value) = back
    BY <1>4, <1>19, <1>21, Zenon DEF PutRow
  <2>8. DecodeRow(x, w, column, columns, unit, had)
          = [row |-> PutRow(x, column, value), previous |-> Remembered(Identity(x), units, had),
             present |-> DOMAIN units # {}, ok |-> A \subseteq DOMAIN x /\ \A p \in DOMAIN value : value[p] >= 0]
    BY <2>2, <2>3, <2>4, <2>5, <2>6, Zenon DEF DecodeRow
  <2>9. DecodeRow(x, w, column, columns, unit, had)
          = [row |-> back, previous |-> Remembered(Identity(x), units, had),
             present |-> H # {}, ok |-> A \subseteq 1..n /\ \A p \in H : value[p] >= 0]
    BY <1>4, <1>19, <2>7, <2>8, Zenon
  <2> QED
    BY <2>1, <2>9, Zenon
<1>23. back = KeptRow(ps, K \cup {column}, unit)
  <2>1. PICK y : y = KeptRow(ps, K \cup {column}, unit)
    OBVIOUS
  <2>2. y = [p \in 1..n |-> y[p]] /\ \A p \in 1..n : y[p] = WithMemory(ps[p], Rounded(ps[p].memory, K \cup {column}, unit))
    BY <1>2, <2>1 DEF KeptRow
  <2>3. ASSUME NEW p \in 1..n  PROVE back[p] = y[p]
    <3>1. IsProcess(ps[p]) /\ x[p] = WithMemory(ps[p], Rounded(ps[p].memory, K, unit))
      BY <1>1, <1>4 DEF RowTrue
    <3>2. CASE p \in H
      <4>1. column \in DOMAIN ps[p].memory
        BY <1>3, <3>2
      <4>2. back[p] = Put(x[p], column, (ps[p].memory[column] \div unit) * unit)
        BY <1>20, <1>21, <3>2
      <4>3. PICK q : q = ps[p]
        OBVIOUS
      <4>4. column \in DOMAIN q.memory /\ IsProcess(q)
        BY <3>1, <4>1, <4>3
      <4>5. Put(WithMemory(q, Rounded(q.memory, K, unit)), column, (q.memory[column] \div unit) * unit)
              = WithMemory(q, Rounded(q.memory, K \cup {column}, unit))
        BY <4>4, PutIs
      <4> QED
        BY <2>2, <3>1, <4>2, <4>3, <4>5
    <3>3. CASE p \notin H
      <4>1. column \notin DOMAIN ps[p].memory
        BY <1>3, <3>3
      <4>2. back[p] = x[p]
        BY <1>21, <3>3
      <4>3. PICK q : q = ps[p]
        OBVIOUS
      <4>4. column \notin DOMAIN q.memory /\ IsProcess(q)
        BY <3>1, <4>1, <4>3
      <4>5. Rounded(q.memory, K \cup {column}, unit) = Rounded(q.memory, K, unit)
        BY <4>4, NothingPut
      <4> QED
        BY <2>2, <3>1, <4>2, <4>3, <4>5
    <3> QED
      BY <3>2, <3>3
  <2>4. back = [p \in 1..n |-> back[p]]
    BY <1>21
  <2>5. back = y
    BY <2>2, <2>3, <2>4
  <2> QED
    BY <2>1, <2>5
<1>24. PICK e : e = [absent |-> Gaps(lost), deltas |-> deltas, previous |-> remembered]
  OBVIOUS
<1>25. e.absent = Gaps(lost) /\ e.deltas = deltas /\ e.previous = remembered
  BY <1>24
<1>26. PICK d : d = [row |-> back, previous |-> Remembered(Identity(x), units, had), present |-> H # {},
                     ok |-> 1..n \ H \subseteq 1..n /\ \A p \in H : value[p] >= 0]
  OBVIOUS
<1>27. d.row = back /\ d.previous = remembered /\ (d.present <=> H # {}) /\ d.ok
  BY <1>7, <1>14, <1>20, <1>26
<1>28. e = EncodeRow(ps, column, columns, unit, had)
  BY <1>8, <1>24
<1>29. d = DecodeRow(KeptRow(ps, K, unit), [absent |-> e.absent, deltas |-> e.deltas], column, columns, unit, had)
  BY <1>1, <1>22, <1>25, <1>26, Zenon
<1> QED
  BY <1>1, <1>13, <1>23, <1>25, <1>27, <1>28, <1>29, Zenon DEF RowReads

-----------------------------------------------------------------------------
(* A column                                                                 *)

\* The value after those before it
LEMMA AppendIs ==
  ASSUME NEW n \in Nat, NEW f
  PROVE  Append([r \in 1..n |-> f[r]], f[n + 1]) = [r \in 1..(n + 1) |-> f[r]]
<1>1. PICK S, a, b : S = {f[r] : r \in 1..(n + 1)} /\ a = [r \in 1..n |-> f[r]] /\ b = [r \in 1..(n + 1) |-> f[r]]
  OBVIOUS
<1>2. f[n + 1] \in S /\ \A r \in 1..n : f[r] \in S
  BY <1>1
<1>3. a \in Seq(S) /\ Len(a) = n
  <2>1. a \in [1..n -> S]
    BY <1>1, <1>2
  <2> QED
    BY <2>1
<1>4. PICK c : c = Append(a, f[n + 1])
  OBVIOUS
<1>5. c = [r \in 1..(n + 1) |-> c[r]] /\ c[n + 1] = f[n + 1] /\ \A r \in 1..n : c[r] = a[r]
  <2>1. c \in Seq(S) /\ Len(c) = n + 1
    BY <1>2, <1>3, <1>4
  <2> QED
    BY <1>2, <1>3, <1>4, <2>1
<1>6. \A r \in 1..(n + 1) : c[r] = b[r]
  <2> TAKE r \in 1..(n + 1)
  <2>1. CASE r \in 1..n
    BY <1>1, <1>5, <2>1
  <2>2. CASE r = n + 1
    BY <1>1, <1>5, <2>2
  <2> QED
    BY <2>1, <2>2
<1>7. c = b
  BY <1>1, <1>5, <1>6
<1> QED
  BY <1>1, <1>4, <1>7

RowsTrue(rs, ids) == IsSeq(rs) /\ \A r \in 1..Len(rs) : RowTrue(rs[r], ids)

\* Before the first row
Nothing(ids) == [previous |-> [id \in ids |-> 0], rows |-> <<>>]

\* A row as it is written
Wire(e) == [absent |-> e.absent, deltas |-> e.deltas]

\* What is known of the first n rows of a column, encoded and decoded
LockStep(e, d, n, rs, K, column, unit, ids) ==
  /\ d.previous = e.previous /\ e.previous \in [ids -> Int]
  /\ d.rows = [r \in 1..n |-> KeptRow(rs[r], K \cup {column}, unit)]
  /\ d.ok /\ (d.present <=> \E r \in 1..n : Having(rs[r], column) # {})

\* The rows of a column are written one after the other.
LEMMA ColumnWritten ==
  ASSUME NEW ids, NEW rs, IsSeq(rs), NEW column, NEW columns, NEW unit
  PROVE  \A n \in 1..Len(rs) :
            EncodeColumn(rs, column, columns, unit, ids)[n]
              = Wire(EncodeRow(rs[n], column, columns, unit, Encoding(column, columns, unit, Nothing(ids), rs, n - 1).previous))
<1>1. PICK N, start : N = Len(rs) /\ start = Nothing(ids)
  OBVIOUS
<1>2. N \in Nat /\ rs = [r \in 1..N |-> rs[r]]
  BY <1>1, SeqHas
<1>3. EncodeColumn(rs, column, columns, unit, ids) = Encoding(column, columns, unit, start, rs, N).rows
  <2>1. FoldLeft(LAMBDA a, x : EncodeNext(a, x, column, columns, unit), start, [r \in 1..N |-> rs[r]])
          = Encoding(column, columns, unit, start, rs, N)
    BY Zenon DEF Encoding
  <2>2. FoldLeft(LAMBDA a, x : EncodeNext(a, x, column, columns, unit), Nothing(ids), rs)
          = Encoding(column, columns, unit, start, rs, N)
    BY <1>1, <1>2, <2>1, Zenon
  <2> QED
    BY <2>2, Zenon DEF EncodeColumn, Nothing
<1>4. PICK f : f = [r \in 1..N |-> Wire(EncodeRow(rs[r], column, columns, unit, Encoding(column, columns, unit, start, rs, r - 1).previous))]
  OBVIOUS
<1> DEFINE T == {n \in Nat : n <= N => Encoding(column, columns, unit, start, rs, n).rows = [r \in 1..n |-> f[r]]}
<1>5. 0 \in T
  <2>1. Encoding(column, columns, unit, start, rs, 0) = Nothing(ids)
    BY <1>1, EncodingFirst
  <2>2. Nothing(ids).rows = <<>>
    BY DEF Nothing
  <2>3. [r \in 1..0 |-> f[r]] = <<>>
    OBVIOUS
  <2> QED
    BY <2>1, <2>2, <2>3
<1>6. ASSUME NEW n \in Nat, n \in T  PROVE n + 1 \in T
  <2> SUFFICES ASSUME n + 1 <= N
               PROVE  Encoding(column, columns, unit, start, rs, n + 1).rows = [r \in 1..(n + 1) |-> f[r]]
    OBVIOUS
  <2>1. n <= N /\ n + 1 \in 1..N /\ (n + 1) - 1 = n
    BY <1>2
  <2>2. PICK e, x, z : /\ e = Encoding(column, columns, unit, start, rs, n) /\ x = rs[n + 1]
                       /\ z = EncodeRow(x, column, columns, unit, e.previous)
    OBVIOUS
  <2>3. Encoding(column, columns, unit, start, rs, n + 1) = EncodeNext(e, x, column, columns, unit)
    BY <2>2, EncodingStep
  <2>4. EncodeNext(e, x, column, columns, unit) = [previous |-> z.previous, rows |-> Append(e.rows, Wire(z))]
    BY <2>2, Zenon DEF EncodeNext, Wire
  <2>5. f[n + 1] = Wire(z)
    BY <1>4, <2>1, <2>2
  <2>6. e.rows = [r \in 1..n |-> f[r]]
    BY <1>6, <2>1, <2>2
  <2>7. Append(e.rows, Wire(z)) = [r \in 1..(n + 1) |-> f[r]]
    BY <2>5, <2>6, AppendIs
  <2> QED
    BY <2>3, <2>4, <2>7
<1>7. N \in T
  <2> HIDE DEF T
  <2> QED
    BY <1>2, <1>5, <1>6, Induction
<1>8. EncodeColumn(rs, column, columns, unit, ids) = [r \in 1..N |-> f[r]]
  BY <1>2, <1>3, <1>7
<1> QED
  BY <1>1, <1>4, <1>8

\* What a column is read as, from what is written of it
ColumnReads(rs, K, column, columns, unit, ids) ==
  DecodeColumn([rows |-> Kept(rs, K, unit), ok |-> TRUE], EncodeColumn(rs, column, columns, unit, ids),
               column, columns, unit, ids)
    = [rows |-> Kept(rs, K \cup {column}, unit), ok |-> TRUE]

\* Has some process of these rows a value in the column?
Used(rs, column) == \E r \in 1..Len(rs) : Having(rs[r], column) # {}

\* A column comes back: the decoder refuses it only if no process has a value in it.
LEMMA ColumnBack ==
  ASSUME NEW ids, NEW rs, RowsTrue(rs, ids), NEW K, NEW column, NEW columns, NEW unit \in Nat \ {0},
         column = "peak" /\ Contains(columns, "owned") => "owned" \in K,
         Used(rs, column)
  PROVE  ColumnReads(rs, K, column, columns, unit, ids)
<1>1. PICK N, start, begin, x, idx, encoded :
         /\ N = Len(rs) /\ start = Nothing(ids)
         /\ begin = [previous |-> [id \in ids |-> 0], rows |-> <<>>, present |-> FALSE, ok |-> TRUE]
         /\ x = Kept(rs, K, unit) /\ idx = [r \in 1..N |-> r]
         /\ encoded = EncodeColumn(rs, column, columns, unit, ids)
  OBVIOUS
<1>2. N \in Nat /\ DOMAIN rs = 1..N
  BY <1>1, SeqHas DEF RowsTrue
<1>3. x = [r \in 1..N |-> x[r]] /\ \A r \in 1..N : x[r] = KeptRow(rs[r], K, unit)
  BY <1>1, <1>2 DEF Kept
<1>4. \A n \in 1..N : encoded[n] = Wire(EncodeRow(rs[n], column, columns, unit, Encoding(column, columns, unit, start, rs, n - 1).previous))
  BY <1>1, ColumnWritten DEF RowsTrue
<1> DEFINE E(n) == Encoding(column, columns, unit, start, rs, n)
           D(n) == Decoding(x, encoded, column, columns, unit, begin, idx, n)
           T == {n \in Nat : n <= N => LockStep(E(n), D(n), n, rs, K, column, unit, ids)}
<1>5. 0 \in T
  <2>1. E(0) = start /\ D(0) = begin
    BY EncodingFirst, DecodingFirst
  <2>2. PICK zero : zero = [id \in ids |-> 0]
    OBVIOUS
  <2>3. zero \in [ids -> Int]
    BY <2>2
  <2>4. start = [previous |-> zero, rows |-> <<>>]
    BY <1>1, <2>2, Zenon DEF Nothing
  <2>5. begin = [previous |-> zero, rows |-> <<>>, present |-> FALSE, ok |-> TRUE]
    BY <1>1, <2>2, Zenon
  <2>6. start.previous = zero /\ begin.previous = zero /\ begin.rows = <<>> /\ ~begin.present /\ begin.ok
    BY <2>4, <2>5
  <2>7. [r \in 1..0 |-> KeptRow(rs[r], K \cup {column}, unit)] = <<>> /\ 1..0 = {}
    OBVIOUS
  <2>8. LockStep(start, begin, 0, rs, K, column, unit, ids)
    BY <2>3, <2>6, <2>7 DEF LockStep
  <2> QED
    BY <2>1, <2>8
<1>6. ASSUME NEW n \in Nat, n \in T  PROVE n + 1 \in T
  <2> SUFFICES ASSUME n + 1 <= N  PROVE LockStep(E(n + 1), D(n + 1), n + 1, rs, K, column, unit, ids)
    OBVIOUS
  <2>1. n <= N /\ n + 1 \in 1..N /\ (n + 1) - 1 = n
    BY <1>2
  <2>2. PICK e, d, ps, w : e = E(n) /\ d = D(n) /\ ps = rs[n + 1] /\ w = encoded[n + 1]
    OBVIOUS
  <2>3. LockStep(e, d, n, rs, K, column, unit, ids)
    BY <1>6, <2>1, <2>2
  <2>4. PICK had : had = e.previous
    OBVIOUS
  <2>5. had \in [ids -> Int] /\ d.previous = had /\ d.ok /\ (d.present <=> \E r \in 1..n : Having(rs[r], column) # {})
        /\ d.rows = [r \in 1..n |-> KeptRow(rs[r], K \cup {column}, unit)]
    BY <2>3, <2>4, Zenon DEF LockStep
  <2>6. RowTrue(ps, ids)
    BY <1>1, <2>1, <2>2 DEF RowsTrue
  <2>7. RowReads(ps, K, column, columns, unit, had, ids)
    BY <2>5, <2>6, RowBack
  <2>8. PICK z, y : /\ z = EncodeRow(ps, column, columns, unit, had)
                    /\ y = DecodeRow(KeptRow(ps, K, unit), Wire(z), column, columns, unit, had)
    OBVIOUS
  <2>9. /\ y.row = KeptRow(ps, K \cup {column}, unit) /\ y.previous = z.previous /\ z.previous \in [ids -> Int]
        /\ y.ok /\ (y.present <=> Having(ps, column) # {})
    BY <2>7, <2>8, Zenon DEF RowReads, Wire
  <2>10. w = Wire(z) /\ x[n + 1] = KeptRow(ps, K, unit) /\ idx[n + 1] = n + 1
    BY <1>1, <1>3, <1>4, <2>1, <2>2, <2>4, <2>8
  <2>11. E(n + 1) = [previous |-> z.previous, rows |-> Append(e.rows, Wire(z))]
    <3>1. E(n + 1) = EncodeNext(e, ps, column, columns, unit)
      BY <2>2, EncodingStep
    <3> HIDE DEF E
    <3> QED
      BY <2>4, <2>8, <3>1, Zenon DEF EncodeNext, Wire
  <2>12. D(n + 1) = [previous |-> y.previous, rows |-> Append(d.rows, y.row), present |-> d.present \/ y.present, ok |-> d.ok /\ y.ok]
    <3>1. D(n + 1) = DecodeNext(d, x[n + 1], encoded[n + 1], column, columns, unit)
      <4>1. D(n + 1) = DecodeNext(d, x[idx[n + 1]], encoded[idx[n + 1]], column, columns, unit)
        BY <2>2, DecodingStep
      <4> HIDE DEF D
      <4> QED
        BY <2>10, <4>1
    <3>2. DecodeRow(x[n + 1], encoded[n + 1], column, columns, unit, d.previous) = y
      BY <2>2, <2>5, <2>8, <2>10
    <3> HIDE DEF D
    <3> QED
      BY <3>1, <3>2, Zenon DEF DecodeNext
  <2>13. PICK f : f = [r \in 1..(n + 1) |-> KeptRow(rs[r], K \cup {column}, unit)]
    OBVIOUS
  <2>14. Append(d.rows, y.row) = [r \in 1..(n + 1) |-> KeptRow(rs[r], K \cup {column}, unit)]
    <3>1. y.row = f[n + 1]
      BY <2>1, <2>2, <2>9, <2>13
    <3>2. d.rows = [r \in 1..n |-> f[r]]
      <4>1. \A r \in 1..n : f[r] = KeptRow(rs[r], K \cup {column}, unit)
        BY <2>13
      <4> QED
        BY <2>5, <4>1, Zenon
    <3>3. Append(d.rows, y.row) = [r \in 1..(n + 1) |-> f[r]]
      BY <3>1, <3>2, AppendIs
    <3>4. \A r \in 1..(n + 1) : f[r] = KeptRow(rs[r], K \cup {column}, unit)
      BY <2>13
    <3> QED
      BY <3>3, <3>4, Zenon
  <2>15. PICK u, v : u = E(n + 1) /\ v = D(n + 1)
    OBVIOUS
  <2>16. u.previous = z.previous
    BY <2>11, <2>15
  <2>17. v.previous = y.previous /\ v.rows = Append(d.rows, y.row)
    BY <2>12, <2>15
  <2>18. v.ok /\ (v.present <=> \E r \in 1..(n + 1) : Having(rs[r], column) # {})
    <3>1. v.ok /\ (v.present <=> d.present \/ y.present)
      <4>1. v.ok = (d.ok /\ y.ok)
        BY <2>12, <2>15
      <4>2. v.present = (d.present \/ y.present)
        BY <2>12, <2>15
      <4> QED
        BY <2>5, <2>9, <4>1, <4>2, Zenon
    <3>2. (\E r \in 1..(n + 1) : Having(rs[r], column) # {}) <=> (\E r \in 1..n : Having(rs[r], column) # {}) \/ Having(rs[n + 1], column) # {}
      <4>1. 1..(n + 1) = 1..n \cup {n + 1}
        OBVIOUS
      <4> QED
        BY <4>1, Zenon
    <3> QED
      BY <2>2, <2>5, <2>9, <3>1, <3>2
  <2>19. LockStep(u, v, n + 1, rs, K, column, unit, ids)
    BY <2>9, <2>14, <2>16, <2>17, <2>18, Zenon DEF LockStep
  <2> QED
    BY <2>15, <2>19
<1>7. N \in T
  <2> HIDE DEF T
  <2> QED
    BY <1>2, <1>5, <1>6, Induction
<1>8. PICK all : all = D(N)
  OBVIOUS
<1>9. LockStep(E(N), all, N, rs, K, column, unit, ids)
  BY <1>2, <1>7, <1>8
<1>10. all.ok /\ all.present /\ all.rows = [r \in 1..N |-> KeptRow(rs[r], K \cup {column}, unit)]
  BY <1>1, <1>9 DEF LockStep, Used
<1>11. all.rows = Kept(rs, K \cup {column}, unit)
  BY <1>2, <1>10 DEF Kept
<1>12. PICK sofar : sofar = [rows |-> x, ok |-> TRUE]
  OBVIOUS
<1>13. sofar.rows = x /\ sofar.ok
  BY <1>12
<1>14. FoldLeft(LAMBDA a, r : DecodeNext(a, sofar.rows[r], encoded[r], column, columns, unit), begin, [r \in DOMAIN sofar.rows |-> r]) = all
  <2>1. Decoding(sofar.rows, encoded, column, columns, unit, begin, idx, N)
         
                 = FoldLeft(LAMBDA a, r : DecodeNext(a, sofar.rows[r], encoded[r], column, columns, unit), begin, [i \in 1..N |-> idx[i]])
    BY Zenon DEF Decoding
  <2>2. [i \in 1..N |-> idx[i]] = [r \in DOMAIN sofar.rows |-> r]
    <3>1. DOMAIN x = 1..N
      BY <1>3
    <3> QED
      BY <1>1, <1>13, <3>1
  <2>3. Decoding(sofar.rows, encoded, column, columns, unit, begin, idx, N) = all
    BY <1>8, <1>13
  <2> QED
    BY <2>1, <2>2, <2>3, Zenon
<1>15. DecodeColumn(sofar, encoded, column, columns, unit, ids) = [rows |-> all.rows, ok |-> sofar.ok /\ all.ok /\ all.present]
  BY <1>1, <1>14, Zenon DEF DecodeColumn
<1>16. (sofar.ok /\ all.ok /\ all.present) = TRUE
  BY <1>10, <1>13
<1> QED
  BY <1>1, <1>11, <1>12, <1>15, <1>16 DEF ColumnReads

-----------------------------------------------------------------------------
(* The section                                                              *)

\* The columns of a section: every one that is chosen and used, and peak after owned
Chosen(columns, rs, chosen) ==
  /\ IsSeq(columns)
  /\ \A i \in 1..Len(columns) : columns[i] \in chosen /\ Used(rs, columns[i])
  /\ \A c \in ToSet(Columns) \cap chosen : Used(rs, c) => \E i \in 1..Len(columns) : columns[i] = c
  /\ \A i, j \in 1..Len(columns) : columns[i] = "peak" /\ columns[j] = "owned" => j < i

\* Selected takes these columns.
LEMMA SelectedIs ==
  ASSUME NEW rs, IsSeq(rs), NEW chosen
  PROVE  Chosen(Selected(rs, chosen), rs, chosen)
<1>1. PICK used, list, columns :
         /\ used = {c \in DOMAIN Columns : Columns[c] \in chosen /\ \E r \in DOMAIN rs : Having(rs[r], Columns[c]) # {}}
         /\ list = Ascending(used, Len(Columns)) /\ columns = [i \in DOMAIN list |-> Columns[list[i]]]
  OBVIOUS
<1>2. Selected(rs, chosen) = columns
  BY <1>1, Zenon DEF Selected
<1>3. Len(Columns) = 3 /\ DOMAIN Columns = 1..3 /\ Columns[1] = "owned" /\ Columns[2] = "peak" /\ Columns[3] = "evicted"
  BY DEF Columns
<1>4. DOMAIN rs = 1..Len(rs)
  BY SeqHas
<1>5. \A c \in 1..3 : c \in used <=> Columns[c] \in chosen /\ Used(rs, Columns[c])
  BY <1>1, <1>3, <1>4 DEF Used
<1>6. Ascends(list, used, 3)
  BY <1>1, <1>3, AscendingIs
<1>7. PICK n : n = Len(list)
  OBVIOUS
<1>8. n \in Nat /\ DOMAIN list = 1..n
  BY <1>6, <1>7 DEF Ascends
<1>9. columns = [i \in 1..n |-> columns[i]] /\ \A i \in 1..n : columns[i] = Columns[list[i]]
  BY <1>1, <1>8
<1>10. IsSeq(columns) /\ Len(columns) = n
  BY <1>8, <1>9, ListIsSeq
<1>11. \A i \in 1..n : list[i] \in 1..3 /\ list[i] \in used
  BY <1>6, <1>7 DEF Ascends
<1>12. ASSUME NEW c \in ToSet(Columns) \cap chosen, Used(rs, c)  PROVE \E i \in 1..n : columns[i] = c
  <2>1. PICK k \in 1..3 : Columns[k] = c
    BY <1>3 DEF ToSet
  <2>2. k \in used
    BY <1>5, <1>12, <2>1
  <2>3. PICK i \in 1..n : list[i] = k
    BY <1>6, <1>7, <2>2 DEF Ascends
  <2> QED
    BY <1>9, <2>1, <2>3
<1>13. ASSUME NEW i \in 1..n, NEW j \in 1..n, columns[i] = "peak", columns[j] = "owned"  PROVE j < i
  <2>1. list[i] = 2 /\ list[j] = 1
    BY <1>3, <1>9, <1>11, <1>13
  <2>2. ~(i < j)
    BY <1>6, <1>7, <2>1 DEF Ascends
  <2>3. i # j
    BY <2>1
  <2> QED
    BY <1>8, <2>2, <2>3
<1>14. \A i \in 1..n : columns[i] \in chosen /\ Used(rs, columns[i])
  BY <1>5, <1>9, <1>11
<1>15. Chosen(columns, rs, chosen)
  BY <1>10, <1>12, <1>13, <1>14 DEF Chosen
<1> QED
  BY <1>2, <1>15

\* What is read of the first k columns
FirstOf(columns, k) == {columns[i] : i \in 1..k}
ReadTo(wire, unit, ids, start, idx, rs, columns, k) ==
  Reading(wire, unit, ids, start, idx, k) = [rows |-> Kept(rs, FirstOf(columns, k), unit), ok |-> TRUE]

\* Whichever columns are chosen, their values come back.
LEMMA MemoryBack ==
  ASSUME NEW ids, NEW rs, RowsTrue(rs, ids), NEW chosen, NEW unit \in Nat \ {0}
  PROVE  DecodeMemory(Kept(rs, {}, unit), EncodeMemory(rs, chosen, unit, ids), unit, ids)
           = [rows |-> Kept(rs, chosen, unit), ok |-> TRUE]
<1>1. PICK columns, wire, start, n, idx :
         /\ columns = Selected(rs, chosen) /\ wire = EncodeMemory(rs, chosen, unit, ids)
         /\ start = [rows |-> Kept(rs, {}, unit), ok |-> TRUE] /\ n = Len(columns) /\ idx = [i \in 1..n |-> i]
  OBVIOUS
<1>2. Chosen(columns, rs, chosen)
  BY <1>1, SelectedIs DEF RowsTrue
<1>3. n \in Nat /\ DOMAIN columns = 1..n
  BY <1>1, <1>2, SeqHas DEF Chosen
<1>4. wire.columns = columns /\ \A i \in 1..n : wire.section[i] = EncodeColumn(rs, columns[i], columns, unit, ids)
  <2>1. PICK section : section = [c \in DOMAIN columns |-> EncodeColumn(rs, columns[c], columns, unit, ids)]
    OBVIOUS
  <2>2. wire = [columns |-> columns, section |-> section]
    BY <1>1, <2>1, Zenon DEF EncodeMemory
  <2>3. wire.columns = columns /\ wire.section = section
    BY <2>2
  <2> QED
    BY <1>3, <2>1, <2>3
<1> DEFINE T == {k \in Nat : k <= n => ReadTo(wire, unit, ids, start, idx, rs, columns, k)}
<1>5. 0 \in T
  <2>1. FirstOf(columns, 0) = {}
    BY DEF FirstOf
  <2>2. Reading(wire, unit, ids, start, idx, 0) = start
    BY ReadingFirst
  <2>3. ReadTo(wire, unit, ids, start, idx, rs, columns, 0)
    BY <1>1, <2>1, <2>2, Zenon DEF ReadTo
  <2> QED
    BY <2>3
<1>6. ASSUME NEW k \in Nat, k \in T  PROVE k + 1 \in T
  <2> SUFFICES ASSUME k + 1 <= n
               PROVE  ReadTo(wire, unit, ids, start, idx, rs, columns, k + 1)
    OBVIOUS
  <2>1. k <= n /\ k + 1 \in 1..n
    BY <1>3
  <2>2. PICK c, S : c = columns[k + 1] /\ S = FirstOf(columns, k)
    OBVIOUS
  <2>3. FirstOf(columns, k + 1) = S \cup {c}
    <3>1. 1..(k + 1) = 1..k \cup {k + 1}
      OBVIOUS
    <3> QED
      BY <2>2, <3>1 DEF FirstOf
  <2>4. PICK d, e : d = [rows |-> Kept(rs, S, unit), ok |-> TRUE] /\ e = EncodeColumn(rs, c, columns, unit, ids)
    OBVIOUS
  <2>5. Reading(wire, unit, ids, start, idx, k) = d
    <3>1. ReadTo(wire, unit, ids, start, idx, rs, columns, k)
      BY <1>6, <2>1
    <3> QED
      BY <2>2, <2>4, <3>1, Zenon DEF ReadTo
  <2>6. Reading(wire, unit, ids, start, idx, k + 1) = DecodeColumn(d, e, c, columns, unit, ids)
    <3>1. idx[k + 1] = k + 1
      BY <1>1, <2>1
    <3>2. wire.section[k + 1] = e /\ wire.columns[k + 1] = c
      BY <1>4, <2>1, <2>2, <2>4
    <3> QED
      BY <1>4, <2>5, <3>1, <3>2, ReadingStep
  <2>7. Used(rs, c)
    BY <1>1, <1>2, <2>1, <2>2 DEF Chosen
  <2>8. c = "peak" /\ Contains(columns, "owned") => "owned" \in S
    <3> SUFFICES ASSUME c = "peak", Contains(columns, "owned")  PROVE "owned" \in S
      OBVIOUS
    <3>1. PICK j \in 1..n : columns[j] = "owned"
      BY <1>1 DEF Contains
    <3>2. j < k + 1
      BY <1>1, <1>2, <2>1, <2>2, <3>1 DEF Chosen
    <3>3. j \in 1..k
      BY <1>3, <3>2
    <3> QED
      BY <2>2, <3>1, <3>3 DEF FirstOf
  <2>9. ColumnReads(rs, S, c, columns, unit, ids)
    BY <2>7, <2>8, ColumnBack
  <2>10. DecodeColumn(d, e, c, columns, unit, ids) = [rows |-> Kept(rs, S \cup {c}, unit), ok |-> TRUE]
    BY <2>4, <2>9, Zenon DEF ColumnReads
  <2> QED
    BY <2>3, <2>6, <2>10, Zenon DEF ReadTo
<1>7. n \in T
  <2> HIDE DEF T
  <2> QED
    BY <1>3, <1>5, <1>6, Induction
<1>8. Reading(wire, unit, ids, start, idx, n) = [rows |-> Kept(rs, FirstOf(columns, n), unit), ok |-> TRUE]
  <2>1. ReadTo(wire, unit, ids, start, idx, rs, columns, n)
    BY <1>3, <1>7
  <2> QED
    BY <2>1, Zenon DEF ReadTo
<1>9. DecodeMemory(Kept(rs, {}, unit), wire, unit, ids) = Reading(wire, unit, ids, start, idx, n)
  <2>1. Reading(wire, unit, ids, start, idx, n)
         
                 = FoldLeft(LAMBDA a, c : DecodeColumn(a, wire.section[c], wire.columns[c], wire.columns, unit, ids), start, [i \in 1..n |-> idx[i]])
    BY Zenon DEF Reading
  <2>2. [i \in 1..n |-> idx[i]] = [c \in DOMAIN wire.columns |-> c]
    BY <1>1, <1>3, <1>4
  <2> QED
    BY <1>1, <2>1, <2>2, Zenon DEF DecodeMemory
<1>10. PICK S : S = FirstOf(columns, n)
  OBVIOUS
<1>11. Kept(rs, S, unit) = Kept(rs, chosen, unit)
  <2>1. DOMAIN rs = 1..Len(rs)
    BY SeqHas DEF RowsTrue
  <2>2. ASSUME NEW r \in 1..Len(rs)  PROVE KeptRow(rs[r], S, unit) = KeptRow(rs[r], chosen, unit)
    <3>1. RowTrue(rs[r], ids) /\ DOMAIN rs[r] = 1..Len(rs[r])
      BY <2>2, SeqHas DEF RowsTrue, RowTrue
    <3>2. ASSUME NEW p \in DOMAIN rs[r]  PROVE Rounded(rs[r][p].memory, S, unit) = Rounded(rs[r][p].memory, chosen, unit)
      <4>1. PICK m : m = rs[r][p].memory
        OBVIOUS
      <4>2. DOMAIN m \subseteq ToSet(Columns)
        BY <3>1, <3>2, <4>1 DEF RowTrue, IsProcess
      <4>3. ASSUME NEW c \in DOMAIN m, c \in chosen  PROVE c \in S
        <5>1. p \in Having(rs[r], c)
          BY <3>2, <4>1, <4>3 DEF Having
        <5>2. Used(rs, c)
          BY <2>2, <5>1 DEF Used
        <5>3. \E i \in 1..n : columns[i] = c
          BY <1>1, <1>2, <4>2, <4>3, <5>2 DEF Chosen
        <5> QED
          BY <1>10, <5>3 DEF FirstOf
      <4>4. \A c \in S : c \in chosen
        BY <1>1, <1>2, <1>10 DEF Chosen, FirstOf
      <4>5. DOMAIN m \cap S = DOMAIN m \cap chosen
        BY <4>3, <4>4
      <4> QED
        BY <4>1, <4>5, Zenon DEF Rounded
    <3> QED
      BY <3>2, Zenon DEF KeptRow
  <2> QED
    BY <2>1, <2>2, Zenon DEF Kept
<1> QED
  BY <1>1, <1>8, <1>9, <1>10, <1>11

-----------------------------------------------------------------------------
(* Blocks                                                                   *)

\* The processes of every row of a block are as the encoder expects them.
BlockInv ==
  topic \in DOMAIN Following /\ IsSeq(block) /\ \A r \in 1..Len(block) : RowTrue(block[r].processes, Identities)

\* So they are when one more row is observed.
LEMMA ExtendInv ==
  ASSUME BlockInv, NEW choice \in Following[topic], Extend(choice)
  PROVE  BlockInv'
<1>1. PICK moves, last, ps : /\ moves = choice.moves /\ last = (IF block = <<>> THEN [seq |-> 0, time |-> 0] ELSE Last(block))
                              /\ ps = [i \in DOMAIN moves |-> [id |-> moves[i].id, total |-> totals'[moves[i].id],
                                                                name |-> moves[i].name, memory |-> moves[i].memory]]
  OBVIOUS
<1>2. PICK new : new = [seq |-> last.seq + choice.step, time |-> last.time + choice.span, boundary |-> choice.boundary, processes |-> ps]
  OBVIOUS
<1>3. new.processes = ps
  BY <1>2
<1>4. block' = Append(block, new) /\ topic' = topic
  BY <1>1, <1>2, Zenon DEF Extend
<1>5. /\ moves \in Seq(ToSet(moves))
      /\ \A m \in ToSet(moves) : m.id \in Identities /\ DOMAIN m.memory \subseteq ToSet(Columns) /\ m.memory \in [DOMAIN m.memory -> Nat]
  BY <1>1, BlockRowsAssumption, Zenon DEF BlockInv
<1>6. Len(moves) \in Nat /\ DOMAIN moves = 1..Len(moves) /\ \A i \in 1..Len(moves) : moves[i] \in ToSet(moves)
  BY <1>5 DEF ToSet
<1>7. ps = [i \in 1..Len(moves) |-> ps[i]] /\ \A i \in 1..Len(moves) :
        ps[i] = [id |-> moves[i].id, total |-> totals'[moves[i].id], name |-> moves[i].name, memory |-> moves[i].memory]
  BY <1>1, <1>6
<1>8. IsSeq(ps) /\ Len(ps) = Len(moves)
  BY <1>6, <1>7, ListIsSeq
<1>9. ASSUME NEW i \in 1..Len(moves)  PROVE IsProcess(ps[i]) /\ ps[i].id \in Identities
  <2>1. PICK p, m : p = ps[i] /\ m = moves[i]
    OBVIOUS
  <2>2. p = [id |-> m.id, total |-> totals'[m.id], name |-> m.name, memory |-> m.memory]
    BY <1>7, <2>1
  <2>3. p = [id |-> p.id, total |-> p.total, name |-> p.name, memory |-> p.memory] /\ p.id = m.id /\ p.memory = m.memory
    BY <2>2
  <2>4. m.id \in Identities /\ DOMAIN m.memory \subseteq ToSet(Columns) /\ m.memory \in [DOMAIN m.memory -> Nat]
    BY <1>5, <1>6, <2>1
  <2> QED
    BY <2>1, <2>3, <2>4, Zenon DEF IsProcess
<1>10. RowTrue(ps, Identities)
  BY <1>8, <1>9 DEF RowTrue
<1>11. PICK n, f : n = Len(block) /\ f = [r \in 1..(n + 1) |-> IF r = n + 1 THEN new ELSE block[r]]
  OBVIOUS
<1>12. n \in Nat /\ block = [r \in 1..n |-> block[r]]
  BY <1>11, SeqHas DEF BlockInv
<1>13. f[n + 1] = new /\ \A r \in 1..n : f[r] = block[r]
  BY <1>11, <1>12
<1>14. block = [r \in 1..n |-> f[r]]
  BY <1>12, <1>13
<1>15. block' = [r \in 1..(n + 1) |-> f[r]]
  BY <1>4, <1>12, <1>13, <1>14, AppendIs
<1>16. PICK b : b = block'
  OBVIOUS
<1>17. b = [r \in 1..(n + 1) |-> b[r]] /\ \A r \in 1..(n + 1) : b[r] = f[r]
  BY <1>15, <1>16
<1>18. n + 1 \in Nat
  BY <1>12
<1>19. IsSeq(b) /\ Len(b) = n + 1
  BY <1>17, <1>18, ListIsSeq
<1>20. \A r \in 1..(n + 1) : RowTrue(b[r].processes, Identities)
  <2> TAKE r \in 1..(n + 1)
  <2>1. CASE r \in 1..n
    <3>1. b[r] = block[r]
      BY <1>13, <1>17, <2>1
    <3> QED
      BY <1>11, <2>1, <3>1 DEF BlockInv
  <2>2. CASE r = n + 1
    BY <1>3, <1>10, <1>13, <1>17, <2>2
  <2> QED
    BY <1>12, <2>1, <2>2
<1>21. topic' \in DOMAIN Following /\ IsSeq(block') /\ \A r \in 1..Len(block') : RowTrue(block'[r].processes, Identities)
  BY <1>4, <1>16, <1>19, <1>20 DEF BlockInv
<1> QED
  BY <1>21, Zenon DEF BlockInv, RowTrue, IsSeq

\* What such a block says of memory comes back.
LEMMA BlockBack ==
  ASSUME BlockInv
  PROVE  MemoryExact
<1>1. PICK source : source = [r \in DOMAIN block |-> block[r].processes]
  OBVIOUS
<1>2. Len(block) \in Nat /\ DOMAIN block = 1..Len(block)
  BY SeqHas DEF BlockInv
<1>3. source = [r \in 1..Len(block) |-> source[r]] /\ \A r \in 1..Len(block) : source[r] = block[r].processes
  BY <1>1, <1>2
<1>4. IsSeq(source) /\ Len(source) = Len(block)
  BY <1>2, <1>3, ListIsSeq
<1>5. RowsTrue(source, Identities)
  BY <1>3, <1>4 DEF RowsTrue, BlockInv
<1>6. Unit \in Nat \ {0}
  BY BlockRowsAssumption
<1>7. \A chosen \in SUBSET ToSet(Columns) :
        DecodeMemory(Kept(source, {}, Unit), EncodeMemory(source, chosen, Unit, Identities), Unit, Identities)
          = [rows |-> Kept(source, chosen, Unit), ok |-> TRUE]
  BY <1>5, <1>6, MemoryBack
<1> QED
  BY <1>1, <1>7, Zenon DEF MemoryExact

\* Whatever the processes have of memory, in however many rows: what EncodeMemory writes of the
\* columns chosen is taken by DecodeMemory, and every value comes back to the unit.
THEOREM AlwaysMemoryExact == BlockSpec => []MemoryExact
<1>1. BlockInit => BlockInv
  <2> SUFFICES ASSUME BlockInit  PROVE BlockInv
    OBVIOUS
  <2>1. IsSeq(<<>>) /\ Len(<<>>) = 0
    BY DEF IsSeq
  <2> QED
    BY <2>1 DEF BlockInit, BlockInv
<1>2. BlockInv /\ [BlockNext]_blockVars => BlockInv'
  <2> SUFFICES ASSUME BlockInv, [BlockNext]_blockVars  PROVE BlockInv'
    OBVIOUS
  <2>1. CASE BlockNext
    <3>1. PICK choice \in Following[topic] : Extend(choice)
      BY <2>1, Zenon DEF BlockNext
    <3> QED
      BY <3>1, ExtendInv
  <2>2. CASE UNCHANGED blockVars
    <3>1. topic' = topic /\ block' = block
      BY <2>2 DEF blockVars
    <3> QED
      BY <3>1, Zenon DEF BlockInv, RowTrue, IsSeq
  <2> QED
    BY <2>1, <2>2
<1>3. BlockInv => MemoryExact
  BY BlockBack
<1> QED
  BY <1>1, <1>2, <1>3, PTL DEF BlockSpec

-----------------------------------------------------------------------------
(* Stretches and runs                                                       *)

\* The list of a stretch's first, and of the one after the last
Marks(parts, n) == [r \in 1..(Len(parts) + 1) |-> IF r <= Len(parts) THEN parts[r].start ELSE n + 1]

\* Each of the first m numbers is larger than those before it.
Increasing(s, m) == \A i, j \in 1..m : i < j => s[i] < s[j]

\* Stretches that begin at the members of S, follow each other and end at n
Cut(parts, S, n) ==
  /\ IsSeq(parts)
  /\ \A r \in 1..Len(parts) :
        /\ parts[r].start \in S /\ parts[r].start \in 1..n
        /\ parts[r].length \in Nat \ {0}
        /\ Marks(parts, n)[r + 1] = parts[r].start + parts[r].length
        /\ \A i \in 1..n : parts[r].start < i /\ i < parts[r].start + parts[r].length => i \notin S
  /\ Marks(parts, n)[1] = 1 /\ Marks(parts, n)[Len(parts) + 1] = n + 1
  /\ \A r \in 1..(Len(parts) + 1) : Marks(parts, n)[r] \in 1..(n + 1)
  /\ Increasing(Marks(parts, n), Len(parts) + 1)

\* Stretches from members of S on are cut there and nowhere else.
LEMMA StretchesAre ==
  ASSUME NEW n \in Nat, NEW S, S \subseteq 1..n, n # 0 => 1 \in S
  PROVE  Cut(Stretches(S, n), S, n)
<1>1. PICK a : a = Ascending(S, n)
  OBVIOUS
<1>2. Ascends(a, S, n)
  BY <1>1, AscendingIs
<1>3. PICK m : m = Len(a)
  OBVIOUS
<1>4. /\ m \in Nat /\ DOMAIN a = 1..m
      /\ \A i \in 1..m : a[i] \in S /\ a[i] \in 1..n
      /\ \A p \in 1..n : p \in S => \E i \in 1..m : a[i] = p
      /\ \A i, j \in 1..m : i < j => a[i] < a[j]
  BY <1>2, <1>3 DEF Ascends
<1>5. PICK parts : parts = Stretches(S, n)
  OBVIOUS
<1>6. parts = [r \in 1..m |-> [start |-> a[r], length |-> (IF r = m THEN n + 1 ELSE a[r + 1]) - a[r]]]
  BY <1>1, <1>3, <1>4, <1>5 DEF Stretches
<1>7. IsSeq(parts) /\ Len(parts) = m
  <2>1. parts = [r \in 1..m |-> parts[r]]
    BY <1>6
  <2> QED
    BY <1>4, <2>1, ListIsSeq
<1>8. PICK marks : marks = Marks(parts, n)
  OBVIOUS
<1>9. \A r \in 1..(m + 1) : marks[r] = IF r <= m THEN a[r] ELSE n + 1
  <2>1. \A r \in 1..(m + 1) : r <= m => r \in 1..m
    BY <1>4
  <2> QED
    BY <1>6, <1>7, <1>8, <2>1 DEF Marks
<1>10. ASSUME NEW r \in 1..m
       PROVE  /\ parts[r].start = a[r] /\ parts[r].length = marks[r + 1] - a[r]
              /\ marks[r + 1] \in 1..(n + 1) /\ a[r] < marks[r + 1]
              /\ \A i \in 1..n : a[r] < i /\ i < marks[r + 1] => i \notin S
  <2>1. a[r] \in 1..n /\ parts[r].start = a[r] /\ parts[r].length = (IF r = m THEN n + 1 ELSE a[r + 1]) - a[r]
    BY <1>4, <1>6
  <2>2. CASE r = m
    <3>1. marks[r + 1] = n + 1
      <4>1. r + 1 \in 1..(m + 1) /\ ~(r + 1 <= m)
        BY <1>4, <2>2
      <4> QED
        BY <1>9, <4>1
    <3>2. ASSUME NEW i \in 1..n, a[r] < i, i \in S  PROVE FALSE
      <4>1. PICK j \in 1..m : a[j] = i
        BY <1>4, <3>2
      <4>2. j = r \/ j < r
        BY <1>4, <2>2
      <4> QED
        BY <1>4, <2>1, <3>2, <4>1, <4>2
    <3> QED
      BY <2>1, <2>2, <3>1, <3>2
  <2>3. CASE r # m
    <3>1. r + 1 \in 1..m
      BY <1>4, <2>3
    <3>2. marks[r + 1] = a[r + 1] /\ a[r + 1] \in 1..n /\ a[r] < a[r + 1]
      <4>1. r + 1 \in 1..(m + 1) /\ r + 1 <= m /\ r < r + 1
        BY <1>4, <3>1
      <4> QED
        BY <1>4, <1>9, <3>1, <4>1
    <3>3. ASSUME NEW i \in 1..n, a[r] < i, i < a[r + 1], i \in S  PROVE FALSE
      <4>1. PICK j \in 1..m : a[j] = i
        BY <1>4, <3>3
      <4>2. j = r \/ j < r \/ j = r + 1 \/ r + 1 < j
        BY <1>4
      <4>3. j < r => a[j] < a[r]
        BY <1>4
      <4>4. r + 1 < j => a[r + 1] < a[j]
        BY <1>4, <3>1
      <4> QED
        BY <2>1, <3>2, <3>3, <4>1, <4>2, <4>3, <4>4
    <3> QED
      BY <2>1, <2>3, <3>2, <3>3
  <2> QED
    BY <2>2, <2>3
<1>11. marks[1] = 1 /\ marks[m + 1] = n + 1
  <2>1. marks[m + 1] = n + 1
    <3>1. m + 1 \in 1..(m + 1) /\ ~(m + 1 <= m)
      BY <1>4
    <3> QED
      BY <1>9, <3>1
  <2>2. CASE n = 0
    <3>1. m = 0
      <4>1. ASSUME m # 0  PROVE FALSE
        <5>1. m \in 1..m
          BY <1>4, <4>1
        <5> QED
          BY <1>4, <2>2, <5>1
      <4> QED
        BY <4>1
    <3> QED
      BY <2>1, <2>2, <3>1
  <2>3. CASE n # 0
    <3>1. PICK j \in 1..m : a[j] = 1
      <4>1. 1 \in 1..n /\ 1 \in S
        BY <2>3
      <4> QED
        BY <1>4, <4>1
    <3>2. 1 \in 1..m /\ 1 <= m /\ 1 \in 1..(m + 1)
      BY <1>4, <3>1
    <3>3. a[1] \in 1..n /\ (1 < j => a[1] < a[j])
      BY <1>4, <3>2
    <3>4. a[1] = 1
      BY <1>4, <3>1, <3>3
    <3> QED
      BY <1>9, <2>1, <3>2, <3>4
  <2> QED
    BY <2>2, <2>3
<1>12. \A r \in 1..(m + 1) : marks[r] \in 1..(n + 1)
  <2> TAKE r \in 1..(m + 1)
  <2>1. CASE r <= m
    <3>1. r \in 1..m
      BY <1>4, <2>1
    <3>2. a[r] \in 1..n /\ marks[r] = a[r]
      BY <1>4, <1>9, <2>1, <3>1
    <3> QED
      BY <3>2
  <2>2. CASE ~(r <= m)
    BY <1>9, <2>2
  <2> QED
    BY <2>1, <2>2
<1>13. Increasing(marks, m + 1)
  <2> SUFFICES ASSUME NEW i \in 1..(m + 1), NEW j \in 1..(m + 1), i < j  PROVE marks[i] < marks[j]
    BY DEF Increasing
  <2>1. i \in 1..m /\ i <= m /\ marks[i] = a[i] /\ a[i] \in 1..n
    <3>1. i \in 1..m /\ i <= m
      BY <1>4
    <3> QED
      BY <1>4, <1>9, <3>1
  <2>2. CASE j <= m
    <3>1. j \in 1..m
      BY <1>4, <2>2
    <3> QED
      BY <1>4, <1>9, <2>1, <2>2, <3>1
  <2>3. CASE ~(j <= m)
    <3>1. marks[j] = n + 1
      BY <1>9, <2>3
    <3> QED
      BY <2>1, <3>1
  <2> QED
    BY <2>2, <2>3
<1>14. ASSUME NEW r \in 1..m
       PROVE  /\ parts[r].start \in S /\ parts[r].start \in 1..n
              /\ parts[r].length \in Nat \ {0}
              /\ marks[r + 1] = parts[r].start + parts[r].length
              /\ \A i \in 1..n : parts[r].start < i /\ i < parts[r].start + parts[r].length => i \notin S
  <2>1. a[r] \in S /\ a[r] \in 1..n
    BY <1>4
  <2>2. /\ parts[r].start = a[r] /\ parts[r].length = marks[r + 1] - a[r]
        /\ marks[r + 1] \in 1..(n + 1) /\ a[r] < marks[r + 1]
    BY <1>10
  <2>3. parts[r].start + parts[r].length = marks[r + 1] /\ parts[r].length \in Nat \ {0}
    BY <2>1, <2>2
  <2>4. \A i \in 1..n : parts[r].start < i /\ i < parts[r].start + parts[r].length => i \notin S
    BY <1>10, <2>2, <2>3
  <2> QED
    BY <2>1, <2>2, <2>3, <2>4
<1> QED
  BY <1>5, <1>7, <1>8, <1>11, <1>12, <1>13, <1>14 DEF Cut

\* The lengths of stretches count from one to the next.
LEMMA MarksAre ==
  ASSUME NEW n \in Nat, NEW S, NEW parts, Cut(parts, S, n)
  PROVE  Sums(1, Lengths(parts)) = Marks(parts, n)
<1>1. PICK m, marks : m = Len(parts) /\ marks = Marks(parts, n)
  OBVIOUS
<1>2. m \in Nat /\ DOMAIN parts = 1..m
  BY <1>1, SeqHas DEF Cut
<1>3. PICK steps : steps = Lengths(parts)
  OBVIOUS
<1>4. steps = [r \in 1..m |-> steps[r]] /\ \A r \in 1..m : steps[r] = parts[r].length
  BY <1>2, <1>3 DEF Lengths
<1>5. \A r \in 1..(m + 1) : marks[r] \in Int
  BY <1>1 DEF Cut
<1>6. marks = [r \in 1..(m + 1) |-> marks[r]] /\ \A r \in 1..m : marks[r] = parts[r].start
  <2>1. \A r \in 1..m : r \in 1..(m + 1) /\ r <= m
    BY <1>2
  <2> QED
    BY <1>1, <2>1 DEF Marks
<1>7. ASSUME NEW r \in 1..m  PROVE steps[r] = marks[r + 1] - marks[r]
  <2>1. /\ parts[r].length \in Nat \ {0} /\ marks[r + 1] = parts[r].start + parts[r].length
        /\ parts[r].start \in 1..n
    BY <1>1 DEF Cut
  <2> QED
    BY <1>4, <1>6, <2>1
<1>8. 1 = marks[1]
  BY <1>1 DEF Cut
<1>9. Sums(1, steps) = marks
  <2>1. Numbers(marks, m + 1) /\ Steps(steps, marks, m)
    BY <1>4, <1>5, <1>6, <1>7 DEF Numbers, Steps
  <2> QED
    BY <1>2, <1>8, <2>1, SumsOfDifferences
<1> QED
  BY <1>1, <1>3, <1>9

\* Is r the stretch i lies in?
Within(starts, m, i, r) == r \in 1..m /\ starts[r] <= i /\ (r = m \/ i < starts[r + 1])

\* There is one, and Part is it.
LEMMA PartIs ==
  ASSUME NEW m \in Nat \ {0}, NEW starts, starts = [r \in 1..m |-> starts[r]], \A r \in 1..m : starts[r] \in Int,
         NEW i \in Int, starts[1] <= i
  PROVE  Within(starts, m, i, Part(starts, i))
<1>1. IsSeq(starts) /\ Len(starts) = m /\ DOMAIN starts = 1..m
  BY ListIsSeq
<1>2. PICK t : t = {r \in 1..m : starts[r] <= i}
  OBVIOUS
<1>3. PICK r : r = Max(t)
  OBVIOUS
<1>4. t \in SUBSET (1..m) /\ 1 \in t
  BY <1>2
<1>5. r \in t /\ \A y \in t : y <= r
  BY <1>3, <1>4, MaxIs
<1>6. r \in 1..m /\ starts[r] <= i /\ (r = m \/ i < starts[r + 1])
  <2>1. r \in 1..m /\ starts[r] <= i
    BY <1>2, <1>5
  <2>2. ASSUME r # m  PROVE i < starts[r + 1]
    <3>1. r + 1 \in 1..m /\ ~(r + 1 <= r)
      BY <2>1, <2>2
    <3>2. r + 1 \notin t
      BY <1>5, <3>1
    <3>3. ~(starts[r + 1] <= i) /\ starts[r + 1] \in Int
      BY <1>2, <3>1, <3>2
    <3> QED
      BY <3>3
  <2> QED
    BY <2>1, <2>2
<1>7. \E x \in DOMAIN starts : starts[x] <= i /\ (x = Len(starts) \/ i < starts[x + 1])
  BY <1>1, <1>6
<1>8. PICK part : part = Part(starts, i)
  OBVIOUS
<1>9. part \in DOMAIN starts /\ starts[part] <= i /\ (part = Len(starts) \/ i < starts[part + 1])
  <2>1. part = CHOOSE x \in DOMAIN starts : starts[x] <= i /\ (x = Len(starts) \/ i < starts[x + 1])
    BY <1>8 DEF Part
  <2> QED
    BY <1>7, <2>1, Zenon
<1> QED
  BY <1>1, <1>8, <1>9 DEF Within

\* No number lies in two stretches.
LEMMA PartOnly ==
  ASSUME NEW m \in Nat \ {0}, NEW starts, \A r \in 1..m : starts[r] \in Int, Increasing(starts, m), NEW i \in Int,
         NEW x, Within(starts, m, i, x), NEW y, Within(starts, m, i, y)
  PROVE  x = y
<1>1. /\ x \in 1..m /\ y \in 1..m /\ starts[x] <= i /\ starts[y] <= i
      /\ (x = m \/ i < starts[x + 1]) /\ (y = m \/ i < starts[y + 1])
  BY DEF Within
<1>2. ASSUME x < y  PROVE FALSE
  <2>1. x + 1 \in 1..m /\ (x + 1 = y \/ x + 1 < y) /\ x # m
    BY <1>1, <1>2
  <2>2. starts[x + 1] <= starts[y]
    BY <1>1, <2>1 DEF Increasing
  <2> QED
    BY <1>1, <2>1, <2>2
<1>3. ASSUME y < x  PROVE FALSE
  <2>1. y + 1 \in 1..m /\ (y + 1 = x \/ y + 1 < x) /\ y # m
    BY <1>1, <1>3
  <2>2. starts[y + 1] <= starts[x]
    BY <1>1, <2>1 DEF Increasing
  <2> QED
    BY <1>1, <2>1, <2>2
<1> QED
  BY <1>1, <1>2, <1>3

\* Where a list takes another value
Changed(s, n) == {i \in 1..n : i = 1 \/ s[i] # s[i - 1]}

\* Runs of one value, each other than the one before
EqualRuns(runs, s, n) ==
  /\ Cut(runs, Changed(s, n), n)
  /\ \A r \in 1..Len(runs) : /\ runs[r].q = s[runs[r].start]
                             /\ \A i \in 1..n : runs[r].start <= i /\ i < runs[r].start + runs[r].length => s[i] = runs[r].q
  /\ \A r \in 1..Len(runs) : r > 1 => runs[r].q # runs[r - 1].q

\* Runs cuts a list where its value changes.
LEMMA RunsAre ==
  ASSUME NEW n \in Nat, NEW s, IsSeq(s), Len(s) = n
  PROVE  EqualRuns(Runs(s), s, n)
<1>1. PICK S : S = Changed(s, n)
  OBVIOUS
<1>2. PICK parts : parts = Stretches(S, n)
  OBVIOUS
<1>3. Cut(parts, S, n)
  <2>1. S \subseteq 1..n /\ (n # 0 => 1 \in S)
    BY <1>1 DEF Changed
  <2> QED
    BY <1>2, <2>1, StretchesAre
<1>4. PICK m : m = Len(parts)
  OBVIOUS
<1>5. m \in Nat /\ DOMAIN parts = 1..m
  BY <1>3, <1>4, SeqHas DEF Cut
<1>6. PICK runs : runs = Runs(s)
  OBVIOUS
<1>7. runs = [r \in 1..m |-> [q |-> s[parts[r].start], start |-> parts[r].start, length |-> parts[r].length]]
  <2>1. DOMAIN s = 1..n
    BY SeqHas
  <2>2. {i \in DOMAIN s : i = 1 \/ s[i] # s[i - 1]} = S
    BY <1>1, <2>1 DEF Changed
  <2>3. runs = [r \in DOMAIN parts |-> [q |-> s[parts[r].start], start |-> parts[r].start, length |-> parts[r].length]]
    BY <1>2, <1>6, <2>2, Zenon DEF Runs
  <2> QED
    BY <1>5, <2>3
<1>8. /\ IsSeq(runs) /\ Len(runs) = m
      /\ \A r \in 1..m : /\ runs[r].start = parts[r].start /\ runs[r].length = parts[r].length
                         /\ runs[r].q = s[parts[r].start]
  <2>1. runs = [r \in 1..m |-> runs[r]]
    BY <1>7
  <2> QED
    BY <1>5, <1>7, <2>1, ListIsSeq
<1>9. Marks(runs, n) = Marks(parts, n)
  <2>1. ASSUME NEW r \in 1..(m + 1)
        PROVE  (IF r <= m THEN runs[r].start ELSE n + 1) = (IF r <= m THEN parts[r].start ELSE n + 1)
    <3>1. r <= m => r \in 1..m
      BY <1>5
    <3> QED
      BY <1>8, <3>1
  <2> QED
    BY <1>4, <1>8, <2>1 DEF Marks
<1>10. Cut(runs, S, n)
  <2>1. PICK marks : marks = Marks(runs, n)
    OBVIOUS
  <2>2. ASSUME NEW r \in 1..m
        PROVE  /\ runs[r].start \in S /\ runs[r].start \in 1..n
               /\ runs[r].length \in Nat \ {0}
               /\ marks[r + 1] = runs[r].start + runs[r].length
               /\ \A i \in 1..n : runs[r].start < i /\ i < runs[r].start + runs[r].length => i \notin S
    BY <1>3, <1>4, <1>8, <1>9, <2>1 DEF Cut
  <2>3. /\ marks[1] = 1 /\ marks[m + 1] = n + 1
        /\ \A r \in 1..(m + 1) : marks[r] \in 1..(n + 1)
        /\ Increasing(marks, m + 1)
    BY <1>3, <1>4, <1>9, <2>1 DEF Cut
  <2> QED
    BY <1>8, <2>1, <2>2, <2>3 DEF Cut
<1>11. ASSUME NEW r \in 1..m, NEW i \in 1..n, runs[r].start <= i, i < runs[r].start + runs[r].length
       PROVE  s[i] = runs[r].q
  <2>1. PICK from, length : from = runs[r].start /\ length = runs[r].length
    OBVIOUS
  <2>2. /\ from \in 1..n /\ length \in Nat \ {0}
        /\ \A j \in 1..n : from < j /\ j < from + length => j \notin S
    BY <1>8, <1>10, <2>1 DEF Cut
  <2> DEFINE T == {k \in Nat : k < length /\ from + k \in 1..n => s[from + k] = s[from]}
  <2>3. 0 \in T
    BY <2>2
  <2>4. ASSUME NEW k \in Nat, k \in T  PROVE k + 1 \in T
    <3> SUFFICES ASSUME k + 1 < length, from + (k + 1) \in 1..n  PROVE s[from + (k + 1)] = s[from]
      OBVIOUS
    <3>1. PICK j : j = from + (k + 1)
      OBVIOUS
    <3>2. j \in 1..n /\ from < j /\ j < from + length /\ j - 1 = from + k /\ j # 1 /\ k < length /\ from + k \in 1..n
      BY <2>2, <3>1
    <3>3. j \notin S
      BY <2>2, <3>2
    <3>4. s[j] = s[j - 1]
      BY <1>1, <3>2, <3>3 DEF Changed
    <3>5. s[from + k] = s[from]
      BY <2>4, <3>2
    <3> QED
      BY <3>1, <3>2, <3>4, <3>5
  <2>5. Nat \subseteq T
    <3> HIDE DEF T
    <3> QED
      BY <2>3, <2>4, Induction
  <2>6. PICK k \in Nat : i = from + k /\ k < length
    <3>1. i - from \in Nat /\ i = from + (i - from) /\ i - from < length
      BY <1>11, <2>1, <2>2
    <3> QED
      BY <3>1
  <2>7. s[from + k] = s[from]
    BY <2>5, <2>6
  <2> QED
    BY <1>8, <2>1, <2>6, <2>7
<1>12. ASSUME NEW r \in 1..m, r > 1  PROVE runs[r].q # runs[r - 1].q
  <2>1. PICK o : o = r - 1
    OBVIOUS
  <2>2. o \in 1..m /\ o + 1 = r /\ r <= m /\ r \in 1..(m + 1) /\ 1 \in 1..(m + 1)
    BY <1>5, <1>12, <2>1
  <2>3. /\ runs[o].start \in 1..n /\ runs[o].length \in Nat \ {0}
        /\ Marks(runs, n)[r] = runs[o].start + runs[o].length
        /\ runs[r].start \in S /\ runs[r].start \in 1..n
    BY <1>8, <1>10, <2>2 DEF Cut
  <2>4. Marks(runs, n)[r] = runs[r].start
    BY <1>8, <2>2 DEF Marks
  <2>5. PICK c : c = runs[r].start
    OBVIOUS
  <2>6. c \in 1..n /\ c \in S /\ c # 1 /\ c - 1 \in 1..n /\ runs[o].start <= c - 1 /\ c - 1 < runs[o].start + runs[o].length
    BY <2>3, <2>4, <2>5
  <2>7. s[c] # s[c - 1]
    BY <1>1, <2>6 DEF Changed
  <2>8. s[c - 1] = runs[o].q
    BY <1>11, <2>2, <2>6
  <2>9. runs[r].q = s[c]
    BY <1>8, <2>5
  <2> QED
    BY <2>1, <2>7, <2>8, <2>9
<1>13. \A r \in 1..m : runs[r].q = s[runs[r].start]
  BY <1>8
<1> QED
  <2>1. \A r \in 1..Len(runs) :
           /\ runs[r].q = s[runs[r].start]
           /\ \A i \in 1..n : runs[r].start <= i /\ i < runs[r].start + runs[r].length => s[i] = runs[r].q
    BY <1>8, <1>11, <1>13
  <2>2. \A r \in 1..Len(runs) : r > 1 => runs[r].q # runs[r - 1].q
    BY <1>8, <1>12
  <2> QED
    BY <1>1, <1>6, <1>10, <2>1, <2>2, Zenon DEF EqualRuns

-----------------------------------------------------------------------------
(* Quanta                                                                   *)

\* The powers of two, one by one
LEMMA PowersAre ==
  Powers = {1, 2, 4, 8, 16, 32, 64, 128, 256, 512, 1024, 2048, 4096, 8192, 16384, 32768, 65536, 131072, 262144, 524288, 1048576, 2097152, 4194304, 8388608, 16777216, 33554432, 67108864, 134217728, 268435456, 536870912}
BY DEF Powers, PowerList, ToSet

\* Less than twice a power of two is no larger power of two.
LEMMA PowerFacts ==
  /\ Powers \subseteq Nat \ {0}
  /\ \A p, o \in Powers : p < 2 * o => p <= o
BY PowersAre

\* Up to the largest, twice a power of two is one.
LEMMA PowersDouble ==
  1 \in Powers /\ \A p \in Powers : p <= MaxPower /\ (p # MaxPower => 2 * p \in Powers)
BY PowersAre DEF MaxPower

\* Eight times the largest power of two is above every total.
LEMMA MaxPowerIs == MaxPower \in Nat \ {0} /\ 8 * MaxPower > Top /\ MaxPower <= Top /\ Top \in Nat /\ Top > 0
BY DEF MaxPower, Top

\* There is a power of two below every number, and twice it is above it.
LEMMA PowerBelowIs ==
  ASSUME NEW n \in Nat \ {0}, n < 2 * MaxPower
  PROVE  PowerBelow(n) \in Powers /\ PowerBelow(n) <= n /\ n < 2 * PowerBelow(n)
<1>1. PICK t : t = {p \in Powers : p <= n}
  OBVIOUS
<1>2. t \in SUBSET (1..n) /\ 1 \in t
  <2>1. \A p \in t : p \in Nat \ {0} /\ p <= n
    BY <1>1, PowerFacts
  <2>2. \A p \in t : p \in 1..n
    BY <2>1
  <2>3. 1 \in t
    BY <1>1, PowersDouble
  <2> QED
    BY <2>2, <2>3
<1>3. PICK p : p = Max(t)
  OBVIOUS
<1>4. p \in t /\ \A o \in t : o <= p
  BY <1>2, <1>3, MaxIs
<1>5. p \in Powers /\ p \in Nat \ {0} /\ p <= n
  BY <1>1, <1>4, PowerFacts
<1>6. n < 2 * p
  <2>1. CASE p = MaxPower
    BY <1>5, <2>1, MaxPowerIs
  <2>2. CASE p # MaxPower
    <3>1. 2 * p \in Powers /\ ~(2 * p <= p) /\ 2 * p \in Int
      BY <1>5, <2>2, PowersDouble, MaxPowerIs
    <3>2. 2 * p \notin t
      BY <1>4, <3>1
    <3> QED
      BY <1>1, <3>1, <3>2
  <2> QED
    BY <2>1, <2>2
<1>7. \E o \in Powers : o <= n /\ n < 2 * o
  BY <1>5, <1>6
<1> QED
  BY <1>7, Zenon DEF PowerBelow

\* There is one above it, less than twice as large.
LEMMA PowerAboveIs ==
  ASSUME NEW n \in Nat \ {0}, n <= MaxPower
  PROVE  PowerAbove(n) \in Powers /\ n <= PowerAbove(n) /\ PowerAbove(n) < 2 * n
<1>1. PICK p : p = PowerBelow(n)
  OBVIOUS
<1>2. p \in Powers /\ p <= n /\ n < 2 * p /\ p \in Nat \ {0}
  <2>1. n < 2 * MaxPower
    BY MaxPowerIs
  <2>2. p \in Powers /\ p <= n /\ n < 2 * p
    BY <1>1, <2>1, PowerBelowIs
  <2> QED
    BY <2>2, PowerFacts
<1>3. \E o \in Powers : n <= o /\ o < 2 * n
  <2>1. CASE p = n
    BY <1>2, <2>1
  <2>2. CASE p # n
    <3>1. 2 * p \in Powers /\ n <= 2 * p /\ 2 * p < 2 * n
      BY <1>2, <2>2, PowersDouble, MaxPowerIs
    <3> QED
      BY <3>1
  <2> QED
    BY <2>1, <2>2
<1> QED
  BY <1>3, Zenon DEF PowerAbove

\* Products grow with a factor.
LEMMA ProductGrows ==
  ASSUME NEW a \in Int, NEW b \in Int, NEW q \in Nat, a <= b
  PROVE  a * q \in Int /\ b * q \in Int /\ a * q <= b * q
<1>1. PICK d \in Nat : b = a + d
  <2>1. b - a \in Nat /\ b = a + (b - a)
    OBVIOUS
  <2> QED
    BY <2>1
<1>2. b * q = a * q + d * q /\ a * q \in Int /\ d * q \in Nat
  BY <1>1
<1> QED
  BY <1>2

\* What a number of a run is stored as, and what comes back
Coarse(t, a, q) == a + ((t - a) \div q) * q

\* What comes back is at most a quantum below the number, and not below the first of its run.
LEMMA StoredClose ==
  ASSUME NEW a \in Int, NEW t \in Int, a <= t, NEW q \in Nat \ {0}
  PROVE  /\ Coarse(t, a, q) \in Int /\ t - Coarse(t, a, q) \in 0..(q - 1) /\ a <= Coarse(t, a, q)
<1>1. PICK d, k : d = t - a /\ k = d \div q
  OBVIOUS
<1>2. d \in Nat /\ k \in Int /\ 0 <= d - k * q /\ d - k * q < q /\ k >= 0
  BY <1>1
<1>3. k * q \in Int /\ 0 <= k * q
  BY <1>2, ProductGrows
<1>4. Coarse(t, a, q) = a + k * q
  BY <1>1 DEF Coarse
<1> QED
  BY <1>1, <1>2, <1>3, <1>4

\* What comes back rises with the number.
LEMMA StoredRises ==
  ASSUME NEW a \in Int, NEW t \in Int, NEW u \in Int, a <= t, t <= u, NEW q \in Nat \ {0}
  PROVE  Coarse(t, a, q) <= Coarse(u, a, q)
<1>1. PICK k, l : k = (t - a) \div q /\ l = (u - a) \div q
  OBVIOUS
<1>2. /\ k \in Int /\ 0 <= (t - a) - k * q /\ (t - a) - k * q < q
      /\ l \in Int /\ 0 <= (u - a) - l * q /\ (u - a) - l * q < q
  BY <1>1
<1>3. k <= l
  <2>1. ASSUME l + 1 <= k  PROVE FALSE
    <3>1. (l + 1) * q <= k * q /\ (l + 1) * q \in Int /\ k * q \in Int
      BY <1>2, <2>1, ProductGrows
    <3>2. (l + 1) * q = l * q + q /\ l * q \in Int
      BY <1>2
    <3> QED
      BY <1>2, <3>1, <3>2
  <2> QED
    BY <1>2, <2>1
<1>4. k * q <= l * q /\ k * q \in Int /\ l * q \in Int
  BY <1>2, <1>3, ProductGrows
<1>5. Coarse(t, a, q) = a + k * q /\ Coarse(u, a, q) = a + l * q
  BY <1>1 DEF Coarse
<1> QED
  BY <1>4, <1>5

-----------------------------------------------------------------------------
(* Tracks                                                                   *)

\* Rows, totals that do not fall, and a quantum for each interval
Given(lines, counts, quanta, n) ==
  /\ n \in Nat \ {0}
  /\ Numbers(lines, n) /\ Numbers(counts, n)
  /\ \A i, j \in 1..n : i <= j => counts[i] <= counts[j]
  /\ IsSeq(quanta) /\ Len(quanta) = n - 1
  /\ \A i \in 1..(n - 1) : quanta[i] \in Nat \ {0}

\* What is written of the runs
Written(track, counts, runs) ==
  \A r \in 1..Len(runs) :
     /\ track.runs[r].q = runs[r].q /\ track.runs[r].length = runs[r].length
     /\ track.runs[r].end = counts[runs[r].start + runs[r].length] - counts[runs[r].start]
     /\ \A j \in 1..(runs[r].length - 1) :
           track.runs[r].inner[j] = (counts[runs[r].start + j] - counts[runs[r].start]) \div runs[r].q

\* The fields of a track, from the runs of its quanta
LEMMA TrackWritten ==
  ASSUME NEW n, NEW lines, NEW counts, NEW quanta, Given(lines, counts, quanta, n),
         NEW track, track = EncodeTrack(lines, counts, quanta), NEW runs, runs = Runs(quanta)
  PROVE  /\ Written(track, counts, runs)
         /\ DOMAIN track.runs = 1..Len(runs) /\ Len(track.runs) = Len(runs)
         /\ track.row = lines[1] /\ track.steps = Differences(lines) /\ track.first = counts[1]
<1>1. EqualRuns(runs, quanta, n - 1)
  BY RunsAre DEF Given
<1>2. PICK m : m = Len(runs)
  OBVIOUS
<1>3. m \in Nat /\ DOMAIN runs = 1..m
  BY <1>1, <1>2, SeqHas DEF EqualRuns, Cut
<1>4. PICK t : t = track.runs
  OBVIOUS
<1>5. t = [r \in 1..m |-> EncodeRun(counts, runs[r])]
  <2>1. t = [r \in DOMAIN runs |-> EncodeRun(counts, runs[r])]
    BY <1>4 DEF EncodeTrack
  <2> QED
    BY <1>3, <2>1
<1>6. IsSeq(t) /\ Len(t) = m /\ DOMAIN t = 1..m
  <2>1. t = [r \in 1..m |-> t[r]]
    BY <1>5
  <2> QED
    BY <1>3, <2>1, ListIsSeq
<1>7. \A r \in 1..m :
         /\ t[r].q = runs[r].q /\ t[r].length = runs[r].length
         /\ t[r].end = counts[runs[r].start + runs[r].length] - counts[runs[r].start]
         /\ \A j \in 1..(runs[r].length - 1) :
               t[r].inner[j] = (counts[runs[r].start + j] - counts[runs[r].start]) \div runs[r].q
  BY <1>5 DEF EncodeRun
<1>8. track.row = lines[1] /\ track.steps = Differences(lines) /\ track.first = counts[1]
  BY DEF EncodeTrack
<1>9. Written(track, counts, runs)
  BY <1>2, <1>4, <1>7 DEF Written
<1> QED
  BY <1>2, <1>4, <1>6, <1>8, <1>9

\* Where the decoder has the runs start and with which values
LEMMA StartsBack ==
  ASSUME NEW n, NEW lines, NEW counts, NEW quanta, Given(lines, counts, quanta, n),
         NEW track, track = EncodeTrack(lines, counts, quanta), NEW runs, runs = Runs(quanta),
         NEW marks, marks = Marks(runs, n - 1)
  PROVE  Starts(track) = marks /\ Exact(track) = [r \in 1..(Len(runs) + 1) |-> counts[marks[r]]]
<1>1. Cut(runs, Changed(quanta, n - 1), n - 1)
  BY RunsAre DEF Given, EqualRuns
<1>2. PICK m : m = Len(runs)
  OBVIOUS
<1>3. m \in Nat /\ DOMAIN runs = 1..m /\ n - 1 \in Nat /\ (n - 1) + 1 = n
  BY <1>1, <1>2, SeqHas DEF Cut, Given
<1>4. Written(track, counts, runs) /\ DOMAIN track.runs = 1..m /\ track.first = counts[1]
  BY <1>2, TrackWritten
<1>5. Lengths(track.runs) = Lengths(runs)
  <2>1. \A r \in 1..m : track.runs[r].length = runs[r].length
    BY <1>2, <1>4 DEF Written
  <2> QED
    BY <1>3, <1>4, <2>1 DEF Lengths
<1>6. Starts(track) = marks
  <2>1. Sums(1, Lengths(runs)) = marks
    BY <1>1, <1>3, MarksAre
  <2> QED
    BY <1>5, <2>1, Zenon DEF Starts
<1>7. PICK ends : ends = [r \in 1..m |-> track.runs[r].end]
  OBVIOUS
<1>8. PICK exact : exact = [r \in 1..(m + 1) |-> counts[marks[r]]]
  OBVIOUS
<1>9. /\ \A r \in 1..(m + 1) : marks[r] \in 1..n
      /\ \A r \in 1..m : marks[r] = runs[r].start /\ marks[r + 1] = runs[r].start + runs[r].length
      /\ marks[1] = 1
  <2>1. \A r \in 1..m : marks[r] = runs[r].start
    <3>1. \A r \in 1..m : r \in 1..(m + 1) /\ r <= m
      BY <1>3
    <3> QED
      BY <1>2, <3>1 DEF Marks
  <2> QED
    BY <1>1, <1>2, <1>3, <2>1 DEF Cut
<1>10. Numbers(exact, m + 1)
  <2>1. exact = [r \in 1..(m + 1) |-> exact[r]]
    BY <1>8
  <2>2. \A r \in 1..(m + 1) : exact[r] \in Int
    BY <1>8, <1>9 DEF Given, Numbers
  <2> QED
    BY <2>1, <2>2, Zenon DEF Numbers
<1>11. Steps(ends, exact, m)
  <2>1. ends = [r \in 1..m |-> ends[r]]
    BY <1>7
  <2>2. ASSUME NEW r \in 1..m  PROVE ends[r] = exact[r + 1] - exact[r]
    <3>1. r \in 1..(m + 1) /\ r + 1 \in 1..(m + 1)
      BY <1>3
    <3>2. exact[r] = counts[marks[r]] /\ exact[r + 1] = counts[marks[r + 1]]
      BY <1>8, <3>1
    <3>3. ends[r] = counts[runs[r].start + runs[r].length] - counts[runs[r].start]
      BY <1>2, <1>4, <1>7 DEF Written
    <3>4. marks[r] = runs[r].start /\ marks[r + 1] = runs[r].start + runs[r].length
      BY <1>9
    <3> QED
      BY <3>2, <3>3, <3>4
  <2> QED
    BY <2>1, <2>2, Zenon DEF Steps
<1>12. track.first = exact[1]
  <2>1. 1 \in 1..(m + 1)
    BY <1>3
  <2> QED
    BY <1>4, <1>8, <1>9, <2>1
<1>13. Sums(track.first, ends) = exact
  BY <1>3, <1>10, <1>11, <1>12, SumsOfDifferences
<1>14. Exact(track) = exact
  <2>1. ends = [r \in DOMAIN track.runs |-> track.runs[r].end]
    BY <1>4, <1>7
  <2> QED
    BY <1>13, <2>1, Zenon DEF Exact
<1> QED
  BY <1>2, <1>6, <1>8, <1>14

\* What the samples of a run come back as
Sampled(d, counts, runs) ==
  \A r \in 1..Len(runs) : \A i \in runs[r].start..(runs[r].start + runs[r].length) :
     IF i = runs[r].start \/ i = runs[r].start + runs[r].length
     THEN d.values[i] = counts[i] /\ d.bounds[i] = 0
     ELSE d.values[i] = Coarse(counts[i], counts[runs[r].start], runs[r].q) /\ d.bounds[i] = runs[r].q - 1

\* Where the runs of the quanta of n samples lie
Laid(runs, marks, n) ==
  /\ Len(runs) \in Nat /\ DOMAIN runs = 1..Len(runs)
  /\ marks = [r \in 1..(Len(runs) + 1) |-> marks[r]]
  /\ \A r \in 1..(Len(runs) + 1) : marks[r] \in 1..n
  /\ \A r \in 1..Len(runs) : /\ marks[r] = runs[r].start /\ marks[r + 1] = runs[r].start + runs[r].length
                             /\ runs[r].length \in Nat \ {0}
  /\ marks[1] = 1 /\ marks[Len(runs) + 1] = n
  /\ Increasing(marks, Len(runs) + 1)

\* Stretches of the intervals lie between samples.
LEMMA RunsLaid ==
  ASSUME NEW n \in Nat \ {0}, NEW S, NEW runs, Cut(runs, S, n - 1), NEW marks, marks = Marks(runs, n - 1)
  PROVE  Laid(runs, marks, n)
<1>1. PICK m : m = Len(runs)
  OBVIOUS
<1>2. m \in Nat /\ DOMAIN runs = 1..m /\ (n - 1) + 1 = n
  BY <1>1, SeqHas DEF Cut
<1>3. marks = [r \in 1..(m + 1) |-> IF r <= m THEN runs[r].start ELSE n]
  BY <1>1, <1>2 DEF Marks
<1>4. marks = [r \in 1..(m + 1) |-> marks[r]]
  BY <1>3
<1>5. \A r \in 1..m : marks[r] = runs[r].start
  <2>1. \A r \in 1..m : r \in 1..(m + 1) /\ r <= m
    BY <1>2
  <2> QED
    BY <1>3, <2>1
<1>6. /\ \A r \in 1..(m + 1) : marks[r] \in 1..n
      /\ \A r \in 1..m : marks[r + 1] = runs[r].start + runs[r].length /\ runs[r].length \in Nat \ {0}
      /\ marks[1] = 1 /\ marks[m + 1] = n
      /\ Increasing(marks, m + 1)
  BY <1>1, <1>2 DEF Cut
<1> QED
  BY <1>1, <1>2, <1>4, <1>5, <1>6, Zenon DEF Laid

\* The decoder's records, with the starts and exact values of the runs
LEMMA DecodedIs ==
  ASSUME NEW n \in Nat \ {0}, NEW track, NEW marks, NEW exact, marks = Starts(track), exact = Exact(track),
         marks[Len(marks)] = n, NEW d, d = DecodeTrack(track)
  PROVE  /\ d.rows = Sums(track.row, track.steps)
         /\ d.values = [i \in 1..n |-> Value(track, marks, exact, i, Part(marks, i))]
         /\ d.bounds = [i \in 1..n |-> Bound(track, marks, i, Part(marks, i))]
         /\ d.quanta = [i \in 1..(n - 1) |-> track.runs[Part(marks, i)].q]
BY DEF DecodeTrack

\* At the ends of a run its totals come back, inside it they come back rounded.
LEMMA SamplesBack ==
  ASSUME NEW n, NEW lines, NEW counts, NEW quanta, Given(lines, counts, quanta, n),
         NEW track, track = EncodeTrack(lines, counts, quanta), NEW runs, runs = Runs(quanta),
         NEW d, d = DecodeTrack(track)
  PROVE  /\ Sampled(d, counts, runs)
         /\ DOMAIN d.values = 1..n /\ DOMAIN d.bounds = 1..n /\ d.quanta = quanta
         /\ d.values[1] = counts[1] /\ d.bounds[1] = 0
         /\ IsSeq(d.values) /\ IsSeq(d.bounds) /\ Len(d.values) = n /\ Len(d.bounds) = n
<1>1. n \in Nat \ {0} /\ n - 1 \in Nat
  BY DEF Given
<1>2. EqualRuns(runs, quanta, n - 1)
  BY <1>1, RunsAre DEF Given
<1>3. PICK m, marks : m = Len(runs) /\ marks = Marks(runs, n - 1)
  OBVIOUS
<1>4. Laid(runs, marks, n)
  BY <1>1, <1>2, <1>3, RunsLaid DEF EqualRuns
<1>5. /\ m \in Nat /\ DOMAIN runs = 1..m
      /\ marks = [r \in 1..(m + 1) |-> marks[r]]
      /\ \A r \in 1..(m + 1) : marks[r] \in 1..n
      /\ \A r \in 1..m : /\ marks[r] = runs[r].start /\ marks[r + 1] = runs[r].start + runs[r].length
                         /\ runs[r].length \in Nat \ {0}
      /\ marks[1] = 1 /\ marks[m + 1] = n
      /\ Increasing(marks, m + 1)
  BY <1>3, <1>4, Zenon DEF Laid
<1>6. ASSUME NEW r \in 1..m
       PROVE  /\ r \in 1..(m + 1) /\ r + 1 \in 1..(m + 1)
              /\ marks[r] \in 1..n /\ marks[r + 1] \in 1..n
              /\ runs[r].start = marks[r] /\ marks[r + 1] = runs[r].start + runs[r].length
              /\ runs[r].length \in Nat \ {0}
  <2>1. r \in 1..(m + 1) /\ r + 1 \in 1..(m + 1)
    BY <1>5
  <2>2. marks[r] \in 1..n /\ marks[r + 1] \in 1..n
    BY <1>5, <2>1
  <2>3. runs[r].start = marks[r] /\ marks[r + 1] = runs[r].start + runs[r].length /\ runs[r].length \in Nat \ {0}
    BY <1>5
  <2> QED
    BY <2>1, <2>2, <2>3
<1>7. PICK exact : exact = [r \in 1..(m + 1) |-> counts[marks[r]]]
  OBVIOUS
<1>8. Starts(track) = marks /\ Exact(track) = exact
  BY <1>3, <1>7, StartsBack
<1>9. Written(track, counts, runs)
  BY TrackWritten
<1>10. /\ d.values = [i \in 1..n |-> Value(track, marks, exact, i, Part(marks, i))]
      /\ d.bounds = [i \in 1..n |-> Bound(track, marks, i, Part(marks, i))]
      /\ d.quanta = [i \in 1..(n - 1) |-> track.runs[Part(marks, i)].q]
  <2>1. Len(marks) = m + 1
    <3>1. m + 1 \in Nat
      BY <1>5
    <3> QED
      BY <1>5, <3>1, ListIsSeq
  <2>2. marks[Len(marks)] = n
    BY <1>5, <2>1
  <2> QED
    BY <1>1, <1>8, <2>2, DecodedIs
<1>11. ASSUME NEW i \in 1..n, NEW r, Within(marks, m + 1, i, r)
       PROVE  d.values[i] = Value(track, marks, exact, i, r) /\ d.bounds[i] = Bound(track, marks, i, r)
  <2>1. Part(marks, i) = r
    <3>1. m + 1 \in Nat \ {0} /\ (\A x \in 1..(m + 1) : marks[x] \in Int) /\ i \in Int /\ marks[1] <= i
      BY <1>5
    <3>2. Within(marks, m + 1, i, Part(marks, i))
      BY <1>5, <3>1, PartIs
    <3> QED
      BY <1>5, <1>11, <3>1, <3>2, PartOnly
  <2> QED
    BY <1>10, <2>1
<1>12. ASSUME NEW r \in 1..m, NEW i \in 1..n, marks[r] <= i, i < marks[r + 1]  PROVE Within(marks, m + 1, i, r)
  BY <1>5, <1>12 DEF Within
<1>13. ASSUME NEW r \in 1..(m + 1)  PROVE Within(marks, m + 1, marks[r], r)
  <2>1. ASSUME r # m + 1  PROVE marks[r] < marks[r + 1]
    <3>1. r + 1 \in 1..(m + 1) /\ r < r + 1
      BY <1>5, <2>1
    <3> QED
      BY <1>5, <3>1 DEF Increasing
  <2>2. marks[r] <= marks[r]
    BY <1>5
  <2> QED
    BY <2>1, <2>2 DEF Within
<1>14. ASSUME NEW r \in 1..(m + 1)  PROVE d.values[marks[r]] = counts[marks[r]] /\ d.bounds[marks[r]] = 0
  <2>1. marks[r] \in 1..n
    BY <1>5
  <2>2. d.values[marks[r]] = Value(track, marks, exact, marks[r], r) /\ d.bounds[marks[r]] = Bound(track, marks, marks[r], r)
    BY <1>11, <1>13, <2>1
  <2> QED
    BY <1>7, <2>2 DEF Value, Bound
<1>15. ASSUME NEW r \in 1..m, NEW i \in 1..n, marks[r] < i, i < marks[r + 1]
       PROVE  /\ d.values[i] = Coarse(counts[i], counts[marks[r]], runs[r].q)
              /\ d.bounds[i] = runs[r].q - 1
  <2>1. marks[r] <= i /\ r \in 1..(m + 1) /\ i # marks[r]
    BY <1>5, <1>15
  <2>2. d.values[i] = Value(track, marks, exact, i, r) /\ d.bounds[i] = Bound(track, marks, i, r)
    BY <1>11, <1>12, <1>15, <2>1
  <2>3. PICK j : j = i - marks[r]
    OBVIOUS
  <2>4. d.values[i] = exact[r] + track.runs[r].inner[j] * track.runs[r].q /\ d.bounds[i] = track.runs[r].q - 1
    BY <2>1, <2>2, <2>3 DEF Value, Bound, Inside
  <2>5. exact[r] = counts[marks[r]] /\ runs[r].start = marks[r]
    BY <1>5, <1>7, <2>1
  <2>6. j \in 1..(runs[r].length - 1) /\ marks[r] + j = i
    <3>1. /\ marks[r] \in 1..n /\ runs[r].start = marks[r]
          /\ marks[r + 1] = runs[r].start + runs[r].length /\ runs[r].length \in Nat \ {0}
      BY <1>6
    <3>2. PICK x, l : x = marks[r] /\ l = runs[r].length
      OBVIOUS
    <3>3. x \in Int /\ l \in Nat /\ x < i /\ i < x + l /\ j = i - x
      BY <1>15, <2>3, <3>1, <3>2
    <3>4. j \in 1..(l - 1) /\ x + j = i
      BY <3>3
    <3> QED
      BY <3>2, <3>4
  <2>7. /\ track.runs[r].q = runs[r].q
        /\ track.runs[r].inner[j] = (counts[i] - counts[marks[r]]) \div runs[r].q
    BY <1>3, <1>9, <2>5, <2>6 DEF Written
  <2> QED
    BY <2>4, <2>5, <2>7 DEF Coarse
<1>16. Sampled(d, counts, runs)
  <2> SUFFICES ASSUME NEW r \in 1..m, NEW i \in runs[r].start..(runs[r].start + runs[r].length)
               PROVE  IF i = runs[r].start \/ i = runs[r].start + runs[r].length
                      THEN d.values[i] = counts[i] /\ d.bounds[i] = 0
                      ELSE /\ d.values[i] = Coarse(counts[i], counts[runs[r].start], runs[r].q)
                           /\ d.bounds[i] = runs[r].q - 1
    BY <1>3 DEF Sampled
  <2>1. /\ r \in 1..(m + 1) /\ r + 1 \in 1..(m + 1)
        /\ runs[r].start = marks[r] /\ runs[r].start + runs[r].length = marks[r + 1]
        /\ marks[r] \in 1..n /\ marks[r + 1] \in 1..n
    BY <1>6
  <2>2. i \in 1..n /\ marks[r] <= i /\ i <= marks[r + 1]
    <3>1. PICK x, y : x = marks[r] /\ y = marks[r + 1]
      OBVIOUS
    <3>2. i \in x..y /\ x \in 1..n /\ y \in 1..n
      BY <2>1, <3>1
    <3>3. i \in 1..n /\ x <= i /\ i <= y
      BY <1>1, <3>2
    <3> QED
      BY <3>1, <3>3
  <2>3. CASE i = marks[r]
    BY <1>14, <2>1, <2>3
  <2>4. CASE i = marks[r + 1]
    BY <1>14, <2>1, <2>4
  <2>5. CASE i # marks[r] /\ i # marks[r + 1]
    <3>1. marks[r] < i /\ i < marks[r + 1]
      BY <2>1, <2>2, <2>5
    <3> QED
      BY <1>15, <2>1, <2>2, <2>5, <3>1
  <2> QED
    BY <2>3, <2>4, <2>5
<1>17. d.quanta = quanta
  <2>1. quanta = [i \in 1..(n - 1) |-> quanta[i]]
    BY SeqHas DEF Given
  <2>2. ASSUME NEW i \in 1..(n - 1)  PROVE track.runs[Part(marks, i)].q = quanta[i]
    <3>1. m + 1 \in Nat \ {0} /\ (\A x \in 1..(m + 1) : marks[x] \in Int) /\ i \in Int /\ marks[1] <= i
      BY <1>1, <1>5
    <3>2. PICK r : r = Part(marks, i)
      OBVIOUS
    <3>3. Within(marks, m + 1, i, r)
      BY <1>5, <3>1, <3>2, PartIs
    <3>4. r \in 1..m /\ marks[r] <= i /\ i < marks[r + 1]
      <4>1. r \in 1..(m + 1) /\ marks[r] <= i /\ (r = m + 1 \/ i < marks[r + 1])
        BY <3>3 DEF Within
      <4>2. r # m + 1
        BY <1>1, <1>5, <4>1
      <4> QED
        BY <1>5, <4>1, <4>2
    <3>5. track.runs[r].q = runs[r].q
      BY <1>3, <1>9, <3>4 DEF Written
    <3>6. quanta[i] = runs[r].q
      BY <1>2, <1>3, <1>5, <3>4 DEF EqualRuns
    <3> QED
      BY <3>2, <3>5, <3>6
  <2> QED
    BY <1>10, <2>1, <2>2
<1>18. d.values[1] = counts[1] /\ d.bounds[1] = 0
  <2>1. 1 \in 1..(m + 1)
    BY <1>5
  <2> QED
    BY <1>5, <1>14, <2>1
<1>19. DOMAIN d.values = 1..n /\ DOMAIN d.bounds = 1..n
  BY <1>10
<1>20. d.values = [i \in 1..n |-> d.values[i]] /\ d.bounds = [i \in 1..n |-> d.bounds[i]]
  BY <1>10
<1>21. IsSeq(d.values) /\ IsSeq(d.bounds) /\ Len(d.values) = n /\ Len(d.bounds) = n
  BY <1>1, <1>20, ListIsSeq
<1> QED
  BY <1>16, <1>17, <1>18, <1>19, <1>21

\* What the decoder has of a track
TrackReads(d, lines, counts, quanta, n) ==
  /\ d.rows = lines /\ d.quanta = quanta
  /\ DOMAIN d.values = 1..n /\ DOMAIN d.bounds = 1..n
  /\ IsSeq(d.values) /\ IsSeq(d.bounds) /\ Len(d.values) = n /\ Len(d.bounds) = n
  /\ \A i \in 1..n : d.values[i] \in Int /\ d.bounds[i] \in Nat /\ counts[i] - d.values[i] \in 0..d.bounds[i]
  /\ \A i \in 1..(n - 1) : d.bounds[i] <= quanta[i] - 1 /\ d.bounds[i + 1] <= quanta[i] - 1
                           /\ d.values[i] <= d.values[i + 1]
  /\ d.bounds[1] = 0 /\ d.bounds[n] = 0

\* A track is read as it was given.
LEMMA TrackBack ==
  ASSUME NEW n, NEW lines, NEW counts, NEW quanta, Given(lines, counts, quanta, n),
         NEW track, track = EncodeTrack(lines, counts, quanta), NEW d, d = DecodeTrack(track)
  PROVE  TrackReads(d, lines, counts, quanta, n)
<1>1. n \in Nat \ {0} /\ n - 1 \in Nat /\ (n - 1) + 1 = n
  BY DEF Given
<1>2. /\ \A i \in 1..n : counts[i] \in Int
      /\ \A i, j \in 1..n : i <= j => counts[i] <= counts[j]
      /\ \A i \in 1..(n - 1) : quanta[i] \in Nat \ {0}
  BY DEF Given, Numbers
<1>3. PICK runs : runs = Runs(quanta)
  OBVIOUS
<1>4. EqualRuns(runs, quanta, n - 1)
  BY <1>1, <1>3, RunsAre DEF Given
<1>5. PICK m, marks : m = Len(runs) /\ marks = Marks(runs, n - 1)
  OBVIOUS
<1>6. Laid(runs, marks, n)
  BY <1>1, <1>4, <1>5, RunsLaid DEF EqualRuns
<1>7. /\ m \in Nat /\ marks = [r \in 1..(m + 1) |-> marks[r]]
      /\ \A r \in 1..(m + 1) : marks[r] \in 1..n
      /\ \A r \in 1..m : /\ marks[r] = runs[r].start /\ marks[r + 1] = runs[r].start + runs[r].length
                         /\ runs[r].length \in Nat \ {0}
      /\ marks[1] = 1 /\ marks[m + 1] = n
  BY <1>5, <1>6, Zenon DEF Laid
<1>8. Sampled(d, counts, runs)
  BY <1>3, SamplesBack
<1>9. ASSUME NEW i \in 1..(n - 1)
      PROVE  /\ i \in 1..n /\ i + 1 \in 1..n
             /\ d.values[i] \in Int /\ d.bounds[i] \in Nat /\ counts[i] - d.values[i] \in 0..d.bounds[i]
             /\ d.values[i + 1] \in Int /\ d.bounds[i + 1] \in Nat /\ counts[i + 1] - d.values[i + 1] \in 0..d.bounds[i + 1]
             /\ d.bounds[i] <= quanta[i] - 1 /\ d.bounds[i + 1] <= quanta[i] - 1
             /\ d.values[i] <= d.values[i + 1]
             /\ i + 1 = n => d.bounds[i + 1] = 0
  <2>1. PICK r : r = Part(marks, i)
    OBVIOUS
  <2>2. Within(marks, m + 1, i, r)
    <3>1. m + 1 \in Nat \ {0} /\ (\A x \in 1..(m + 1) : marks[x] \in Int) /\ i \in Int /\ marks[1] <= i
      BY <1>1, <1>7
    <3> QED
      BY <1>7, <2>1, <3>1, PartIs
  <2>3. r \in 1..m /\ marks[r] <= i /\ i < marks[r + 1]
    <3>1. r \in 1..(m + 1) /\ marks[r] <= i /\ (r = m + 1 \/ i < marks[r + 1])
      BY <2>2 DEF Within
    <3>2. r # m + 1
      BY <1>1, <1>7, <3>1
    <3> QED
      BY <1>7, <3>1, <3>2
  <2>4. PICK s, l, q : s = runs[r].start /\ l = runs[r].length /\ q = runs[r].q
    OBVIOUS
  <2>5. s \in 1..n /\ l \in Nat \ {0} /\ s <= i /\ i < s + l /\ s + l \in 1..n
    <3>1. r \in 1..(m + 1) /\ r + 1 \in 1..(m + 1)
      BY <1>7, <2>3
    <3>2. marks[r] = s /\ marks[r + 1] = s + l /\ l \in Nat \ {0}
      BY <1>7, <2>3, <2>4
    <3>3. marks[r] \in 1..n /\ marks[r + 1] \in 1..n
      BY <1>7, <3>1
    <3> QED
      BY <2>3, <3>2, <3>3
  <2>6. quanta[i] = q /\ q \in Nat \ {0}
    BY <1>2, <1>4, <1>5, <2>3, <2>4, <2>5 DEF EqualRuns
  <2>7. i \in s..(s + l) /\ i + 1 \in s..(s + l) /\ i \in 1..n /\ i + 1 \in 1..n
    BY <1>1, <2>5
  <2>8. \A j \in s..(s + l) : IF j = s \/ j = s + l
                              THEN d.values[j] = counts[j] /\ d.bounds[j] = 0
                              ELSE d.values[j] = Coarse(counts[j], counts[s], q) /\ d.bounds[j] = q - 1
    BY <1>5, <1>8, <2>3, <2>4 DEF Sampled
  <2>9. /\ counts[s] \in Int /\ counts[i] \in Int /\ counts[i + 1] \in Int
        /\ counts[s] <= counts[i] /\ counts[i] <= counts[i + 1] /\ counts[s] <= counts[i + 1]
    BY <1>2, <2>5, <2>7
  <2>10. PICK a, t, u : a = counts[s] /\ t = counts[i] /\ u = counts[i + 1]
    OBVIOUS
  <2>11. a \in Int /\ t \in Int /\ u \in Int /\ a <= t /\ t <= u /\ a <= u
    BY <2>9, <2>10
  <2>12. /\ Coarse(t, a, q) \in Int /\ t - Coarse(t, a, q) \in 0..(q - 1) /\ a <= Coarse(t, a, q)
         /\ Coarse(u, a, q) \in Int /\ u - Coarse(u, a, q) \in 0..(q - 1) /\ a <= Coarse(u, a, q)
         /\ Coarse(t, a, q) <= Coarse(u, a, q)
    BY <2>6, <2>11, StoredClose, StoredRises
  <2>13. PICK v, w, b, c : v = d.values[i] /\ w = d.values[i + 1] /\ b = d.bounds[i] /\ c = d.bounds[i + 1]
    OBVIOUS
  <2>14. i # s + l /\ i + 1 # s
    BY <2>5
  <2>15. IF i = s THEN v = t /\ b = 0 /\ t = a ELSE v = Coarse(t, a, q) /\ b = q - 1
    BY <2>7, <2>8, <2>10, <2>13, <2>14
  <2>16. IF i + 1 = s + l THEN w = u /\ c = 0 ELSE w = Coarse(u, a, q) /\ c = q - 1
    BY <2>7, <2>8, <2>10, <2>13, <2>14
  <2>17. v \in Int /\ b \in Nat /\ t - v \in 0..b /\ w \in Int /\ c \in Nat /\ u - w \in 0..c
    BY <2>6, <2>11, <2>12, <2>15, <2>16
  <2>18. b <= q - 1 /\ c <= q - 1 /\ v <= w
    BY <2>6, <2>11, <2>12, <2>15, <2>16
  <2>19. i + 1 = n => c = 0
    BY <2>5, <2>16
  <2> QED
    BY <2>6, <2>7, <2>10, <2>13, <2>17, <2>18, <2>19
<1>10. /\ DOMAIN d.values = 1..n /\ DOMAIN d.bounds = 1..n /\ d.quanta = quanta
       /\ d.values[1] = counts[1] /\ d.bounds[1] = 0
       /\ IsSeq(d.values) /\ IsSeq(d.bounds) /\ Len(d.values) = n /\ Len(d.bounds) = n
  BY <1>3, SamplesBack
<1>11. \A i \in 1..n : d.values[i] \in Int /\ d.bounds[i] \in Nat /\ counts[i] - d.values[i] \in 0..d.bounds[i]
  <2> TAKE i \in 1..n
  <2>1. CASE i \in 1..(n - 1)
    BY <1>9, <2>1
  <2>2. CASE i = 1
    <3>1. d.values[i] = counts[i] /\ counts[i] \in Int /\ d.bounds[i] = 0
      BY <1>2, <1>10, <2>2
    <3> QED
      BY <3>1
  <2>3. CASE i = n /\ i # 1
    <3>1. i - 1 \in 1..(n - 1) /\ (i - 1) + 1 = i
      BY <1>1, <2>3
    <3> QED
      BY <1>9, <3>1
  <2> QED
    BY <1>1, <2>1, <2>2, <2>3
<1>12. d.bounds[n] = 0
  <2>1. CASE n = 1
    BY <1>10, <2>1
  <2>2. CASE n # 1
    <3>1. n - 1 \in 1..(n - 1) /\ (n - 1) + 1 = n
      BY <1>1, <2>2
    <3> QED
      BY <1>9, <3>1
  <2> QED
    BY <2>1, <2>2
<1>13. d.rows = lines
  <2>1. Numbers(lines, n) /\ lines = [i \in 1..n |-> lines[i]]
    BY DEF Given, Numbers
  <2>2. Len(lines) = n
    BY <1>1, <2>1, ListIsSeq
  <2>3. PICK k : k = n - 1
    OBVIOUS
  <2>4. k \in Nat /\ k + 1 = n
    BY <1>1, <2>3
  <2>5. PICK steps : steps = Differences(lines)
    OBVIOUS
  <2>6. steps = [i \in 1..k |-> lines[i + 1] - lines[i]]
    BY <2>2, <2>3, <2>5 DEF Differences
  <2>7. Steps(steps, lines, k)
    <3>1. steps = [i \in 1..k |-> steps[i]]
      BY <2>6
    <3>2. \A i \in 1..k : steps[i] = lines[i + 1] - lines[i]
      BY <2>6
    <3> QED
      BY <3>1, <3>2, Zenon DEF Steps
  <2>8. PICK first : first = lines[1]
    OBVIOUS
  <2>9. Sums(first, steps) = lines
    BY <2>1, <2>4, <2>7, <2>8, SumsOfDifferences
  <2>10. track.row = first /\ track.steps = steps
    BY <2>5, <2>8 DEF EncodeTrack
  <2>11. d.rows = Sums(track.row, track.steps)
    BY DEF DecodeTrack
  <2> QED
    BY <2>9, <2>10, <2>11
<1>14. \A i \in 1..(n - 1) : d.bounds[i] <= quanta[i] - 1 /\ d.bounds[i + 1] <= quanta[i] - 1
                             /\ d.values[i] <= d.values[i + 1]
  BY <1>9
<1> QED
  BY <1>10, <1>11, <1>12, <1>13, <1>14 DEF TrackReads

-----------------------------------------------------------------------------
(* What the decoder asks of a track                                         *)

\* g is what Feasible counts, from one sample to the next.
Reaching(g, d, ranges, from, to) ==
  g = [i \in from..to |->
       IF i = from THEN [min |-> d.values[from], max |-> d.values[from], ok |-> TRUE]
       ELSE Reach(g[i - 1], ranges[i - 1], d.values[i], d.bounds[i])]

\* There is a function that reaches from value to value.
LEMMA ReachingExists ==
  ASSUME NEW d, NEW ranges, NEW from \in Int
  PROVE  \A k \in Nat : \E g : Reaching(g, d, ranges, from, from + k)
<1> DEFINE T == {k \in Nat : \E g : Reaching(g, d, ranges, from, from + k)}
<1>1. 0 \in T
  <2>1. PICK g : g = [i \in from..from |-> [min |-> d.values[from], max |-> d.values[from], ok |-> TRUE]]
    OBVIOUS
  <2>2. \A i \in from..from : i = from
    OBVIOUS
  <2>3. g = [i \in from..from |-> IF i = from THEN [min |-> d.values[from], max |-> d.values[from], ok |-> TRUE]
                                  ELSE Reach(g[i - 1], ranges[i - 1], d.values[i], d.bounds[i])]
    BY <2>1, <2>2
  <2>4. from + 0 = from
    OBVIOUS
  <2>5. Reaching(g, d, ranges, from, from + 0)
    BY <2>3, <2>4 DEF Reaching
  <2> QED
    BY <2>5
<1>2. ASSUME NEW k \in Nat, k \in T  PROVE k + 1 \in T
  <2>1. PICK to, last : to = from + k /\ last = from + (k + 1)
    OBVIOUS
  <2>2. to \in Int /\ last = to + 1 /\ from <= to
    BY <2>1
  <2>3. PICK g : Reaching(g, d, ranges, from, to)
    BY <1>2, <2>1
  <2>4. PICK z : z = Reach(g[to], ranges[to], d.values[last], d.bounds[last])
    OBVIOUS
  <2>5. PICK h : h = [i \in from..last |-> IF i = last THEN z ELSE g[i]]
    OBVIOUS
  <2>6. ASSUME NEW i \in from..last
        PROVE  h[i] = IF i = from THEN [min |-> d.values[from], max |-> d.values[from], ok |-> TRUE]
                      ELSE Reach(h[i - 1], ranges[i - 1], d.values[i], d.bounds[i])
    <3>1. CASE i = last
      <4>1. i # from /\ i - 1 = to /\ to \in from..last /\ to # last
        BY <2>2, <3>1
      <4>2. h[to] = g[to] /\ h[i] = z
        BY <2>5, <3>1, <4>1
      <4> QED
        BY <2>4, <3>1, <4>1, <4>2
    <3>2. CASE i # last
      <4>1. i \in from..to /\ h[i] = g[i]
        BY <2>2, <2>5, <3>2
      <4>2. g[i] = IF i = from THEN [min |-> d.values[from], max |-> d.values[from], ok |-> TRUE]
                   ELSE Reach(g[i - 1], ranges[i - 1], d.values[i], d.bounds[i])
        BY <2>3, <4>1 DEF Reaching
      <4>3. i # from => i - 1 \in from..last /\ i - 1 # last
        BY <2>2, <4>1
      <4>4. i # from => h[i - 1] = g[i - 1]
        BY <2>5, <4>3
      <4> QED
        BY <4>1, <4>2, <4>4
    <3> QED
      BY <3>1, <3>2
  <2>7. h = [i \in from..last |-> IF i = from THEN [min |-> d.values[from], max |-> d.values[from], ok |-> TRUE]
                                  ELSE Reach(h[i - 1], ranges[i - 1], d.values[i], d.bounds[i])]
    BY <2>5, <2>6
  <2>8. Reaching(h, d, ranges, from, last)
    BY <2>7, Zenon DEF Reaching
  <2> QED
    BY <2>1, <2>8
<1> QED
  <2> HIDE DEF T
  <2>1. Nat \subseteq T
    BY <1>1, <1>2, Induction
  <2> QED
    BY <2>1 DEF T

\* The counter fits: it begins as the values do, is within their bounds, and rises as the ranges allow.
Fits(counts, d, ranges, from, to) ==
  /\ counts[from] = d.values[from]
  /\ \A i \in from..to : /\ counts[i] \in Int /\ counts[i] <= Top
                         /\ d.values[i] \in Int /\ d.bounds[i] \in Int
                         /\ d.values[i] <= counts[i] /\ counts[i] <= d.values[i] + d.bounds[i]
  /\ \A i \in from..to : i < to => /\ ranges[i].min \in Int /\ ranges[i].max \in Int
                                   /\ ranges[i].min <= counts[i + 1] - counts[i]
                                   /\ counts[i + 1] - counts[i] <= ranges[i].max

\* A total that a reach holds
Holds(reach, count) == reach.min \in Int /\ reach.max \in Int /\ reach.min <= count /\ count <= reach.max /\ reach.ok

\* One value more
LEMMA ReachHolds ==
  ASSUME NEW reach, NEW t \in Int, Holds(reach, t), NEW u \in Int, u <= Top,
         NEW range, range.min \in Int, range.max \in Int, range.min <= u - t, u - t <= range.max,
         NEW v \in Int, NEW b \in Int, v <= u, u <= v + b
  PROVE  Holds(Reach(reach, range, v, b), u)
<1>1. PICK n : n = Reach(reach, range, v, b)
  OBVIOUS
<1>2. /\ n.min = Larger(reach.min + range.min, v)
      /\ n.max = Smaller(reach.max + range.max, Smaller(v + b, Top))
      /\ n.ok = (reach.ok /\ reach.min <= reach.max)
  BY <1>1 DEF Reach
<1>3. reach.min \in Int /\ reach.max \in Int /\ reach.min <= t /\ t <= reach.max
  BY DEF Holds
<1>4. n.min \in Int /\ n.min <= u
  BY <1>2, <1>3 DEF Larger
<1>5. n.max \in Int /\ u <= n.max
  BY <1>2, <1>3, MaxPowerIs DEF Smaller
<1>6. reach.min <= reach.max
  BY <1>3
<1>7. reach.ok
  BY Zenon DEF Holds
<1>8. n.ok
  BY <1>2, <1>6, <1>7, Zenon
<1> QED
  BY <1>1, <1>4, <1>5, <1>8, Zenon DEF Holds

\* Where a counter fits, the decoder finds one.
LEMMA FittedFeasible ==
  ASSUME NEW from \in Int, NEW to \in Int, from <= to, NEW counts, NEW d, NEW ranges, Fits(counts, d, ranges, from, to)
  PROVE  Feasible(d, ranges, from, to)
<1>1. PICK k \in Nat : to = from + k
  <2>1. to - from \in Nat /\ to = from + (to - from)
    OBVIOUS
  <2> QED
    BY <2>1
<1>2. PICK g : g = CHOOSE r : Reaching(r, d, ranges, from, to)
  OBVIOUS
<1>3. Reaching(g, d, ranges, from, to)
  <2>1. \E r : Reaching(r, d, ranges, from, to)
    BY <1>1, ReachingExists
  <2> QED
    BY <1>2, <2>1, Zenon
<1>4. g[to].ok /\ g[to].min <= g[to].max => Feasible(d, ranges, from, to)
  <2>1. g = CHOOSE r : r = [i \in from..to |->
                            IF i = from THEN [min |-> d.values[from], max |-> d.values[from], ok |-> TRUE]
                            ELSE Reach(r[i - 1], ranges[i - 1], d.values[i], d.bounds[i])]
    BY <1>2, Zenon DEF Reaching
  <2> QED
    BY <2>1, Zenon DEF Feasible
<1> DEFINE T == {j \in Nat : from + j <= to => Holds(g[from + j], counts[from + j])}
<1>5. 0 \in T
  <2>1. from \in from..to /\ from + 0 = from
    OBVIOUS
  <2>2. PICK z : z = g[from]
    OBVIOUS
  <2>3. z = [min |-> d.values[from], max |-> d.values[from], ok |-> TRUE]
    BY <1>3, <2>1, <2>2 DEF Reaching
  <2>4. d.values[from] \in Int /\ counts[from] = d.values[from]
    BY <2>1 DEF Fits
  <2>5. Holds(z, counts[from])
    BY <2>3, <2>4 DEF Holds
  <2> QED
    BY <2>1, <2>2, <2>5
<1>6. ASSUME NEW j \in Nat, j \in T  PROVE j + 1 \in T
  <2> SUFFICES ASSUME from + (j + 1) <= to  PROVE Holds(g[from + (j + 1)], counts[from + (j + 1)])
    OBVIOUS
  <2>1. PICK i, o : i = from + (j + 1) /\ o = from + j
    OBVIOUS
  <2>2. i \in from..to /\ o \in from..to /\ i - 1 = o /\ o + 1 = i /\ i # from /\ o < to /\ o <= to
    BY <2>1
  <2>3. Holds(g[o], counts[o])
    BY <1>6, <2>1, <2>2
  <2>4. g[i] = Reach(g[o], ranges[o], d.values[i], d.bounds[i])
    BY <1>3, <2>2 DEF Reaching
  <2>5. /\ counts[i] \in Int /\ counts[i] <= Top /\ counts[o] \in Int
        /\ d.values[i] \in Int /\ d.bounds[i] \in Int
        /\ d.values[i] <= counts[i] /\ counts[i] <= d.values[i] + d.bounds[i]
    BY <2>2 DEF Fits
  <2>6. /\ ranges[o].min \in Int /\ ranges[o].max \in Int
        /\ ranges[o].min <= counts[i] - counts[o] /\ counts[i] - counts[o] <= ranges[o].max
    BY <2>2 DEF Fits
  <2>7. PICK reach, range, t, u, v, b : /\ reach = g[o] /\ range = ranges[o] /\ t = counts[o] /\ u = counts[i]
                                        /\ v = d.values[i] /\ b = d.bounds[i]
    OBVIOUS
  <2>8. Holds(Reach(reach, range, v, b), u)
    BY <2>3, <2>5, <2>6, <2>7, ReachHolds
  <2> QED
    BY <2>1, <2>4, <2>7, <2>8
<1>7. Nat \subseteq T
  <2> HIDE DEF T
  <2> QED
    BY <1>5, <1>6, Induction
<1>8. Holds(g[to], counts[to])
  BY <1>1, <1>7
<1>9. PICK z : z = g[to]
  OBVIOUS
<1>10. z.ok
  BY <1>8, <1>9, Zenon DEF Holds
<1>11. z.min <= z.max
  <2>1. to \in from..to
    OBVIOUS
  <2>2. counts[to] \in Int
    BY <2>1 DEF Fits
  <2> QED
    BY <1>8, <1>9, <2>2 DEF Holds
<1> QED
  BY <1>4, <1>9, <1>10, <1>11

\* The adaptive quantum of a rise is about an eighth of it, or the cap.
LEMMA AdaptiveFacts ==
  ASSUME NEW cap \in Nat \ {0}, cap <= MaxPower, NEW used \in Nat, NEW q, q = AdaptiveQuantum(used, cap)
  PROVE  /\ q \in Nat \ {0} /\ q <= cap /\ q \in Powers \cup {cap}
         /\ q = 1 /\ cap # 1 => used <= 15
         /\ q > 1 => 8 * q <= used
         /\ q > 1 /\ q < cap => used <= 16 * q - 1
         /\ q > 1 /\ q = cap => 8 * PowerAbove(cap) <= used
<1>1. CASE used < 8
  <2>1. q = 1
    BY <1>1 DEF AdaptiveQuantum
  <2> QED
    BY <1>1, <2>1, PowersDouble
<1>2. CASE ~(used < 8)
  <2>1. PICK m : m = used \div 8
    OBVIOUS
  <2>2. m \in Nat \ {0} /\ 8 * m <= used /\ used < 8 * m + 8
    BY <1>2, <2>1
  <2>3. PICK o : o = Smaller(m, MaxPower)
    OBVIOUS
  <2>4. o \in Nat \ {0} /\ o <= m /\ o <= MaxPower /\ o < 2 * MaxPower /\ (o # m => o = MaxPower)
    BY <2>2, <2>3, MaxPowerIs DEF Smaller
  <2>5. PICK p : p = PowerBelow(o)
    OBVIOUS
  <2>6. p \in Powers /\ p <= o /\ o < 2 * p
    BY <2>4, <2>5, PowerBelowIs
  <2>7. p \in Nat \ {0} /\ p <= m
    BY <2>2, <2>4, <2>6, PowerFacts
  <2>8. p < cap => m < 2 * p
    <3> HAVE p < cap
    <3>1. p # MaxPower /\ p < MaxPower
      BY <2>7, MaxPowerIs
    <3>2. 2 * p \in Powers
      BY <2>6, <3>1, PowersDouble
    <3>3. 2 * p <= MaxPower
      BY <3>2, PowersDouble
    <3>4. o # MaxPower
      BY <2>6, <2>7, <3>3, MaxPowerIs
    <3> QED
      BY <2>4, <2>6, <3>4
  <2>9. q = Smaller(p, cap)
    BY <1>2, <2>1, <2>3, <2>5 DEF AdaptiveQuantum
  <2>10. CASE p < cap
    <3>1. q = p
      BY <2>7, <2>9, <2>10 DEF Smaller
    <3> QED
      BY <2>2, <2>6, <2>7, <2>8, <2>10, <3>1
  <2>11. CASE ~(p < cap)
    <3>1. q = cap /\ cap <= p
      BY <2>7, <2>9, <2>11 DEF Smaller
    <3>2. PICK a : a = PowerAbove(cap)
      OBVIOUS
    <3>3. a \in Powers /\ cap <= a /\ a < 2 * cap
      BY <3>2, PowerAboveIs
    <3>4. a \in Nat \ {0}
      BY <3>3, PowerFacts
    <3>5. a < 2 * p
      BY <2>7, <3>1, <3>3, <3>4
    <3>6. a <= p
      BY <2>6, <3>3, <3>5, PowerFacts
    <3>7. 8 * a <= used /\ 8 * cap <= used
      BY <2>2, <2>7, <3>1, <3>4, <3>6
    <3>8. q = 1 /\ cap # 1 => used <= 15
      BY <3>1
    <3> QED
      BY <3>1, <3>2, <3>7, <3>8
  <2> QED
    BY <2>10, <2>11
<1> QED
  BY <1>1, <1>2

\* A range that a rise lies in
Allows(range, rise) == range.min \in Int /\ range.max \in Int /\ range.min <= rise /\ rise <= range.max

\* A rise lies in the range of its quantum.
LEMMA AdaptiveAllowed ==
  ASSUME NEW cap \in Nat \ {0}, cap <= MaxPower, NEW used \in Nat, used <= Top,
         NEW q, q = AdaptiveQuantum(used, cap)
  PROVE  Allows(AllowedDelta("adaptive", q, cap), used)
<1>1. PICK range, a, top : range = AllowedDelta("adaptive", q, cap) /\ a = PowerAbove(cap) /\ top = Top
  OBVIOUS
<1>2. range = IF cap = 1 THEN [min |-> 0, max |-> top]
              ELSE IF q = 1 THEN [min |-> 0, max |-> 15]
              ELSE IF q = cap THEN [min |-> 8 * a, max |-> top]
              ELSE [min |-> 8 * q, max |-> 16 * q - 1]
  BY <1>1 DEF AllowedDelta
<1>3. /\ q \in Nat \ {0} /\ q <= cap
      /\ q = 1 /\ cap # 1 => used <= 15
      /\ q > 1 => 8 * q <= used
      /\ q > 1 /\ q < cap => used <= 16 * q - 1
      /\ q > 1 /\ q = cap => 8 * a <= used
  BY <1>1, AdaptiveFacts
<1>4. a \in Nat
  <2>1. a \in Powers
    BY <1>1, PowerAboveIs
  <2> QED
    BY <2>1, PowerFacts
<1>5. top \in Nat /\ used <= top
  BY <1>1, MaxPowerIs
<1>6. CASE cap = 1
  <2>1. range.min = 0 /\ range.max = top
    BY <1>2, <1>6
  <2> QED
    BY <1>1, <1>5, <2>1 DEF Allows
<1>7. CASE cap # 1 /\ q = 1
  <2>1. range.min = 0 /\ range.max = 15
    BY <1>2, <1>7
  <2> QED
    BY <1>1, <1>3, <1>7, <2>1 DEF Allows
<1>8. CASE cap # 1 /\ q # 1 /\ q = cap
  <2>1. range.min = 8 * a /\ range.max = top
    BY <1>2, <1>8
  <2>2. q > 1
    BY <1>3, <1>8
  <2> QED
    BY <1>1, <1>3, <1>4, <1>5, <1>8, <2>1, <2>2 DEF Allows
<1>9. CASE cap # 1 /\ q # 1 /\ q # cap
  <2>1. range.min = 8 * q /\ range.max = 16 * q - 1
    BY <1>2, <1>9
  <2>2. q > 1 /\ q < cap
    BY <1>3, <1>9
  <2> QED
    BY <1>1, <1>3, <2>1, <2>2 DEF Allows
<1> QED
  BY <1>6, <1>7, <1>8, <1>9

\* The quantum of an interval is one of those of its profile.
LEMMA IntervalFacts ==
  ASSUME NEW cap \in Nat \ {0}, cap <= MaxPower, NEW rise \in Nat, rise <= Top, NEW profile \in {"fixed", "adaptive"},
         NEW q, q = IntervalQuantum(profile, rise, cap)
  PROVE  /\ q \in Nat \ {0} /\ q <= cap
         /\ profile = "fixed" => q \in {1, cap}
         /\ profile = "adaptive" => q \in Powers \cup {cap} /\ (q > 1 => 8 * q <= rise)
<1>1. CASE profile = "fixed"
  <2>1. q = IF rise = 0 THEN 1 ELSE cap
    BY <1>1 DEF IntervalQuantum
  <2> QED
    BY <1>1, <2>1
<1>2. CASE profile = "adaptive"
  <2>1. q = AdaptiveQuantum(rise, cap)
    BY <1>2 DEF IntervalQuantum
  <2> QED
    BY <1>2, <2>1, AdaptiveFacts
<1> QED
  BY <1>1, <1>2

\* A rise lies in the range of the quantum that it chooses.
LEMMA IntervalAllowed ==
  ASSUME NEW cap \in Nat \ {0}, cap <= MaxPower, NEW rise \in Nat, rise <= Top, NEW profile \in {"fixed", "adaptive"},
         NEW q, q = IntervalQuantum(profile, rise, cap)
  PROVE  Allows(AllowedDelta(profile, q, cap), rise)
<1>1. CASE profile = "fixed"
  <2>1. q = IF rise = 0 THEN 1 ELSE cap
    BY <1>1 DEF IntervalQuantum
  <2>2. PICK range, top : range = AllowedDelta(profile, q, cap) /\ top = Top
    OBVIOUS
  <2>3. range = IF cap = 1 THEN [min |-> 0, max |-> top]
                ELSE IF q = 1 THEN [min |-> 0, max |-> 0] ELSE [min |-> 1, max |-> top]
    BY <1>1, <2>2 DEF AllowedDelta
  <2>4. top \in Nat /\ rise <= top
    BY <2>2, MaxPowerIs
  <2>5. CASE cap = 1
    <3>1. range.min = 0 /\ range.max = top
      BY <2>3, <2>5
    <3> QED
      BY <2>2, <2>4, <3>1 DEF Allows
  <2>6. CASE cap # 1 /\ rise = 0
    <3>1. range.min = 0 /\ range.max = 0
      BY <2>1, <2>3, <2>6
    <3> QED
      BY <2>2, <2>6, <3>1 DEF Allows
  <2>7. CASE cap # 1 /\ rise # 0
    <3>1. range.min = 1 /\ range.max = top
      BY <2>1, <2>3, <2>7
    <3> QED
      BY <2>2, <2>4, <2>7, <3>1 DEF Allows
  <2> QED
    BY <2>5, <2>6, <2>7
<1>2. CASE profile = "adaptive"
  <2>1. q = AdaptiveQuantum(rise, cap)
    BY <1>2 DEF IntervalQuantum
  <2> QED
    BY <1>2, <2>1, AdaptiveAllowed
<1> QED
  BY <1>1, <1>2

\* The decoder takes the runs the encoder writes.
LEMMA RunsTaken ==
  ASSUME NEW n, NEW lines, NEW counts, NEW quanta, Given(lines, counts, quanta, n),
         NEW cap \in Nat \ {0}, \A i \in 1..(n - 1) : quanta[i] <= cap,
         \A i \in 1..(n - 1) : lines[i] < lines[i + 1],
         NEW track, track = EncodeTrack(lines, counts, quanta), NEW d, d = DecodeTrack(track)
  PROVE  RunsAccepted(track, d, cap)
<1>1. n \in Nat \ {0} /\ n - 1 \in Nat
  BY DEF Given
<1>2. PICK runs : runs = Runs(quanta)
  OBVIOUS
<1>3. EqualRuns(runs, quanta, n - 1)
  BY <1>1, <1>2, RunsAre DEF Given
<1>4. Written(track, counts, runs) /\ DOMAIN track.runs = 1..Len(runs) /\ track.steps = Differences(lines)
  BY <1>2, TrackWritten
<1>5. TrackReads(d, lines, counts, quanta, n)
  BY TrackBack
<1>6. ASSUME NEW r \in DOMAIN track.runs
      PROVE  /\ track.runs[r].length > 0 /\ track.runs[r].q \in 1..cap
             /\ r > 1 => track.runs[r].q # track.runs[r - 1].q
  <2>1. r \in 1..Len(runs) /\ Len(runs) \in Nat
    BY <1>3, <1>4, SeqHas DEF EqualRuns, Cut
  <2>2. track.runs[r].q = runs[r].q /\ track.runs[r].length = runs[r].length
    BY <1>4, <2>1 DEF Written
  <2>3. runs[r].length \in Nat \ {0} /\ runs[r].start \in 1..(n - 1) /\ runs[r].q = quanta[runs[r].start]
    BY <1>3, <2>1 DEF EqualRuns, Cut
  <2>4. quanta[runs[r].start] \in Nat \ {0} /\ quanta[runs[r].start] <= cap
    BY <2>3 DEF Given
  <2>5. ASSUME r > 1  PROVE track.runs[r].q # track.runs[r - 1].q
    <3>1. r - 1 \in 1..Len(runs)
      BY <2>1, <2>5
    <3>2. track.runs[r - 1].q = runs[r - 1].q
      BY <1>4, <3>1 DEF Written
    <3>3. runs[r].q # runs[r - 1].q
      BY <1>3, <2>1, <2>5 DEF EqualRuns
    <3> QED
      BY <2>2, <3>2, <3>3
  <2> QED
    BY <2>2, <2>3, <2>4, <2>5
<1>7. ASSUME NEW i \in DOMAIN track.steps  PROVE track.steps[i] > 0
  <2>1. lines = [j \in 1..n |-> lines[j]] /\ \A j \in 1..n : lines[j] \in Int
    BY DEF Given, Numbers
  <2>2. Len(lines) = n
    BY <1>1, <2>1, ListIsSeq
  <2>3. i \in 1..(n - 1) /\ track.steps[i] = lines[i + 1] - lines[i]
    BY <1>4, <2>2 DEF Differences
  <2>4. i \in 1..n /\ i + 1 \in 1..n
    BY <1>1, <2>3
  <2>5. lines[i] < lines[i + 1] /\ lines[i] \in Int /\ lines[i + 1] \in Int
    BY <2>1, <2>3, <2>4
  <2> QED
    BY <2>3, <2>5
<1>8. Rises(d.values)
  <2> SUFFICES ASSUME NEW i \in 2..n  PROVE d.values[i - 1] <= d.values[i]
    BY <1>5 DEF Rises, TrackReads
  <2>1. PICK j : j = i - 1
    OBVIOUS
  <2>2. j \in 1..(n - 1) /\ j + 1 = i
    BY <1>1, <2>1
  <2>3. d.values[j] <= d.values[j + 1]
    BY <1>5, <2>2 DEF TrackReads
  <2> QED
    BY <2>1, <2>2, <2>3
<1> QED
  BY <1>6, <1>7, <1>8 DEF RunsAccepted

\* The true counter is one that fits.
LEMMA RunsFit ==
  ASSUME NEW n, NEW lines, NEW counts, NEW quanta, Given(lines, counts, quanta, n),
         \A i \in 1..n : counts[i] <= Top,
         NEW ranges, \A i \in 1..(n - 1) : Allows(ranges[i], counts[i + 1] - counts[i]),
         NEW track, track = EncodeTrack(lines, counts, quanta), NEW d, d = DecodeTrack(track)
  PROVE  RunsFeasible(d, ranges)
<1>1. n \in Nat \ {0} /\ n - 1 \in Nat /\ (n - 1) + 1 = n
  BY DEF Given
<1>2. PICK runs : runs = Runs(quanta)
  OBVIOUS
<1>3. Cut(runs, Changed(quanta, n - 1), n - 1)
  BY <1>1, <1>2, RunsAre DEF Given, EqualRuns
<1>4. PICK marks : marks = Marks(runs, n - 1)
  OBVIOUS
<1>5. Laid(runs, marks, n)
  BY <1>1, <1>3, <1>4, RunsLaid
<1>6. TrackReads(d, lines, counts, quanta, n)
  BY TrackBack
<1>7. Sampled(d, counts, runs)
  BY <1>2, SamplesBack
<1>8. ASSUME NEW r \in 1..Len(runs)  PROVE Feasible(d, ranges, runs[r].start, runs[r].start + runs[r].length)
  <2>1. PICK from, to : from = runs[r].start /\ to = runs[r].start + runs[r].length
    OBVIOUS
  <2>2. from \in 1..n /\ to \in 1..n /\ from <= to
    <3>1. /\ marks[r] = from /\ marks[r + 1] = to /\ runs[r].length \in Nat \ {0}
          /\ Len(runs) \in Nat
      BY <1>5, <2>1 DEF Laid
    <3>2. r \in 1..(Len(runs) + 1) /\ r + 1 \in 1..(Len(runs) + 1)
      BY <3>1
    <3>3. marks[r] \in 1..n /\ marks[r + 1] \in 1..n
      BY <1>5, <3>2 DEF Laid
    <3> QED
      BY <2>1, <3>1, <3>3
  <2>3. counts[from] = d.values[from]
    <3>1. from \in from..to
      BY <2>2
    <3> QED
      BY <1>7, <2>1, <3>1 DEF Sampled
  <2>4. ASSUME NEW i \in from..to
        PROVE  /\ counts[i] \in Int /\ counts[i] <= Top
               /\ d.values[i] \in Int /\ d.bounds[i] \in Int
               /\ d.values[i] <= counts[i] /\ counts[i] <= d.values[i] + d.bounds[i]
    <3>1. i \in 1..n
      BY <1>1, <2>2
    <3>2. counts[i] \in Int /\ counts[i] <= Top
      BY <3>1 DEF Given, Numbers
    <3>3. d.values[i] \in Int /\ d.bounds[i] \in Nat /\ counts[i] - d.values[i] \in 0..d.bounds[i]
      BY <1>6, <3>1 DEF TrackReads
    <3> QED
      BY <3>2, <3>3
  <2>5. ASSUME NEW i \in from..to, i < to
        PROVE  /\ ranges[i].min \in Int /\ ranges[i].max \in Int
               /\ ranges[i].min <= counts[i + 1] - counts[i]
               /\ counts[i + 1] - counts[i] <= ranges[i].max
    <3>1. i \in 1..(n - 1)
      BY <1>1, <2>2, <2>5
    <3> QED
      BY <3>1 DEF Allows
  <2>6. Fits(counts, d, ranges, from, to)
    BY <2>3, <2>4, <2>5 DEF Fits
  <2>7. from \in Int /\ to \in Int
    BY <2>2
  <2> QED
    BY <2>1, <2>2, <2>6, <2>7, FittedFeasible
<1>9. d.quanta = quanta
  BY <1>6 DEF TrackReads
<1>10. DOMAIN runs = 1..Len(runs)
  BY <1>5 DEF Laid
<1> QED
  BY <1>2, <1>8, <1>9, <1>10 DEF RunsFeasible, ToSet

\* The decoder takes a track of CSH2.
LEMMA TrackTaken ==
  ASSUME NEW n, NEW lines, NEW counts, NEW quanta, Given(lines, counts, quanta, n),
         \A i \in 1..n : counts[i] <= Top,
         \A i \in 1..(n - 1) : lines[i] < lines[i + 1],
         NEW cap \in Nat \ {0}, cap <= MaxPower, NEW profile \in {"fixed", "adaptive"},
         \A i \in 1..(n - 1) : /\ counts[i + 1] - counts[i] \in Nat /\ counts[i + 1] - counts[i] <= Top
                               /\ quanta[i] = IntervalQuantum(profile, counts[i + 1] - counts[i], cap),
         NEW track, track = EncodeTrack(lines, counts, quanta), NEW d, d = DecodeTrack(track)
  PROVE  Accepts(track, d, profile, cap)
<1>1. n \in Nat \ {0} /\ n - 1 \in Nat
  BY DEF Given
<1>2. ASSUME NEW i \in 1..(n - 1)
      PROVE  /\ quanta[i] \in Nat \ {0} /\ quanta[i] <= cap
             /\ profile = "fixed" => quanta[i] \in {1, cap}
             /\ profile = "adaptive" => quanta[i] \in Powers \cup {cap} /\ (quanta[i] > 1 => 8 * quanta[i] <= counts[i + 1] - counts[i])
             /\ Allows(AllowedDelta(profile, quanta[i], cap), counts[i + 1] - counts[i])
  <2>1. PICK rise, q : rise = counts[i + 1] - counts[i] /\ q = quanta[i]
    OBVIOUS
  <2>2. rise \in Nat /\ rise <= Top /\ q = IntervalQuantum(profile, rise, cap)
    BY <2>1
  <2> QED
    BY <2>1, <2>2, IntervalFacts, IntervalAllowed
<1>3. TrackReads(d, lines, counts, quanta, n)
  BY TrackBack
<1>4. d.quanta = quanta /\ DOMAIN quanta = 1..(n - 1)
  BY <1>3, SeqHas DEF TrackReads, Given
<1>5. RunsAccepted(track, d, cap)
  BY <1>2, RunsTaken
<1>6. PICK ranges : ranges = [i \in DOMAIN d.quanta |-> AllowedDelta(profile, d.quanta[i], cap)]
  OBVIOUS
<1>7. RunsFeasible(d, ranges)
  <2>1. \A i \in 1..(n - 1) : Allows(ranges[i], counts[i + 1] - counts[i])
    BY <1>2, <1>4, <1>6
  <2> QED
    BY <2>1, RunsFit
<1>8. ASSUME NEW i \in 1..(n - 1), profile = "adaptive", quanta[i] > 1  PROVE d.values[i] < d.values[i + 1]
  <2>1. i \in 1..n /\ i + 1 \in 1..n
    BY <1>1
  <2>2. PICK t, u, v, w, b, c, q : /\ t = counts[i] /\ u = counts[i + 1] /\ v = d.values[i] /\ w = d.values[i + 1]
                                   /\ b = d.bounds[i] /\ c = d.bounds[i + 1] /\ q = quanta[i]
    OBVIOUS
  <2>3. t \in Int /\ u \in Int
    BY <2>1, <2>2 DEF Given, Numbers
  <2>4. v \in Int /\ w \in Int /\ b \in Nat /\ c \in Nat /\ t - v \in 0..b /\ u - w \in 0..c /\ c <= q - 1
    BY <1>3, <2>1, <2>2 DEF TrackReads
  <2>5. q \in Nat \ {0} /\ 8 * q <= u - t
    BY <1>2, <1>8, <2>2
  <2>6. v < w
    BY <2>3, <2>4, <2>5
  <2> QED
    BY <2>2, <2>6
<1>9. ASSUME NEW i \in DOMAIN d.quanta
      PROVE  IF profile = "fixed" THEN d.quanta[i] \in {1, cap}
             ELSE d.quanta[i] \in Powers \cup {cap} /\ (d.quanta[i] > 1 => d.values[i] < d.values[i + 1])
  BY <1>2, <1>4, <1>8
<1> QED
  BY <1>5, <1>6, <1>7, <1>9 DEF Accepts

-----------------------------------------------------------------------------
(* CSH1                                                                     *)

\* Positions one after the other from the start of each stretch
Consecutive(p, parts, n) ==
  \A r \in 1..Len(parts) : \A i \in 1..n :
     parts[r].start <= i /\ i < parts[r].start + parts[r].length => p[i] = p[parts[r].start] + (i - parts[r].start)

\* Positions follow one another in each stretch of them.
LEMMA JoinedAre ==
  ASSUME NEW n \in Nat, NEW p, Numbers(p, n), NEW parts, parts = Joined(p)
  PROVE  Cut(parts, {i \in 1..n : i = 1 \/ p[i] # p[i - 1] + 1}, n) /\ Consecutive(p, parts, n)
<1>1. p = [i \in 1..n |-> p[i]] /\ \A i \in 1..n : p[i] \in Int
  BY DEF Numbers
<1>2. DOMAIN p = 1..n /\ Len(p) = n
  BY <1>1, ListIsSeq, SeqHas
<1>3. PICK S : S = {i \in 1..n : i = 1 \/ p[i] # p[i - 1] + 1}
  OBVIOUS
<1>4. parts = Stretches(S, n)
  BY <1>2, <1>3 DEF Joined
<1>5. Cut(parts, S, n)
  <2>1. S \subseteq 1..n /\ (n # 0 => 1 \in S)
    BY <1>3
  <2> QED
    BY <1>4, <2>1, StretchesAre
<1>6. ASSUME NEW r \in 1..Len(parts), NEW i \in 1..n, parts[r].start <= i, i < parts[r].start + parts[r].length
      PROVE  p[i] = p[parts[r].start] + (i - parts[r].start)
  <2>1. PICK from, length : from = parts[r].start /\ length = parts[r].length
    OBVIOUS
  <2>2. /\ from \in 1..n /\ length \in Nat \ {0}
        /\ \A j \in 1..n : from < j /\ j < from + length => j \notin S
    BY <1>5, <2>1 DEF Cut
  <2> DEFINE T == {k \in Nat : k < length /\ from + k \in 1..n => p[from + k] = p[from] + k}
  <2>3. 0 \in T
    <3>1. from + 0 = from /\ p[from] + 0 = p[from]
      BY <1>1, <2>2
    <3> QED
      BY <3>1
  <2>4. ASSUME NEW k \in Nat, k \in T  PROVE k + 1 \in T
    <3> SUFFICES ASSUME k + 1 < length, from + (k + 1) \in 1..n  PROVE p[from + (k + 1)] = p[from] + (k + 1)
      OBVIOUS
    <3>1. PICK j : j = from + (k + 1)
      OBVIOUS
    <3>2. j \in 1..n /\ from < j /\ j < from + length /\ j - 1 = from + k /\ j # 1 /\ k < length /\ from + k \in 1..n
      BY <2>2, <3>1
    <3>3. j \notin S
      BY <2>2, <3>2
    <3>4. p[j] = p[j - 1] + 1
      BY <1>3, <3>2, <3>3
    <3>5. p[from + k] = p[from] + k
      BY <2>4, <3>2
    <3>6. p[from] \in Int
      BY <1>1, <2>2
    <3> QED
      BY <3>1, <3>2, <3>4, <3>5, <3>6
  <2>5. Nat \subseteq T
    <3> HIDE DEF T
    <3> QED
      BY <2>3, <2>4, Induction
  <2>6. PICK k \in Nat : i = from + k /\ k < length /\ k = i - from
    <3>1. i - from \in Nat /\ i = from + (i - from) /\ i - from < length
      BY <1>6, <2>1, <2>2
    <3> QED
      BY <3>1
  <2>7. p[from + k] = p[from] + k
    BY <2>5, <2>6
  <2> QED
    BY <2>1, <2>6, <2>7
<1>7. Consecutive(p, parts, n)
  BY <1>6 DEF Consecutive
<1> QED
  BY <1>3, <1>5, <1>7

\* The decoder has the positions of the coverage again, and accepts its stretches.
LEMMA CoverageBack ==
  ASSUME NEW n \in Nat \ {0}, NEW p, Numbers(p, n), \A i \in 1..(n - 1) : p[i] < p[i + 1],
         NEW cover, cover = Coverage(p)
  PROVE  /\ Covered(cover) = p
         /\ \A r \in DOMAIN cover : cover[r].length > 0 /\ (r > 1 => cover[r].gap > 0)
<1>1. p = [i \in 1..n |-> p[i]] /\ \A i \in 1..n : p[i] \in Int
  BY DEF Numbers
<1>2. PICK parts, S : parts = Joined(p) /\ S = {i \in 1..n : i = 1 \/ p[i] # p[i - 1] + 1}
  OBVIOUS
<1>3. Cut(parts, S, n) /\ Consecutive(p, parts, n)
  BY <1>2, JoinedAre
<1>4. PICK m, marks : m = Len(parts) /\ marks = Marks(parts, n)
  OBVIOUS
<1>5. PICK N : N = n + 1
  OBVIOUS
<1>6. N \in Nat \ {0} /\ n = N - 1
  BY <1>5
<1>7. Laid(parts, marks, N)
  BY <1>3, <1>4, <1>6, RunsLaid
<1>8. /\ m \in Nat /\ DOMAIN parts = 1..m
      /\ marks = [r \in 1..(m + 1) |-> marks[r]]
      /\ \A r \in 1..(m + 1) : marks[r] \in 1..N
      /\ \A r \in 1..m : /\ marks[r] = parts[r].start /\ marks[r + 1] = parts[r].start + parts[r].length
                         /\ parts[r].length \in Nat \ {0}
      /\ marks[1] = 1 /\ marks[m + 1] = N
      /\ Increasing(marks, m + 1)
  BY <1>4, <1>7, Zenon DEF Laid
<1>9. ASSUME NEW r \in 1..m
      PROVE  /\ r \in 1..(m + 1) /\ r + 1 \in 1..(m + 1)
             /\ parts[r].start \in 1..n /\ parts[r].length \in Nat \ {0}
             /\ parts[r].start + parts[r].length \in 1..N
             /\ p[parts[r].start] \in Int
  <2>1. r \in 1..(m + 1) /\ r + 1 \in 1..(m + 1)
    BY <1>8
  <2>2. marks[r] = parts[r].start /\ marks[r + 1] = parts[r].start + parts[r].length /\ parts[r].length \in Nat \ {0}
    BY <1>8
  <2>3. parts[r].start \in 1..n
    BY <1>3, <1>4 DEF Cut
  <2>4. marks[r + 1] \in 1..N
    BY <1>8, <2>1
  <2> QED
    BY <1>1, <2>1, <2>2, <2>3, <2>4
<1>10. PICK end : end = [r \in 1..m |-> p[parts[r].start] + parts[r].length]
  OBVIOUS
<1>11. \A r \in 1..m : end[r] \in Int
  BY <1>9, <1>10
<1>12. cover = [r \in 1..m |-> [gap |-> p[parts[r].start] - (IF r = 1 THEN 1 ELSE end[r - 1]), length |-> parts[r].length]]
  <2>1. cover = [r \in DOMAIN parts |->
                 [gap |-> p[parts[r].start] - (IF r = 1 THEN 1 ELSE p[parts[r - 1].start] + parts[r - 1].length),
                  length |-> parts[r].length]]
    BY <1>2 DEF Coverage
  <2>2. \A r \in 1..m : r # 1 => r - 1 \in 1..m
    BY <1>8
  <2> QED
    BY <1>8, <1>10, <2>1, <2>2
<1>13. \A r \in 1..m : cover[r].length = parts[r].length /\ cover[r].gap = p[parts[r].start] - (IF r = 1 THEN 1 ELSE end[r - 1])
  BY <1>12
<1>14. Lengths(cover) = Lengths(parts)
  <2>1. DOMAIN cover = 1..m
    BY <1>12
  <2> QED
    BY <1>8, <1>13, <2>1 DEF Lengths
<1>15. Sums(1, Lengths(cover)) = marks
  <2>1. Sums(1, Lengths(parts)) = marks
    BY <1>3, <1>4, MarksAre
  <2> QED
    BY <1>14, <2>1
<1>16. PICK ends : ends = [r \in 1..(m + 1) |-> IF r = 1 THEN 1 ELSE end[r - 1]]
  OBVIOUS
<1>17. ends[1] = 1 /\ \A r \in 1..m : ends[r + 1] = end[r] /\ ends[r] = (IF r = 1 THEN 1 ELSE end[r - 1]) /\ ends[r] \in Int
  <2>1. 1 \in 1..(m + 1)
    BY <1>8
  <2>2. \A r \in 1..m : r \in 1..(m + 1) /\ r + 1 \in 1..(m + 1) /\ r + 1 # 1 /\ (r + 1) - 1 = r /\ (r # 1 => r - 1 \in 1..m)
    BY <1>8
  <2>3. \A r \in 1..m : ends[r + 1] = end[r] /\ ends[r] = (IF r = 1 THEN 1 ELSE end[r - 1])
    BY <1>16, <2>2
  <2> QED
    BY <1>11, <1>16, <2>1, <2>2, <2>3
<1>18. PICK steps : steps = [r \in 1..m |-> cover[r].gap + cover[r].length]
  OBVIOUS
<1>19. Sums(1, steps) = ends
  <2>1. Numbers(ends, m + 1)
    <3>1. ends = [r \in 1..(m + 1) |-> ends[r]]
      BY <1>16
    <3>2. \A r \in 1..(m + 1) : ends[r] \in Int
      <4>1. \A r \in 1..(m + 1) : r # 1 => r - 1 \in 1..m
        BY <1>8
      <4> QED
        BY <1>11, <1>16, <4>1
    <3> QED
      BY <3>1, <3>2, Zenon DEF Numbers
  <2>2. Steps(steps, ends, m)
    <3>1. steps = [r \in 1..m |-> steps[r]]
      BY <1>18
    <3>2. ASSUME NEW r \in 1..m  PROVE steps[r] = ends[r + 1] - ends[r]
      <4>1. /\ steps[r] = cover[r].gap + cover[r].length
            /\ cover[r].gap = p[parts[r].start] - ends[r] /\ cover[r].length = parts[r].length
        BY <1>13, <1>17, <1>18
      <4>2. ends[r + 1] = p[parts[r].start] + parts[r].length /\ ends[r] \in Int
        BY <1>10, <1>17
      <4>3. p[parts[r].start] \in Int /\ parts[r].length \in Int
        BY <1>9
      <4> QED
        BY <4>1, <4>2, <4>3
    <3> QED
      BY <3>1, <3>2, Zenon DEF Steps
  <2>3. 1 = ends[1]
    BY <1>17
  <2> QED
    BY <1>8, <2>1, <2>2, <2>3, SumsOfDifferences
<1>20. marks[Len(marks)] - 1 = n
  <2>1. m + 1 \in Nat
    BY <1>8
  <2>2. Len(marks) = m + 1
    BY <1>8, <2>1, ListIsSeq
  <2> QED
    BY <1>5, <1>8, <2>2
<1>21. Covered(cover) = [i \in 1..n |-> ends[Part(marks, i) + 1] - (marks[Part(marks, i) + 1] - i)]
  <2>1. DOMAIN cover = 1..m
    BY <1>12
  <2>2. steps = [r \in DOMAIN cover |-> cover[r].gap + cover[r].length]
    BY <1>18, <2>1
  <2>3. Covered(cover) = [i \in 1..(marks[Len(marks)] - 1) |-> ends[Part(marks, i) + 1] - (marks[Part(marks, i) + 1] - i)]
    BY <1>15, <1>19, <2>2, Zenon DEF Covered
  <2> QED
    BY <1>20, <2>3
<1>22. ASSUME NEW i \in 1..n  PROVE ends[Part(marks, i) + 1] - (marks[Part(marks, i) + 1] - i) = p[i]
  <2>1. PICK r : r = Part(marks, i)
    OBVIOUS
  <2>2. Within(marks, m + 1, i, r)
    <3>1. m + 1 \in Nat \ {0} /\ (\A x \in 1..(m + 1) : marks[x] \in Int) /\ i \in Int /\ marks[1] <= i
      BY <1>8
    <3> QED
      BY <1>8, <2>1, <3>1, PartIs
  <2>3. r \in 1..m /\ marks[r] <= i /\ i < marks[r + 1]
    <3>1. r \in 1..(m + 1) /\ marks[r] <= i /\ (r = m + 1 \/ i < marks[r + 1])
      BY <2>2 DEF Within
    <3>2. r # m + 1
      BY <1>5, <1>8, <3>1
    <3> QED
      BY <1>8, <3>1, <3>2
  <2>4. PICK s, l : s = parts[r].start /\ l = parts[r].length
    OBVIOUS
  <2>5. marks[r] = s /\ marks[r + 1] = s + l /\ ends[r + 1] = p[s] + l
    BY <1>8, <1>10, <1>17, <2>3, <2>4
  <2>6. s \in 1..n /\ l \in Nat /\ p[s] \in Int
    BY <1>9, <2>3, <2>4
  <2>7. p[i] = p[s] + (i - s)
    BY <1>3, <1>4, <2>3, <2>4, <2>5 DEF Consecutive
  <2> QED
    BY <2>1, <2>5, <2>6, <2>7
<1>23. Covered(cover) = p
  BY <1>1, <1>21, <1>22
<1>24. ASSUME NEW r \in 1..m  PROVE cover[r].length > 0
  BY <1>9, <1>13
<1>25. ASSUME NEW r \in 1..m, r > 1  PROVE cover[r].gap > 0
  <2>1. PICK o, c : o = r - 1 /\ c = parts[r].start
    OBVIOUS
  <2>2. o \in 1..m /\ o + 1 = r
    BY <1>8, <1>25, <2>1
  <2>3. PICK s, l : s = parts[o].start /\ l = parts[o].length
    OBVIOUS
  <2>4. c = s + l /\ s \in 1..n /\ l \in Nat \ {0} /\ c \in 1..n
    BY <1>8, <1>9, <2>1, <2>2, <2>3
  <2>5. c \in S
    BY <1>3, <1>4, <2>1 DEF Cut
  <2>6. c # 1 /\ c - 1 \in 1..n /\ s <= c - 1 /\ c - 1 < s + l /\ c - 1 \in 1..(n - 1) /\ (c - 1) + 1 = c
    BY <2>4
  <2>7. p[c] # p[c - 1] + 1
    BY <1>2, <2>5, <2>6
  <2>8. p[c - 1] = p[s] + ((c - 1) - s)
    BY <1>3, <1>4, <2>2, <2>3, <2>6 DEF Consecutive
  <2>9. p[c - 1] < p[c] /\ p[c] \in Int /\ p[c - 1] \in Int /\ p[s] \in Int
    <3>1. PICK b : b = c - 1
      OBVIOUS
    <3>2. b \in 1..(n - 1) /\ b + 1 = c /\ b \in 1..n
      BY <2>6, <3>1
    <3>3. p[b] < p[b + 1]
      BY <3>2
    <3> QED
      BY <1>1, <2>4, <3>1, <3>2, <3>3
  <2>10. cover[r].gap = p[c] - (p[s] + l)
    BY <1>10, <1>13, <1>25, <2>1, <2>2, <2>3
  <2> QED
    BY <2>4, <2>7, <2>8, <2>9, <2>10
<1>26. DOMAIN cover = 1..m
  BY <1>12
<1> QED
  BY <1>23, <1>24, <1>25, <1>26

\* The quotients of the totals of a process come back from where they change.
LEMMA QuotientsBack ==
  ASSUME NEW n \in Nat \ {0}, NEW s, Numbers(s, n), \A i, j \in 1..n : i <= j => s[i] <= s[j],
         NEW changes, changes = Changes(s), NEW first, first = s[1]
  PROVE  /\ Quotients(first, changes, n) = s
         /\ \A c \in DOMAIN changes : changes[c].step > 0 /\ changes[c].delta > 0
<1>1. s = [i \in 1..n |-> s[i]] /\ \A i \in 1..n : s[i] \in Int
  BY DEF Numbers
<1>2. IsSeq(s) /\ Len(s) = n
  BY <1>1, ListIsSeq
<1>3. PICK runs, m, marks : runs = Runs(s) /\ m = Len(runs) /\ marks = Marks(runs, n)
  OBVIOUS
<1>4. EqualRuns(runs, s, n)
  BY <1>2, <1>3, RunsAre
<1>5. PICK N : N = n + 1
  OBVIOUS
<1>6. Laid(runs, marks, N)
  <2>1. N \in Nat \ {0} /\ n = N - 1 /\ Cut(runs, Changed(s, n), n)
    BY <1>4, <1>5 DEF EqualRuns
  <2> QED
    BY <1>3, <2>1, RunsLaid
<1>7. /\ m \in Nat /\ DOMAIN runs = 1..m
      /\ \A r \in 1..(m + 1) : marks[r] \in 1..N
      /\ \A r \in 1..m : /\ marks[r] = runs[r].start /\ marks[r + 1] = runs[r].start + runs[r].length
                         /\ runs[r].length \in Nat \ {0}
      /\ marks[1] = 1 /\ marks[m + 1] = N
      /\ Increasing(marks, m + 1)
  BY <1>3, <1>6, Zenon DEF Laid
<1>8. m # 0 /\ m - 1 \in Nat /\ (m - 1) + 1 = m /\ 1 \in 1..m
  <2>1. m # 0
    BY <1>5, <1>7
  <2> QED
    BY <1>7, <2>1
<1>9. ASSUME NEW r \in 1..m
      PROVE  /\ runs[r].start \in 1..n /\ runs[r].q = s[runs[r].start] /\ runs[r].q \in Int
             /\ \A i \in 1..n : runs[r].start <= i /\ i < runs[r].start + runs[r].length => s[i] = runs[r].q
             /\ r > 1 => runs[r].q # runs[r - 1].q
  <2>1. runs[r].start \in 1..n
    BY <1>3, <1>4 DEF EqualRuns, Cut
  <2>2. /\ runs[r].q = s[runs[r].start]
        /\ \A i \in 1..n : runs[r].start <= i /\ i < runs[r].start + runs[r].length => s[i] = runs[r].q
        /\ r > 1 => runs[r].q # runs[r - 1].q
    BY <1>3, <1>4 DEF EqualRuns
  <2> QED
    BY <1>1, <2>1, <2>2
<1>10. PICK starts, levels : starts = [r \in 1..m |-> runs[r].start] /\ levels = [r \in 1..m |-> runs[r].q]
  OBVIOUS
<1>11. changes = [c \in 1..(m - 1) |-> [step |-> runs[c].length, delta |-> runs[c + 1].q - runs[c].q]]
  BY <1>3 DEF Changes
<1>12. PICK steps, deltas : /\ steps = [c \in DOMAIN changes |-> changes[c].step]
                            /\ deltas = [c \in DOMAIN changes |-> changes[c].delta]
  OBVIOUS
<1>13. ASSUME NEW c \in 1..(m - 1)
       PROVE  c \in 1..m /\ c + 1 \in 1..m /\ c \in 1..(m + 1) /\ c + 1 \in 1..(m + 1) /\ c + 1 > 1 /\ (c + 1) - 1 = c
  BY <1>7
<1>14. Sums(1, steps) = starts
  <2>1. Numbers(starts, (m - 1) + 1)
    <3>1. starts = [r \in 1..m |-> starts[r]] /\ \A r \in 1..m : starts[r] \in Int
      BY <1>9, <1>10
    <3> QED
      BY <1>8, <3>1, Zenon DEF Numbers
  <2>2. Steps(steps, starts, m - 1)
    <3>1. steps = [c \in 1..(m - 1) |-> steps[c]]
      BY <1>11, <1>12
    <3>2. ASSUME NEW c \in 1..(m - 1)  PROVE steps[c] = starts[c + 1] - starts[c]
      <4>1. steps[c] = runs[c].length
        BY <1>11, <1>12
      <4>2. starts[c] = runs[c].start /\ starts[c + 1] = marks[c + 1] /\ marks[c + 1] = runs[c].start + runs[c].length
        BY <1>7, <1>10, <1>13
      <4>3. runs[c].start \in Int /\ runs[c].length \in Int
        BY <1>7, <1>9, <1>13
      <4> QED
        BY <4>1, <4>2, <4>3
    <3> QED
      BY <3>1, <3>2, Zenon DEF Steps
  <2>3. 1 = starts[1]
    BY <1>7, <1>8, <1>10
  <2> QED
    BY <1>8, <2>1, <2>2, <2>3, SumsOfDifferences
<1>15. Sums(first, deltas) = levels
  <2>1. Numbers(levels, (m - 1) + 1)
    <3>1. levels = [r \in 1..m |-> levels[r]] /\ \A r \in 1..m : levels[r] \in Int
      BY <1>9, <1>10
    <3> QED
      BY <1>8, <3>1, Zenon DEF Numbers
  <2>2. Steps(deltas, levels, m - 1)
    <3>1. deltas = [c \in 1..(m - 1) |-> deltas[c]]
      BY <1>11, <1>12
    <3>2. ASSUME NEW c \in 1..(m - 1)  PROVE deltas[c] = levels[c + 1] - levels[c]
      BY <1>10, <1>11, <1>12, <1>13
    <3> QED
      BY <3>1, <3>2, Zenon DEF Steps
  <2>3. first = levels[1]
    BY <1>7, <1>8, <1>9, <1>10
  <2> QED
    BY <1>8, <2>1, <2>2, <2>3, SumsOfDifferences
<1>16. Quotients(first, changes, n) = [i \in 1..n |-> levels[Part(starts, i)]]
  BY <1>12, <1>14, <1>15, Zenon DEF Quotients
<1>17. ASSUME NEW i \in 1..n  PROVE levels[Part(starts, i)] = s[i]
  <2>1. PICK r : r = Part(starts, i)
    OBVIOUS
  <2>2. Within(starts, m, i, r)
    <3>1. /\ m \in Nat \ {0} /\ (\A x \in 1..m : starts[x] \in Int) /\ i \in Int /\ starts[1] <= i
          /\ starts = [x \in 1..m |-> starts[x]]
      BY <1>7, <1>8, <1>9, <1>10
    <3> QED
      BY <2>1, <3>1, PartIs
  <2>3. r \in 1..m /\ starts[r] <= i /\ (r = m \/ i < starts[r + 1])
    BY <2>2 DEF Within
  <2>4. i < runs[r].start + runs[r].length
    <3>1. CASE r = m
      BY <1>5, <1>7, <2>3, <3>1
    <3>2. CASE r # m
      <4>1. r + 1 \in 1..m
        BY <1>7, <2>3, <3>2
      <4>2. starts[r + 1] = marks[r + 1]
        BY <1>7, <1>10, <4>1
      <4> QED
        BY <1>7, <2>3, <3>2, <4>2
    <3> QED
      BY <3>1, <3>2
  <2>5. starts[r] = runs[r].start /\ levels[r] = runs[r].q
    BY <1>10, <2>3
  <2> QED
    BY <1>9, <2>1, <2>3, <2>4, <2>5
<1>18. Quotients(first, changes, n) = s
  BY <1>1, <1>16, <1>17
<1>19. ASSUME NEW c \in 1..(m - 1)  PROVE changes[c].step > 0 /\ changes[c].delta > 0
  <2>1. changes[c].step = runs[c].length /\ changes[c].delta = runs[c + 1].q - runs[c].q
    BY <1>11
  <2>2. PICK a, b : a = runs[c].start /\ b = runs[c + 1].start
    OBVIOUS
  <2>3. a \in 1..n /\ b \in 1..n /\ runs[c].q = s[a] /\ runs[c + 1].q = s[b] /\ s[a] # s[b]
    BY <1>9, <1>13, <2>2
  <2>4. a < b
    BY <1>7, <1>13, <2>2 DEF Increasing
  <2>5. s[a] <= s[b] /\ s[a] \in Int /\ s[b] \in Int
    BY <1>1, <2>3, <2>4
  <2>6. runs[c].length > 0
    BY <1>7, <1>13
  <2> QED
    BY <2>1, <2>3, <2>5, <2>6
<1>20. DOMAIN changes = 1..(m - 1)
  BY <1>11
<1> QED
  BY <1>18, <1>19, <1>20

\* A number in whole quanta, and the remainder
LEMMA WholeQuanta ==
  ASSUME NEW t \in Int, NEW q \in Nat \ {0}, NEW k, k = t \div q, NEW r, r = t % q
  PROVE  k \in Int /\ k * q \in Int /\ r \in 0..(q - 1) /\ t = k * q + r
<1>1. k \in Int /\ r \in 0..(q - 1) /\ t = q * k + r
  OBVIOUS
<1>2. q * k = k * q /\ k * q \in Int
  BY <1>1
<1> QED
  BY <1>1, <1>2

\* A larger number has no fewer whole quanta.
LEMMA QuantaRise ==
  ASSUME NEW t \in Int, NEW u \in Int, t <= u, NEW q \in Nat \ {0}
  PROVE  t \div q <= u \div q
<1>1. PICK k, l : k = t \div q /\ l = u \div q
  OBVIOUS
<1>2. k \in Int /\ l \in Int /\ 0 <= t - k * q /\ u - l * q < q
  BY <1>1
<1>3. ASSUME l + 1 <= k  PROVE FALSE
  <2>1. (l + 1) * q <= k * q /\ (l + 1) * q \in Int /\ k * q \in Int
    BY <1>2, <1>3, ProductGrows
  <2>2. (l + 1) * q = l * q + q /\ l * q \in Int
    BY <1>2
  <2> QED
    BY <1>2, <2>1, <2>2
<1> QED
  BY <1>1, <1>2, <1>3

\* What the decoder must make of a list of totals: values below them by no more than their bounds,
\* which rise, and whose first and last are exact
Read(d, counts, n) ==
  /\ DOMAIN d.values = 1..n /\ DOMAIN d.bounds = 1..n
  /\ IsSeq(d.values) /\ IsSeq(d.bounds) /\ Len(d.values) = n /\ Len(d.bounds) = n
  /\ \A i \in 1..n : d.values[i] \in Int /\ d.bounds[i] \in Nat /\ counts[i] - d.values[i] \in 0..d.bounds[i]
  /\ \A i \in 1..(n - 1) : d.values[i] <= d.values[i + 1]
  /\ d.bounds[1] = 0 /\ d.bounds[n] = 0

\* Totals that rise, each in a row after that of the one before
InOrder(positions, counts, n) ==
  /\ n \in Nat \ {0} /\ Numbers(positions, n) /\ Numbers(counts, n)
  /\ \A i \in 1..(n - 1) : positions[i] < positions[i + 1]
  /\ \A i, j \in 1..n : i <= j => counts[i] <= counts[j]

\* A value in the middle lies between the first total and its own.
LEMMA LegacyValue ==
  ASSUME NEW first \in Int, NEW t \in Int, NEW u \in Int, first <= t, t <= u, NEW q \in Nat \ {0},
         NEW k, k = t \div q, NEW l, l = u \div q
  PROVE  /\ Larger(k * q, first) \in Int
         /\ t - Larger(k * q, first) \in 0..(q - 1)
         /\ first <= Larger(k * q, first)
         /\ Larger(k * q, first) <= Larger(l * q, first)
<1>1. PICK r, s : r = t % q /\ s = u % q
  OBVIOUS
<1>2. k \in Int /\ l \in Int /\ k * q \in Int /\ l * q \in Int /\ r \in 0..(q - 1) /\ t = k * q + r
  BY <1>1, WholeQuanta
<1>3. k <= l
  BY QuantaRise
<1>4. k * q <= l * q
  BY <1>2, <1>3, ProductGrows
<1>5. PICK a, b : a = k * q /\ b = l * q
  OBVIOUS
<1>6. Larger(a, first) = (IF a > first THEN a ELSE first) /\ Larger(b, first) = (IF b > first THEN b ELSE first)
  BY DEF Larger
<1>7. a \in Int /\ b \in Int /\ a <= b /\ t - a \in 0..(q - 1)
  BY <1>2, <1>4, <1>5
<1>8. /\ Larger(a, first) \in Int /\ t - Larger(a, first) \in 0..(q - 1) /\ first <= Larger(a, first)
      /\ Larger(a, first) <= Larger(b, first)
  BY <1>6, <1>7
<1> QED
  BY <1>5, <1>8, Zenon

\* The decoder reads what CSH1 says of a process.
LEMMA LegacyBack ==
  ASSUME NEW n, NEW positions, NEW counts, InOrder(positions, counts, n), NEW q \in Nat \ {0},
         NEW track, track = EncodeLegacy(positions, counts, q), NEW d, d = DecodeLegacy(track, q)
  PROVE  /\ d.rows = positions /\ Read(d, counts, n)
         /\ AcceptsLegacy(track, d, q)
<1>1. /\ n \in Nat \ {0} /\ counts = [i \in 1..n |-> counts[i]] /\ (\A i \in 1..n : counts[i] \in Int)
      /\ \A i, j \in 1..n : i <= j => counts[i] <= counts[j]
  BY DEF InOrder, Numbers
<1>2. IsSeq(counts) /\ Len(counts) = n /\ DOMAIN counts = 1..n /\ 1 \in 1..n /\ n \in 1..n
  BY <1>1, ListIsSeq
<1>3. PICK quotients : quotients = [i \in 1..n |-> counts[i] \div q]
  OBVIOUS
<1>4. Numbers(quotients, n) /\ \A i, j \in 1..n : i <= j => quotients[i] <= quotients[j]
  <2>1. \A i \in 1..n : quotients[i] = counts[i] \div q /\ quotients[i] \in Int
    BY <1>1, <1>3
  <2>2. quotients = [i \in 1..n |-> quotients[i]]
    BY <1>3
  <2>3. Numbers(quotients, n)
    BY <2>1, <2>2 DEF Numbers
  <2>4. ASSUME NEW i \in 1..n, NEW j \in 1..n, i <= j  PROVE quotients[i] <= quotients[j]
    <3>1. counts[i] \in Int /\ counts[j] \in Int /\ counts[i] <= counts[j]
      BY <1>1, <2>4
    <3> QED
      BY <2>1, <3>1, QuantaRise
  <2> QED
    BY <2>3, <2>4
<1>5. /\ track.count = n /\ track.coverage = Coverage(positions)
      /\ track.baseline = quotients[1] /\ track.changes = Changes(quotients)
      /\ track.first = counts[1] % q /\ track.last = counts[n] % q
  <2>1. quotients = [i \in DOMAIN counts |-> counts[i] \div q]
    BY <1>2, <1>3
  <2>2. track = [count |-> Len(counts), coverage |-> Coverage(positions),
                 baseline |-> quotients[1], changes |-> Changes(quotients),
                 first |-> counts[1] % q, last |-> counts[Len(counts)] % q]
    BY <2>1, Zenon DEF EncodeLegacy
  <2> QED
    BY <1>2, <2>2
<1>6. /\ Quotients(track.baseline, track.changes, n) = quotients
      /\ \A c \in DOMAIN track.changes : track.changes[c].step > 0 /\ track.changes[c].delta > 0
  <2>1. PICK changes, first : changes = track.changes /\ first = track.baseline
    OBVIOUS
  <2>2. changes = Changes(quotients) /\ first = quotients[1]
    BY <1>5, <2>1
  <2>3. /\ Quotients(first, changes, n) = quotients
        /\ \A c \in DOMAIN changes : changes[c].step > 0 /\ changes[c].delta > 0
    BY <1>1, <1>4, <2>2, QuotientsBack
  <2> QED
    BY <2>1, <2>3
<1>7. /\ Covered(track.coverage) = positions
      /\ \A r \in DOMAIN track.coverage : track.coverage[r].length > 0 /\ (r > 1 => track.coverage[r].gap > 0)
  <2>1. PICK cover : cover = track.coverage
    OBVIOUS
  <2>2. n \in Nat \ {0} /\ Numbers(positions, n) /\ (\A i \in 1..(n - 1) : positions[i] < positions[i + 1])
    BY DEF InOrder
  <2>3. cover = Coverage(positions)
    BY <1>5, <2>1
  <2>4. Covered(cover) = positions /\ \A r \in DOMAIN cover : cover[r].length > 0 /\ (r > 1 => cover[r].gap > 0)
    BY <2>2, <2>3, CoverageBack
  <2> QED
    BY <2>1, <2>4
<1>8. PICK first : first = counts[1]
  OBVIOUS
<1>9. first \in Int /\ quotients[1] * q + track.first = first /\ quotients[n] * q + track.last = counts[n]
  <2>1. counts[1] \in Int /\ counts[n] \in Int /\ quotients[1] = counts[1] \div q /\ quotients[n] = counts[n] \div q
    BY <1>1, <1>2, <1>3
  <2>2. PICK s, t, k, l : s = counts[1] /\ t = counts[n] /\ k = quotients[1] /\ l = quotients[n]
    OBVIOUS
  <2>3. s \in Int /\ t \in Int /\ k = s \div q /\ l = t \div q
    BY <2>1, <2>2
  <2>4. PICK r, u : r = s % q /\ u = t % q
    OBVIOUS
  <2>5. s = k * q + r /\ t = l * q + u
    <3>1. s = q * k + r /\ k \in Int
      BY <2>3, <2>4
    <3>2. t = q * l + u /\ l \in Int
      BY <2>3, <2>4
    <3> QED
      BY <3>1, <3>2
  <2>6. track.first = r /\ track.last = u
    BY <1>5, <2>2, <2>4
  <2> QED
    BY <1>8, <2>2, <2>3, <2>5, <2>6
<1>10. /\ d.rows = positions
       /\ d.values = [i \in 1..n |-> IF i = 1 THEN first ELSE IF i = n THEN counts[n] ELSE Larger(quotients[i] * q, first)]
       /\ d.bounds = [i \in 1..n |-> IF i \in {1, n} THEN 0 ELSE q - 1]
  <2>1. d = [rows |-> Covered(track.coverage),
             values |-> [i \in 1..n |-> IF i = 1 THEN quotients[1] * q + track.first
                                        ELSE IF i = n THEN quotients[i] * q + track.last
                                        ELSE Larger(quotients[i] * q, quotients[1] * q + track.first)],
             bounds |-> [i \in 1..n |-> IF i \in {1, n} THEN 0 ELSE q - 1]]
    <3>1. track.count = n /\ Quotients(track.baseline, track.changes, track.count) = quotients
      BY <1>5, <1>6
    <3>2. d = [rows |-> Covered(track.coverage),
               values |-> [i \in 1..track.count |->
                           IF i = 1 THEN quotients[1] * q + track.first
                           ELSE IF i = track.count THEN quotients[i] * q + track.last
                           ELSE Larger(quotients[i] * q, quotients[1] * q + track.first)],
               bounds |-> [i \in 1..track.count |-> IF i \in {1, track.count} THEN 0 ELSE q - 1]]
      BY <3>1, Zenon DEF DecodeLegacy
    <3> QED
      BY <3>1, <3>2, Zenon
  <2>2. ASSUME NEW i \in 1..n
        PROVE  (IF i = 1 THEN first ELSE IF i = n THEN quotients[i] * q + track.last ELSE Larger(quotients[i] * q, first))
                 = (IF i = 1 THEN first ELSE IF i = n THEN counts[n] ELSE Larger(quotients[i] * q, first))
    BY <1>9, Zenon
  <2>3. d.values = [i \in 1..n |-> IF i = 1 THEN first
                                   ELSE IF i = n THEN quotients[i] * q + track.last ELSE Larger(quotients[i] * q, first)]
    BY <1>9, <2>1
  <2>4. d.rows = Covered(track.coverage) /\ d.bounds = [i \in 1..n |-> IF i \in {1, n} THEN 0 ELSE q - 1]
    BY <2>1
  <2> QED
    BY <1>7, <2>2, <2>3, <2>4
<1>11. ASSUME NEW i \in 1..n
       PROVE  /\ d.values[i] = (IF i = 1 THEN first ELSE IF i = n THEN counts[n] ELSE Larger((counts[i] \div q) * q, first))
              /\ d.bounds[i] = (IF i \in {1, n} THEN 0 ELSE q - 1)
              /\ counts[i] \in Int /\ first <= counts[i]
  <2>1. quotients[i] = counts[i] \div q
    BY <1>3
  <2>2. counts[i] \in Int /\ first <= counts[i]
    BY <1>1, <1>2, <1>8
  <2> QED
    BY <1>10, <2>1, <2>2
<1>12. ASSUME NEW i \in 1..n
       PROVE  /\ d.values[i] \in Int /\ d.bounds[i] \in Nat /\ counts[i] - d.values[i] \in 0..d.bounds[i]
  <2>1. PICK t, v, b : t = counts[i] /\ v = d.values[i] /\ b = d.bounds[i]
    OBVIOUS
  <2>2. PICK o, k : o = t \div q /\ k = Larger(o * q, first)
    OBVIOUS
  <2>3. t \in Int /\ k \in Int /\ t - k \in 0..(q - 1)
    <3>1. t \in Int /\ first <= t /\ t <= t
      BY <1>1, <1>2, <1>8, <2>1
    <3>2. first \in Int /\ o = t \div q
      BY <1>9, <2>2
    <3>3. Larger(o * q, first) \in Int /\ t - Larger(o * q, first) \in 0..(q - 1)
      BY <3>1, <3>2, LegacyValue
    <3> QED
      BY <2>2, <3>1, <3>3
  <2>4. /\ v = (IF i = 1 THEN first ELSE IF i = n THEN counts[n] ELSE k)
        /\ b = (IF i \in {1, n} THEN 0 ELSE q - 1)
    BY <1>11, <2>1, <2>2
  <2>5. (i = 1 => t = first) /\ (i = n => t = counts[n])
    BY <1>8, <2>1
  <2>6. v \in Int /\ b \in Nat /\ t - v \in 0..b
    BY <1>9, <2>3, <2>4, <2>5
  <2> QED
    BY <2>1, <2>6
<1>13. ASSUME NEW i \in 1..(n - 1)  PROVE d.values[i] <= d.values[i + 1]
  <2>1. PICK j : j = i + 1
    OBVIOUS
  <2>2. i \in 1..n /\ j \in 1..n /\ j # 1 /\ i # n /\ i <= j
    BY <1>1, <2>1
  <2>3. PICK t, u, v, w : t = counts[i] /\ u = counts[j] /\ v = d.values[i] /\ w = d.values[j]
    OBVIOUS
  <2>4. t \in Int /\ u \in Int /\ first <= t /\ t <= u
    BY <1>1, <1>11, <2>2, <2>3
  <2>5. PICK o, p, k, l : /\ o = t \div q /\ k = Larger(o * q, first)
                          /\ p = u \div q /\ l = Larger(p * q, first)
    OBVIOUS
  <2>6. k \in Int /\ t - k \in 0..(q - 1) /\ first <= k /\ k <= l /\ l \in Int /\ first <= l
    <3>1. /\ k \in Int /\ t - k \in 0..(q - 1) /\ first <= k /\ k <= l
      BY <1>9, <2>4, <2>5, LegacyValue
    <3>2. u <= u /\ first <= u
      BY <1>9, <2>4
    <3>3. l \in Int /\ first <= l
      BY <1>9, <2>4, <2>5, <3>2, LegacyValue
    <3> QED
      BY <3>1, <3>3
  <2>7. v = (IF i = 1 THEN first ELSE k)
    BY <1>11, <2>2, <2>3, <2>5
  <2>8. w = (IF j = n THEN u ELSE l)
    BY <1>11, <2>2, <2>3, <2>5
  <2>9. v <= w
    BY <1>9, <2>4, <2>6, <2>7, <2>8
  <2> QED
    BY <2>1, <2>3, <2>9
<1>14. IsSeq(d.values) /\ IsSeq(d.bounds) /\ Len(d.values) = n /\ Len(d.bounds) = n
  <2>1. d.values = [i \in 1..n |-> d.values[i]] /\ d.bounds = [i \in 1..n |-> d.bounds[i]]
    BY <1>10
  <2> QED
    BY <1>1, <2>1, ListIsSeq
<1>15. DOMAIN d.values = 1..n /\ DOMAIN d.bounds = 1..n /\ d.bounds[1] = 0 /\ d.bounds[n] = 0
  BY <1>2, <1>10
<1>16. Read(d, counts, n)
  BY <1>12, <1>13, <1>14, <1>15 DEF Read
<1>17. AcceptsLegacy(track, d, q)
  <2>1. Len(d.rows) = track.count
    <3>1. positions = [i \in 1..n |-> positions[i]]
      BY DEF InOrder, Numbers
    <3> QED
      BY <1>1, <1>5, <1>10, <3>1, ListIsSeq
  <2>2. Rises(d.values)
    <3>1. ASSUME NEW i \in 2..Len(d.values)  PROVE d.values[i - 1] <= d.values[i]
      <4>1. PICK j : j = i - 1
        OBVIOUS
      <4>2. j \in 1..(n - 1) /\ j + 1 = i
        BY <1>1, <1>14, <4>1
      <4>3. d.values[j] <= d.values[j + 1]
        BY <1>13, <4>2
      <4> QED
        BY <4>1, <4>2, <4>3
    <3> QED
      BY <3>1 DEF Rises
  <2> QED
    BY <1>6, <1>7, <2>1, <2>2, Zenon DEF AcceptsLegacy
<1> QED
  BY <1>10, <1>16, <1>17

-----------------------------------------------------------------------------
(* The samples of a block                                                   *)

\* What the rows of a block say of the totals of its processes
CountInv ==
  /\ IsSeq(block)
  /\ totals = [id \in Identities |-> totals[id]]
  /\ \A id \in Identities : totals[id] \in Nat /\ totals[id] <= Top
  /\ \A r \in 1..Len(block) : \A p \in ToSet(block[r].processes) :
        p.id \in Identities /\ p.total \in Nat /\ p.total <= totals[p.id]
  /\ \A r, s \in 1..Len(block) : \A p \in ToSet(block[r].processes), o \in ToSet(block[s].processes) :
        p.id = o.id /\ r <= s => p.total <= o.total

\* The samples of a process: where they are, and that their totals rise
Sampling(samples, id, n) ==
  /\ n \in Nat /\ samples = [i \in 1..n |-> samples[i]]
  /\ \A i \in 1..n : /\ samples[i].row \in 1..Len(block) /\ Process(samples[i].row, id) # {}
                     /\ samples[i].total \in Nat /\ samples[i].total <= Top
                     /\ samples[i].time = block[samples[i].row].time
  /\ \A i, j \in 1..n : i < j => samples[i].row < samples[j].row
  /\ \A i, j \in 1..n : i <= j => samples[i].total <= samples[j].total
  /\ \A r \in 1..Len(block) : Process(r, id) # {} => \E i \in 1..n : samples[i].row = r

\* There is one in each row that has the process.
LEMMA SamplesAre ==
  ASSUME CountInv, NEW id \in Identities
  PROVE  \E n : Sampling(Samples(id), id, n)
<1>1. PICK N : N = Len(block)
  OBVIOUS
<1>2. N \in Nat /\ DOMAIN block = 1..N
  BY <1>1, SeqHas DEF CountInv
<1>3. PICK S : S = {r \in DOMAIN block : Process(r, id) # {}}
  OBVIOUS
<1>4. PICK held : held = Ascending(S, N)
  OBVIOUS
<1>5. Ascends(held, S, N)
  BY <1>2, <1>4, AscendingIs
<1>6. PICK n : n = Len(held)
  OBVIOUS
<1>7. /\ n \in Nat /\ DOMAIN held = 1..n
      /\ \A i \in 1..n : held[i] \in S /\ held[i] \in 1..N
      /\ \A p \in 1..N : p \in S => \E i \in 1..n : held[i] = p
      /\ \A i, j \in 1..n : i < j => held[i] < held[j]
  BY <1>5, <1>6 DEF Ascends
<1>8. PICK one : one = [i \in 1..n |-> CHOOSE p \in Process(held[i], id) : TRUE]
  OBVIOUS
<1>9. PICK samples : samples = Samples(id)
  OBVIOUS
<1>10. samples = [i \in 1..n |-> [row |-> held[i], time |-> block[held[i]].time, total |-> one[i].total, name |-> one[i].name]]
  <2>1. held = Ascending({r \in DOMAIN block : Process(r, id) # {}}, Len(block))
    BY <1>1, <1>3, <1>4
  <2>2. samples = [i \in DOMAIN held |-> [row |-> held[i], time |-> block[held[i]].time,
                                          total |-> (CHOOSE p \in Process(held[i], id) : TRUE).total,
                                          name |-> (CHOOSE p \in Process(held[i], id) : TRUE).name]]
    BY <1>9, <2>1, Zenon DEF Samples
  <2> QED
    BY <1>7, <1>8, <2>2
<1>11. ASSUME NEW i \in 1..n
       PROVE  /\ samples[i].row = held[i] /\ samples[i].time = block[held[i]].time /\ samples[i].total = one[i].total
              /\ Process(held[i], id) # {} /\ one[i] \in ToSet(block[held[i]].processes) /\ one[i].id = id
  <2>1. Process(held[i], id) # {}
    BY <1>3, <1>7
  <2>2. one[i] \in Process(held[i], id)
    BY <1>8, <2>1
  <2> QED
    BY <1>10, <2>1, <2>2 DEF Process
<1>12. ASSUME NEW i \in 1..n
       PROVE  /\ samples[i].row \in 1..N /\ Process(samples[i].row, id) # {}
              /\ samples[i].total \in Nat /\ samples[i].total <= Top
              /\ samples[i].time = block[samples[i].row].time
  <2>1. samples[i].row = held[i] /\ held[i] \in 1..N
    BY <1>7, <1>11
  <2>2. PICK p : p = one[i]
    OBVIOUS
  <2>3. p \in ToSet(block[held[i]].processes) /\ p.id = id
    BY <1>11, <2>2
  <2>4. p.total \in Nat /\ p.total <= totals[id] /\ totals[id] \in Nat /\ totals[id] <= Top
    BY <1>1, <2>1, <2>3 DEF CountInv
  <2>5. samples[i].total \in Nat /\ samples[i].total <= Top
    BY <1>11, <2>2, <2>4, MaxPowerIs
  <2> QED
    BY <1>11, <2>1, <2>5
<1>13. ASSUME NEW i \in 1..n, NEW j \in 1..n, i <= j  PROVE samples[i].total <= samples[j].total
  <2>1. held[i] <= held[j]
    BY <1>2, <1>7, <1>13
  <2>2. PICK p, o : p = one[i] /\ o = one[j]
    OBVIOUS
  <2>3. p \in ToSet(block[held[i]].processes) /\ o \in ToSet(block[held[j]].processes) /\ p.id = o.id
    BY <1>11, <2>2
  <2>4. held[i] \in 1..N /\ held[j] \in 1..N
    BY <1>7
  <2>5. p.total <= o.total
    BY <1>1, <2>1, <2>3, <2>4 DEF CountInv
  <2> QED
    BY <1>11, <2>2, <2>5
<1>14. samples = [i \in 1..n |-> samples[i]]
  BY <1>10
<1>15. \A i, j \in 1..n : i < j => samples[i].row < samples[j].row
  BY <1>7, <1>11
<1>16. \A r \in 1..N : Process(r, id) # {} => \E i \in 1..n : samples[i].row = r
  <2> TAKE r \in 1..N
  <2> HAVE Process(r, id) # {}
  <2>1. r \in S
    BY <1>2, <1>3
  <2>2. PICK i \in 1..n : held[i] = r
    BY <1>7, <2>1
  <2> QED
    BY <1>11, <2>2
<1>17. Sampling(samples, id, n)
  BY <1>1, <1>7, <1>12, <1>13, <1>14, <1>15, <1>16, Zenon DEF Sampling
<1> QED
  BY <1>9, <1>17

\* Rows and totals of the samples of a process
LEMMA SamplesInOrder ==
  ASSUME NEW id, NEW samples, NEW n \in Nat \ {0}, Sampling(samples, id, n)
  PROVE  /\ InOrder(RowsOf(samples), Totals(samples), n)
         /\ DOMAIN samples = 1..n /\ Len(samples) = n
         /\ RowsOf(samples) = [i \in 1..n |-> samples[i].row] /\ Totals(samples) = [i \in 1..n |-> samples[i].total]
<1>1. /\ samples = [i \in 1..n |-> samples[i]]
      /\ \A i \in 1..n : samples[i].row \in 1..Len(block) /\ samples[i].total \in Nat
      /\ \A i, j \in 1..n : i < j => samples[i].row < samples[j].row
      /\ \A i, j \in 1..n : i <= j => samples[i].total <= samples[j].total
  BY DEF Sampling
<1>2. DOMAIN samples = 1..n /\ Len(samples) = n
  BY <1>1, ListIsSeq, SeqHas
<1>3. PICK rs, counts : rs = RowsOf(samples) /\ counts = Totals(samples)
  OBVIOUS
<1>4. rs = [i \in 1..n |-> samples[i].row] /\ counts = [i \in 1..n |-> samples[i].total]
  BY <1>2, <1>3 DEF RowsOf, Totals
<1>5. Numbers(rs, n)
  <2>1. rs = [i \in 1..n |-> rs[i]]
    BY <1>4
  <2>2. \A i \in 1..n : rs[i] \in Int
    BY <1>1, <1>4
  <2> QED
    BY <2>1, <2>2, Zenon DEF Numbers
<1>6. Numbers(counts, n)
  <2>1. counts = [i \in 1..n |-> counts[i]]
    BY <1>4
  <2>2. \A i \in 1..n : counts[i] \in Int
    BY <1>1, <1>4
  <2> QED
    BY <2>1, <2>2, Zenon DEF Numbers
<1>7. \A i \in 1..(n - 1) : rs[i] < rs[i + 1]
  <2> TAKE i \in 1..(n - 1)
  <2>1. i \in 1..n /\ i + 1 \in 1..n /\ i < i + 1
    OBVIOUS
  <2> QED
    BY <1>1, <1>4, <2>1
<1>8. \A i, j \in 1..n : i <= j => counts[i] <= counts[j]
  BY <1>1, <1>4
<1>9. InOrder(rs, counts, n)
  BY <1>5, <1>6, <1>7, <1>8 DEF InOrder
<1> QED
  BY <1>2, <1>3, <1>4, <1>9

\* What the decoder reads of the samples is as close to them as it says.
LEMMA ReadClose ==
  ASSUME NEW id, NEW samples, NEW n \in Nat \ {0}, Sampling(samples, id, n),
         NEW d, Read(d, Totals(samples), n), d.rows = RowsOf(samples)
  PROVE  /\ Close(d, samples)
         /\ \A i \in DOMAIN samples : \A interval \in Interval(id, d, i) : IntervalTrue(interval, Rise(samples, i))
<1>1. DOMAIN samples = 1..n /\ Totals(samples) = [i \in 1..n |-> samples[i].total]
  BY SamplesInOrder
<1>2. \A i \in 1..n : samples[i].total \in Int
  BY DEF Sampling
<1>3. \A i \in 1..n : /\ d.values[i] \in Int /\ d.bounds[i] \in Nat
                      /\ samples[i].total - d.values[i] \in 0..d.bounds[i]
  BY <1>1 DEF Read
<1>4. Close(d, samples)
  <2>1. d.bounds[1] = 0 /\ d.bounds[n] = 0 /\ Len(d.bounds) = n
    BY DEF Read
  <2>2. Last(d.bounds) = 0
    BY <2>1 DEF Last
  <2> QED
    BY <1>1, <1>3, <2>1, <2>2 DEF Close
<1>5. ASSUME NEW i \in 1..n, NEW interval \in Interval(id, d, i)  PROVE IntervalTrue(interval, Rise(samples, i))
  <2>1. Adjacent(id, d, i)
    BY <1>5 DEF Interval
  <2>2. /\ interval.delta = d.values[i] - d.values[i - 1]
        /\ interval.error = d.bounds[i] + d.bounds[i - 1]
    BY <1>5, <2>1 DEF Interval
  <2>3. i > 1
    BY <2>1 DEF Adjacent
  <2>4. PICK o : o = i - 1
    OBVIOUS
  <2>5. o \in 1..n
    BY <2>3, <2>4
  <2>6. PICK s, t, v, w, b, c : /\ s = samples[o].total /\ t = samples[i].total /\ v = d.values[o] /\ w = d.values[i]
                                /\ b = d.bounds[o] /\ c = d.bounds[i]
    OBVIOUS
  <2>7. /\ s \in Int /\ t \in Int /\ v \in Int /\ w \in Int /\ b \in Nat /\ c \in Nat
        /\ s - v \in 0..b /\ t - w \in 0..c
    BY <1>2, <1>3, <2>5, <2>6
  <2>8. Rise(samples, i) = t - s /\ interval.delta = w - v /\ interval.error = c + b
    BY <2>2, <2>4, <2>6 DEF Rise
  <2>9. Rise(samples, i) - interval.delta \in (-interval.error)..interval.error
    BY <2>7, <2>8
  <2> QED
    BY <2>9 DEF IntervalTrue
<1> QED
  BY <1>1, <1>4, <1>5

\* The track of a process, in the two profiles of CSH2
LEMMA TrackIsTrue ==
  ASSUME NEW id, NEW samples, NEW n \in Nat \ {0}, Sampling(samples, id, n),
         NEW cap \in Nat \ {0}, cap <= MaxPower, NEW profile \in {"fixed", "adaptive"}
  PROVE  TrackTrue(id, samples, profile, cap)
<1>1. /\ InOrder(RowsOf(samples), Totals(samples), n)
      /\ DOMAIN samples = 1..n /\ Len(samples) = n
      /\ Totals(samples) = [i \in 1..n |-> samples[i].total]
  BY SamplesInOrder
<1>2. \A i \in 1..n : samples[i].total \in Nat /\ samples[i].total <= Top
  BY DEF Sampling
<1>3. PICK rs, counts : rs = RowsOf(samples) /\ counts = Totals(samples)
  OBVIOUS
<1>4. /\ Numbers(rs, n) /\ Numbers(counts, n)
      /\ \A i \in 1..(n - 1) : rs[i] < rs[i + 1]
      /\ \A i, j \in 1..n : i <= j => counts[i] <= counts[j]
  BY <1>1, <1>3 DEF InOrder
<1>5. \A i \in 1..n : counts[i] = samples[i].total /\ counts[i] \in Nat /\ counts[i] <= Top
  BY <1>1, <1>2, <1>3
<1>6. PICK quanta : quanta = [i \in 1..(n - 1) |-> IntervalQuantum(profile, Rise(samples, i + 1), cap)]
  OBVIOUS
<1>7. ASSUME NEW i \in 1..(n - 1)
      PROVE  /\ i \in 1..n /\ i + 1 \in 1..n
             /\ Rise(samples, i + 1) = counts[i + 1] - counts[i]
             /\ counts[i + 1] - counts[i] \in Nat /\ counts[i + 1] - counts[i] <= Top
             /\ quanta[i] = IntervalQuantum(profile, counts[i + 1] - counts[i], cap)
             /\ quanta[i] \in Nat \ {0} /\ quanta[i] <= cap
             /\ profile = "adaptive" /\ quanta[i] > 1 => 8 * quanta[i] <= counts[i + 1] - counts[i]
  <2>1. i \in 1..n /\ i + 1 \in 1..n /\ i <= i + 1 /\ (i + 1) - 1 = i
    OBVIOUS
  <2>2. PICK t, u, rise, q : t = counts[i] /\ u = counts[i + 1] /\ rise = u - t /\ q = quanta[i]
    OBVIOUS
  <2>3. t \in Nat /\ u \in Nat /\ t <= u /\ u <= Top
    BY <1>4, <1>5, <2>1, <2>2
  <2>4. rise \in Nat /\ rise <= Top
    BY <2>2, <2>3, MaxPowerIs
  <2>5. Rise(samples, i + 1) = rise
    BY <1>5, <2>1, <2>2 DEF Rise
  <2>6. q = IntervalQuantum(profile, rise, cap)
    BY <1>6, <2>2, <2>5
  <2>7. q \in Nat \ {0} /\ q <= cap /\ (profile = "adaptive" /\ q > 1 => 8 * q <= rise)
    BY <2>4, <2>6, IntervalFacts
  <2> QED
    BY <2>1, <2>2, <2>4, <2>5, <2>6, <2>7
<1>8. Given(rs, counts, quanta, n)
  <2>1. IsSeq(quanta) /\ Len(quanta) = n - 1
    <3>1. n - 1 \in Nat /\ quanta = [i \in 1..(n - 1) |-> quanta[i]]
      BY <1>6
    <3> QED
      BY <3>1, ListIsSeq
  <2> QED
    BY <1>4, <1>7, <2>1 DEF Given
<1>9. PICK track, d : track = EncodeTrack(rs, counts, quanta) /\ d = DecodeTrack(track)
  OBVIOUS
<1>10. track = StoredTrack(samples, profile, cap)
  BY <1>1, <1>3, <1>6, <1>9 DEF StoredTrack
<1>11. TrackReads(d, rs, counts, quanta, n)
  BY <1>8, <1>9, TrackBack
<1>12. Accepts(track, d, profile, cap)
  <2>1. \A i \in 1..n : counts[i] <= Top
    BY <1>5
  <2>2. \A i \in 1..(n - 1) : rs[i] < rs[i + 1]
    BY <1>4
  <2>3. \A i \in 1..(n - 1) : /\ counts[i + 1] - counts[i] \in Nat /\ counts[i + 1] - counts[i] <= Top
                              /\ quanta[i] = IntervalQuantum(profile, counts[i + 1] - counts[i], cap)
    BY <1>7
  <2> QED
    BY <1>8, <1>9, <2>1, <2>2, <2>3, TrackTaken
<1>13. Read(d, counts, n) /\ d.rows = rs
  BY <1>11 DEF TrackReads, Read
<1>14. /\ Close(d, samples)
       /\ \A i \in DOMAIN samples : \A interval \in Interval(id, d, i) : IntervalTrue(interval, Rise(samples, i))
  BY <1>3, <1>13, ReadClose
<1>15. ASSUME profile = "adaptive"  PROVE Eighth(d, samples)
  <2>1. ASSUME NEW i \in 2..n  PROVE 8 * Larger(d.bounds[i - 1], d.bounds[i]) <= Rise(samples, i)
    <3>1. PICK o : o = i - 1
      OBVIOUS
    <3>2. o \in 1..(n - 1) /\ o + 1 = i /\ o \in 1..n /\ i \in 1..n
      BY <3>1
    <3>3. PICK b, c, q, rise : b = d.bounds[o] /\ c = d.bounds[o + 1] /\ q = quanta[o] /\ rise = counts[o + 1] - counts[o]
      OBVIOUS
    <3>4. b \in Nat /\ c \in Nat /\ b <= q - 1 /\ c <= q - 1
      BY <1>11, <3>2, <3>3 DEF TrackReads
    <3>5. q \in Nat \ {0} /\ rise \in Nat /\ (q > 1 => 8 * q <= rise) /\ Rise(samples, i) = rise
      BY <1>7, <1>15, <3>2, <3>3
    <3>6. Larger(b, c) = b \/ Larger(b, c) = c
      BY DEF Larger
    <3>7. 8 * Larger(b, c) <= rise
      BY <3>4, <3>5, <3>6
    <3>8. d.bounds[i - 1] = b /\ d.bounds[i] = c
      BY <3>1, <3>2, <3>3
    <3> QED
      BY <3>5, <3>7, <3>8
  <2> QED
    BY <1>1, <2>1 DEF Eighth
<1>16. d = DecodeTrack(StoredTrack(samples, profile, cap))
  BY <1>9, <1>10
<1> QED
  BY <1>10, <1>12, <1>14, <1>15, <1>16, Zenon DEF TrackTrue

\* The places of the samples among the rows with processes
LEMMA AxisIs ==
  ASSUME CountInv, NEW id, NEW samples, NEW n \in Nat \ {0}, Sampling(samples, id, n)
  PROVE  /\ InOrder(AxisOf(samples), Totals(samples), n)
         /\ \A i \in 1..n : Axis[AxisOf(samples)[i]] = samples[i].row
<1>1. PICK N, S : N = Len(block) /\ S = {r \in DOMAIN block : block[r].processes # <<>>}
  OBVIOUS
<1>2. N \in Nat /\ DOMAIN block = 1..N
  BY <1>1, SeqHas DEF CountInv
<1>3. PICK axis, m : axis = Axis /\ m = Len(axis)
  OBVIOUS
<1>4. Ascends(axis, S, N)
  BY <1>1, <1>2, <1>3, AscendingIs DEF Axis
<1>5. /\ m \in Nat /\ DOMAIN axis = 1..m
      /\ \A a \in 1..m : axis[a] \in Int
      /\ \A p \in 1..N : p \in S => \E a \in 1..m : axis[a] = p
      /\ \A a, b \in 1..m : a < b => axis[a] < axis[b]
  BY <1>3, <1>4 DEF Ascends
<1>6. /\ InOrder(RowsOf(samples), Totals(samples), n) /\ DOMAIN samples = 1..n
      /\ RowsOf(samples) = [i \in 1..n |-> samples[i].row]
  BY SamplesInOrder
<1>7. PICK places : places = AxisOf(samples)
  OBVIOUS
<1>8. places = [i \in 1..n |-> CHOOSE a \in 1..m : axis[a] = samples[i].row]
  BY <1>3, <1>5, <1>6, <1>7 DEF AxisOf
<1>9. ASSUME NEW i \in 1..n  PROVE places[i] \in 1..m /\ axis[places[i]] = samples[i].row
  <2>1. PICK r : r = samples[i].row
    OBVIOUS
  <2>2. r \in 1..N /\ Process(r, id) # {}
    BY <1>1, <2>1 DEF Sampling
  <2>3. r \in S
    <3>1. block[r].processes # <<>>
      BY <2>2 DEF Process, ToSet
    <3> QED
      BY <1>1, <1>2, <2>2, <3>1
  <2>4. \E a \in 1..m : axis[a] = r
    BY <1>5, <2>2, <2>3
  <2>5. places[i] = CHOOSE a \in 1..m : axis[a] = r
    BY <1>8, <2>1
  <2> QED
    BY <2>1, <2>4, <2>5
<1>10. \A i \in 1..(n - 1) : places[i] < places[i + 1]
  <2> TAKE i \in 1..(n - 1)
  <2>1. PICK j : j = i + 1
    OBVIOUS
  <2>2. i \in 1..n /\ j \in 1..n /\ i < j
    BY <2>1
  <2>3. samples[i].row < samples[j].row /\ samples[i].row \in Int /\ samples[j].row \in Int
    BY <2>2 DEF Sampling
  <2>4. PICK a, b : a = places[i] /\ b = places[j]
    OBVIOUS
  <2>5. a \in 1..m /\ b \in 1..m /\ axis[a] < axis[b] /\ axis[a] \in Int /\ axis[b] \in Int
    BY <1>9, <2>2, <2>3, <2>4
  <2>6. ~(b < a) /\ a # b
    BY <1>5, <2>5
  <2>7. a < b
    BY <1>5, <2>5, <2>6
  <2> QED
    BY <2>1, <2>4, <2>7
<1>11. Numbers(places, n)
  <2>1. places = [i \in 1..n |-> places[i]]
    BY <1>8
  <2>2. \A i \in 1..n : places[i] \in Int
    BY <1>5, <1>9
  <2> QED
    BY <2>1, <2>2, Zenon DEF Numbers
<1>12. InOrder(places, Totals(samples), n)
  BY <1>6, <1>10, <1>11 DEF InOrder
<1> QED
  BY <1>3, <1>7, <1>9, <1>12

\* The track of a process, in CSH1
LEMMA LegacyIsTrue ==
  ASSUME CountInv, NEW id, NEW samples, NEW n \in Nat \ {0}, Sampling(samples, id, n), NEW q \in Nat \ {0}
  PROVE  LegacyTrue(id, samples, q)
<1>1. PICK places, counts : places = AxisOf(samples) /\ counts = Totals(samples)
  OBVIOUS
<1>2. InOrder(places, counts, n) /\ \A i \in 1..n : Axis[places[i]] = samples[i].row
  BY <1>1, AxisIs
<1>3. PICK track, bare : track = EncodeLegacy(places, counts, q) /\ bare = DecodeLegacy(track, q)
  OBVIOUS
<1>4. bare.rows = places /\ Read(bare, counts, n) /\ AcceptsLegacy(track, bare, q)
  BY <1>2, <1>3, LegacyBack
<1>5. PICK d : d = [rows |-> [i \in DOMAIN bare.rows |-> Axis[bare.rows[i]]], values |-> bare.values, bounds |-> bare.bounds]
  OBVIOUS
<1>6. d.values = bare.values /\ d.bounds = bare.bounds /\ d.rows = [i \in DOMAIN bare.rows |-> Axis[bare.rows[i]]]
  BY <1>5
<1>7. Read(d, counts, n)
  BY <1>4, <1>6 DEF Read
<1>8. d.rows = RowsOf(samples)
  <2>1. DOMAIN bare.rows = 1..n
    BY <1>2, <1>4 DEF InOrder, Numbers
  <2>2. RowsOf(samples) = [i \in 1..n |-> samples[i].row]
    BY SamplesInOrder
  <2> QED
    BY <1>2, <1>4, <1>6, <2>1, <2>2
<1>9. /\ Close(d, samples)
      /\ \A i \in DOMAIN samples : \A interval \in Interval(id, d, i) : IntervalTrue(interval, Rise(samples, i))
  BY <1>1, <1>7, <1>8, ReadClose
<1> QED
  BY <1>1, <1>3, <1>4, <1>5, <1>9, Zenon DEF LegacyTrue

\* The quanta of every profile are ticks that there are powers of two above.
LEMMA CapIs ==
  ASSUME NEW timebase \in Timebases, NEW profile
  PROVE  Cap(profile, timebase) \in Nat \ {0} /\ Cap(profile, timebase) <= MaxPower
<1>1. PICK n, d, a, b : /\ n = timebase.numer /\ d = timebase.denom
                        /\ a = (100000 * d) \div n /\ b = (1000000 * d) \div n
  OBVIOUS
<1>2. n \in Nat \ {0} /\ d \in Nat \ {0} /\ Cap("adaptive", timebase) <= MaxPower
  BY <1>1, BlockRowsAssumption
<1>3. PICK x, y : x = 100000 * d /\ y = 1000000 * d
  OBVIOUS
<1>4. x \in Int /\ y \in Int /\ x <= y
  BY <1>2, <1>3
<1>5. a = x \div n /\ b = y \div n
  BY <1>1, <1>3
<1>6. a <= b
  BY <1>2, <1>4, <1>5, QuantaRise
<1>7. a \in Int /\ b \in Int
  BY <1>2, <1>4, <1>5
<1>8. Cap("adaptive", timebase) = Larger(b, 1)
  BY <1>1 DEF Cap, Quantum
<1>9. Cap(profile, timebase) = Larger(a, 1) \/ Cap(profile, timebase) = Larger(b, 1)
  BY <1>1 DEF Cap, Quantum
<1>10. /\ Larger(a, 1) = (IF a > 1 THEN a ELSE 1) /\ Larger(b, 1) = (IF b > 1 THEN b ELSE 1)
  BY DEF Larger
<1> QED
  BY <1>2, <1>6, <1>7, <1>8, <1>9, <1>10, MaxPowerIs

\* No total goes down.
LEMMA RiseOfIs ==
  ASSUME NEW choice \in Following[topic], topic \in DOMAIN Following, NEW id
  PROVE  RiseOf(choice.moves, id) \in Nat
<1>1. PICK moves : moves = choice.moves
  OBVIOUS
<1>2. \A m \in ToSet(moves) : m.rise \in Nat
  BY <1>1, BlockRowsAssumption, Zenon
<1>3. CASE \E m \in ToSet(moves) : m.id = id
  <2>1. PICK m : m = CHOOSE o \in ToSet(moves) : o.id = id
    OBVIOUS
  <2>2. m \in ToSet(moves)
    BY <1>3, <2>1
  <2>3. RiseOf(moves, id) = m.rise
    BY <1>3, <2>1 DEF RiseOf
  <2> QED
    BY <1>1, <1>2, <2>2, <2>3
<1>4. CASE ~\E m \in ToSet(moves) : m.id = id
  BY <1>1, <1>4 DEF RiseOf
<1> QED
  BY <1>3, <1>4

\* One row more
LEMMA ExtendCount ==
  ASSUME BlockInv, CountInv, NEW choice \in Following[topic], Extend(choice)
  PROVE  CountInv'
<1>1. PICK moves, T, U, n : moves = choice.moves /\ T = totals /\ U = totals' /\ n = Len(block)
  OBVIOUS
<1>2. topic \in DOMAIN Following
  BY DEF BlockInv
<1>3. /\ U = [id \in Identities |-> T[id] + RiseOf(moves, id)]
      /\ \A id \in Identities : T[id] + RiseOf(moves, id) <= Top
  BY <1>1, Zenon DEF Extend
<1>4. \A id \in Identities : T[id] \in Nat /\ T[id] <= Top
  BY <1>1 DEF CountInv
<1>5. \A id \in Identities : U[id] \in Nat /\ U[id] <= Top /\ T[id] <= U[id]
  <2> TAKE id \in Identities
  <2>1. PICK t, x : t = T[id] /\ x = RiseOf(moves, id)
    OBVIOUS
  <2>2. t \in Nat /\ x \in Nat /\ U[id] = t + x /\ t + x <= Top
    BY <1>1, <1>2, <1>3, <1>4, <2>1, RiseOfIs
  <2> QED
    BY <2>1, <2>2
<1>6. U = [id \in Identities |-> U[id]]
  BY <1>3
<1>7. PICK last : last = IF block = <<>> THEN [seq |-> 0, time |-> 0] ELSE Last(block)
  OBVIOUS
<1>8. PICK ps : ps = [i \in DOMAIN moves |->
                  [id |-> moves[i].id, total |-> U[moves[i].id], name |-> moves[i].name, memory |-> moves[i].memory]]
  OBVIOUS
<1>9. PICK new : new = [seq |-> last.seq + choice.step, time |-> last.time + choice.span, boundary |-> choice.boundary,
                        processes |-> ps]
  OBVIOUS
<1>10. block' = Append(block, new) /\ new.processes = ps
  <2>1. block' = Append(block, new)
    BY <1>1, <1>7, <1>8, <1>9, Zenon DEF Extend
  <2> QED
    BY <1>9, <2>1
<1>11. /\ moves \in Seq(ToSet(moves)) /\ \A m \in ToSet(moves) : m.id \in Identities
  BY <1>1, <1>2, BlockRowsAssumption, Zenon
<1>12. \A p \in ToSet(ps) : p.id \in Identities /\ p.total = U[p.id]
  <2> TAKE p \in ToSet(ps)
  <2>1. PICK i \in DOMAIN ps : p = ps[i]
    BY DEF ToSet
  <2>2. i \in DOMAIN moves
    BY <1>8, <2>1
  <2>3. p.id = moves[i].id /\ p.total = U[moves[i].id]
    BY <1>8, <2>1, <2>2
  <2>4. moves[i].id \in Identities
    BY <1>11, <2>2 DEF ToSet
  <2> QED
    BY <2>3, <2>4
<1>13. n \in Nat /\ block = [r \in 1..n |-> block[r]]
  BY <1>1, SeqHas DEF CountInv
<1>14. PICK f : f = [r \in 1..(n + 1) |-> IF r = n + 1 THEN new ELSE block[r]]
  OBVIOUS
<1>15. f[n + 1] = new /\ \A r \in 1..n : f[r] = block[r]
  BY <1>13, <1>14
<1>16. block = [r \in 1..n |-> f[r]]
  BY <1>13, <1>15
<1>17. block' = [r \in 1..(n + 1) |-> f[r]]
  BY <1>10, <1>13, <1>15, <1>16, AppendIs
<1>18. PICK b : b = block'
  OBVIOUS
<1>19. b = [r \in 1..(n + 1) |-> b[r]] /\ \A r \in 1..(n + 1) : b[r] = f[r]
  BY <1>17, <1>18
<1>20. n + 1 \in Nat
  BY <1>13
<1>21. IsSeq(b) /\ Len(b) = n + 1
  BY <1>19, <1>20, ListIsSeq
<1>22. /\ b[n + 1].processes = ps /\ \A r \in 1..n : b[r] = block[r]
       /\ \A r \in 1..(n + 1) : r \in 1..n \/ r = n + 1
  BY <1>10, <1>13, <1>15, <1>19
<1>23. \A r \in 1..n : \A p \in ToSet(block[r].processes) : p.id \in Identities /\ p.total \in Nat /\ p.total <= T[p.id]
  BY <1>1 DEF CountInv
<1>24. ASSUME NEW r \in 1..(n + 1), NEW p \in ToSet(b[r].processes)
       PROVE  p.id \in Identities /\ p.total \in Nat /\ p.total <= U[p.id]
  <2>1. CASE r \in 1..n
    <3>1. p.id \in Identities /\ p.total \in Nat /\ p.total <= T[p.id]
      BY <1>22, <1>23, <1>24, <2>1
    <3>2. T[p.id] \in Nat /\ U[p.id] \in Nat /\ T[p.id] <= U[p.id]
      BY <1>4, <1>5, <3>1
    <3> QED
      BY <3>1, <3>2
  <2>2. CASE r = n + 1
    <3>1. p.id \in Identities /\ p.total = U[p.id]
      BY <1>12, <1>22, <1>24, <2>2
    <3>2. U[p.id] \in Nat
      BY <1>5, <3>1
    <3> QED
      BY <3>1, <3>2
  <2> QED
    BY <1>22, <2>1, <2>2
<1>25. ASSUME NEW r \in 1..(n + 1), NEW s \in 1..(n + 1), NEW p \in ToSet(b[r].processes), NEW o \in ToSet(b[s].processes),
              p.id = o.id, r <= s
       PROVE  p.total <= o.total
  <2>1. CASE s \in 1..n
    <3>1. r \in 1..n
      BY <1>13, <1>25, <2>1
    <3>2. p \in ToSet(block[r].processes) /\ o \in ToSet(block[s].processes)
      BY <1>22, <1>25, <2>1, <3>1
    <3> QED
      BY <1>1, <1>25, <2>1, <3>1, <3>2 DEF CountInv
  <2>2. CASE s = n + 1
    <3>1. o.total = U[o.id]
      BY <1>12, <1>22, <1>25, <2>2
    <3>2. p.total <= U[p.id]
      BY <1>24, <1>25
    <3> QED
      BY <1>25, <3>1, <3>2
  <2> QED
    BY <1>22, <2>1, <2>2
<1>26. IsSeq(block')
  BY <1>18, <1>21
<1>27. totals' = [id \in Identities |-> totals'[id]]
  BY <1>1, <1>6
<1>28. \A id \in Identities : totals'[id] \in Nat /\ totals'[id] <= Top
  BY <1>1, <1>5
<1>29. \A r \in 1..Len(block') : \A p \in ToSet(block'[r].processes) :
          p.id \in Identities /\ p.total \in Nat /\ p.total <= totals'[p.id]
  BY <1>1, <1>18, <1>21, <1>24
<1>30. \A r, s \in 1..Len(block') : \A p \in ToSet(block'[r].processes), o \in ToSet(block'[s].processes) :
          p.id = o.id /\ r <= s => p.total <= o.total
  BY <1>18, <1>21, <1>25
<1> QED
  BY <1>26, <1>27, <1>28, <1>29, <1>30, Zenon DEF CountInv, IsSeq

\* What the rows say of the totals holds of every block.
LEMMA CountInvAlways == BlockSpec => [](BlockInv /\ CountInv)
<1>1. BlockInit => BlockInv /\ CountInv
  <2> SUFFICES ASSUME BlockInit  PROVE BlockInv /\ CountInv
    OBVIOUS
  <2>1. IsSeq(<<>>) /\ Len(<<>>) = 0
    BY DEF IsSeq
  <2>2. BlockInv
    BY <2>1 DEF BlockInit, BlockInv
  <2>3. totals = [id \in Identities |-> 0] /\ IsSeq(block) /\ Len(block) = 0
    BY <2>1 DEF BlockInit
  <2>4. totals = [id \in Identities |-> totals[id]]
    BY <2>3
  <2>5. \A id \in Identities : totals[id] \in Nat /\ totals[id] <= Top
    BY <2>3, MaxPowerIs
  <2>6. CountInv
    <3>1. \A r \in 1..Len(block) : FALSE
      BY <2>3
    <3> QED
      BY <2>3, <2>4, <2>5, <3>1, Zenon DEF CountInv
  <2> QED
    BY <2>2, <2>6
<1>2. BlockInv /\ CountInv /\ [BlockNext]_blockVars => (BlockInv /\ CountInv)'
  <2> SUFFICES ASSUME BlockInv, CountInv, [BlockNext]_blockVars  PROVE (BlockInv /\ CountInv)'
    OBVIOUS
  <2>1. CASE BlockNext
    <3>1. PICK choice \in Following[topic] : Extend(choice)
      BY <2>1, Zenon DEF BlockNext
    <3> QED
      BY <3>1, ExtendInv, ExtendCount
  <2>2. CASE UNCHANGED blockVars
    <3>1. topic' = topic /\ block' = block /\ totals' = totals
      BY <2>2 DEF blockVars
    <3>2. BlockInv'
      BY <3>1, Zenon DEF BlockInv, RowTrue, IsSeq
    <3>3. CountInv'
      BY <3>1, Zenon DEF CountInv, IsSeq
    <3> QED
      BY <3>2, <3>3
  <2> QED
    BY <2>1, <2>2
<1> QED
  BY <1>1, <1>2, PTL DEF BlockSpec

\* What such a block says of the processor comes back.
LEMMA CpuBack ==
  ASSUME CountInv
  PROVE  CpuWithinBound
<1> SUFFICES ASSUME NEW id \in Identities, NEW timebase \in Timebases, NEW samples, samples = Samples(id), samples # <<>>
             PROVE  /\ LegacyTrue(id, samples, Cap("legacy", timebase))
                    /\ \A profile \in {"fixed", "adaptive"} : TrackTrue(id, samples, profile, Cap(profile, timebase))
  BY Zenon DEF CpuWithinBound
<1>1. PICK n : Sampling(samples, id, n)
  BY SamplesAre
<1>2. n \in Nat /\ samples = [i \in 1..n |-> samples[i]]
  BY <1>1 DEF Sampling
<1>3. n \in Nat \ {0}
  BY <1>2
<1>4. LegacyTrue(id, samples, Cap("legacy", timebase))
  BY <1>1, <1>3, CapIs, LegacyIsTrue
<1>5. ASSUME NEW profile \in {"fixed", "adaptive"}  PROVE TrackTrue(id, samples, profile, Cap(profile, timebase))
  BY <1>1, <1>3, CapIs, TrackIsTrue
<1> QED
  BY <1>4, <1>5

\* Whatever the counters of the processes do, whichever rows lack them and whatever the clock of the
\* machine: the decoder takes what the encoders of CSH1 and CSH2 write, every total it reads is below
\* the true one by no more than the bound it states, and those bounds are as small as they must be.
THEOREM AlwaysCpuWithinBound == BlockSpec => []CpuWithinBound
<1>1. CountInv => CpuWithinBound
  BY CpuBack
<1> QED
  BY <1>1, CountInvAlways, PTL

-----------------------------------------------------------------------------
(* The samples that are kept                                                *)

\* One sample of the walk of Select
Look(samples, cap, profile, state, i) == SelectStep(samples, state, i, Desired(samples, i, cap, profile))

\* What is kept of the first n samples of xs
Selecting(samples, cap, profile, start, xs, n) ==
  FoldLeft(LAMBDA a, x : Look(samples, cap, profile, a, x), start, [i \in 1..n |-> xs[i]])

\* g is a fold as FoldLeft chooses one.
SelectingFold(g, samples, cap, profile, start, xs, n) ==
  g = [t \in SUBSET (1..n) |-> IF t = {} THEN start ELSE Look(samples, cap, profile, g[t \ {Max(t)}], xs[Max(t)])]

\* There is a fold over the samples.
LEMMA SelectingFoldExists ==
  ASSUME NEW samples, NEW cap, NEW profile, NEW start, NEW xs
  PROVE  \A n \in Nat : \E g : SelectingFold(g, samples, cap, profile, start, xs, n)
<1> DEFINE T == {n \in Nat : \E g : SelectingFold(g, samples, cap, profile, start, xs, n)}
<1>1. 0 \in T
  <2>1. SUBSET (1..0) = {{}}
    OBVIOUS
  <2>2. SelectingFold([t \in SUBSET (1..0) |-> start], samples, cap, profile, start, xs, 0)
    BY <2>1 DEF SelectingFold
  <2> QED
    BY <2>2
<1>2. ASSUME NEW n \in Nat, n \in T  PROVE n + 1 \in T
  <2>1. PICK g : SelectingFold(g, samples, cap, profile, start, xs, n)
    BY <1>2
  <2>2. PICK top : top = [u \in SUBSET (1..n) |-> Look(samples, cap, profile, g[u], xs[n + 1])]
    OBVIOUS
  <2>3. PICK h : h = [t \in SUBSET (1..(n + 1)) |-> IF n + 1 \in t THEN top[t \ {n + 1}] ELSE g[t]]
    OBVIOUS
  <2>4. ASSUME NEW t \in SUBSET (1..(n + 1))
        PROVE  h[t] = IF t = {} THEN start ELSE Look(samples, cap, profile, h[t \ {Max(t)}], xs[Max(t)])
    <3>1. CASE t = {}
      <4>1. h[t] = g[t] /\ t \in SUBSET (1..n)
        BY <2>3, <3>1, Longer
      <4> QED
        BY <2>1, <3>1, <4>1 DEF SelectingFold
    <3>2. CASE n + 1 \in t
      <4>1. /\ t # {} /\ Max(t) = n + 1 /\ h[t] = top[t \ {n + 1}]
            /\ t \ {n + 1} \in SUBSET (1..n) /\ h[t \ {n + 1}] = g[t \ {n + 1}]
        BY <2>3, <3>2, Longer
      <4> QED
        BY <2>2, <4>1
    <3>3. CASE t # {} /\ n + 1 \notin t
      <4>1. t \in SUBSET (1..n) /\ h[t] = g[t] /\ h[t \ {Max(t)}] = g[t \ {Max(t)}]
        BY <2>3, <3>3, Longer
      <4>2. g[t] = Look(samples, cap, profile, g[t \ {Max(t)}], xs[Max(t)])
        BY <2>1, <3>3, <4>1 DEF SelectingFold
      <4> QED
        BY <3>3, <4>1, <4>2
    <3> QED
      BY <3>1, <3>2, <3>3
  <2>5. h = [t \in SUBSET (1..(n + 1)) |-> IF t = {} THEN start ELSE Look(samples, cap, profile, h[t \ {Max(t)}], xs[Max(t)])]
    BY <2>3, <2>4
  <2>6. SelectingFold(h, samples, cap, profile, start, xs, n + 1)
    BY <2>5, Zenon DEF SelectingFold
  <2> QED
    BY <2>6
<1> QED
  <2> HIDE DEF T
  <2>1. Nat \subseteq T
    BY <1>1, <1>2, Induction
  <2> QED
    BY <2>1 DEF T

\* Selecting is the value of a fold g.
SelectingIs(g, samples, cap, profile, start, xs, n) ==
  /\ g[{}] = start /\ Selecting(samples, cap, profile, start, xs, n) = g[1..n]
  /\ \A k \in 1..n : g[1..k] = Look(samples, cap, profile, g[1..(k - 1)], xs[k])

\* Selecting is such a fold.
LEMMA SelectingIsFold ==
  ASSUME NEW samples, NEW cap, NEW profile, NEW start, NEW xs
  PROVE  \A n \in Nat : \E g : SelectingIs(g, samples, cap, profile, start, xs, n)
<1> TAKE n \in Nat
<1> DEFINE q == [i \in 1..n |-> xs[i]]
           g == CHOOSE g : SelectingFold(g, samples, cap, profile, start, q, n)
<1>1. DOMAIN q = 1..n
  OBVIOUS
<1>2. Selecting(samples, cap, profile, start, xs, n)
       = (CHOOSE f : f = [t \in SUBSET DOMAIN q |-> IF t = {} THEN start
         ELSE Look(samples, cap, profile, f[t \ {Max(t)}], q[Max(t)])])[DOMAIN q]
  BY Zenon DEF Selecting, FoldLeft, MapThenFoldSet
<1>3. Selecting(samples, cap, profile, start, xs, n) = g[1..n]
  BY <1>1, <1>2, Zenon DEF SelectingFold
<1>4. SelectingFold(g, samples, cap, profile, start, q, n)
  <2> HIDE DEF q
  <2>1. \E f : SelectingFold(f, samples, cap, profile, start, q, n)
    BY SelectingFoldExists
  <2> QED
    BY <2>1, Zenon
<1> HIDE DEF g
<1>5. g[{}] = start
  BY <1>4 DEF SelectingFold
<1>6. ASSUME NEW k \in 1..n  PROVE g[1..k] = Look(samples, cap, profile, g[1..(k - 1)], xs[k])
  <2>1. k \in Nat \ {0} /\ 1..k \in SUBSET (1..n) /\ q[k] = xs[k]
    OBVIOUS
  <2>2. Max(1..k) = k /\ (1..k) \ {k} = 1..(k - 1) /\ 1..k # {}
    BY <2>1, UpTo
  <2> HIDE DEF q
  <2>3. g[1..k] = Look(samples, cap, profile, g[1..(k - 1)], q[k])
    BY <1>4, <2>1, <2>2 DEF SelectingFold
  <2> QED
    BY <2>1, <2>3
<1> QED
  BY <1>3, <1>5, <1>6 DEF SelectingIs

\* Nothing is looked at yet.
LEMMA SelectingFirst ==
  ASSUME NEW samples, NEW cap, NEW profile, NEW start, NEW xs
  PROVE  Selecting(samples, cap, profile, start, xs, 0) = start
<1>1. 1..0 = {} /\ 0 \in Nat
  OBVIOUS
<1> QED
  BY <1>1, SelectingIsFold DEF SelectingIs

\* One sample more.
LEMMA SelectingStep ==
  ASSUME NEW samples, NEW cap, NEW profile, NEW start, NEW xs, NEW n \in Nat
  PROVE  Selecting(samples, cap, profile, start, xs, n + 1) = Look(samples, cap, profile, Selecting(samples, cap, profile, start, xs, n), xs[n + 1])
<1>1. PICK g : SelectingIs(g, samples, cap, profile, start, xs, n)
  BY SelectingIsFold
<1>2. n + 1 \in Nat
  OBVIOUS
<1>3. PICK h : SelectingIs(h, samples, cap, profile, start, xs, n + 1)
  BY <1>2, SelectingIsFold
<1> USE DEF SelectingIs
<1> DEFINE T == {k \in Nat : k <= n => g[1..k] = h[1..k]}
<1>4. 0 \in T
  <2>1. 1..0 = {}
    OBVIOUS
  <2> QED
    BY <1>1, <1>3, <2>1
<1>5. ASSUME NEW k \in Nat, k \in T  PROVE k + 1 \in T
  <2> SUFFICES ASSUME k + 1 <= n  PROVE g[1..(k + 1)] = h[1..(k + 1)]
    OBVIOUS
  <2>1. k + 1 \in 1..n /\ k + 1 \in 1..(n + 1) /\ (k + 1) - 1 = k /\ k <= n
    OBVIOUS
  <2>2. g[1..k] = h[1..k]
    BY <1>5, <2>1
  <2>3. g[1..(k + 1)] = Look(samples, cap, profile, g[1..k], xs[k + 1]) /\ h[1..(k + 1)] = Look(samples, cap, profile, h[1..k], xs[k + 1])
    BY <1>1, <1>3, <2>1
  <2> QED
    BY <2>2, <2>3
<1>6. n \in T
  <2> HIDE DEF T
  <2> QED
    BY <1>4, <1>5, Induction
<1>7. g[1..n] = h[1..n]
  BY <1>6
<1>8. n + 1 \in 1..(n + 1) /\ (n + 1) - 1 = n
  OBVIOUS
<1> QED
  BY <1>1, <1>3, <1>7, <1>8

\* The exponent of a power of two, zero for one only
LEMMA ExponentIs ==
  ASSUME NEW power \in Powers
  PROVE  Exponent(power) \in Nat /\ (power # 1 => Exponent(power) # 0)
<1>1. DOMAIN PowerList = 1..30 /\ PowerList[1] = 1
  BY DEF PowerList
<1>2. PICK i \in 1..30 : PowerList[i] = power
  BY <1>1 DEF Powers, ToSet
<1>3. PICK k : k = i - 1
  OBVIOUS
<1>4. k \in 0..29 /\ PowerList[k + 1] = power
  BY <1>2, <1>3
<1>5. PICK e : e = Exponent(power)
  OBVIOUS
<1>6. e = CHOOSE x \in 0..29 : PowerList[x + 1] = power
  BY <1>5 DEF Exponent
<1>7. e \in 0..29 /\ PowerList[e + 1] = power
  BY <1>4, <1>6
<1>8. e = 0 => power = 1
  BY <1>1, <1>7
<1> QED
  BY <1>5, <1>7, <1>8

\* A deadline is a time, and never longer than the longest.
LEMMA DeadlineIs ==
  ASSUME NEW cap \in Nat \ {0}, cap <= MaxPower, NEW q \in Nat \ {0}, q \in Powers \cup {cap},
         NEW busy, busy = AdaptiveQuantum(cap, cap), NEW profile \in TemporalProfiles
  PROVE  Deadline(q, busy, profile) \in Int /\ Deadline(q, busy, profile) <= Longest
<1>1. /\ busy \in Nat \ {0} /\ busy <= cap /\ busy \in Powers \cup {cap}
      /\ busy > 1 => 8 * busy <= cap
  BY AdaptiveFacts
<1>2. Shortest \in Int /\ Longest \in Int /\ Shortest <= Longest /\ Shortest = 100 /\ Longest - Shortest \in Nat
  BY DEF Shortest, Longest
<1>3. CASE profile = "inverse"
  <2>1. PICK r : r = busy \div q
    OBVIOUS
  <2>2. r \in Int
    BY <1>1, <2>1
  <2>3. PICK l : l = Larger(r, 1)
    OBVIOUS
  <2>4. l \in Int /\ Shortest * l \in Int
    BY <1>2, <2>2, <2>3 DEF Larger
  <2>5. Deadline(q, busy, profile) = Smaller(Shortest * l, Longest)
    BY <1>3, <2>1, <2>3 DEF Deadline
  <2> QED
    BY <1>2, <2>4, <2>5 DEF Smaller
<1>4. CASE profile # "inverse" /\ (busy = 1 \/ q >= busy)
  <2>1. Deadline(q, busy, profile) = Shortest
    BY <1>4 DEF Deadline
  <2> QED
    BY <1>2, <2>1
<1>5. CASE profile # "inverse" /\ ~(busy = 1 \/ q >= busy)
  <2>1. busy < cap /\ q < cap /\ busy \in Powers /\ q \in Powers
    BY <1>1, <1>5
  <2>2. PICK e, f : e = Exponent(busy) /\ f = Exponent(q)
    OBVIOUS
  <2>3. e \in Nat \ {0} /\ f \in Nat
    BY <1>5, <2>1, <2>2, ExponentIs
  <2>4. PICK d : d = (Longest - Shortest) * (e - f)
    OBVIOUS
  <2>5. d \in Int
    BY <1>2, <2>3, <2>4
  <2>6. PICK c : c = CeilDiv(d, e)
    OBVIOUS
  <2>7. c \in Int
    BY <2>3, <2>5, <2>6 DEF CeilDiv
  <2>8. Deadline(q, busy, profile) = Smaller(Shortest + c, Longest)
    BY <1>5, <2>2, <2>4, <2>6 DEF Deadline
  <2> QED
    BY <1>2, <2>7, <2>8 DEF Smaller
<1> QED
  BY <1>3, <1>4, <1>5

\* The samples of a process without interruption, as they come to Select
Timed(samples, n) ==
  /\ n \in Nat \ {0} /\ IsSeq(samples) /\ Len(samples) = n
  /\ \A i \in 1..n : samples[i].total \in Nat /\ samples[i].total <= Top /\ samples[i].time \in Nat
  /\ \A i, j \in 1..n : i <= j => samples[i].total <= samples[j].total
  /\ \A i, j \in 1..n : i < j => samples[i].time < samples[j].time

\* So is what a sample asks for.
LEMMA DesiredIs ==
  ASSUME NEW n, NEW samples, Timed(samples, n), NEW cap \in Nat \ {0}, cap <= MaxPower, NEW profile \in TemporalProfiles,
         NEW i \in 2..n
  PROVE  Desired(samples, i, cap, profile) \in Int /\ Desired(samples, i, cap, profile) <= Longest
<1>1. PICK o : o = i - 1
  OBVIOUS
<1>2. n \in Nat \ {0}
  BY DEF Timed
<1>3. o \in 1..n /\ i \in 1..n /\ o < i /\ o <= i
  BY <1>1, <1>2
<1>4. PICK d, e : d = samples[i].total - samples[o].total /\ e = samples[i].time - samples[o].time
  OBVIOUS
<1>5. d \in Nat /\ e \in Nat \ {0}
  <2>1. /\ samples[i].total \in Nat /\ samples[o].total \in Nat /\ samples[o].total <= samples[i].total
        /\ samples[i].time \in Nat /\ samples[o].time \in Nat /\ samples[o].time < samples[i].time
    BY <1>3 DEF Timed
  <2> QED
    BY <1>4, <2>1
<1>6. PICK x, used : x = d * 100 /\ used = x \div e
  OBVIOUS
<1>7. x \in Nat /\ used \in Nat
  <2>1. x \in Nat
    BY <1>5, <1>6
  <2>2. used \in Int /\ 0 <= used
    BY <1>5, <1>6, <2>1
  <2> QED
    BY <2>1, <2>2
<1>8. PICK q, busy : q = AdaptiveQuantum(used, cap) /\ busy = AdaptiveQuantum(cap, cap)
  OBVIOUS
<1>9. q \in Nat \ {0} /\ q \in Powers \cup {cap}
  BY <1>7, <1>8, AdaptiveFacts
<1>10. Desired(samples, i, cap, profile) = Deadline(q, busy, profile)
  BY <1>1, <1>4, <1>6, <1>8 DEF Desired, TemporalQuantum
<1> QED
  BY <1>8, <1>9, <1>10, DeadlineIs

\* Between s and t nothing was to be kept, and t was not too late.
Skipped(samples, want, s, t) ==
  /\ \A j \in (s + 1)..(t - 1) : samples[j].name = samples[s].name
  /\ \A j \in (s + 1)..(t - 1) : \A h \in (s + 1)..j : samples[j].time - samples[s].time < want[h]
  /\ (s + 1)..(t - 1) # {} /\ (\A h \in (s + 1)..(t - 1) : want[t] < want[h])
       => samples[t].time - samples[s].time <= want[t]

\* What is kept up to a
Trail(kept, a, samples, want) ==
  /\ IsSeq(kept) /\ Len(kept) \in Nat \ {0} /\ a \in Nat \ {0}
  /\ kept[1] = 1 /\ kept[Len(kept)] = a
  /\ \A k \in 1..Len(kept) : kept[k] \in 1..a
  /\ \A k \in 1..(Len(kept) - 1) : kept[k] < kept[k + 1]
  /\ \A k \in 1..(Len(kept) - 1) : Skipped(samples, want, kept[k], kept[k + 1])

\* Nothing was to be kept after a, and pending says until when.
Waiting(a, pending, samples, want, i) ==
  /\ a \in 1..i /\ pending \in Int
  /\ pending = Longest \/ \E j \in (a + 1)..i : pending = want[j]
  /\ \A j \in (a + 1)..i : pending <= want[j] /\ samples[j].name = samples[a].name
  /\ \A j \in (a + 1)..i : \A h \in (a + 1)..j : samples[j].time - samples[a].time < want[h]

\* One more is kept.
LEMMA TrailFurther ==
  ASSUME NEW kept, NEW a, NEW samples, NEW want, Trail(kept, a, samples, want),
         NEW b \in Nat, a < b, Skipped(samples, want, a, b)
  PROVE  Trail(Keep(kept, b), b, samples, want)
<1>1. PICK m : m = Len(kept)
  OBVIOUS
<1>2. /\ IsSeq(kept) /\ m \in Nat \ {0} /\ a \in Nat \ {0} /\ kept[1] = 1 /\ kept[m] = a
      /\ \A k \in 1..m : kept[k] \in 1..a
      /\ \A k \in 1..(m - 1) : kept[k] < kept[k + 1]
      /\ \A k \in 1..(m - 1) : Skipped(samples, want, kept[k], kept[k + 1])
  BY <1>1, Zenon DEF Trail
<1>3. kept = [k \in 1..m |-> kept[k]]
  BY <1>1, <1>2, SeqHas
<1>4. PICK list : list = Keep(kept, b)
  OBVIOUS
<1>5. list = Append(kept, b)
  <2>1. Last(kept) = a
    BY <1>1, <1>2 DEF Last
  <2> QED
    BY <1>2, <1>4, <2>1 DEF Keep
<1>6. PICK f : f = [k \in 1..(m + 1) |-> IF k = m + 1 THEN b ELSE kept[k]]
  OBVIOUS
<1>7. f[m + 1] = b /\ \A k \in 1..m : f[k] = kept[k]
  BY <1>2, <1>6
<1>8. kept = [k \in 1..m |-> f[k]]
  BY <1>3, <1>7
<1>9. list = [k \in 1..(m + 1) |-> f[k]]
  BY <1>2, <1>5, <1>7, <1>8, AppendIs
<1>10. IsSeq(list) /\ Len(list) = m + 1
  <2>1. list = [k \in 1..(m + 1) |-> list[k]] /\ m + 1 \in Nat
    BY <1>2, <1>9
  <2> QED
    BY <2>1, ListIsSeq
<1>11. list[m + 1] = b /\ \A k \in 1..m : list[k] = kept[k]
  BY <1>2, <1>7, <1>9
<1>12. \A k \in 1..(m + 1) : list[k] \in 1..b
  <2> TAKE k \in 1..(m + 1)
  <2>1. CASE k \in 1..m
    <3>1. kept[k] \in 1..a
      BY <1>2, <2>1
    <3> QED
      BY <1>2, <1>11, <2>1, <3>1
  <2>2. CASE k = m + 1
    BY <1>2, <1>11, <2>2
  <2> QED
    BY <1>2, <2>1, <2>2
<1>13. ASSUME NEW k \in 1..m  PROVE list[k] < list[k + 1] /\ Skipped(samples, want, list[k], list[k + 1])
  <2>1. CASE k \in 1..(m - 1)
    <3>1. k \in 1..m /\ k + 1 \in 1..m
      BY <1>2, <2>1
    <3>2. list[k] = kept[k] /\ list[k + 1] = kept[k + 1]
      BY <1>11, <3>1
    <3> QED
      BY <1>2, <2>1, <3>2
  <2>2. CASE k = m
    <3>1. list[k] = a /\ list[k + 1] = b
      BY <1>2, <1>11, <2>2
    <3> QED
      BY <3>1
  <2> QED
    BY <1>2, <2>1, <2>2
<1>14. list[1] = 1 /\ m + 1 \in Nat \ {0} /\ b \in Nat \ {0} /\ (m + 1) - 1 = m
  BY <1>2, <1>11
<1>15. Trail(list, b, samples, want)
  BY <1>10, <1>11, <1>12, <1>13, <1>14, Zenon DEF Trail
<1> QED
  BY <1>4, <1>15

\* Right after a sample was kept
LEMMA WaitingAfresh ==
  ASSUME NEW i \in Nat \ {0}, NEW samples, NEW want
  PROVE  Waiting(i, Longest, samples, want, i)
<1>1. (i + 1)..i = {} /\ i \in 1..i /\ Longest \in Int
  BY DEF Longest
<1> QED
  BY <1>1, Zenon DEF Waiting

\* Every sample but the first asks for a deadline.
Asking(want, n) == \A j \in 2..n : want[j] \in Int /\ want[j] <= Longest

\* What was waited through is skipped.
LEMMA WaitingSkips ==
  ASSUME NEW n, NEW samples, Timed(samples, n), NEW want, Asking(want, n), NEW i \in 1..(n - 1), NEW a, NEW p,
         Waiting(a, p, samples, want, i), NEW b, b = i + 1,
         p <= want[b] \/ a = i \/ samples[b].time - samples[a].time <= want[b]
  PROVE  Skipped(samples, want, a, b)
<1>1. n \in Nat \ {0}
  BY DEF Timed
<1>2. /\ a \in 1..i /\ p \in Int
      /\ p = Longest \/ \E j \in (a + 1)..i : p = want[j]
      /\ \A j \in (a + 1)..i : samples[j].name = samples[a].name
      /\ \A j \in (a + 1)..i : \A h \in (a + 1)..j : samples[j].time - samples[a].time < want[h]
  BY Zenon DEF Waiting
<1>3. b - 1 = i /\ b \in 2..n /\ i \in Nat /\ a \in Nat
  BY <1>1, <1>2
<1>4. ASSUME (a + 1)..i # {}, \A h \in (a + 1)..i : want[b] < want[h]
      PROVE  samples[b].time - samples[a].time <= want[b]
  <2>1. a # i
    BY <1>2, <1>4
  <2>2. CASE p <= want[b]
    <3>1. CASE p = Longest
      <4>1. PICK h \in (a + 1)..i : want[b] < want[h]
        BY <1>4
      <4>2. h \in 2..n
        BY <1>1, <1>2
      <4>3. want[h] \in Int /\ want[h] <= Longest /\ want[b] \in Int /\ Longest \in Int
        BY <1>3, <4>2 DEF Asking, Longest
      <4> QED
        BY <2>2, <3>1, <4>1, <4>3
    <3>2. CASE \E j \in (a + 1)..i : p = want[j]
      <4>1. PICK j \in (a + 1)..i : p = want[j]
        BY <3>2
      <4>2. want[b] < p /\ want[b] \in Int
        BY <1>3, <1>4, <4>1 DEF Asking
      <4> QED
        BY <1>2, <2>2, <4>2
    <3> QED
      BY <1>2, <3>1, <3>2
  <2> QED
    BY <2>1, <2>2
<1> QED
  BY <1>2, <1>3, <1>4, Zenon DEF Skipped

\* So is what was waited through before the last of it.
LEMMA WaitedSkips ==
  ASSUME NEW samples, NEW want, NEW i \in Nat, NEW a, NEW p, Waiting(a, p, samples, want, i), a # i,
         samples[a].time \in Int, samples[i].time \in Int, want[i] \in Int
  PROVE  Skipped(samples, want, a, i)
<1>1. /\ a \in 1..i
      /\ \A j \in (a + 1)..i : samples[j].name = samples[a].name
      /\ \A j \in (a + 1)..i : \A h \in (a + 1)..j : samples[j].time - samples[a].time < want[h]
  BY Zenon DEF Waiting
<1>2. i \in (a + 1)..i /\ \A j \in (a + 1)..(i - 1) : j \in (a + 1)..i
  BY <1>1
<1>3. samples[i].time - samples[a].time <= want[i]
  <2>1. samples[i].time - samples[a].time < want[i]
    BY <1>1, <1>2
  <2> QED
    BY <2>1
<1>4. \A j \in (a + 1)..(i - 1) : samples[j].name = samples[a].name
  BY <1>1, <1>2
<1>5. \A j \in (a + 1)..(i - 1) : \A h \in (a + 1)..j : samples[j].time - samples[a].time < want[h]
  BY <1>1, <1>2
<1> QED
  BY <1>3, <1>4, <1>5, Zenon DEF Skipped

\* A sample no deadline before it and no name asks for
LEMMA WaitingFurther ==
  ASSUME NEW n, NEW samples, Timed(samples, n), NEW want, Asking(want, n), NEW i \in 1..(n - 1), NEW a, NEW p,
         Waiting(a, p, samples, want, i), NEW b, b = i + 1, NEW q, q = Smaller(want[b], p),
         samples[b].time - samples[a].time < q, samples[b].name = samples[i].name
  PROVE  Waiting(a, q, samples, want, b)
<1>1. n \in Nat \ {0}
  BY DEF Timed
<1>2. /\ a \in 1..i /\ p \in Int
      /\ p = Longest \/ \E j \in (a + 1)..i : p = want[j]
      /\ \A j \in (a + 1)..i : p <= want[j] /\ samples[j].name = samples[a].name
      /\ \A j \in (a + 1)..i : \A h \in (a + 1)..j : samples[j].time - samples[a].time < want[h]
  BY Zenon DEF Waiting
<1>3. i \in Nat /\ a \in Nat /\ b \in 2..n /\ a \in 1..b /\ a \in 1..n
  BY <1>1, <1>2
<1>4. \A j \in (a + 1)..b : j \in (a + 1)..i \/ j = b
  BY <1>3
<1>5. b \in (a + 1)..b /\ \A j \in (a + 1)..i : j \in (a + 1)..b
  BY <1>2, <1>3
<1>6. \A j \in (a + 1)..b : want[j] \in Int
  <2>1. \A j \in (a + 1)..b : j \in 2..n
    BY <1>1, <1>2, <1>3
  <2> QED
    BY <2>1 DEF Asking
<1>7. q \in Int /\ q <= want[b] /\ q <= p /\ (q = want[b] \/ q = p)
  BY <1>2, <1>5, <1>6 DEF Smaller
<1>8. q = Longest \/ \E j \in (a + 1)..b : q = want[j]
  BY <1>2, <1>5, <1>7
<1>9. samples[b].name = samples[a].name
  <2>1. CASE a = i
    BY <2>1
  <2>2. CASE a # i
    <3>1. i \in (a + 1)..i
      BY <1>2, <2>2
    <3> QED
      BY <1>2, <3>1
  <2> QED
    BY <2>1, <2>2
<1>10. \A j \in (a + 1)..b : q <= want[j] /\ samples[j].name = samples[a].name
  <2> TAKE j \in (a + 1)..b
  <2>1. CASE j \in (a + 1)..i
    <3>1. p <= want[j] /\ want[j] \in Int /\ samples[j].name = samples[a].name
      BY <1>2, <1>6, <2>1
    <3> QED
      BY <1>2, <1>7, <3>1
  <2>2. CASE j = b
    BY <1>7, <1>9, <2>2
  <2> QED
    BY <1>4, <2>1, <2>2
<1>11. ASSUME NEW j \in (a + 1)..b, NEW h \in (a + 1)..j  PROVE samples[j].time - samples[a].time < want[h]
  <2>1. CASE j \in (a + 1)..i
    BY <1>2, <1>11, <2>1
  <2>2. CASE j = b
    <3>1. h \in (a + 1)..b
      BY <2>2
    <3>2. q <= want[h] /\ want[h] \in Int
      BY <1>6, <1>10, <3>1
    <3>3. samples[b].time \in Int /\ samples[a].time \in Int
      BY <1>3 DEF Timed
    <3>4. PICK d : d = samples[b].time - samples[a].time
      OBVIOUS
    <3>5. d \in Int /\ d < q
      BY <3>3, <3>4
    <3> QED
      BY <1>7, <2>2, <3>2, <3>4, <3>5
  <2> QED
    BY <1>4, <2>1, <2>2
<1> QED
  BY <1>3, <1>7, <1>8, <1>10, <1>11, Zenon DEF Waiting

\* How far Select is after sample i
ChosenTo(state, samples, want, i) ==
  Trail(state.kept, state.anchor, samples, want) /\ Waiting(state.anchor, state.pending, samples, want, i)

\* The sample after one that is kept can be kept.
LEMMA NextSkips ==
  ASSUME NEW i \in Nat, NEW samples, NEW want
  PROVE  Skipped(samples, want, i, i + 1)
<1>1. (i + 1)..((i + 1) - 1) = {}
  OBVIOUS
<1> QED
  BY <1>1, Zenon DEF Skipped

\* One sample more
LEMMA StepChosen ==
  ASSUME NEW n, NEW samples, Timed(samples, n), NEW want, Asking(want, n), NEW i \in 1..(n - 1), NEW state,
         ChosenTo(state, samples, want, i)
  PROVE  ChosenTo(SelectStep(samples, state, i + 1, want[i + 1]), samples, want, i + 1)
<1>1. PICK b, a, p, w : b = i + 1 /\ a = state.anchor /\ p = state.pending /\ w = want[b]
  OBVIOUS
<1>2. Trail(state.kept, a, samples, want) /\ Waiting(a, p, samples, want, i)
  BY <1>1 DEF ChosenTo
<1>3. a \in 1..i /\ p \in Int
  BY <1>2, Zenon DEF Waiting
<1>4. n \in Nat \ {0}
  BY DEF Timed
<1>5. i \in Nat \ {0} /\ a \in Nat \ {0} /\ b \in 2..n /\ b \in Nat \ {0} /\ a < b /\ i < b
      /\ a \in 1..n /\ i \in 1..n /\ b \in 1..n /\ b - 1 = i /\ (a # i => a < i /\ i \in 2..n)
  BY <1>1, <1>3, <1>4
<1>6. w \in Int /\ w <= Longest /\ Longest \in Int
  BY <1>1, <1>5 DEF Asking, Longest
<1>7. samples[a].time \in Int /\ samples[i].time \in Int /\ samples[b].time \in Int
  BY <1>5 DEF Timed
<1>8. PICK late : late = (w < p /\ b > a + 1 /\ samples[b].time - samples[a].time > w)
  OBVIOUS
<1>9. PICK anchor, pending, kept : /\ anchor = IF late THEN i ELSE a
                                   /\ pending = Smaller(w, IF late THEN Longest ELSE p)
                                   /\ kept = IF late THEN Keep(state.kept, i) ELSE state.kept
  OBVIOUS
<1>10. PICK next : next = SelectStep(samples, state, b, w)
  OBVIOUS
<1>11. next = IF samples[b].time - samples[anchor].time >= pending \/ samples[b].name # samples[i].name
              THEN [kept |-> Keep(kept, b), anchor |-> b, pending |-> Longest]
              ELSE [kept |-> kept, anchor |-> anchor, pending |-> pending]
  BY <1>1, <1>5, <1>8, <1>9, <1>10, Zenon DEF SelectStep
<1>12. CASE late
  <2>1. a # i
    <3>1. b > a + 1
      BY <1>8, <1>12, Zenon
    <3> QED
      BY <1>1, <1>3, <3>1
  <2>2. anchor = i /\ kept = Keep(state.kept, i) /\ pending = Smaller(w, Longest)
    BY <1>9, <1>12
  <2>3. want[i] \in Int
    BY <1>5, <2>1 DEF Asking
  <2>4. Skipped(samples, want, a, i)
    BY <1>2, <1>5, <1>7, <2>1, <2>3, WaitedSkips
  <2>5. Trail(kept, i, samples, want)
    BY <1>2, <1>5, <2>1, <2>2, <2>4, TrailFurther
  <2>6. Waiting(i, Longest, samples, want, i)
    BY <1>5, WaitingAfresh
  <2>7. CASE samples[b].time - samples[i].time >= pending \/ samples[b].name # samples[i].name
    <3>1. next.kept = Keep(kept, b) /\ next.anchor = b /\ next.pending = Longest
      BY <1>11, <2>2, <2>7
    <3>2. Skipped(samples, want, i, b)
      BY <1>1, <1>5, NextSkips
    <3>3. Trail(Keep(kept, b), b, samples, want)
      BY <1>5, <2>5, <3>2, TrailFurther
    <3>4. Waiting(b, Longest, samples, want, b)
      BY <1>5, WaitingAfresh
    <3> QED
      BY <1>1, <1>10, <3>1, <3>3, <3>4 DEF ChosenTo
  <2>8. CASE ~(samples[b].time - samples[i].time >= pending \/ samples[b].name # samples[i].name)
    <3>1. next.kept = kept /\ next.anchor = i /\ next.pending = pending
      BY <1>11, <2>2, <2>8
    <3>2. pending \in Int
      BY <1>6, <2>2 DEF Smaller
    <3>3. samples[b].time - samples[i].time < pending /\ samples[b].name = samples[i].name
      BY <1>7, <2>8, <3>2
    <3>4. Waiting(i, pending, samples, want, b)
      BY <1>1, <2>2, <2>6, <3>3, WaitingFurther
    <3> QED
      BY <1>1, <1>10, <2>5, <3>1, <3>4 DEF ChosenTo
  <2> QED
    BY <2>7, <2>8
<1>13. CASE ~late
  <2>1. anchor = a /\ kept = state.kept /\ pending = Smaller(w, p)
    BY <1>9, <1>13
  <2>2. CASE samples[b].time - samples[a].time >= pending \/ samples[b].name # samples[i].name
    <3>1. next.kept = Keep(kept, b) /\ next.anchor = b /\ next.pending = Longest
      BY <1>11, <2>1, <2>2
    <3>2. p <= w \/ a = i \/ samples[b].time - samples[a].time <= w
      <4>1. ~(w < p /\ b > a + 1 /\ samples[b].time - samples[a].time > w)
        BY <1>8, <1>13, Zenon
      <4>2. PICK d : d = samples[b].time - samples[a].time
        OBVIOUS
      <4>3. d \in Int /\ ~(w < p /\ b > a + 1 /\ d > w)
        BY <1>7, <4>1, <4>2
      <4>4. p <= w \/ a = i \/ d <= w
        BY <1>1, <1>3, <1>6, <4>3
      <4> QED
        BY <4>2, <4>4
    <3>3. Skipped(samples, want, a, b)
      BY <1>1, <1>2, <3>2, WaitingSkips
    <3>4. Trail(Keep(kept, b), b, samples, want)
      BY <1>2, <1>5, <2>1, <3>3, TrailFurther
    <3>5. Waiting(b, Longest, samples, want, b)
      BY <1>5, WaitingAfresh
    <3> QED
      BY <1>1, <1>10, <3>1, <3>4, <3>5 DEF ChosenTo
  <2>3. CASE ~(samples[b].time - samples[a].time >= pending \/ samples[b].name # samples[i].name)
    <3>1. next.kept = kept /\ next.anchor = a /\ next.pending = pending
      BY <1>11, <2>1, <2>3
    <3>2. pending \in Int
      BY <1>3, <1>6, <2>1 DEF Smaller
    <3>3. samples[b].time - samples[a].time < pending /\ samples[b].name = samples[i].name
      BY <1>7, <2>3, <3>2
    <3>4. Waiting(a, pending, samples, want, b)
      BY <1>1, <1>2, <2>1, <3>3, WaitingFurther
    <3> QED
      BY <1>1, <1>2, <1>10, <2>1, <3>1, <3>4 DEF ChosenTo
  <2> QED
    BY <2>2, <2>3
<1> QED
  BY <1>12, <1>13

\* What the samples of a process ask for
Wanted(samples, n, cap, profile) == [i \in 2..n |-> Desired(samples, i, cap, profile)]

\* Each of them is a time, and none longer than the longest.
LEMMA WantedIs ==
  ASSUME NEW n, NEW samples, Timed(samples, n), NEW cap \in Nat \ {0}, cap <= MaxPower, NEW profile \in TemporalProfiles
  PROVE  Asking(Wanted(samples, n, cap, profile), n)
<1>1. \A j \in 2..n : Wanted(samples, n, cap, profile)[j] = Desired(samples, j, cap, profile)
  BY DEF Wanted
<1>2. \A j \in 2..n : Desired(samples, j, cap, profile) \in Int /\ Desired(samples, j, cap, profile) <= Longest
  BY DesiredIs
<1> QED
  BY <1>1, <1>2 DEF Asking

\* Nothing is kept but the first sample.
LEMMA FirstChosen ==
  ASSUME NEW samples, NEW want, NEW state, state.kept = << 1 >>, state.anchor = 1, state.pending = Longest
  PROVE  ChosenTo(state, samples, want, 1)
<1>1. PICK kept : kept = <<1>>
  OBVIOUS
<1>2. kept = [k \in 1..1 |-> kept[k]] /\ kept[1] = 1 /\ 1 \in Nat
  BY <1>1
<1>3. IsSeq(kept) /\ Len(kept) = 1
  BY <1>2, ListIsSeq
<1>4. 1..(1 - 1) = {} /\ 1 \in Nat \ {0} /\ \A k \in 1..1 : k = 1
  OBVIOUS
<1>5. Trail(kept, 1, samples, want)
  <2>1. \A k \in 1..1 : kept[k] \in 1..1
    BY <1>2, <1>4
  <2> QED
    BY <1>2, <1>3, <1>4, <2>1 DEF Trail
<1>6. Waiting(1, Longest, samples, want, 1)
  BY WaitingAfresh
<1> QED
  BY <1>1, <1>5, <1>6 DEF ChosenTo

\* All of two samples are kept.
LEMMA AllKept ==
  ASSUME NEW n \in Nat \ {0}, NEW samples, NEW want, NEW kept, kept = [i \in 1..n |-> i]
  PROVE  Trail(kept, n, samples, want)
<1>1. IsSeq(kept) /\ Len(kept) = n
  <2>1. kept = [i \in 1..n |-> kept[i]] /\ n \in Nat
    OBVIOUS
  <2> QED
    BY <2>1, ListIsSeq
<1>2. \A k \in 1..n : kept[k] = k
  OBVIOUS
<1>3. kept[1] = 1 /\ kept[n] = n /\ \A k \in 1..n : kept[k] \in 1..n
  BY <1>2
<1>4. ASSUME NEW k \in 1..(n - 1)  PROVE kept[k] < kept[k + 1] /\ Skipped(samples, want, kept[k], kept[k + 1])
  <2>1. k \in 1..n /\ k + 1 \in 1..n /\ k < k + 1 /\ k \in Nat
    OBVIOUS
  <2>2. kept[k] = k /\ kept[k + 1] = k + 1
    BY <1>2, <2>1
  <2> QED
    BY <2>1, <2>2, NextSkips
<1> QED
  BY <1>1, <1>3, <1>4, Zenon DEF Trail

\* What Select keeps ends with the last sample, and between two of it nothing was to be kept.
LEMMA SelectKeeps ==
  ASSUME NEW n, NEW samples, Timed(samples, n), NEW cap \in Nat \ {0}, cap <= MaxPower, NEW profile \in TemporalProfiles
  PROVE  Trail(Select(samples, cap, profile), n, samples, Wanted(samples, n, cap, profile))
<1>1. n \in Nat \ {0} /\ IsSeq(samples) /\ Len(samples) = n
  BY DEF Timed
<1>2. DOMAIN samples = 1..n
  BY <1>1, SeqHas
<1>3. PICK want : want = Wanted(samples, n, cap, profile)
  OBVIOUS
<1>4. Asking(want, n) /\ \A j \in 2..n : want[j] = Desired(samples, j, cap, profile)
  BY <1>3, WantedIs DEF Wanted
<1>5. CASE n <= 2
  <2>1. Select(samples, cap, profile) = [i \in 1..n |-> i]
    BY <1>1, <1>2, <1>5 DEF Select
  <2> QED
    BY <1>1, <1>3, <2>1, AllKept
<1>6. CASE ~(n <= 2)
  <2>1. PICK start, k, xs, list : /\ start = [kept |-> <<1>>, anchor |-> 1, pending |-> Longest]
                                  /\ k = n - 1 /\ xs = [i \in 1..k |-> i + 1] /\ list = Select(samples, cap, profile)
    OBVIOUS
  <2>2. k \in Nat \ {0} /\ k + 1 = n /\ n - 1 = k
    BY <1>1, <1>6, <2>1
  <2>3. \A i \in 1..k : xs[i] = i + 1
    BY <2>1
  <2>4. xs = [i \in 1..k |-> xs[i]]
    BY <2>1
  <2>5. list = Keep(Selecting(samples, cap, profile, start, xs, k).kept, n)
    <3>1. FoldLeft(LAMBDA a, x : Look(samples, cap, profile, a, x), start, [i \in 1..k |-> xs[i]])
            = Selecting(samples, cap, profile, start, xs, k)
      BY Zenon DEF Selecting
    <3>2. FoldLeft(LAMBDA a, x : Look(samples, cap, profile, a, x), start, xs) = Selecting(samples, cap, profile, start, xs, k)
      BY <2>4, <3>1, Zenon
    <3>3. FoldLeft(LAMBDA a, x : SelectStep(samples, a, x, Desired(samples, x, cap, profile)), start, xs)
            = Selecting(samples, cap, profile, start, xs, k)
      BY <3>2, Zenon DEF Look
    <3>4. list = Keep(FoldLeft(LAMBDA state, i : SelectStep(samples, state, i, Desired(samples, i, cap, profile)),
                               [kept |-> <<1>>, anchor |-> 1, pending |-> Longest], [i \in 1..(n - 1) |-> i + 1]).kept, n)
      BY <1>1, <1>6, <2>1, Zenon DEF Select
    <3>5. [i \in 1..(n - 1) |-> i + 1] = xs
      BY <2>1
    <3> QED
      BY <2>1, <3>3, <3>4, <3>5, Zenon
  <2> DEFINE T == {i \in Nat : i <= k => ChosenTo(Selecting(samples, cap, profile, start, xs, i), samples, want, i + 1)}
  <2>6. 0 \in T
    <3>1. Selecting(samples, cap, profile, start, xs, 0) = start /\ 0 + 1 = 1
      BY SelectingFirst
    <3>2. start.kept = <<1>> /\ start.anchor = 1 /\ start.pending = Longest
      BY <2>1
    <3>3. ChosenTo(start, samples, want, 1)
      BY <3>2, FirstChosen
    <3> QED
      BY <3>1, <3>3
  <2>7. ASSUME NEW i \in Nat, i \in T  PROVE i + 1 \in T
    <3> SUFFICES ASSUME i + 1 <= k  PROVE ChosenTo(Selecting(samples, cap, profile, start, xs, i + 1), samples, want, (i + 1) + 1)
      OBVIOUS
    <3>1. PICK j : j = i + 1
      OBVIOUS
    <3>2. i <= k /\ j \in 1..k /\ j \in 1..(n - 1) /\ j + 1 \in 2..n
      BY <2>2, <3>1
    <3>3. PICK state : state = Selecting(samples, cap, profile, start, xs, i)
      OBVIOUS
    <3>4. ChosenTo(state, samples, want, j)
      BY <2>7, <3>1, <3>2, <3>3
    <3>5. Selecting(samples, cap, profile, start, xs, i + 1) = Look(samples, cap, profile, state, xs[i + 1])
      BY <3>3, SelectingStep
    <3>6. xs[i + 1] = j + 1 /\ want[j + 1] = Desired(samples, j + 1, cap, profile)
      BY <1>4, <2>3, <3>1, <3>2
    <3>7. Selecting(samples, cap, profile, start, xs, i + 1) = SelectStep(samples, state, j + 1, want[j + 1])
      BY <3>5, <3>6, Zenon DEF Look
    <3>8. ChosenTo(SelectStep(samples, state, j + 1, want[j + 1]), samples, want, j + 1)
      BY <1>4, <3>2, <3>4, StepChosen
    <3> QED
      BY <3>1, <3>7, <3>8
  <2>8. k \in T
    <3> HIDE DEF T
    <3> QED
      BY <2>2, <2>6, <2>7, Induction
  <2>9. PICK state : state = Selecting(samples, cap, profile, start, xs, k)
    OBVIOUS
  <2>10. PICK a, p, kept : a = state.anchor /\ p = state.pending /\ kept = state.kept
    OBVIOUS
  <2>11. Trail(kept, a, samples, want) /\ Waiting(a, p, samples, want, n)
    BY <2>2, <2>8, <2>9, <2>10 DEF ChosenTo
  <2>12. a \in 1..n
    BY <2>11, Zenon DEF Waiting
  <2>13. Last(kept) = a
    BY <2>11 DEF Trail, Last
  <2>14. list = Keep(kept, n)
    BY <2>5, <2>9, <2>10
  <2>15. CASE a = n
    <3>1. list = kept
      BY <2>13, <2>14, <2>15 DEF Keep
    <3> QED
      BY <1>3, <2>1, <2>11, <2>15, <3>1
  <2>16. CASE a # n
    <3>1. a \in 1..n /\ n \in 2..n /\ n \in Nat /\ a < n /\ a \in Nat
      BY <1>1, <2>2, <2>12, <2>16
    <3>2. samples[a].time \in Int /\ samples[n].time \in Int
      BY <1>1, <3>1 DEF Timed
    <3>3. want[n] \in Int
      BY <1>4, <3>1 DEF Asking
    <3>4. Skipped(samples, want, a, n)
      BY <2>11, <2>16, <3>1, <3>2, <3>3, WaitedSkips
    <3>5. Trail(list, n, samples, want)
      BY <2>11, <2>14, <3>1, <3>4, TrailFurther
    <3> QED
      BY <1>3, <2>1, <3>5
  <2> QED
    BY <2>15, <2>16
<1> QED
  BY <1>5, <1>6

-----------------------------------------------------------------------------
(* Temporal tracks                                                          *)

\* What a process used per 100 ms is no more than what it used, if the interval is not shorter.
LEMMA UsedIs ==
  ASSUME NEW rise \in Nat, NEW x \in Nat, x <= 100 * rise, NEW d \in Nat, d >= 100, NEW used, used = x \div d
  PROVE  /\ used \in Nat /\ used <= rise
         /\ used * d \in Int /\ used * d <= x /\ (used + 1) * d \in Int /\ x < (used + 1) * d
<1>1. x \in Int /\ x \in Nat
  OBVIOUS
<1>2. d \in Nat \ {0}
  OBVIOUS
<1>3. PICK r : r = x % d
  OBVIOUS
<1>4. used \in Int /\ used * d \in Int /\ r \in 0..(d - 1) /\ x = used * d + r
  BY <1>1, <1>2, <1>3, WholeQuanta
<1>5. (used + 1) * d = used * d + d
  BY <1>2, <1>4
<1>6. 0 <= used
  BY <1>1, <1>2
<1>7. used <= rise
  <2>1. ASSUME rise + 1 <= used  PROVE FALSE
    <3>1. (rise + 1) * d <= used * d /\ (rise + 1) * d \in Int
      BY <1>2, <1>4, <2>1, ProductGrows
    <3>2. 100 * (rise + 1) <= d * (rise + 1) /\ d * (rise + 1) = (rise + 1) * d
      BY <1>2, ProductGrows
    <3> QED
      BY <1>2, <1>4, <3>1, <3>2
  <2> QED
    BY <1>4, <2>1
<1> QED
  BY <1>1, <1>4, <1>5, <1>6, <1>7

\* A bound on what is used per 100 ms, scaled to the length of the interval
LEMMA ScaledIs ==
  ASSUME NEW rise \in Nat, NEW x, x = rise * 100, NEW d \in Nat, d >= 100, NEW used, used = x \div d,
         NEW a \in Int, NEW c, c = CeilDiv(a * d, 100)
  PROVE  c \in Int /\ (a <= used => c <= rise) /\ (used < a => rise < c)
<1>1. /\ used \in Nat /\ used * d \in Int /\ used * d <= x /\ (used + 1) * d \in Int /\ x < (used + 1) * d
  <2>1. x \in Nat /\ x <= 100 * rise
    OBVIOUS
  <2> QED
    BY <2>1, UsedIs
<1>2. PICK y : y = a * d
  OBVIOUS
<1>3. y \in Int
  BY <1>2
<1>4. c = (y + 99) \div 100
  <2>1. c = (y + 100 - 1) \div 100 /\ y + 100 - 1 = y + 99
    BY <1>2, <1>3 DEF CeilDiv
  <2> QED
    BY <2>1
<1>5. c \in Int /\ 100 * c <= y + 99 /\ y + 99 < 100 * c + 100
  BY <1>3, <1>4
<1>6. x = 100 * rise /\ x \in Int
  OBVIOUS
<1>7. ASSUME a <= used  PROVE c <= rise
  <2>1. y <= used * d
    BY <1>1, <1>2, <1>7, ProductGrows
  <2> QED
    BY <1>1, <1>3, <1>5, <1>6, <2>1
<1>8. ASSUME used < a  PROVE rise < c
  <2>1. used + 1 <= a
    BY <1>1, <1>8
  <2>2. (used + 1) * d <= y
    BY <1>1, <1>2, <2>1, ProductGrows
  <2> QED
    BY <1>1, <1>3, <1>5, <1>6, <2>2
<1> QED
  BY <1>5, <1>7, <1>8

\* The quantum of a stored interval, and that what was used lies in the range of it
LEMMA StorageFacts ==
  ASSUME NEW cap \in Nat \ {0}, cap <= MaxPower, NEW rise \in Nat, rise <= Top, NEW e \in Nat \ {0},
         NEW q, q = StorageQuantum(rise, e, cap)
  PROVE  /\ q \in Nat \ {0} /\ q <= cap /\ q \in Powers \cup {cap} /\ (q > 1 => 8 * q <= rise)
         /\ Allows(TemporalDelta(q, cap, e), rise)
<1>1. PICK x, d, used : x = rise * 100 /\ d = Larger(e, 100) /\ used = x \div d
  OBVIOUS
<1>2. q = AdaptiveQuantum(used, cap) /\ d \in Nat /\ d >= 100
  BY <1>1 DEF StorageQuantum, TemporalQuantum, Larger
<1>3. used \in Nat /\ used <= rise /\ used <= Top
  <2>1. x \in Nat /\ x <= 100 * rise
    BY <1>1
  <2>2. used \in Nat /\ used <= rise
    BY <1>1, <1>2, <2>1, UsedIs
  <2> QED
    BY <2>2, MaxPowerIs
<1>4. q \in Nat \ {0} /\ q <= cap /\ q \in Powers \cup {cap} /\ (q > 1 => 8 * q <= used)
  BY <1>2, <1>3, AdaptiveFacts
<1>5. q > 1 => 8 * q <= rise
  BY <1>3, <1>4
<1>6. PICK allowed, lo, hi : allowed = AllowedDelta("adaptive", q, cap) /\ lo = allowed.min /\ hi = allowed.max
  OBVIOUS
<1>7. lo \in Int /\ hi \in Int /\ lo <= used /\ used <= hi
  BY <1>2, <1>3, <1>6, AdaptiveAllowed DEF Allows
<1>8. PICK c, b : c = CeilDiv(lo * d, 100) /\ b = CeilDiv((hi + 1) * d, 100)
  OBVIOUS
<1>9. c \in Int /\ c <= rise
  BY <1>1, <1>2, <1>7, <1>8, ScaledIs
<1>10. b \in Int /\ rise < b
  <2>1. hi + 1 \in Int /\ used < hi + 1
    BY <1>3, <1>7
  <2> QED
    BY <1>1, <1>2, <1>8, <2>1, ScaledIs
<1>11. PICK range : range = TemporalDelta(q, cap, e)
  OBVIOUS
<1>12. range = [min |-> c, max |-> IF hi = Top THEN Top ELSE b - 1]
  BY <1>1, <1>6, <1>8, <1>11, Zenon DEF TemporalDelta
<1>13. range.min = c /\ range.max = (IF hi = Top THEN Top ELSE b - 1)
  BY <1>12
<1>14. Allows(range, rise)
  BY <1>9, <1>10, <1>13, MaxPowerIs DEF Allows
<1> QED
  BY <1>4, <1>5, <1>11, <1>14

\* The first of a list
LEMMA HeadIs ==
  ASSUME NEW q, IsSeq(q), Len(q) # 0
  PROVE  Head(q) = q[1]
<1>1. q \in Seq(ToSet(q)) /\ q # <<>>
  BY DEF IsSeq
<1> QED
  BY <1>1

\* Numbers that rise from each to the next rise.
LEMMA RiseThroughout ==
  ASSUME NEW m \in Nat, NEW f, \A k \in 1..m : f[k] \in Int, \A k \in 1..(m - 1) : f[k] < f[k + 1]
  PROVE  \A i, j \in 1..m : i <= j => f[i] <= f[j]
<1> DEFINE T == {d \in Nat : \A i \in 1..m : i + d <= m => f[i] <= f[i + d]}
<1>1. 0 \in T
  <2>1. \A i \in 1..m : i + 0 = i /\ f[i] <= f[i]
    OBVIOUS
  <2> QED
    BY <2>1
<1>2. ASSUME NEW d \in Nat, d \in T  PROVE d + 1 \in T
  <2> SUFFICES ASSUME NEW i \in 1..m, i + (d + 1) <= m  PROVE f[i] <= f[i + (d + 1)]
    OBVIOUS
  <2>1. PICK j : j = i + d
    OBVIOUS
  <2>2. j \in 1..(m - 1) /\ j \in 1..m /\ j + 1 \in 1..m /\ i + (d + 1) = j + 1 /\ i + d <= m
    BY <2>1
  <2>3. f[i] <= f[j]
    BY <1>2, <2>1, <2>2
  <2>4. f[j] < f[j + 1] /\ f[i] \in Int /\ f[j] \in Int /\ f[j + 1] \in Int
    BY <2>2
  <2> QED
    BY <2>2, <2>3, <2>4
<1>3. Nat \subseteq T
  <2> HIDE DEF T
  <2> QED
    BY <1>1, <1>2, Induction
<1>4. ASSUME NEW i \in 1..m, NEW j \in 1..m, i <= j  PROVE f[i] <= f[j]
  <2>1. PICK d : d = j - i
    OBVIOUS
  <2>2. d \in Nat /\ i + d = j /\ i + d <= m
    BY <1>4, <2>1
  <2>3. d \in T
    BY <1>3, <2>2
  <2>4. i + d <= m => f[i] <= f[i + d]
    BY <2>3
  <2> QED
    BY <2>2, <2>4
<1> QED
  BY <1>4

\* The samples of a process in rows that follow each other without interruption
Segment(samples, id, n) ==
  /\ Timed(samples, n)
  /\ \A i \in 1..n : samples[i].row \in 1..Len(block) /\ samples[i].time = block[samples[i].row].time
  /\ \A i \in 1..n : samples[i].row = samples[1].row + (i - 1)
  /\ \A i \in 1..n : Process(samples[i].row, id) # {}
  /\ \A i \in 2..n : Continues(id, samples[i].row)

\* Some of n samples, the first and the last among them
Thinned(those, kept, m, samples, n) ==
  /\ m \in Nat \ {0} /\ those = [k \in 1..m |-> samples[kept[k]]]
  /\ kept[1] = 1 /\ kept[m] = n
  /\ \A k \in 1..m : kept[k] \in 1..n
  /\ \A k \in 1..(m - 1) : kept[k] < kept[k + 1]

\* What a track has of an interval between two of them
Spaced(those, lines, counts, quanta, m, cap) ==
  \A k \in 1..(m - 1) :
     /\ lines[k] < lines[k + 1]
     /\ counts[k + 1] - counts[k] \in Nat /\ counts[k + 1] - counts[k] <= Top
     /\ those[k + 1].time - those[k].time \in Nat \ {0}
     /\ quanta[k] = StorageQuantum(counts[k + 1] - counts[k], those[k + 1].time - those[k].time, cap)

\* Rows and totals of the samples kept, and the quanta between them
LEMMA ThinnedGiven ==
  ASSUME NEW id, NEW samples, NEW n, Segment(samples, id, n), NEW cap \in Nat \ {0}, cap <= MaxPower,
         NEW those, NEW kept, NEW m, Thinned(those, kept, m, samples, n),
         NEW lines, lines = [k \in 1..m |-> those[k].row], NEW counts, counts = [k \in 1..m |-> those[k].total],
         NEW quanta, quanta = [k \in 1..(m - 1) |-> StorageQuantum(those[k + 1].total - those[k].total,
                                                                   those[k + 1].time - those[k].time, cap)]
  PROVE  Given(lines, counts, quanta, m) /\ Spaced(those, lines, counts, quanta, m, cap)
<1>1. /\ m \in Nat \ {0} /\ \A k \in 1..m : kept[k] \in 1..n /\ those[k] = samples[kept[k]]
      /\ \A k \in 1..(m - 1) : kept[k] < kept[k + 1]
  BY DEF Thinned
<1>2. /\ n \in Nat \ {0}
      /\ \A i \in 1..n : samples[i].total \in Nat /\ samples[i].total <= Top /\ samples[i].time \in Nat
      /\ \A i, j \in 1..n : i <= j => samples[i].total <= samples[j].total
      /\ \A i, j \in 1..n : i < j => samples[i].time < samples[j].time
  BY DEF Segment, Timed
<1>3. \A i, j \in 1..m : i <= j => kept[i] <= kept[j]
  <2>1. \A k \in 1..m : kept[k] \in Int
    BY <1>1, <1>2
  <2> QED
    BY <1>1, <2>1, RiseThroughout
<1>4. \A k \in 1..m : lines[k] = samples[kept[k]].row /\ counts[k] = samples[kept[k]].total
  BY <1>1
<1>5. \A i \in 1..n : samples[i].row \in Int /\ samples[1].row \in Int /\ samples[i].row = samples[1].row + (i - 1)
  <2>1. 1 \in 1..n /\ \A i \in 1..n : samples[i].row \in Int
    BY <1>2 DEF Segment
  <2> QED
    BY <2>1 DEF Segment
<1>6. \A k \in 1..m : lines[k] \in Int /\ counts[k] \in Nat /\ counts[k] <= Top
  BY <1>1, <1>2, <1>4, <1>5
<1>7. \A i, j \in 1..m : i <= j => counts[i] <= counts[j]
  BY <1>1, <1>2, <1>3, <1>4
<1>8. ASSUME NEW k \in 1..(m - 1)
      PROVE  /\ lines[k] < lines[k + 1]
             /\ counts[k + 1] - counts[k] \in Nat /\ counts[k + 1] - counts[k] <= Top
             /\ those[k + 1].time - those[k].time \in Nat \ {0}
             /\ quanta[k] = StorageQuantum(counts[k + 1] - counts[k], those[k + 1].time - those[k].time, cap)
             /\ quanta[k] \in Nat \ {0}
  <2>1. k \in 1..m /\ k + 1 \in 1..m /\ k <= k + 1
    BY <1>1
  <2>2. PICK i, j : i = kept[k] /\ j = kept[k + 1]
    OBVIOUS
  <2>3. i \in 1..n /\ j \in 1..n /\ i < j
    BY <1>1, <2>1, <2>2
  <2>4. those[k] = samples[i] /\ those[k + 1] = samples[j]
    BY <1>1, <2>1, <2>2
  <2>5. lines[k] < lines[k + 1]
    <3>1. lines[k] = samples[1].row + (i - 1) /\ lines[k + 1] = samples[1].row + (j - 1) /\ samples[1].row \in Int
      BY <1>4, <1>5, <2>1, <2>2, <2>3
    <3> QED
      BY <1>2, <2>3, <3>1
  <2>6. PICK t, u, s, e : /\ t = counts[k] /\ u = counts[k + 1] /\ s = those[k].time /\ e = those[k + 1].time
    OBVIOUS
  <2>7. t \in Nat /\ u \in Nat /\ t <= u /\ u <= Top
    BY <1>6, <1>7, <2>1, <2>6
  <2>8. s \in Nat /\ e \in Nat /\ s < e
    BY <1>2, <2>3, <2>4, <2>6
  <2>9. u - t \in Nat /\ u - t <= Top /\ e - s \in Nat \ {0}
    BY <2>7, <2>8, MaxPowerIs
  <2>10. those[k].total = t /\ those[k + 1].total = u
    BY <2>1, <2>6
  <2>11. quanta[k] = StorageQuantum(u - t, e - s, cap)
    BY <2>6, <2>10
  <2>12. quanta[k] \in Nat \ {0}
    BY <2>9, <2>11, StorageFacts
  <2> QED
    BY <2>5, <2>6, <2>9, <2>11, <2>12
<1>9. Numbers(lines, m)
  <2>1. lines = [k \in 1..m |-> lines[k]]
    OBVIOUS
  <2> QED
    BY <1>6, <2>1, Zenon DEF Numbers
<1>10. Numbers(counts, m)
  <2>1. counts = [k \in 1..m |-> counts[k]]
    OBVIOUS
  <2>2. \A k \in 1..m : counts[k] \in Int
    BY <1>6
  <2> QED
    BY <2>1, <2>2, Zenon DEF Numbers
<1>11. IsSeq(quanta) /\ Len(quanta) = m - 1
  <2>1. m - 1 \in Nat /\ quanta = [k \in 1..(m - 1) |-> quanta[k]]
    BY <1>1
  <2> QED
    BY <2>1, ListIsSeq
<1>12. Given(lines, counts, quanta, m)
  BY <1>1, <1>7, <1>8, <1>9, <1>10, <1>11 DEF Given
<1>13. Spaced(those, lines, counts, quanta, m, cap)
  BY <1>8, Zenon DEF Spaced
<1> QED
  BY <1>12, <1>13

\* The decoder takes the track of such samples.
LEMMA SegmentTaken ==
  ASSUME IsSeq(block), NEW id, NEW samples, NEW n, Segment(samples, id, n), NEW cap \in Nat \ {0}, cap <= MaxPower,
         NEW those, NEW kept, NEW m, Thinned(those, kept, m, samples, n),
         NEW lines, lines = [k \in 1..m |-> those[k].row], NEW counts, NEW quanta,
         Given(lines, counts, quanta, m), Spaced(those, lines, counts, quanta, m, cap), \A k \in 1..m : counts[k] <= Top,
         NEW track, track = EncodeTrack(lines, counts, quanta), NEW d, d = DecodeTrack(track)
  PROVE  AcceptsTemporal(track, d, cap, [first |-> Head(samples).row, last |-> Last(samples).row],
                         [r \in DOMAIN block |-> block[r].time])
<1>1. /\ m \in Nat \ {0} /\ kept[1] = 1 /\ kept[m] = n /\ \A k \in 1..m : kept[k] \in 1..n /\ those[k] = samples[kept[k]]
  BY DEF Thinned
<1>2. /\ n \in Nat \ {0} /\ IsSeq(samples) /\ Len(samples) = n
      /\ \A i \in 1..n : samples[i].row \in 1..Len(block) /\ samples[i].time = block[samples[i].row].time
  BY DEF Segment, Timed
<1>3. d.rows = lines /\ d.quanta = quanta
  BY TrackBack DEF TrackReads
<1>4. Head(samples) = samples[1] /\ Last(samples) = samples[n]
  BY <1>2, HeadIs DEF Last
<1>5. IsSeq(lines) /\ Len(lines) = m
  <2>1. lines = [k \in 1..m |-> lines[k]] /\ m \in Nat
    BY <1>1
  <2> QED
    BY <2>1, ListIsSeq
<1>6. d.rows[1] = Head(samples).row /\ Last(d.rows) = Last(samples).row
  <2>1. 1 \in 1..m /\ m \in 1..m
    BY <1>1
  <2>2. lines[1] = samples[1].row /\ lines[m] = samples[n].row
    BY <1>1, <2>1
  <2>3. Last(lines) = lines[m]
    BY <1>5 DEF Last
  <2> QED
    BY <1>3, <1>4, <2>2, <2>3
<1>7. ASSUME NEW k \in 1..(m - 1)
      PROVE  /\ quanta[k] <= cap /\ quanta[k] \in Powers \cup {cap} /\ lines[k] < lines[k + 1]
             /\ Allows(TemporalDelta(quanta[k], cap, those[k + 1].time - those[k].time), counts[k + 1] - counts[k])
  <2>1. PICK e, rise : e = those[k + 1].time - those[k].time /\ rise = counts[k + 1] - counts[k]
    OBVIOUS
  <2>2. rise \in Nat /\ rise <= Top /\ e \in Nat \ {0} /\ quanta[k] = StorageQuantum(rise, e, cap) /\ lines[k] < lines[k + 1]
    BY <2>1 DEF Spaced
  <2>3. /\ quanta[k] <= cap /\ quanta[k] \in Powers \cup {cap}
        /\ Allows(TemporalDelta(quanta[k], cap, e), rise)
    BY <2>2, StorageFacts
  <2> QED
    BY <2>1, <2>2, <2>3
<1>8. RunsAccepted(track, d, cap)
  BY <1>7, RunsTaken
<1>9. PICK times : times = [r \in DOMAIN block |-> block[r].time]
  OBVIOUS
<1>10. \A k \in 1..m : times[lines[k]] = those[k].time
  <2> TAKE k \in 1..m
  <2>1. PICK r : r = lines[k]
    OBVIOUS
  <2>2. r = samples[kept[k]].row /\ those[k].time = samples[kept[k]].time /\ kept[k] \in 1..n
    BY <1>1, <2>1
  <2>3. r \in 1..Len(block) /\ those[k].time = block[r].time
    BY <1>2, <2>2
  <2>4. r \in DOMAIN block
    BY <2>3, SeqHas
  <2> QED
    BY <1>9, <2>1, <2>3, <2>4
<1>11. PICK ranges : ranges = [i \in DOMAIN d.quanta |->
                               TemporalDelta(d.quanta[i], cap, times[d.rows[i + 1]] - times[d.rows[i]])]
  OBVIOUS
<1>12. DOMAIN quanta = 1..(m - 1)
  BY SeqHas DEF Given
<1>13. \A k \in 1..(m - 1) : Allows(ranges[k], counts[k + 1] - counts[k])
  <2> TAKE k \in 1..(m - 1)
  <2>1. k \in 1..m /\ k + 1 \in 1..m
    BY <1>1
  <2>2. ranges[k] = TemporalDelta(quanta[k], cap, times[lines[k + 1]] - times[lines[k]])
    BY <1>3, <1>11, <1>12
  <2>3. times[lines[k + 1]] = those[k + 1].time /\ times[lines[k]] = those[k].time
    BY <1>10, <2>1
  <2> QED
    BY <1>7, <2>2, <2>3
<1>14. RunsFeasible(d, ranges)
  BY <1>13, RunsFit
<1>15. \A i \in DOMAIN d.quanta : d.quanta[i] \in Powers \cup {cap}
  BY <1>3, <1>7, <1>12
<1>16. PICK span : span = [first |-> Head(samples).row, last |-> Last(samples).row]
  OBVIOUS
<1>17. span.first = Head(samples).row /\ span.last = Last(samples).row
  BY <1>16
<1>18. AcceptsTemporal(track, d, cap, span, times)
  BY <1>6, <1>8, <1>11, <1>14, <1>15, <1>17, Zenon DEF AcceptsTemporal
<1> QED
  BY <1>9, <1>16, <1>18

\* What it reads of them is as close as it says, and bounds and intervals are as they must be.
LEMMA SegmentClose ==
  ASSUME NEW id, NEW samples, NEW n, Segment(samples, id, n), NEW cap \in Nat \ {0}, cap <= MaxPower,
         NEW those, NEW kept, NEW m, Thinned(those, kept, m, samples, n),
         NEW lines, lines = [k \in 1..m |-> those[k].row], NEW counts, counts = [k \in 1..m |-> those[k].total],
         NEW quanta, Given(lines, counts, quanta, m), Spaced(those, lines, counts, quanta, m, cap),
         NEW d, TrackReads(d, lines, counts, quanta, m)
  PROVE  /\ Close(d, those) /\ Eighth(d, those)
         /\ \A k \in 2..m : /\ CoveredInterval(id, d.rows[k - 1], d.rows[k])
                            /\ IntervalTrue(CheckpointInterval(d, k), Rise(those, k))
<1>1. /\ m \in Nat \ {0} /\ those = [k \in 1..m |-> samples[kept[k]]]
      /\ \A k \in 1..m : kept[k] \in 1..n /\ those[k] = samples[kept[k]]
      /\ \A k \in 1..(m - 1) : kept[k] < kept[k + 1]
  BY DEF Thinned
<1>2. n \in Nat \ {0}
  BY DEF Segment, Timed
<1>3. DOMAIN those = 1..m /\ Len(those) = m
  <2>1. those = [k \in 1..m |-> those[k]] /\ m \in Nat
    BY <1>1
  <2> QED
    BY <2>1, ListIsSeq
<1>4. /\ d.rows = lines /\ Len(d.bounds) = m /\ d.bounds[1] = 0 /\ d.bounds[m] = 0
      /\ \A k \in 1..m : d.values[k] \in Int /\ d.bounds[k] \in Nat /\ counts[k] - d.values[k] \in 0..d.bounds[k]
      /\ \A k \in 1..(m - 1) : d.bounds[k] <= quanta[k] - 1 /\ d.bounds[k + 1] <= quanta[k] - 1
  BY DEF TrackReads
<1>5. \A k \in 1..m : counts[k] = those[k].total
  OBVIOUS
<1>6. Close(d, those)
  <2>1. lines = RowsOf(those)
    BY <1>3 DEF RowsOf
  <2>2. Last(d.bounds) = 0
    BY <1>4 DEF Last
  <2> QED
    BY <1>3, <1>4, <1>5, <2>1, <2>2 DEF Close
<1>7. ASSUME NEW k \in 2..m
      PROVE  /\ 8 * Larger(d.bounds[k - 1], d.bounds[k]) <= Rise(those, k)
             /\ IntervalTrue(CheckpointInterval(d, k), Rise(those, k))
             /\ CoveredInterval(id, d.rows[k - 1], d.rows[k])
  <2>1. PICK o : o = k - 1
    OBVIOUS
  <2>2. o \in 1..(m - 1) /\ o + 1 = k /\ o \in 1..m /\ k \in 1..m
    BY <1>1, <2>1
  <2>3. PICK b, c, t, u, v, w, q : /\ b = d.bounds[o] /\ c = d.bounds[k] /\ t = counts[o] /\ u = counts[k]
                                   /\ v = d.values[o] /\ w = d.values[k] /\ q = quanta[o]
    OBVIOUS
  <2>4. /\ b \in Nat /\ c \in Nat /\ v \in Int /\ w \in Int /\ b <= q - 1 /\ c <= q - 1
        /\ t - v \in 0..b /\ u - w \in 0..c
    BY <1>4, <2>2, <2>3
  <2>5. t \in Int /\ u \in Int
    BY <2>2, <2>3 DEF Given, Numbers
  <2>6. PICK rise, e : rise = counts[o + 1] - counts[o] /\ e = those[o + 1].time - those[o].time
    OBVIOUS
  <2>7. rise \in Nat /\ rise <= Top /\ e \in Nat \ {0} /\ q = StorageQuantum(rise, e, cap)
    BY <2>2, <2>3, <2>6 DEF Spaced
  <2>8. q \in Nat \ {0} /\ (q > 1 => 8 * q <= rise)
    BY <2>7, StorageFacts
  <2>9. rise = u - t /\ Rise(those, k) = u - t
    BY <1>5, <2>1, <2>2, <2>3, <2>6 DEF Rise
  <2>10. Larger(b, c) = IF b > c THEN b ELSE c
    BY DEF Larger
  <2>11. Larger(c, b) = IF c > b THEN c ELSE b
    BY DEF Larger
  <2>12. 8 * Larger(b, c) <= rise
    BY <2>4, <2>7, <2>8, <2>10
  <2>13. IntervalTrue(CheckpointInterval(d, k), u - t)
    <3>1. PICK interval : interval = CheckpointInterval(d, k)
      OBVIOUS
    <3>2. interval = [delta |-> w - v, error |-> Larger(c, b)]
      BY <2>1, <2>3, <3>1, Zenon DEF CheckpointInterval
    <3>3. interval.delta = w - v /\ interval.error = Larger(c, b)
      BY <3>2
    <3>4. (u - t) - (w - v) \in (-Larger(c, b))..Larger(c, b)
      BY <2>4, <2>5, <2>11
    <3> QED
      BY <3>1, <3>3, <3>4 DEF IntervalTrue
  <2>14. CoveredInterval(id, d.rows[k - 1], d.rows[k])
    <3>1. PICK i, j, f : i = kept[o] /\ j = kept[k] /\ f = samples[1].row
      OBVIOUS
    <3>2. i \in 1..n /\ j \in 1..n
      BY <1>1, <2>2, <3>1
    <3>3. 1 \in 1..n /\ f \in 1..Len(block)
      BY <1>2, <3>1 DEF Segment
    <3>4. /\ d.rows[k - 1] = samples[i].row /\ d.rows[k] = samples[j].row
      BY <1>1, <1>4, <2>1, <2>2, <3>1
    <3>5. samples[i].row = f + (i - 1) /\ samples[j].row = f + (j - 1)
      BY <3>1, <3>2 DEF Segment
    <3>6. ASSUME NEW r \in (samples[i].row + 1)..samples[j].row  PROVE Process(r, id) # {} /\ Continues(id, r)
      <4>1. PICK h : h = r - f + 1
        OBVIOUS
      <4>2. h \in 1..n /\ h \in 2..n /\ r = f + (h - 1)
        BY <1>2, <3>2, <3>3, <3>5, <4>1
      <4>3. samples[h].row = r
        BY <3>1, <4>2 DEF Segment
      <4> QED
        BY <4>2, <4>3 DEF Segment
    <3> QED
      BY <3>4, <3>6, Zenon DEF CoveredInterval
  <2> QED
    BY <2>1, <2>3, <2>9, <2>12, <2>13, <2>14
<1>8. Eighth(d, those)
  BY <1>3, <1>7, Zenon DEF Eighth
<1> QED
  BY <1>6, <1>7, <1>8

\* A segment is stored as the temporal profiles must store it.
LEMMA SegmentIsTrue ==
  ASSUME IsSeq(block), NEW id, NEW samples, NEW n, Segment(samples, id, n), NEW cap \in Nat \ {0}, cap <= MaxPower,
         NEW profile \in TemporalProfiles
  PROVE  SegmentTrue(id, samples, profile, cap)
<1>1. PICK kept, want : kept = Select(samples, cap, profile) /\ want = Wanted(samples, n, cap, profile)
  OBVIOUS
<1>2. Timed(samples, n)
  BY DEF Segment
<1>3. Trail(kept, n, samples, want)
  BY <1>1, <1>2, SelectKeeps
<1>4. PICK m : m = Len(kept)
  OBVIOUS
<1>5. /\ IsSeq(kept) /\ m \in Nat \ {0} /\ n \in Nat \ {0} /\ kept[1] = 1 /\ kept[m] = n
      /\ \A k \in 1..m : kept[k] \in 1..n
      /\ \A k \in 1..(m - 1) : kept[k] < kept[k + 1]
      /\ \A k \in 1..(m - 1) : Skipped(samples, want, kept[k], kept[k + 1])
  BY <1>3, <1>4, Zenon DEF Trail
<1>6. DOMAIN kept = 1..m
  BY <1>4, <1>5, SeqHas
<1>7. PICK those, lines, counts, quanta :
        /\ those = [k \in 1..m |-> samples[kept[k]]]
        /\ lines = [k \in 1..m |-> those[k].row]
        /\ counts = [k \in 1..m |-> those[k].total]
        /\ quanta = [k \in 1..(m - 1) |-> StorageQuantum(those[k + 1].total - those[k].total,
                                                         those[k + 1].time - those[k].time, cap)]
  OBVIOUS
<1>8. Thinned(those, kept, m, samples, n)
  BY <1>5, <1>7, Zenon DEF Thinned
<1>9. Given(lines, counts, quanta, m) /\ Spaced(those, lines, counts, quanta, m, cap)
  <2>1. lines = [k \in 1..m |-> those[k].row]
    BY <1>7, Zenon
  <2>2. counts = [k \in 1..m |-> those[k].total]
    BY <1>7, Zenon
  <2>3. quanta = [k \in 1..(m - 1) |-> StorageQuantum(those[k + 1].total - those[k].total,
                                                      those[k + 1].time - those[k].time, cap)]
    BY <1>7, Zenon
  <2> QED
    BY <1>8, <2>1, <2>2, <2>3, ThinnedGiven
<1>10. PICK track, d : track = EncodeTrack(lines, counts, quanta) /\ d = DecodeTrack(track)
  OBVIOUS
<1>11. track = EncodeTemporal(samples, cap, profile)
  <2>1. those = [k \in DOMAIN kept |-> samples[kept[k]]]
    BY <1>6, <1>7
  <2>2. \A k \in 1..m : those[k] = samples[kept[k]]
    BY <1>7
  <2>3. lines = [i \in DOMAIN kept |-> samples[kept[i]].row] /\ counts = [i \in DOMAIN kept |-> samples[kept[i]].total]
    BY <1>6, <1>7, <2>2
  <2>4. quanta = [i \in 1..(Len(kept) - 1) |->
                  StorageQuantum(samples[kept[i + 1]].total - samples[kept[i]].total,
                                 samples[kept[i + 1]].time - samples[kept[i]].time, cap)]
    <3>1. \A i \in 1..(m - 1) : i \in 1..m /\ i + 1 \in 1..m
      BY <1>5
    <3>2. \A i \in 1..(m - 1) : those[i] = samples[kept[i]] /\ those[i + 1] = samples[kept[i + 1]]
      BY <2>2, <3>1
    <3> QED
      BY <1>4, <1>7, <3>2
  <2> QED
    BY <1>1, <1>10, <2>3, <2>4, Zenon DEF EncodeTemporal
<1>12. \A k \in 1..m : counts[k] <= Top
  <2>1. \A k \in 1..m : counts[k] = samples[kept[k]].total
    BY <1>7
  <2> QED
    BY <1>2, <1>5, <2>1 DEF Timed
<1>13. AcceptsTemporal(track, d, cap, [first |-> Head(samples).row, last |-> Last(samples).row],
                       [r \in DOMAIN block |-> block[r].time])
  BY <1>7, <1>8, <1>9, <1>10, <1>12, SegmentTaken
<1>14. TrackReads(d, lines, counts, quanta, m)
  BY <1>9, <1>10, TrackBack
<1>15. /\ Close(d, those) /\ Eighth(d, those)
       /\ \A k \in 2..m : /\ CoveredInterval(id, d.rows[k - 1], d.rows[k])
                          /\ IntervalTrue(CheckpointInterval(d, k), Rise(those, k))
  BY <1>7, <1>8, <1>9, <1>14, SegmentClose
<1>16. \A h \in 2..n : want[h] = Desired(samples, h, cap, profile)
  BY <1>1 DEF Wanted
<1>17. ASSUME NEW k \in 1..(m - 1)
       PROVE  /\ \A j \in (kept[k] + 1)..(kept[k + 1] - 1) :
                    /\ \A i \in (kept[k] + 1)..j : samples[j].time - samples[kept[k]].time < Desired(samples, i, cap, profile)
                    /\ samples[j].name = samples[kept[k]].name
              /\ (kept[k] + 1)..(kept[k + 1] - 1) # {}
                 /\ (\A i \in (kept[k] + 1)..(kept[k + 1] - 1) :
                       Desired(samples, kept[k + 1], cap, profile) < Desired(samples, i, cap, profile))
                 => samples[kept[k + 1]].time - samples[kept[k]].time <= Desired(samples, kept[k + 1], cap, profile)
  <2>1. PICK s, t : s = kept[k] /\ t = kept[k + 1]
    OBVIOUS
  <2>2. k \in 1..m /\ k + 1 \in 1..m
    BY <1>5
  <2>3. s \in 1..n /\ t \in 1..n /\ s < t
    BY <1>5, <2>1, <2>2
  <2>4. t \in 2..n /\ \A h \in (s + 1)..(t - 1) : h \in 2..n
    BY <1>5, <2>3
  <2>5. Skipped(samples, want, s, t)
    BY <1>5, <2>1
  <2>6. want[t] = Desired(samples, t, cap, profile) /\ \A h \in (s + 1)..(t - 1) : want[h] = Desired(samples, h, cap, profile)
    BY <1>16, <2>4
  <2>7. ASSUME NEW j \in (s + 1)..(t - 1)
        PROVE  /\ \A i \in (s + 1)..j : samples[j].time - samples[s].time < Desired(samples, i, cap, profile)
               /\ samples[j].name = samples[s].name
    <3>1. \A i \in (s + 1)..j : i \in (s + 1)..(t - 1)
      BY <2>3
    <3> QED
      BY <2>5, <2>6, <3>1 DEF Skipped
  <2>8. ASSUME (s + 1)..(t - 1) # {},
               \A i \in (s + 1)..(t - 1) : Desired(samples, t, cap, profile) < Desired(samples, i, cap, profile)
        PROVE  samples[t].time - samples[s].time <= Desired(samples, t, cap, profile)
    BY <2>5, <2>6, <2>8 DEF Skipped
  <2> QED
    BY <2>1, <2>7, <2>8, Zenon
<1>18. those = [k \in DOMAIN kept |-> samples[kept[k]]]
  BY <1>6, <1>7
<1>19. DecodeTrack(EncodeTemporal(samples, cap, profile)) = d
  BY <1>10, <1>11
<1> QED
  BY <1>1, <1>4, <1>11, <1>13, <1>15, <1>17, <1>18, <1>19, Zenon DEF SegmentTrue

-----------------------------------------------------------------------------
(* Segments                                                                 *)

\* Scans begin one after the other.
TimeInv ==
  /\ \A r \in 1..Len(block) : block[r].time \in Nat
  /\ \A r, s \in 1..Len(block) : r < s => block[r].time < block[s].time

\* One row more
LEMMA ExtendTime ==
  ASSUME topic \in DOMAIN Following, IsSeq(block), TimeInv, NEW choice \in Following[topic], Extend(choice)
  PROVE  TimeInv'
<1>1. PICK n, b, last, new :
        /\ n = Len(block) /\ b = block' /\ last = (IF block = <<>> THEN [seq |-> 0, time |-> 0] ELSE Last(block))
        /\ new = [seq |-> last.seq + choice.step, time |-> last.time + choice.span, boundary |-> choice.boundary,
                  processes |-> [i \in DOMAIN choice.moves |->
                     [id |-> choice.moves[i].id, total |-> totals'[choice.moves[i].id],
                      name |-> choice.moves[i].name, memory |-> choice.moves[i].memory]]]
  OBVIOUS
<1>2. b = Append(block, new)
  BY <1>1, Zenon DEF Extend
<1>3. n \in Nat /\ block = [r \in 1..n |-> block[r]]
  BY <1>1, SeqHas
<1>4. PICK f : f = [r \in 1..(n + 1) |-> IF r = n + 1 THEN new ELSE block[r]]
  OBVIOUS
<1>5. f[n + 1] = new /\ \A r \in 1..n : f[r] = block[r]
  BY <1>3, <1>4
<1>6. block = [r \in 1..n |-> f[r]]
  BY <1>3, <1>5
<1>7. b = [r \in 1..(n + 1) |-> f[r]]
  BY <1>2, <1>3, <1>5, <1>6, AppendIs
<1>8. b = [r \in 1..(n + 1) |-> b[r]] /\ \A r \in 1..(n + 1) : b[r] = f[r]
  BY <1>7
<1>9. n + 1 \in Nat
  BY <1>3
<1>10. Len(b) = n + 1
  BY <1>8, <1>9, ListIsSeq
<1>11. \A r \in 1..n : b[r] = block[r]
  BY <1>3, <1>5, <1>8
<1>12. PICK t, u, span : t = last.time /\ u = b[n + 1].time /\ span = choice.span
  OBVIOUS
<1>13. span \in Nat \ {0}
  BY <1>12, BlockRowsAssumption
<1>14. u = t + span
  <2>1. n + 1 \in 1..(n + 1)
    BY <1>3
  <2>2. b[n + 1] = new
    BY <1>5, <1>8, <2>1
  <2> QED
    BY <1>1, <1>12, <2>2
<1>15. t \in Nat /\ \A r \in 1..n : block[r].time \in Nat /\ block[r].time <= t
  <2>1. CASE n = 0
    <3>1. block = <<>>
      BY <1>3, <2>1
    <3>2. last.time = 0
      BY <1>1, <3>1
    <3> QED
      BY <1>12, <2>1, <3>2
  <2>2. CASE n # 0
    <3>1. block # <<>>
      BY <1>1, <2>2
    <3>2. last = block[n]
      BY <1>1, <3>1 DEF Last
    <3>3. n \in 1..n
      BY <1>3, <2>2
    <3>4. t = block[n].time /\ t \in Nat
      BY <1>1, <1>12, <3>2, <3>3 DEF TimeInv
    <3>5. \A r \in 1..n : block[r].time \in Nat /\ (r < n => block[r].time < block[n].time)
      BY <1>1, <3>3 DEF TimeInv
    <3>6. \A r \in 1..n : r < n \/ r = n
      BY <1>3
    <3> QED
      BY <3>4, <3>5, <3>6
  <2>3. n = 0 \/ n # 0
    OBVIOUS
  <2> QED
    BY <2>1, <2>2, <2>3, Zenon
<1>16. ASSUME NEW r \in 1..(n + 1)  PROVE b[r].time \in Nat
  <2>1. r \in 1..n \/ r = n + 1
    BY <1>3
  <2>2. r \in 1..n => b[r].time \in Nat
    BY <1>11, <1>15
  <2>3. u \in Nat /\ b[n + 1].time = u
    BY <1>12, <1>13, <1>14, <1>15
  <2> QED
    BY <2>1, <2>2, <2>3
<1>17. ASSUME NEW r \in 1..(n + 1), NEW s \in 1..(n + 1), r < s  PROVE b[r].time < b[s].time
  <2>1. CASE s \in 1..n
    <3>1. r \in 1..n
      BY <1>3, <1>17, <2>1
    <3>2. block[r].time < block[s].time
      BY <1>1, <1>17, <2>1, <3>1 DEF TimeInv
    <3> QED
      BY <1>11, <2>1, <3>1, <3>2
  <2>2. CASE s = n + 1
    <3>1. r \in 1..n
      BY <1>3, <1>17, <2>2
    <3>2. b[s].time = t + span /\ b[r].time = block[r].time /\ b[r].time \in Nat /\ b[r].time <= t
      BY <1>11, <1>12, <1>14, <1>15, <2>2, <3>1
    <3> QED
      BY <1>13, <1>15, <3>2
  <2> QED
    BY <1>3, <2>1, <2>2
<1>18. \A r \in 1..Len(block') : block'[r].time \in Nat
  BY <1>1, <1>10, <1>16
<1>19. \A r, s \in 1..Len(block') : r < s => block'[r].time < block'[s].time
  BY <1>1, <1>10, <1>17
<1> QED
  BY <1>18, <1>19, Zenon DEF TimeInv

\* It holds of every block.
LEMMA TimeInvAlways == BlockSpec => []TimeInv
<1>1. BlockInit => TimeInv
  <2> SUFFICES ASSUME BlockInit  PROVE TimeInv
    OBVIOUS
  <2>1. Len(block) = 0
    BY DEF BlockInit
  <2>2. \A r \in 1..Len(block) : FALSE
    BY <2>1
  <2> QED
    BY <2>2 DEF TimeInv
<1>2. BlockInv /\ CountInv /\ TimeInv /\ [BlockNext]_blockVars => TimeInv'
  <2> SUFFICES ASSUME BlockInv, CountInv, TimeInv, [BlockNext]_blockVars  PROVE TimeInv'
    OBVIOUS
  <2>1. CASE BlockNext
    <3>1. PICK choice \in Following[topic] : Extend(choice)
      BY <2>1, Zenon DEF BlockNext
    <3>2. topic \in DOMAIN Following /\ IsSeq(block)
      BY DEF BlockInv, CountInv
    <3> QED
      BY <3>1, <3>2, ExtendTime
  <2>2. CASE UNCHANGED blockVars
    <3>1. block' = block
      BY <2>2 DEF blockVars
    <3> QED
      BY <3>1, Zenon DEF TimeInv
  <2> QED
    BY <2>1, <2>2
<1> QED
  BY <1>1, <1>2, CountInvAlways, PTL DEF BlockSpec

\* Where the encoder cuts the samples of a process
CutAt(samples, id, n) ==
  {i \in 1..n : i = 1 \/ samples[i].row # samples[i - 1].row + 1 \/ ~Continues(id, samples[i].row)}

\* Does the decoder expect an interval that ends in row r?
JoinsAt(id, r) ==
  /\ r \in DOMAIN block /\ Process(r, id) # {} /\ r - 1 \in DOMAIN block /\ Process(r - 1, id) # {}
  /\ Continues(id, r)

\* One does where the encoder does not cut.
LEMMA JoinsInside ==
  ASSUME IsSeq(block), NEW samples, NEW id, NEW n, Sampling(samples, id, n), NEW i \in 1..n
  PROVE  JoinsAt(id, samples[i].row) <=> i \notin CutAt(samples, id, n)
<1>1. /\ n \in Nat
      /\ \A j \in 1..n : samples[j].row \in 1..Len(block) /\ Process(samples[j].row, id) # {}
      /\ \A j, k \in 1..n : j < k => samples[j].row < samples[k].row
      /\ \A r \in 1..Len(block) : Process(r, id) # {} => \E j \in 1..n : samples[j].row = r
  BY DEF Sampling
<1>2. DOMAIN block = 1..Len(block) /\ Len(block) \in Nat
  BY SeqHas
<1>3. PICK r, o, p : r = samples[i].row /\ o = i - 1 /\ p = r - 1
  OBVIOUS
<1>4. r \in 1..Len(block) /\ Process(r, id) # {} /\ p \in Int /\ p + 1 = r /\ p < r
  BY <1>1, <1>2, <1>3
<1>5. ASSUME JoinsAt(id, r)  PROVE i \notin CutAt(samples, id, n)
  <2>1. p \in 1..Len(block) /\ Process(p, id) # {} /\ Continues(id, r)
    BY <1>2, <1>3, <1>5 DEF JoinsAt
  <2>2. PICK j \in 1..n : samples[j].row = p
    BY <1>1, <2>1
  <2>3. j < i
    <3>1. ASSUME i <= j  PROVE FALSE
      <4>1. i < j \/ i = j
        BY <1>1, <3>1
      <4>2. r <= p
        <5>1. CASE i < j
          <6>1. r < p
            BY <1>1, <1>3, <2>2, <5>1
          <6> QED
            BY <1>2, <1>4, <6>1
        <5>2. CASE i = j
          BY <1>3, <1>4, <2>2, <5>2
        <5> QED
          BY <4>1, <5>1, <5>2
      <4> QED
        BY <1>2, <1>4, <4>2
    <3> QED
      BY <1>1, <3>1
  <2>4. o \in 1..n /\ o < i /\ (j < o \/ j = o)
    BY <1>1, <1>3, <2>3
  <2>5. samples[o].row \in Int /\ samples[o].row < r /\ p <= samples[o].row
    <3>1. samples[o].row \in 1..Len(block) /\ samples[o].row < r
      BY <1>1, <1>3, <2>4
    <3>2. CASE j < o
      <4>1. p < samples[o].row
        BY <1>1, <2>2, <2>4, <3>2
      <4> QED
        BY <1>2, <1>4, <3>1, <4>1
    <3>3. CASE j = o
      BY <1>2, <1>4, <2>2, <3>1, <3>3
    <3> QED
      BY <1>2, <2>4, <3>1, <3>2, <3>3
  <2>6. r = samples[o].row + 1
    BY <1>2, <1>4, <2>5
  <2>7. i # 1
    BY <1>3, <2>4
  <2> QED
    BY <1>3, <2>1, <2>6, <2>7 DEF CutAt
<1>6. ASSUME i \notin CutAt(samples, id, n)  PROVE JoinsAt(id, r)
  <2>1. i # 1 /\ r = samples[o].row + 1 /\ Continues(id, r)
    BY <1>3, <1>6 DEF CutAt
  <2>2. o \in 1..n
    BY <1>1, <1>3, <2>1
  <2>3. samples[o].row \in 1..Len(block) /\ Process(samples[o].row, id) # {}
    BY <1>1, <2>2
  <2>4. samples[o].row = p
    BY <1>2, <1>3, <2>1, <2>3
  <2>5. p \in DOMAIN block /\ Process(p, id) # {} /\ r \in DOMAIN block
    BY <1>2, <1>4, <2>3, <2>4
  <2> QED
    BY <1>3, <1>4, <2>1, <2>5 DEF JoinsAt
<1> QED
  BY <1>3, <1>5, <1>6

\* Nothing is expected where the process is not, or is not held before.
LEMMA JoinsHeld ==
  ASSUME IsSeq(block), NEW samples, NEW id, NEW n, Sampling(samples, id, n), NEW r, JoinsAt(id, r)
  PROVE  \E i \in 1..n : samples[i].row = r /\ i \notin CutAt(samples, id, n)
<1>1. r \in 1..Len(block) /\ Process(r, id) # {}
  BY SeqHas DEF JoinsAt
<1>2. PICK i \in 1..n : samples[i].row = r
  BY <1>1 DEF Sampling
<1>3. i \notin CutAt(samples, id, n)
  BY <1>2, JoinsInside
<1> QED
  BY <1>2, <1>3

\* A longest stretch of rows that hold a process without interruption
IsSpan(id, first, last) ==
  /\ first \in 1..Len(block) /\ last \in 1..Len(block) /\ first <= last /\ Process(first, id) # {}
  /\ \A r \in (first + 1)..last : JoinsAt(id, r)
  /\ ~JoinsAt(id, first) /\ ~JoinsAt(id, last + 1)

\* The decoder expects one track for each.
LEMMA SpansAre ==
  ASSUME IsSeq(block), NEW id
  PROVE  Spans(id) = {span \in [first : 1..Len(block), last : 1..Len(block)] : IsSpan(id, span.first, span.last)}
<1>1. DOMAIN block = 1..Len(block)
  BY SeqHas
<1>2. Spans(id) = {span \in [first : DOMAIN block, last : DOMAIN block] :
            /\ span.first <= span.last /\ (span.first \in DOMAIN block /\ Process(span.first, id) # {})
            /\ \A r \in span.first + 1 .. span.last : JoinsAt(id, r)
            /\ ~JoinsAt(id, span.first) /\ ~JoinsAt(id, span.last + 1)}
  BY DEF Spans, JoinsAt
<1>3. ASSUME NEW span \in [first : 1..Len(block), last : 1..Len(block)]
      PROVE  /\ span.first <= span.last /\ (span.first \in DOMAIN block /\ Process(span.first, id) # {})
             /\ \A r \in span.first + 1 .. span.last : JoinsAt(id, r)
             /\ ~JoinsAt(id, span.first) /\ ~JoinsAt(id, span.last + 1)
             <=> IsSpan(id, span.first, span.last)
  BY <1>1 DEF IsSpan
<1> QED
  BY <1>1, <1>2, <1>3

\* Of two with the same first row, none is longer.
LEMMA SpanOnly ==
  ASSUME IsSeq(block), NEW id, NEW f, NEW k, NEW l, IsSpan(id, f, k), IsSpan(id, f, l)
  PROVE  k = l
<1>1. Len(block) \in Nat
  BY SeqHas
<1>2. f \in Int /\ k \in Int /\ l \in Int /\ f <= k /\ f <= l
  BY <1>1 DEF IsSpan
<1>3. ASSUME k < l  PROVE FALSE
  <2>1. k + 1 \in (f + 1)..l
    BY <1>2, <1>3
  <2> QED
    BY <2>1 DEF IsSpan
<1>4. ASSUME l < k  PROVE FALSE
  <2>1. l + 1 \in (f + 1)..k
    BY <1>2, <1>4
  <2> QED
    BY <2>1 DEF IsSpan
<1> QED
  BY <1>2, <1>3, <1>4

\* Numbers of which each is one more than the one before
LEMMA OneByOne ==
  ASSUME NEW m \in Nat \ {0}, NEW f, f[1] \in Int, \A k \in 1..(m - 1) : f[k + 1] = f[k] + 1
  PROVE  \A k \in 1..m : f[k] = f[1] + (k - 1)
<1> DEFINE T == {d \in Nat : d + 1 <= m => f[d + 1] = f[1] + d}
<1>1. 0 \in T
  <2>1. 0 + 1 = 1 /\ f[1] = f[1] + 0
    OBVIOUS
  <2> QED
    BY <2>1
<1>2. ASSUME NEW d \in Nat, d \in T  PROVE d + 1 \in T
  <2> SUFFICES ASSUME (d + 1) + 1 <= m  PROVE f[(d + 1) + 1] = f[1] + (d + 1)
    OBVIOUS
  <2>1. PICK k : k = d + 1
    OBVIOUS
  <2>2. k \in 1..(m - 1) /\ d + 1 <= m
    BY <2>1
  <2>3. f[k] = f[1] + d /\ f[k + 1] = f[k] + 1
    BY <1>2, <2>1, <2>2
  <2>4. f[k + 1] = f[1] + (d + 1)
    BY <2>3
  <2> QED
    BY <2>1, <2>4
<1>3. Nat \subseteq T
  <2> HIDE DEF T
  <2> QED
    BY <1>1, <1>2, Induction
<1>4. ASSUME NEW k \in 1..m  PROVE f[k] = f[1] + (k - 1)
  <2>1. PICK d : d = k - 1
    OBVIOUS
  <2>2. d \in Nat /\ d + 1 = k /\ d + 1 <= m
    BY <2>1
  <2>3. d \in T
    BY <1>3, <2>2
  <2>4. d + 1 <= m => f[d + 1] = f[1] + d
    BY <2>3
  <2> QED
    BY <2>1, <2>2, <2>4
<1> QED
  BY <1>4

\* l samples from s on, at whose first alone the encoder cuts
Piece(piece, samples, id, n, s, l) ==
  /\ s \in 1..n /\ l \in Nat \ {0} /\ s + l <= n + 1
  /\ s \in CutAt(samples, id, n) /\ (s + l <= n => s + l \in CutAt(samples, id, n))
  /\ \A i \in 1..n : s < i /\ i < s + l => i \notin CutAt(samples, id, n)
  /\ piece = [j \in 1..l |-> samples[s + j - 1]]

\* Where a piece has its samples from
LEMMA PieceFrom ==
  ASSUME NEW samples, NEW id, NEW n, Sampling(samples, id, n), NEW s, NEW l, NEW piece, Piece(piece, samples, id, n, s, l)
  PROVE  /\ IsSeq(piece) /\ Len(piece) = l /\ \A j \in 1..l : s + j - 1 \in 1..n /\ piece[j] = samples[s + j - 1]
         /\ \A j \in 1..l : piece[j].row \in Int /\ piece[j].row = piece[1].row + (j - 1)
         /\ \A j \in 2..l : s + j - 1 \notin CutAt(samples, id, n)
<1>1. n \in Nat /\ s \in 1..n /\ l \in Nat \ {0} /\ s + l <= n + 1 /\ piece = [j \in 1..l |-> samples[s + j - 1]]
  BY DEF Sampling, Piece
<1>2. IsSeq(piece) /\ Len(piece) = l
  <2>1. l \in Nat /\ piece = [j \in 1..l |-> piece[j]]
    BY <1>1
  <2> QED
    BY <2>1, ListIsSeq
<1>3. \A j \in 1..l : s + j - 1 \in 1..n /\ piece[j] = samples[s + j - 1]
  BY <1>1
<1>4. ASSUME NEW j \in 2..l  PROVE s + j - 1 \notin CutAt(samples, id, n)
  <2>1. PICK i : i = s + j - 1
    OBVIOUS
  <2>2. i \in 1..n /\ s < i /\ i < s + l
    BY <1>1, <2>1
  <2>3. i \notin CutAt(samples, id, n)
    BY <2>2 DEF Piece
  <2> QED
    BY <2>1, <2>3
<1>5. PICK f : f = [j \in 1..l |-> piece[j].row]
  OBVIOUS
<1>6. \A j \in 1..l : f[j] \in Int /\ f[j] = piece[j].row
  <2> TAKE j \in 1..l
  <2>1. PICK i : i = s + j - 1
    OBVIOUS
  <2>2. i \in 1..n /\ piece[j] = samples[i]
    BY <1>3, <2>1
  <2>3. samples[i].row \in Int
    BY <2>2 DEF Sampling
  <2> QED
    BY <1>5, <2>2, <2>3
<1>7. ASSUME NEW k \in 1..(l - 1)  PROVE f[k + 1] = f[k] + 1
  <2>1. k \in 1..l /\ k + 1 \in 1..l /\ k + 1 \in 2..l
    BY <1>1
  <2>2. PICK i : i = s + (k + 1) - 1
    OBVIOUS
  <2>3. i - 1 = s + k - 1
    BY <1>1, <2>2
  <2>4. piece[k + 1] = samples[i] /\ piece[k] = samples[i - 1] /\ i \in 1..n
    BY <1>3, <2>1, <2>2, <2>3
  <2>5. i \notin CutAt(samples, id, n)
    BY <1>4, <2>1, <2>2
  <2>6. samples[i].row = samples[i - 1].row + 1
    BY <2>4, <2>5 DEF CutAt
  <2> QED
    BY <1>6, <2>1, <2>4, <2>6
<1>8. 1 \in 1..l
  BY <1>1
<1>9. \A k \in 1..l : f[k] = f[1] + (k - 1)
  BY <1>1, <1>6, <1>7, <1>8, OneByOne
<1>10. \A j \in 1..l : piece[j].row \in Int /\ piece[j].row = piece[1].row + (j - 1)
  BY <1>6, <1>8, <1>9
<1> QED
  BY <1>2, <1>3, <1>4, <1>10

\* A piece is a segment.
LEMMA PieceSegment ==
  ASSUME IsSeq(block), TimeInv, NEW samples, NEW id, NEW n, Sampling(samples, id, n), NEW s, NEW l, NEW piece,
         Piece(piece, samples, id, n, s, l)
  PROVE  Segment(piece, id, l)
<1>1. l \in Nat \ {0} /\ s \in Nat /\ n \in Nat
  BY DEF Piece, Sampling
<1>2. /\ IsSeq(piece) /\ Len(piece) = l /\ \A j \in 1..l : s + j - 1 \in 1..n /\ piece[j] = samples[s + j - 1]
      /\ \A j \in 1..l : piece[j].row \in Int /\ piece[j].row = piece[1].row + (j - 1)
      /\ \A j \in 2..l : s + j - 1 \notin CutAt(samples, id, n)
  BY PieceFrom
<1>3. ASSUME NEW j \in 1..l
      PROVE  /\ piece[j].row \in 1..Len(block) /\ piece[j].time = block[piece[j].row].time
             /\ Process(piece[j].row, id) # {}
             /\ piece[j].total \in Nat /\ piece[j].total <= Top /\ piece[j].time \in Nat
  <2>1. PICK i : i = s + j - 1
    OBVIOUS
  <2>2. i \in 1..n /\ piece[j] = samples[i]
    BY <1>2, <2>1
  <2>3. /\ samples[i].row \in 1..Len(block) /\ samples[i].time = block[samples[i].row].time
        /\ Process(samples[i].row, id) # {} /\ samples[i].total \in Nat /\ samples[i].total <= Top
    BY <2>2 DEF Sampling
  <2>4. block[samples[i].row].time \in Nat
    BY <2>3 DEF TimeInv
  <2> QED
    BY <2>2, <2>3, <2>4
<1>4. ASSUME NEW j \in 1..l, NEW k \in 1..l, j <= k  PROVE piece[j].total <= piece[k].total
  <2>1. PICK g, h : g = s + j - 1 /\ h = s + k - 1
    OBVIOUS
  <2>2. g \in 1..n /\ h \in 1..n /\ g <= h /\ piece[j] = samples[g] /\ piece[k] = samples[h]
    BY <1>1, <1>2, <1>4, <2>1
  <2> QED
    BY <2>2 DEF Sampling
<1>5. ASSUME NEW j \in 1..l, NEW k \in 1..l, j < k  PROVE piece[j].time < piece[k].time
  <2>1. piece[j].row < piece[k].row
    <3>1. piece[1].row \in Int /\ piece[j].row = piece[1].row + (j - 1) /\ piece[k].row = piece[1].row + (k - 1)
      BY <1>1, <1>2
    <3> QED
      BY <1>5, <3>1
  <2>2. block[piece[j].row].time < block[piece[k].row].time
    BY <1>3, <2>1 DEF TimeInv
  <2> QED
    BY <1>3, <2>2
<1>6. Timed(piece, l)
  BY <1>1, <1>2, <1>3, <1>4, <1>5 DEF Timed
<1>7. ASSUME NEW j \in 2..l  PROVE Continues(id, piece[j].row)
  <2>1. PICK i : i = s + j - 1
    OBVIOUS
  <2>2. i \in 1..n /\ piece[j] = samples[i] /\ i \notin CutAt(samples, id, n)
    BY <1>1, <1>2, <2>1
  <2> QED
    BY <2>2 DEF CutAt
<1> QED
  BY <1>2, <1>3, <1>6, <1>7 DEF Segment

\* Its rows are a span.
LEMMA PieceSpan ==
  ASSUME IsSeq(block), NEW samples, NEW id, NEW n, Sampling(samples, id, n), NEW s, NEW l, NEW piece,
         Piece(piece, samples, id, n, s, l)
  PROVE  IsSpan(id, piece[1].row, piece[l].row) /\ Head(piece) = piece[1] /\ Last(piece) = piece[l]
         /\ piece[1] = samples[s]
<1>1. /\ s \in 1..n /\ l \in Nat \ {0} /\ s + l <= n + 1 /\ n \in Nat
      /\ s \in CutAt(samples, id, n) /\ (s + l <= n => s + l \in CutAt(samples, id, n))
  BY DEF Piece, Sampling
<1>2. /\ IsSeq(piece) /\ Len(piece) = l /\ \A j \in 1..l : s + j - 1 \in 1..n /\ piece[j] = samples[s + j - 1]
      /\ \A j \in 1..l : piece[j].row \in Int /\ piece[j].row = piece[1].row + (j - 1)
      /\ \A j \in 2..l : s + j - 1 \notin CutAt(samples, id, n)
  BY PieceFrom
<1>3. PICK e, f, g : e = s + l - 1 /\ f = piece[1].row /\ g = piece[l].row
  OBVIOUS
<1>4. 1 \in 1..l /\ l \in 1..l /\ s + 1 - 1 = s
  BY <1>1
<1>5. e \in 1..n /\ piece[1] = samples[s] /\ piece[l] = samples[e] /\ f \in Int /\ g = f + (l - 1)
  BY <1>2, <1>3, <1>4
<1>6. /\ \A i \in 1..n : samples[i].row \in 1..Len(block) /\ Process(samples[i].row, id) # {}
      /\ \A i, j \in 1..n : i < j => samples[i].row < samples[j].row
  BY DEF Sampling
<1>7. f \in 1..Len(block) /\ g \in 1..Len(block) /\ f <= g /\ Process(f, id) # {}
  <2>1. f = samples[s].row /\ g = samples[e].row
    BY <1>3, <1>5
  <2>2. f \in 1..Len(block) /\ g \in 1..Len(block) /\ Process(f, id) # {}
    BY <1>1, <1>5, <1>6, <2>1
  <2>3. f <= g
    BY <1>1, <1>5
  <2> QED
    BY <2>2, <2>3
<1>8. ASSUME NEW r \in (f + 1)..g  PROVE JoinsAt(id, r)
  <2>1. PICK j, i : j = r - f + 1 /\ i = s + j - 1
    OBVIOUS
  <2>2. j \in 2..l /\ j \in 1..l /\ r = f + (j - 1)
    BY <1>1, <1>5, <2>1
  <2>3. i \in 1..n /\ i \notin CutAt(samples, id, n) /\ samples[i].row = r
    BY <1>2, <1>3, <2>1, <2>2
  <2> QED
    BY <2>3, JoinsInside
<1>9. ~JoinsAt(id, f)
  BY <1>1, <1>3, <1>5, JoinsInside
<1>10. ASSUME JoinsAt(id, g + 1)  PROVE FALSE
  <2>1. PICK i \in 1..n : samples[i].row = g + 1 /\ i \notin CutAt(samples, id, n)
    BY <1>10, JoinsHeld
  <2>2. i # 1 /\ samples[i].row = samples[i - 1].row + 1
    BY <2>1 DEF CutAt
  <2>3. PICK o : o = i - 1
    OBVIOUS
  <2>4. o \in 1..n
    BY <1>1, <2>2, <2>3
  <2>5. samples[o].row \in Int /\ samples[e].row = g /\ g \in Int
    BY <1>3, <1>5, <1>6, <1>7, <2>4
  <2>6. samples[o].row = g
    BY <2>1, <2>2, <2>3, <2>5
  <2>7. o = e
    <3>1. ~(samples[o].row < samples[e].row) /\ ~(samples[e].row < samples[o].row)
      BY <2>5, <2>6
    <3>2. ~(o < e) /\ ~(e < o)
      BY <1>5, <1>6, <2>4, <3>1
    <3> QED
      BY <1>1, <1>5, <2>4, <3>2
  <2>8. i = s + l /\ s + l <= n
    BY <1>1, <1>3, <2>1, <2>3, <2>7
  <2> QED
    BY <1>1, <2>1, <2>8
<1>11. IsSpan(id, f, g)
  BY <1>7, <1>8, <1>9, <1>10 DEF IsSpan
<1>12. Head(piece) = piece[1] /\ Last(piece) = piece[l]
  BY <1>1, <1>2, HeadIs DEF Last
<1> QED
  BY <1>3, <1>5, <1>11, <1>12

\* The segments of a process are pieces of its samples, one for each cut.
Pieces(segments, parts, samples, id, n) ==
  /\ DOMAIN segments = DOMAIN parts
  /\ \A r \in DOMAIN parts : Piece(segments[r], samples, id, n, parts[r].start, parts[r].length)
  /\ \A i \in CutAt(samples, id, n) : \E r \in DOMAIN parts : parts[r].start = i

\* The encoder makes them where it cuts.
LEMMA SegmentsArePieces ==
  ASSUME IsSeq(block), NEW id, NEW samples, samples = Samples(id), NEW n, Sampling(samples, id, n)
  PROVE  \E parts : Pieces(Segments(id), parts, samples, id, n)
<1>1. n \in Nat /\ DOMAIN samples = 1..n /\ Len(samples) = n
  <2>1. n \in Nat /\ samples = [i \in 1..n |-> samples[i]]
    BY Zenon DEF Sampling
  <2> QED
    BY <2>1, ListIsSeq
<1>2. PICK cut, parts, segments : cut = CutAt(samples, id, n) /\ parts = Stretches(cut, n) /\ segments = Segments(id)
  OBVIOUS
<1>3. cut \subseteq 1..n /\ (n # 0 => 1 \in cut)
  BY <1>1, <1>2 DEF CutAt
<1>4. Cut(parts, cut, n)
  BY <1>1, <1>2, <1>3, StretchesAre
<1>5. PICK m, marks : m = Len(parts) /\ marks = Marks(parts, n)
  OBVIOUS
<1>6. m \in Nat /\ DOMAIN parts = 1..m
  BY <1>4, <1>5, SeqHas DEF Cut
<1>7. /\ \A r \in 1..m : /\ parts[r].start \in cut /\ parts[r].start \in 1..n /\ parts[r].length \in Nat \ {0}
                         /\ marks[r + 1] = parts[r].start + parts[r].length
                         /\ \A i \in 1..n : parts[r].start < i /\ i < parts[r].start + parts[r].length => i \notin cut
      /\ marks[1] = 1 /\ marks[m + 1] = n + 1
      /\ \A r \in 1..(m + 1) : marks[r] \in 1..(n + 1)
      /\ Increasing(marks, m + 1)
  BY <1>4, <1>5, Zenon DEF Cut
<1>8. \A r \in 1..m : marks[r] = parts[r].start
  <2>1. \A r \in 1..m : r \in 1..(m + 1) /\ r <= m
    BY <1>6
  <2> QED
    BY <1>5, <2>1 DEF Marks
<1>9. segments = [r \in 1..m |-> [j \in 1..parts[r].length |-> samples[parts[r].start + j - 1]]]
  <2>1. cut = {i \in DOMAIN samples : \/ i = 1
                                      \/ samples[i].row # samples[i - 1].row + 1
                                      \/ ~Continues(id, samples[i].row)}
    BY <1>1, <1>2, Zenon DEF CutAt
  <2>2. Stretches({i \in DOMAIN samples : \/ i = 1
                                          \/ samples[i].row # samples[i - 1].row + 1
                                          \/ ~Continues(id, samples[i].row)}, Len(samples)) = parts
    BY <1>1, <1>2, <2>1, Zenon
  <2>3. segments = [r \in DOMAIN parts |-> [j \in 1..parts[r].length |-> samples[parts[r].start + j - 1]]]
    BY <1>2, <2>2, Zenon DEF Segments
  <2> QED
    BY <1>6, <2>3
<1>10. ASSUME NEW r \in 1..m  PROVE Piece(segments[r], samples, id, n, parts[r].start, parts[r].length)
  <2>1. PICK s, l, piece : s = parts[r].start /\ l = parts[r].length /\ piece = segments[r]
    OBVIOUS
  <2>2. /\ s \in 1..n /\ l \in Nat \ {0} /\ s \in cut /\ marks[r + 1] = s + l
        /\ \A i \in 1..n : s < i /\ i < s + l => i \notin cut
    BY <1>7, <2>1
  <2>3. r + 1 \in 1..(m + 1)
    BY <1>6
  <2>4. s + l <= n + 1
    BY <1>1, <1>7, <2>2, <2>3
  <2>5. ASSUME s + l <= n  PROVE s + l \in cut
    <3>1. r + 1 # m + 1
      <4>1. marks[r + 1] # n + 1
        BY <1>1, <2>2, <2>5
      <4> QED
        BY <1>7, <4>1
    <3>2. r + 1 \in 1..m
      BY <1>6, <2>3, <3>1
    <3>3. parts[r + 1].start \in cut /\ parts[r + 1].start = marks[r + 1]
      BY <1>7, <1>8, <3>2
    <3> QED
      BY <2>2, <3>3
  <2>6. piece = [j \in 1..l |-> samples[s + j - 1]]
    BY <1>9, <2>1
  <2>7. Piece(piece, samples, id, n, s, l)
    BY <1>2, <2>2, <2>4, <2>5, <2>6, Zenon DEF Piece
  <2> QED
    BY <2>1, <2>7
<1>11. ASSUME NEW i \in cut  PROVE \E r \in 1..m : parts[r].start = i
  <2>1. i \in 1..n
    BY <1>3
  <2>2. PICK r : r = Part(marks, i)
    OBVIOUS
  <2>3. Within(marks, m + 1, i, r)
    <3>1. m + 1 \in Nat \ {0} /\ (\A x \in 1..(m + 1) : marks[x] \in Int) /\ i \in Int /\ marks[1] <= i
      BY <1>1, <1>6, <1>7, <2>1
    <3>2. marks = [x \in 1..(m + 1) |-> marks[x]]
      BY <1>5 DEF Marks
    <3> QED
      BY <1>7, <2>2, <3>1, <3>2, PartIs
  <2>4. r \in 1..m /\ marks[r] <= i /\ i < marks[r + 1]
    <3>1. r \in 1..(m + 1) /\ marks[r] <= i /\ (r = m + 1 \/ i < marks[r + 1])
      BY <2>3 DEF Within
    <3>2. r # m + 1
      BY <1>1, <1>7, <2>1, <3>1
    <3> QED
      BY <1>6, <3>1, <3>2
  <2>5. PICK s, e : s = parts[r].start /\ e = parts[r].start + parts[r].length
    OBVIOUS
  <2>6. s <= i /\ i < e /\ s \in 1..n /\ ~(s < i /\ i < e)
    BY <1>7, <1>8, <2>1, <2>4, <2>5
  <2>7. s = i
    BY <1>1, <2>1, <2>6
  <2> QED
    BY <2>4, <2>5, <2>7
<1>12. DOMAIN segments = 1..m
  BY <1>9
<1>13. Pieces(segments, parts, samples, id, n)
  BY <1>2, <1>6, <1>10, <1>11, <1>12, Zenon DEF Pieces
<1> QED
  BY <1>2, <1>13

\* What such a block says of the processor under a temporal profile comes back.
LEMMA TemporalBack ==
  ASSUME CountInv, TimeInv
  PROVE  TemporalTrue
<1>1. IsSeq(block)
  BY DEF CountInv
<1> SUFFICES ASSUME NEW id \in Identities
             PROVE  /\ {[first |-> Head(s).row, last |-> Last(s).row] : s \in ToSet(Segments(id))} = Spans(id)
                    /\ \A timebase \in Timebases, profile \in TemporalProfiles, segment \in ToSet(Segments(id)) :
                          SegmentTrue(id, segment, profile, Cap(profile, timebase))
  BY Zenon DEF TemporalTrue
<1>2. PICK samples, segments : samples = Samples(id) /\ segments = Segments(id)
  OBVIOUS
<1>3. PICK n : Sampling(samples, id, n)
  BY <1>2, SamplesAre
<1>4. PICK parts : Pieces(segments, parts, samples, id, n)
  BY <1>1, <1>2, <1>3, SegmentsArePieces
<1>5. /\ DOMAIN segments = DOMAIN parts
      /\ \A r \in DOMAIN parts : Piece(segments[r], samples, id, n, parts[r].start, parts[r].length)
      /\ \A i \in CutAt(samples, id, n) : \E r \in DOMAIN parts : parts[r].start = i
  BY <1>4 DEF Pieces
<1>6. ASSUME NEW piece \in ToSet(segments)
      PROVE  \E s, l : Piece(piece, samples, id, n, s, l)
  <2>1. PICK r \in DOMAIN segments : piece = segments[r]
    BY <1>6 DEF ToSet
  <2> QED
    BY <1>5, <2>1
<1>7. ASSUME NEW piece \in ToSet(segments)
      PROVE  IsSpan(id, Head(piece).row, Last(piece).row)
  <2>1. PICK s, l : Piece(piece, samples, id, n, s, l)
    BY <1>6
  <2>2. IsSpan(id, piece[1].row, piece[l].row) /\ Head(piece) = piece[1] /\ Last(piece) = piece[l]
    BY <1>1, <1>3, <2>1, PieceSpan
  <2> QED
    BY <2>2
<1>8. Spans(id) = {span \in [first : 1..Len(block), last : 1..Len(block)] : IsSpan(id, span.first, span.last)}
  BY <1>1, SpansAre
<1>9. ASSUME NEW piece \in ToSet(segments)
      PROVE  [first |-> Head(piece).row, last |-> Last(piece).row] \in Spans(id)
  <2>1. PICK f, l : f = Head(piece).row /\ l = Last(piece).row
    OBVIOUS
  <2>2. IsSpan(id, f, l)
    BY <1>7, <2>1
  <2>3. f \in 1..Len(block) /\ l \in 1..Len(block)
    BY <2>2 DEF IsSpan
  <2>4. PICK span : span = [first |-> f, last |-> l]
    OBVIOUS
  <2>5. span \in [first : 1..Len(block), last : 1..Len(block)] /\ span.first = f /\ span.last = l
    BY <2>3, <2>4
  <2>6. span \in Spans(id)
    BY <1>8, <2>2, <2>5
  <2> QED
    BY <2>1, <2>4, <2>6
<1>10. ASSUME NEW span \in Spans(id)
       PROVE  \E piece \in ToSet(segments) : span = [first |-> Head(piece).row, last |-> Last(piece).row]
  <2>1. PICK f, k : f = span.first /\ k = span.last
    OBVIOUS
  <2>2. span = [first |-> f, last |-> k] /\ IsSpan(id, f, k)
    BY <1>8, <2>1
  <2>3. f \in 1..Len(block) /\ Process(f, id) # {} /\ ~JoinsAt(id, f)
    BY <2>2 DEF IsSpan
  <2>4. PICK i \in 1..n : samples[i].row = f
    BY <1>3, <2>3 DEF Sampling
  <2>5. i \in CutAt(samples, id, n)
    BY <1>1, <1>3, <2>3, <2>4, JoinsInside
  <2>6. PICK r \in DOMAIN parts : parts[r].start = i
    BY <1>5, <2>5
  <2>7. PICK piece, l : piece = segments[r] /\ l = parts[r].length
    OBVIOUS
  <2>8. Piece(piece, samples, id, n, i, l) /\ piece \in ToSet(segments)
    BY <1>5, <2>6, <2>7 DEF ToSet
  <2>9. /\ IsSpan(id, piece[1].row, piece[l].row) /\ Head(piece) = piece[1] /\ Last(piece) = piece[l]
        /\ piece[1] = samples[i]
    BY <1>1, <1>3, <2>8, PieceSpan
  <2>10. IsSpan(id, f, piece[l].row)
    BY <2>4, <2>9
  <2>11. piece[l].row = k
    BY <1>1, <2>2, <2>10, SpanOnly
  <2>12. span = [first |-> Head(piece).row, last |-> Last(piece).row]
    BY <2>2, <2>4, <2>9, <2>11
  <2> QED
    BY <2>8, <2>12
<1>11. {[first |-> Head(s).row, last |-> Last(s).row] : s \in ToSet(Segments(id))} = Spans(id)
  <2>1. {[first |-> Head(s).row, last |-> Last(s).row] : s \in ToSet(segments)} = Spans(id)
    BY <1>9, <1>10
  <2> QED
    BY <1>2, <2>1
<1>12. ASSUME NEW timebase \in Timebases, NEW profile \in TemporalProfiles, NEW segment \in ToSet(Segments(id))
       PROVE  SegmentTrue(id, segment, profile, Cap(profile, timebase))
  <2>1. PICK s, l : Piece(segment, samples, id, n, s, l)
    BY <1>2, <1>6
  <2>2. Segment(segment, id, l)
    BY <1>1, <1>3, <2>1, PieceSegment
  <2>3. PICK cap : cap = Cap(profile, timebase)
    OBVIOUS
  <2>4. cap \in Nat \ {0} /\ cap <= MaxPower
    BY <2>3, CapIs
  <2>5. SegmentTrue(id, segment, profile, cap)
    BY <1>1, <2>2, <2>4, SegmentIsTrue
  <2> QED
    BY <2>3, <2>5
<1> QED
  BY <1>11, <1>12

\* Whatever the processes use, whichever rows lack or interrupt them and whatever the clock of the
\* machine: the decoder finds a track for every stretch it expects and takes it, the values it reads
\* are as close as it says, and no sample is left out that a deadline or a change of name asks for.
THEOREM AlwaysTemporalTrue == BlockSpec => []TemporalTrue
<1>1. CountInv /\ TimeInv => TemporalTrue
  BY TemporalBack
<1> QED
  BY <1>1, CountInvAlways, TimeInvAlways, PTL
=============================================================================
